------------------------------- MODULE FileTree -------------------------------
(***************************************************************************)
(* What a user of the file system is promised: a tree that each operation  *)
(* of the FileSystemRuntime interface (src/runtime/types.ts) changes in    *)
(* one step, and only as that operation says.                              *)
(***************************************************************************)

CONSTANTS
  Paths,        \* the absolute paths
  Root,
  ParentOf,     \* the directory a path is in; the root is its own parent
  Requests,     \* the operations a user may ask for
  Dir, None     \* what tree holds for a directory, and for nothing

VARIABLES
  tree,         \* what is at each path: Dir, None or the content of a file
  last          \* the request carried out last, with its ticket

vars == <<tree, last>>

\* Every path below p, p excluded.
Below(p) ==
  LET under[q \in Paths] == q # Root /\ (ParentOf[q] = p \/ under[ParentOf[q]])
  IN  {q \in Paths : under[q]}

\* The tree with value v at p and nothing below it.
With(p, v) ==
  [q \in Paths |-> IF q = p THEN v ELSE IF q \in Below(p) THEN None ELSE tree[q]]

IsFile(p) == tree[p] \notin {Dir, None}

Write(r) ==
  /\ r.op = "write" /\ r.path # Root
  /\ tree[ParentOf[r.path]] = Dir
  /\ tree' = With(r.path, r.content)

Mkdir(r) ==
  /\ r.op = "mkdir"
  /\ tree[r.path] = None /\ tree[ParentOf[r.path]] = Dir
  /\ tree' = With(r.path, Dir)

Remove(r) ==
  /\ r.op = "remove" /\ r.path # Root
  /\ tree[r.path] # None
  /\ r.recursive \/ \A q \in Below(r.path) : tree[q] = None
  /\ tree' = With(r.path, None)

Rename(r) ==
  /\ r.op = "rename" /\ r.to \notin {Root, r.path}
  /\ IsFile(r.path) /\ tree[ParentOf[r.to]] = Dir
  /\ tree' = [With(r.to, tree[r.path]) EXCEPT ![r.path] = None]

Perform(r) ==
  /\ Write(r) \/ Mkdir(r) \/ Remove(r) \/ Rename(r)
  /\ last'.req = r

Next == \E r \in Requests : Perform(r)

\* Any tree with a root may be found at the start.
Init == tree[Root] = Dir

Spec == Init /\ [][Next]_vars

=============================================================================
