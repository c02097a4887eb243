---------------------------- MODULE LiveFileSystem ----------------------------
(***************************************************************************)
(* The live file system client, LiveFileSystemRuntime.ts, over the         *)
(* Computer Service and the content provider.                              *)
(*                                                                         *)
(* Every operation is a series of awaited queries followed by one signed   *)
(* action, so between two steps of one operation the chain may apply an    *)
(* action of another: of a second tab, of a second promise in the same     *)
(* tab, or of an operation this client has given up waiting for.  A client *)
(* here is one such strand of execution.  The chain applies the actions it *)
(* holds one at a time, in any order; it may reject one or lose one.       *)
(*                                                                         *)
(* The path and the name of a path are functions given as constants, for   *)
(* the string arithmetic of the code.  The 4096 bytes of an encoded index  *)
(* are IndexCapacity names.                                                *)
(***************************************************************************)
EXTENDS ComputerService, Naturals, FiniteSets

CONSTANTS
  Clients,        \* strands of execution that use the file system
  Owner,          \* the wallet connected in all of them
  ParentOf,       \* parent directory of a path; the root is its own parent
  NameOf,         \* last component of a path
  NoName,         \* the last component of "/": the empty string
  Made,           \* directories that exist at the start, besides the root
  Requests,       \* the operations users may ask for
  IndexCapacity,  \* names that fit in a directory index
  MaxIssued,      \* bound on the number of operations begun
  MayGiveUp       \* whether a wait may end while its action is in flight

VARIABLES
  store,          \* contents the provider holds
  clients,        \* where each strand is in its operation, and what it read
  inbox,          \* signed actions the chain has not dealt with
  issued,         \* operations begun so far
  last            \* the action applied last, for the properties

service == vars
fsVars == <<service, store, clients, inbox, issued, last>>

ASSUME TreeAssumption ==
  /\ Owner \in Accounts
  /\ ParentOf \in [Paths -> Paths] /\ ParentOf[Root] = Root
  /\ NameOf \in [Paths -> Names] /\ NameOf[Root] = NoName
  /\ Made \subseteq Paths \ {Root, NoPath}
  /\ \A d \in Made : ParentOf[d] \in Made \cup {Root}
  /\ IndexCapacity \in Nat /\ MaxIssued \in Nat /\ MayGiveUp \in BOOLEAN

\* A path is its directory and its name, and a name is not empty.
ASSUME PathsAssumption ==
  /\ NameOf[NoPath] = NoName
  /\ \A p \in Paths \ {Root, NoPath} : NameOf[p] # NoName /\ ParentOf[p] # p
  /\ \A p, q \in Paths \ {Root, NoPath} :
       ParentOf[p] = ParentOf[q] /\ NameOf[p] = NameOf[q] => p = q

\* Going up from any path ends at the root, and no content is taken for a
\* directory or for nothing.
ASSUME DescentAssumption ==
  \A S \in SUBSET Paths : S # {} => \E p \in S : p = Root \/ ParentOf[p] \notin S
ASSUME ContentsAssumption == None # "directory" /\ {"directory", None} \cap Contents = {}

Request == [op: {"write", "mkdir", "remove", "rename"}, path: Paths, to: Paths,
            content: Contents, recursive: BOOLEAN]

ASSUME RequestsAssumption == Requests \subseteq Request

Item == [by: Clients, ticket: Nat, req: Requests,
         entries: SUBSET Names, fromEntries: SUBSET Names]

Stages == {"idle", "target", "listing", "statting", "parent", "content",
           "fromIndex", "index", "waiting"}

Client == [pc: Stages,
           req: Requests \cup {None}, ticket: Nat,
           fromEntries: SUBSET Names, todo: SUBSET Paths, found: SUBSET Paths]

\* A strand that has read nothing yet.
Fresh(pc, r, t) == [pc |-> pc, req |-> r, ticket |-> t,
                    fromEntries |-> {}, todo |-> {}, found |-> {}]
Idle == Fresh("idle", None, 0)

FsTypeOK ==
  /\ TypeOK
  /\ store \subseteq Contents
  /\ clients \in [Clients -> Client]
  /\ \A c \in Clients : clients[c].pc # "idle" => clients[c].req \in Requests
  /\ inbox \subseteq Item
  /\ issued \in 0..MaxIssued
  /\ last \in Item \cup {None}

\* A Computer its owner initialized and made some directories in.
FsInit ==
  /\ profiles \in [owner: {Owner}, about: Abouts]
  /\ appearances = DefaultLook
  /\ manifests = [site |-> NoSite, published |-> FALSE]
  /\ desktopIndexes = [entries |-> {}]
  /\ desktopIcons = [i \in Icons |-> None]
  /\ nodes = [p \in Paths |->
       IF p = Root THEN Directory(Root, NoPath)
       ELSE IF p \in Made THEN Directory(p, ParentOf[p]) ELSE None]
  /\ directoryIndexes = [p \in Paths |->
       IF p \in Made \cup {Root}
         THEN [entries |-> {NameOf[d] : d \in {m \in Made : ParentOf[m] = p}}]
         ELSE None]
  /\ sender = Owner
  /\ store = {}
  /\ clients = [c \in Clients |-> Idle]
  /\ inbox = {}
  /\ issued = 0
  /\ last = None

-----------------------------------------------------------------------------
(* What a query returns. *)

\* getDirectoryIndex, decoded: an absent index reads as an empty one.
Listed(dir) ==
  IF directoryIndexes[dir] = None THEN {} ELSE directoryIndexes[dir].entries

\* encodeIndex drops the empty name; a set is sorted and free of duplicates.
Encoded(names) == names \ {NoName}
Fits(names) == Cardinality(names) <= IndexCapacity

\* The paths list(dir) asks about, having read the index.
Entries(dir) ==
  {p \in Paths \ {Root, NoPath} : ParentOf[p] = dir /\ NameOf[p] \in Listed(dir)}

-----------------------------------------------------------------------------
(* Steps of one operation. *)

Goto(c, pc) == clients' = [clients EXCEPT ![c].pc = pc]
\* Mutant: the operation is forgotten and the strand is not freed.
StopHalfway(c) == clients' = [clients EXCEPT ![c].req = None]
Stop(c) == clients' = [clients EXCEPT ![c] = Idle]

Begin(c, r) ==
  /\ clients[c].pc = "idle"
  /\ issued < MaxIssued
  /\ issued' = issued + 1
  /\ clients' = [clients EXCEPT ![c] =
       Fresh(IF r.op \in {"write", "mkdir"} THEN "parent" ELSE "target", r, issued + 1)]
  /\ UNCHANGED <<service, store, inbox, last>>

\* stat of the directory the new name goes to: write and mkdir insist that it
\* is a directory, rename only that it is there.
ParentSeen(r) ==
  IF r.op = "rename" THEN Live(ParentOf[r.to]) ELSE
    Live(ParentOf[r.path]) /\ nodes[ParentOf[r.path]].kind = "directory"

\* Mutant: write announces content it has not stored.
AfterParentNoUpload(r) ==
  CASE r.op = "write" -> "index" [] r.op = "mkdir" -> "target"
    [] OTHER -> "fromIndex"

AfterParent(r) ==
  CASE r.op = "write" -> "content" [] r.op = "mkdir" -> "target"
    [] OTHER -> "fromIndex"

ReadParent(c) ==
  LET r == clients[c].req IN
  /\ clients[c].pc = "parent"
  /\ \/ ParentSeen(r) /\ Goto(c, AfterParent(r))
     \/ ~ParentSeen(r) /\ Stop(c)
  /\ UNCHANGED <<service, store, inbox, issued, last>>

\* The query about the path itself.  mkdir wants no live node there; remove
\* and rename want a node, and take a removed one for present.
TargetSeen(r) ==
  CASE r.op = "mkdir"  -> ~Live(r.path)
    [] r.op = "remove" -> nodes[r.path] # None
    [] r.op = "rename" -> nodes[r.path] # None /\ nodes[r.path].kind # "directory"

AfterTarget(r) ==
  CASE r.op = "rename" -> "parent"
    [] r.op = "remove" /\ nodes[r.path].kind = "directory" /\ ~r.recursive -> "listing"
    [] OTHER -> "index"

ReadTarget(c) ==
  LET r == clients[c].req IN
  /\ clients[c].pc = "target"
  /\ \/ TargetSeen(r) /\ Goto(c, AfterTarget(r))
     \/ ~TargetSeen(r) /\ Stop(c)
  /\ UNCHANGED <<service, store, inbox, issued, last>>

\* remove of a directory lists it first: the index, then a stat of each
\* entry, each at its own time.
ReadListing(c) ==
  /\ clients[c].pc = "listing"
  /\ clients' = [clients EXCEPT ![c].pc = "statting",
                                ![c].todo = Entries(clients[c].req.path)]
  /\ UNCHANGED <<service, store, inbox, issued, last>>

StatEntry(c, p) ==
  /\ clients[c].pc = "statting"
  /\ p \in clients[c].todo
  /\ clients' = [clients EXCEPT
       ![c].todo = @ \ {p},
       ![c].found = IF Live(p) THEN @ \cup {p} ELSE @]
  /\ UNCHANGED <<service, store, inbox, issued, last>>

EndListing(c) ==
  /\ clients[c].pc = "statting"
  /\ clients[c].todo = {}
  /\ IF clients[c].found = {} THEN Goto(c, "index") ELSE Stop(c)
  /\ UNCHANGED <<service, store, inbox, issued, last>>

\* write stores the bytes before any metadata mentions them.
PutContent(c) ==
  /\ clients[c].pc = "content"
  /\ store' = store \cup {clients[c].req.content}
  /\ Goto(c, "index")
  /\ UNCHANGED <<service, inbox, issued, last>>

ReadFromIndex(c) ==
  LET r == clients[c].req IN
  /\ clients[c].pc = "fromIndex"
  /\ clients' = [clients EXCEPT
       ![c].pc = "index",
       ![c].fromEntries = Listed(ParentOf[r.path]) \ {NameOf[r.path]}]
  /\ UNCHANGED <<service, store, inbox, issued, last>>

\* Mutant: a new directory is not added to its parent's index.
NewEntriesNoMkdir(r) ==
  CASE r.op = "write" -> Listed(ParentOf[r.path]) \cup {NameOf[r.path]}
    [] r.op = "mkdir" -> Listed(ParentOf[r.path])
    [] r.op = "remove" -> Listed(ParentOf[r.path]) \ {NameOf[r.path]}
    [] r.op = "rename" -> (Listed(ParentOf[r.to]) \ {NameOf[r.path]}) \cup {NameOf[r.to]}

\* The index the operation wants its directory to have, from the one it read.
\* rename also takes the old name out of the directory it moves to.
NewEntries(r) ==
  CASE r.op \in {"write", "mkdir"} -> Listed(ParentOf[r.path]) \cup {NameOf[r.path]}
    [] r.op = "remove" -> Listed(ParentOf[r.path]) \ {NameOf[r.path]}
    [] r.op = "rename" -> (Listed(ParentOf[r.to]) \ {NameOf[r.path]}) \cup {NameOf[r.to]}

\* The last query and the signed action made from its answer.  Nobody sees
\* the action before it is in the inbox, so the two are one step.
Submit(c) ==
  LET r == clients[c].req
      entries == Encoded(NewEntries(r))
      fromEntries == Encoded(clients[c].fromEntries)
  IN
  /\ clients[c].pc = "index"
  /\ \/ /\ Fits(entries) /\ Fits(fromEntries)
        /\ inbox' = inbox \cup
             {[by |-> c, ticket |-> clients[c].ticket, req |-> r,
               entries |-> entries, fromEntries |-> fromEntries]}
        /\ Goto(c, "waiting")
     \/ /\ ~(Fits(entries) /\ Fits(fromEntries))
        /\ Stop(c)
        /\ UNCHANGED inbox
  /\ UNCHANGED <<service, store, issued, last>>

\* A query, the upload or the signature fails: the operation throws.
StepFails(c) ==
  /\ clients[c].pc \notin {"idle", "waiting"}
  /\ Stop(c)
  /\ UNCHANGED <<service, store, inbox, issued, last>>

\* waitForAction fails while the action is still on its way.
GiveUp(c) ==
  /\ MayGiveUp
  /\ clients[c].pc = "waiting"
  /\ Stop(c)
  /\ UNCHANGED <<service, store, inbox, issued, last>>

-----------------------------------------------------------------------------
(* The chain. *)

\* Mutant: the receipt wakes nobody.
SettleSilently(item) ==
  /\ inbox' = inbox \ {item}
  /\ UNCHANGED <<clients, store, issued>>

\* The operation that still waits for item is told how it ended.
Settle(item) ==
  /\ inbox' = inbox \ {item}
  /\ clients' = [clients EXCEPT ![item.by] =
       IF @.pc = "waiting" /\ @.ticket = item.ticket THEN Idle ELSE @]
  /\ UNCHANGED <<store, issued>>

Allowed(r) ==
  CASE r.op \in {"write", "mkdir"} -> MayCreate(Owner, RootKey, r.path, ParentOf[r.path])
    [] r.op = "remove" -> MayRemove(Owner, RootKey, r.path)
    [] r.op = "rename" ->
         MayRename(Owner, RootKey, r.path, ParentOf[r.path], ParentOf[r.to])

Apply(item) ==
  LET r == item.req IN
  /\ \/ /\ r.op = "write"
        /\ WriteFile(Owner, RootKey, r.path, ParentOf[r.path], r.content, item.entries)
     \/ /\ r.op = "mkdir"
        /\ Mkdir(Owner, RootKey, r.path, ParentOf[r.path], item.entries)
     \/ /\ r.op = "remove"
        /\ RemoveNode(Owner, RootKey, r.path, item.entries)
     \/ /\ r.op = "rename"
        /\ RenameFile(Owner, RootKey, r.path, r.to, ParentOf[r.path], ParentOf[r.to],
                      item.fromEntries, item.entries)
  /\ last' = item
  /\ Settle(item)

Reject(item) ==
  /\ ~Allowed(item.req)
  /\ Settle(item)
  /\ UNCHANGED <<service, last>>

Lose(item) ==
  /\ Settle(item)
  /\ UNCHANGED <<service, last>>

ClientStep(c) ==
  \/ ReadParent(c) \/ ReadTarget(c) \/ ReadListing(c) \/ EndListing(c)
  \/ \E p \in Paths : StatEntry(c, p)
  \/ PutContent(c) \/ ReadFromIndex(c) \/ Submit(c)

ChainStep(item) == Apply(item) \/ Reject(item)

FsNext ==
  \/ \E c \in Clients :
       \/ \E r \in Requests : Begin(c, r)
       \/ ClientStep(c)
       \/ StepFails(c)
       \/ GiveUp(c)
  \/ \E item \in inbox : ChainStep(item) \/ Lose(item)

FsSpec == FsInit /\ [][FsNext]_fsVars

\* A strand runs on while its queries are answered, and the chain deals with
\* every action it was given.
FairFsSpec ==
  /\ FsSpec
  /\ \A c \in Clients : WF_fsVars(ClientStep(c))
  /\ \A c \in Clients, t \in 1..MaxIssued :
       WF_fsVars(\E item \in inbox :
                   item.by = c /\ item.ticket = t /\ ChainStep(item))

-----------------------------------------------------------------------------
(* Use that keeps operations apart: the indexes have no other protection.  *)

\* The paths an operation is about, with the directories they are in.
Touched(r) == {r.path, ParentOf[r.path]} \cup
              (IF r.op = "rename" THEN {r.to, ParentOf[r.to]} ELSE {})

Clear(r, s) == Touched(r) \cap Touched(s) = {}

\* The strand waits for this action: the two are one operation.
Awaits(c, item) ==
  item.by = c /\ clients[c].pc = "waiting" /\ clients[c].ticket = item.ticket

\* No two operations in progress touch the same directory, the ones whose
\* strand gave up and whose action is still on its way included.
Apart ==
  LET Busy == {c \in Clients : clients[c].pc # "idle"} IN
  /\ \A c, d \in Busy : c # d => Clear(clients[c].req, clients[d].req)
  /\ \A i, j \in inbox : i # j => Clear(i.req, j.req)
  /\ \A c \in Busy, item \in inbox :
       Awaits(c, item) \/ Clear(clients[c].req, item.req)

ApartSpec == FsInit /\ [][FsNext /\ Apart']_fsVars

-----------------------------------------------------------------------------
(* Properties *)

\* A file never names bytes the provider was not given: not the live files,
\* not the tombstones a rename leaves, and not the writes on their way.
ContentStored ==
  /\ \A p \in Paths : nodes[p] # None /\ nodes[p].kind = "file"
       => nodes[p].content \in store
  /\ \A item \in inbox : item.req.op = "write" => item.req.content \in store

\* "Directory entries are newline-delimited canonical child names"
\* (service.ts:262): a live node in a live directory is an entry of it.
IndexesListChildren ==
  \A p \in Paths \ {Root} :
    Live(p) /\ LiveDirectory(ParentOf[p]) => NameOf[p] \in Listed(ParentOf[p])

\* An index names no path that was never written, although it is built from
\* an older index and stored much later: what list() asks about, it finds a
\* record for, live or removed.
EntriesAreRecorded ==
  \A p \in Paths \ {Root, NoPath} :
    NameOf[p] \in Listed(ParentOf[p]) => nodes[p] # None

\* "Each operation commits the node mutation and its parent directory index
\* in one service transition, so a failed work item cannot leave a
\* half-updated filesystem view" (service.ts:273): the step that applies an
\* action makes its own node and the entries for it agree, however stale the
\* index was that the client built it from.
Present(p) == Live(p) /\ NameOf[p] \in Listed(ParentOf[p])
Absent(p) == ~Live(p) /\ NameOf[p] \notin Listed(ParentOf[p])
Committed(r) ==
  CASE r.op = "write"  -> Present(r.path) /\ nodes[r.path].content = r.content
    [] r.op = "mkdir"  -> Present(r.path) /\ Listed(r.path) = {}
    [] r.op = "remove" -> Absent(r.path)
    [] r.op = "rename" -> Present(r.to) /\ (r.to # r.path => Absent(r.path))
AppliedWhole == [][last' # last => Committed(last.req)']_fsVars

\* What a user finds by walking from the root, listing each directory.
Shown ==
  LET shown[p \in Paths] ==
        IF p = Root THEN Live(p) ELSE
          /\ Live(p) /\ LiveDirectory(ParentOf[p])
          /\ NameOf[p] \in Listed(ParentOf[p])
          /\ shown[ParentOf[p]]
  IN  [p \in Paths |-> IF p = NoPath \/ ~shown[p] THEN None
                       ELSE IF nodes[p].kind = "directory" THEN "directory"
                       ELSE nodes[p].content]

\* The file system a user walks changes as the promised tree does: each
\* operation takes effect at once, as a whole, or not at all.
Tree == INSTANCE FileTree WITH tree <- Shown, Dir <- "directory"
ImplementsFileTree == Tree!Spec

\* Whatever is done to the same files meanwhile, an operation ends.
OperationsEnd == \A c \in Clients : clients[c].pc # "idle" ~> clients[c].pc = "idle"

=============================================================================
