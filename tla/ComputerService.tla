--------------------------- MODULE ComputerService ---------------------------
(***************************************************************************)
(* The on-chain Computer Service, services/computer/src/service.ts.        *)
(*                                                                         *)
(* The chain applies wallet-signed actions one at a time, so a handler is  *)
(* one atomic step.  An aborted handler leaves no trace: abort(n) is the   *)
(* negation of a guard here.  Only RootKey ever reaches a record of the    *)
(* maps keyed by RootKey, so each of them is one record, None until        *)
(* initialize; every other map is a function that holds None for a key     *)
(* with no record.                                                         *)
(*                                                                         *)
(* Abstracted: updatedAt and publishedAt are written and never read by the *)
(* service; displayName, bio and avatar are one value of Abouts; wallpaper *)
(* and theme one of Looks; an icon's label, target, art and position one   *)
(* of Faces; mime, size and contentRoot of a node one of Contents.  An     *)
(* encoded directory index is the set of names it lists.                   *)
(***************************************************************************)

CONSTANTS
  Accounts,    \* wallets that may sign an action
  Keys,        \* one-byte record keys an input may carry
  RootKey,     \* the key with the single byte 0
  Paths,       \* bytes(256); every member but NoPath starts with '/'
  Root,        \* "/"
  NoPath,      \* the empty byte string
  Names,       \* entries of a directory index
  Kinds,       \* bytes(16); the guards know "file" and "directory" by length
  Contents,    \* mime, size and content root of a node
  NoContent,   \* the zero root, size 0, of a directory
  Icons,       \* ids of desktop icons
  Faces,       \* what an icon shows, and where
  OffScreen,   \* the faces with a coordinate above 10000
  Abouts,      \* display name, bio and avatar
  Looks,       \* wallpaper, theme and accent
  DefaultLook, \* the empty appearance initialize writes
  Sites,       \* index path and encoded entries of a site manifest
  NoSite,      \* the empty manifest initialize writes
  None         \* no record under this key

VARIABLES
  profiles, appearances, manifests, desktopIndexes,  \* keyed by RootKey
  desktopIcons, nodes, directoryIndexes,             \* keyed by id or path
  sender        \* who signed the action applied last: ctx.sender

records == <<profiles, appearances, manifests, desktopIndexes,
             desktopIcons, nodes, directoryIndexes>>
vars == <<profiles, appearances, manifests, desktopIndexes,
          desktopIcons, nodes, directoryIndexes, sender>>

Profile == [owner: Accounts, about: Abouts]
SiteManifest == [site: Sites, published: BOOLEAN]
DesktopIcon == [face: Faces, visible: BOOLEAN, removed: BOOLEAN]
Index(members) == [entries: SUBSET members]
NodeMetadata == [path: Paths, kind: Kinds, parent: Paths,
                 content: Contents, removed: BOOLEAN]

ASSUME ConstantsAssumption ==
  /\ RootKey \in Keys
  /\ Root \in Paths /\ NoPath \in Paths /\ Root # NoPath
  /\ {"file", "directory"} \subseteq Kinds
  /\ NoContent \in Contents
  /\ OffScreen \subseteq Faces
  /\ DefaultLook \in Looks /\ NoSite \in Sites

\* None differs from every record the maps hold.
ASSUME NoneAssumption ==
  /\ None \notin Profile \cup SiteManifest \cup DesktopIcon \cup NodeMetadata
  /\ None \notin Index(Icons) \cup Index(Names)
  /\ None \notin Accounts \cup Looks

(* The types of the records: what each map may hold. *)
TypeOK ==
  /\ profiles \in Profile \cup {None}
  /\ appearances \in Looks \cup {None}
  /\ manifests \in SiteManifest \cup {None}
  /\ desktopIndexes \in Index(Icons) \cup {None}
  /\ desktopIcons \in [Icons -> DesktopIcon \cup {None}]
  /\ nodes \in [Paths -> NodeMetadata \cup {None}]
  /\ directoryIndexes \in [Paths -> Index(Names) \cup {None}]
  /\ sender \in Accounts \cup {None}

Init ==
  /\ profiles = None
  /\ appearances = None
  /\ manifests = None
  /\ desktopIndexes = None
  /\ desktopIcons = [i \in Icons |-> None]
  /\ nodes = [p \in Paths |-> None]
  /\ directoryIndexes = [p \in Paths |-> None]
  /\ sender = None

-----------------------------------------------------------------------------
(* Who may act, and what a record says. *)

\* Mutant: any wallet passes once there is a profile.
IsAnyone(a, key) == key = RootKey /\ profiles # None

IsOwner(a, key) ==
  /\ key = RootKey
  /\ profiles # None
  /\ profiles.owner = a

\* Every action but initialize: the wallet that signed must be the owner.
RequireSender(a, key) ==
  /\ IsOwner(a, key)
  /\ sender' = a

Live(p) == nodes[p] # None /\ ~nodes[p].removed
LiveDirectory(p) == Live(p) /\ nodes[p].kind = "directory"
LiveFile(p) == Live(p) /\ nodes[p].kind = "file"

Node(path, kind, parent, content) ==
  [path |-> path, kind |-> kind, parent |-> parent,
   content |-> content, removed |-> FALSE]
Directory(path, parent) == Node(path, "directory", parent, NoContent)
Tombstone(node) == [node EXCEPT !.removed = TRUE]

-----------------------------------------------------------------------------
(* Profile and desktop. *)

\* Mutant: the root directory gets a node and no index.
InitializeHalfSeeded(a, key, about) ==
  /\ key = RootKey
  /\ profiles = None
  /\ profiles' = [owner |-> a, about |-> about]
  /\ appearances' = DefaultLook
  /\ manifests' = [site |-> NoSite, published |-> FALSE]
  /\ desktopIndexes' = [entries |-> {}]
  /\ nodes' = [nodes EXCEPT ![Root] = Directory(Root, NoPath)]
  /\ sender' = a
  /\ UNCHANGED <<desktopIcons, directoryIndexes>>

\* Mutant: the owner recorded is whoever signed the action before this one.
InitializeForLastSender(a, key, about) ==
  /\ key = RootKey
  /\ profiles = None
  /\ profiles' = [owner |-> sender, about |-> about]
  /\ appearances' = DefaultLook
  /\ manifests' = [site |-> NoSite, published |-> FALSE]
  /\ desktopIndexes' = [entries |-> {}]
  /\ nodes' = [nodes EXCEPT ![Root] = Directory(Root, NoPath)]
  /\ directoryIndexes' = [directoryIndexes EXCEPT ![Root] = [entries |-> {}]]
  /\ sender' = a
  /\ UNCHANGED desktopIcons

Initialize(a, key, about) ==
  /\ key = RootKey
  /\ profiles = None
  /\ profiles' = [owner |-> a, about |-> about]
  /\ appearances' = DefaultLook
  /\ manifests' = [site |-> NoSite, published |-> FALSE]
  /\ desktopIndexes' = [entries |-> {}]
  /\ nodes' = [nodes EXCEPT ![Root] = Directory(Root, NoPath)]
  /\ directoryIndexes' = [directoryIndexes EXCEPT ![Root] = [entries |-> {}]]
  /\ sender' = a
  /\ UNCHANGED desktopIcons

SetProfile(a, key, about) ==
  /\ RequireSender(a, key)
  /\ profiles' = [owner |-> profiles.owner, about |-> about]
  /\ UNCHANGED <<appearances, manifests, desktopIndexes, desktopIcons, nodes,
                 directoryIndexes>>

SetAppearance(a, key, look) ==
  /\ RequireSender(a, key)
  /\ appearances' = look
  /\ UNCHANGED <<profiles, manifests, desktopIndexes, desktopIcons, nodes,
                 directoryIndexes>>

UpsertDesktopIcon(a, key, i, face, visible) ==
  /\ RequireSender(a, key)
  /\ face \notin OffScreen
  /\ desktopIcons' = [desktopIcons EXCEPT
       ![i] = [face |-> face, visible |-> visible, removed |-> FALSE]]
  /\ UNCHANGED <<profiles, appearances, manifests, desktopIndexes, nodes,
                 directoryIndexes>>

RemoveDesktopIcon(a, key, i) ==
  /\ RequireSender(a, key)
  /\ desktopIcons[i] # None
  /\ desktopIcons' = [desktopIcons EXCEPT
       ![i] = [face |-> desktopIcons[i].face, visible |-> FALSE, removed |-> TRUE]]
  /\ UNCHANGED <<profiles, appearances, manifests, desktopIndexes, nodes,
                 directoryIndexes>>

SetDesktopIndex(a, key, icons) ==
  /\ RequireSender(a, key)
  /\ desktopIndexes' = [entries |-> icons]
  /\ UNCHANGED <<profiles, appearances, manifests, desktopIcons, nodes,
                 directoryIndexes>>

PublishSite(a, key, site) ==
  /\ RequireSender(a, key)
  /\ manifests' = [site |-> site, published |-> TRUE]
  /\ UNCHANGED <<profiles, appearances, desktopIndexes, desktopIcons, nodes,
                 directoryIndexes>>

-----------------------------------------------------------------------------
(* Raw metadata: one record at a time, with no check of the tree. *)

desktop == <<profiles, appearances, manifests, desktopIndexes, desktopIcons>>

SetNodeMetadata(a, key, path, kind, parent, content) ==
  /\ RequireSender(a, key)
  /\ nodes' = [nodes EXCEPT ![path] = Node(path, kind, parent, content)]
  /\ UNCHANGED <<desktop, directoryIndexes>>

\* Mutant: the record is deleted instead of marked.
RemoveNodeErases(a, key, path) ==
  /\ RequireSender(a, key)
  /\ nodes[path] # None
  /\ nodes' = [nodes EXCEPT ![path] = None]
  /\ UNCHANGED <<desktop, directoryIndexes>>

RemoveNodeMetadata(a, key, path) ==
  /\ RequireSender(a, key)
  /\ nodes[path] # None
  /\ nodes' = [nodes EXCEPT ![path] = Tombstone(nodes[path])]
  /\ UNCHANGED <<desktop, directoryIndexes>>

SetDirectoryIndex(a, key, path, entries) ==
  /\ RequireSender(a, key)
  /\ directoryIndexes' = [directoryIndexes EXCEPT ![path] = [entries |-> entries]]
  /\ UNCHANGED <<desktop, nodes>>

-----------------------------------------------------------------------------
(* Semantic file system actions: the node and its parent's index in one    *)
(* step.  The caller supplies the parent and the index to store.  What a   *)
(* handler checks before its first write is an operator of its own: the    *)
(* chain rejects an action for which it is false.                          *)

\* Mutant of the checks writeFile and mkdir share: a parent that was removed, or is a file, will do.
MayCreateAnywhere(a, key, path, parent) ==
  /\ IsOwner(a, key)
  /\ path \notin {NoPath, Root}
  /\ nodes[parent] # None

\* The checks writeFile and mkdir share.
MayCreate(a, key, path, parent) ==
  /\ IsOwner(a, key)
  /\ path \notin {NoPath, Root}
  /\ LiveDirectory(parent)

\* Mutant: the node alone, as the raw metadata action would write it.
WriteFileUnlisted(a, key, path, parent, content, parentEntries) ==
  /\ MayCreate(a, key, path, parent)
  /\ nodes' = [nodes EXCEPT ![path] = Node(path, "file", parent, content)]
  /\ sender' = a
  /\ UNCHANGED <<desktop, directoryIndexes>>

WriteFile(a, key, path, parent, content, parentEntries) ==
  /\ MayCreate(a, key, path, parent)
  /\ nodes' = [nodes EXCEPT ![path] = Node(path, "file", parent, content)]
  /\ directoryIndexes' =
       [directoryIndexes EXCEPT ![parent] = [entries |-> parentEntries]]
  /\ sender' = a
  /\ UNCHANGED desktop

\* Mutant: the new directory gets no index of its own.
MkdirUnindexed(a, key, path, parent, parentEntries) ==
  /\ MayCreate(a, key, path, parent)
  /\ nodes' = [nodes EXCEPT ![path] = Directory(path, parent)]
  /\ directoryIndexes' =
       [directoryIndexes EXCEPT ![parent] = [entries |-> parentEntries]]
  /\ sender' = a
  /\ UNCHANGED desktop

Mkdir(a, key, path, parent, parentEntries) ==
  /\ MayCreate(a, key, path, parent)
  /\ nodes' = [nodes EXCEPT ![path] = Directory(path, parent)]
  /\ directoryIndexes' = [directoryIndexes EXCEPT
       ![path] = [entries |-> {}], ![parent] = [entries |-> parentEntries]]
  /\ sender' = a
  /\ UNCHANGED desktop

MayRemove(a, key, path) ==
  /\ IsOwner(a, key)
  /\ Live(path)
  /\ nodes[path].path # Root

RemoveNode(a, key, path, parentEntries) ==
  /\ MayRemove(a, key, path)
  /\ nodes' = [nodes EXCEPT ![path] = Tombstone(nodes[path])]
  /\ directoryIndexes' = [directoryIndexes EXCEPT
       ![nodes[path].parent] = [entries |-> parentEntries]]
  /\ sender' = a
  /\ UNCHANGED desktop

MayRename(a, key, from, fromParent, toParent) ==
  /\ IsOwner(a, key)
  /\ LiveFile(from)
  /\ nodes[from].parent = fromParent
  /\ LiveDirectory(toParent)

\* Mutant: the moved node still says its old path.
RenameKeepsPath(a, key, from, to, fromParent, toParent, fromEntries, toEntries) ==
  /\ MayRename(a, key, from, fromParent, toParent)
  /\ nodes' = [nodes EXCEPT ![to] = [nodes[from] EXCEPT !.parent = toParent],
                            ![from] = Tombstone(nodes[from])]
  /\ directoryIndexes' = [directoryIndexes EXCEPT
       ![fromParent] = [entries |-> fromEntries],
       ![toParent] = [entries |-> toEntries]]
  /\ sender' = a
  /\ UNCHANGED desktop

\* Mutant: the source is removed and nothing is stored at the target.
RenameLoses(a, key, from, to, fromParent, toParent, fromEntries, toEntries) ==
  /\ MayRename(a, key, from, fromParent, toParent)
  /\ nodes' = [nodes EXCEPT ![from] = Tombstone(nodes[from])]
  /\ directoryIndexes' = [directoryIndexes EXCEPT
       ![fromParent] = [entries |-> fromEntries],
       ![toParent] = [entries |-> toEntries]]
  /\ sender' = a
  /\ UNCHANGED desktop

\* The source's tombstone is stored after the target: when from = to the
\* tombstone is what stays.
RenameFile(a, key, from, to, fromParent, toParent, fromEntries, toEntries) ==
  /\ MayRename(a, key, from, fromParent, toParent)
  /\ nodes' = [nodes EXCEPT
       ![to] = Node(to, nodes[from].kind, toParent, nodes[from].content),
       ![from] = Tombstone(nodes[from])]
  /\ directoryIndexes' = [directoryIndexes EXCEPT
       ![fromParent] = [entries |-> fromEntries],
       ![toParent] = [entries |-> toEntries]]
  /\ sender' = a
  /\ UNCHANGED desktop

-----------------------------------------------------------------------------
(* The actions the live client sends, and all the actions there are. *)

\* One action signed by a: what App, Settings and the desktop may ask for.
DesktopAction(a, key) ==
  \/ \E about \in Abouts : SetProfile(a, key, about)
  \/ \E look \in Looks : SetAppearance(a, key, look)
  \/ \E i \in Icons, face \in Faces, visible \in BOOLEAN :
       UpsertDesktopIcon(a, key, i, face, visible)
  \/ \E i \in Icons : RemoveDesktopIcon(a, key, i)
  \/ \E icons \in SUBSET Icons : SetDesktopIndex(a, key, icons)
  \/ \E site \in Sites : PublishSite(a, key, site)

MetadataAction(a, key) ==
  \/ \E p, parent \in Paths, kind \in Kinds, c \in Contents :
       SetNodeMetadata(a, key, p, kind, parent, c)
  \/ \E p \in Paths : RemoveNodeMetadata(a, key, p)
  \/ \E p \in Paths, entries \in SUBSET Names : SetDirectoryIndex(a, key, p, entries)

\* One bound per variable of renameFile's two indexes: TLC takes no step of
\* \E x, y \in S when S is the powerset of the empty set.
FileAction(a, key) ==
  \/ \E p, parent \in Paths, c \in Contents, entries \in SUBSET Names :
       WriteFile(a, key, p, parent, c, entries)
  \/ \E p, parent \in Paths, entries \in SUBSET Names :
       Mkdir(a, key, p, parent, entries)
  \/ \E p \in Paths, entries \in SUBSET Names : RemoveNode(a, key, p, entries)
  \/ \E from, to, fromParent, toParent \in Paths,
        fromEntries \in SUBSET Names, toEntries \in SUBSET Names :
       RenameFile(a, key, from, to, fromParent, toParent, fromEntries, toEntries)

Opening(a, key) == \E about \in Abouts : Initialize(a, key, about)

Next ==
  \E a \in Accounts, key \in Keys :
    \/ Opening(a, key)
    \/ DesktopAction(a, key)
    \/ MetadataAction(a, key)
    \/ FileAction(a, key)

Spec == Init /\ [][Next]_vars

\* A Computer whose owner never uses the raw metadata actions, as
\* scripts/stage1-guards.mjs demands of the live file system client.
FileNext ==
  \E a \in Accounts, key \in Keys : Opening(a, key) \/ FileAction(a, key)

FileSpec == Init /\ [][FileNext]_vars

-----------------------------------------------------------------------------
(* Properties *)

\* initialize writes every record of a new Computer in one step: no reader
\* ever meets a Computer with a profile and no root directory, or state left
\* behind by an action that ran before initialize.
OpenedAtOnce ==
  IF profiles = None
    THEN /\ appearances = None /\ manifests = None /\ desktopIndexes = None
         /\ \A i \in Icons : desktopIcons[i] = None
         /\ \A p \in Paths : nodes[p] = None /\ directoryIndexes[p] = None
    ELSE /\ appearances # None /\ manifests # None /\ desktopIndexes # None
         /\ nodes[Root] # None /\ directoryIndexes[Root] # None

\* A node says the path it is stored under.  The tombstones written by
\* removeNode and renameFile copy the path of the record they read, and
\* removeNode trusts that copy to recognise the root.
NodesSayTheirPath ==
  \A p \in Paths : nodes[p] # None => nodes[p].path = p

\* Removal is a mark on the record, never an erasure: a node that dies in a
\* step keeps its kind, its parent and its content, whatever action killed
\* it, and no node disappears from the state.
RemovalKeepsTheRecord ==
  [][\A p \in Paths :
       nodes[p] # None =>
         /\ nodes'[p] # None
         /\ Live(p) /\ nodes'[p].removed => nodes'[p] = Tombstone(nodes[p])]_nodes

\* While only semantic actions run, every directory ever made has an index
\* (a directory without one would list as empty) and every node but the
\* root hangs below a node that is recorded.
DirectoriesIndexed ==
  \A p \in Paths : nodes[p] # None =>
    /\ nodes[p].kind = "directory" => directoryIndexes[p] # None
    /\ p = Root \/ nodes[nodes[p].parent] # None

\* While only semantic actions run, a node that comes to life does so below
\* a directory that is live, in the same step that stores that directory's
\* index: no step leaves a new file that its parent cannot list.
NewNodesHaveADirectory ==
  [][\A p \in Paths :
       /\ ~Live(p) /\ Live(p)'
       /\ p # Root
       => LiveDirectory(nodes'[p].parent)]_nodes

\* The Computer as its readers may rely on it: one owner, set once, who
\* signed every action since.
Owned == INSTANCE OwnedComputer WITH
  owner <- IF profiles = None THEN None ELSE profiles.owner,
  content <- records
ImplementsOwned == Owned!Spec

=============================================================================
