------------------------ MODULE ComputerServiceProofs ------------------------
(***************************************************************************)
(* What the Computer Service guarantees for every set of accounts, paths   *)
(* and contents.                                                           *)
(***************************************************************************)
EXTENDS ComputerService, TLAPS

USE ConstantsAssumption, NoneAssumption

LEMMA InitTyped == Init => TypeOK
BY DEF Init, TypeOK

\* initialize writes well-typed records.
LEMMA InitializeTyped ==
  ASSUME TypeOK, NEW a \in Accounts, NEW key \in Keys, NEW about \in Abouts,
         Initialize(a, key, about)
  PROVE  TypeOK'
<1> USE DEF TypeOK, Initialize, Directory, Node
<1>1. profiles' \in Profile /\ manifests' \in SiteManifest
  BY DEF Profile, SiteManifest
<1>2. desktopIndexes' \in Index(Icons)
  BY DEF Index
<1>3. nodes' \in [Paths -> NodeMetadata \cup {None}]
  BY DEF NodeMetadata
<1>4. directoryIndexes' \in [Paths -> Index(Names) \cup {None}]
  BY DEF Index
<1>5. QED
  BY <1>1, <1>2, <1>3, <1>4

\* So do the actions on the profile, the appearance, the desktop and the site.
LEMMA DesktopTyped ==
  ASSUME TypeOK, NEW a \in Accounts, NEW key \in Keys, DesktopAction(a, key)
  PROVE  TypeOK'
<1> USE DEF TypeOK, RequireSender, IsOwner
<1>1. CASE \E about \in Abouts : SetProfile(a, key, about)
  BY <1>1 DEF SetProfile, Profile
<1>2. CASE \E look \in Looks : SetAppearance(a, key, look)
  BY <1>2 DEF SetAppearance
<1>3. CASE \E i \in Icons, face \in Faces, visible \in BOOLEAN :
             UpsertDesktopIcon(a, key, i, face, visible)
  BY <1>3 DEF UpsertDesktopIcon, DesktopIcon
<1>4. CASE \E i \in Icons : RemoveDesktopIcon(a, key, i)
  BY <1>4 DEF RemoveDesktopIcon, DesktopIcon
<1>5. CASE \E icons \in SUBSET Icons : SetDesktopIndex(a, key, icons)
  BY <1>5 DEF SetDesktopIndex, Index
<1>6. CASE \E site \in Sites : PublishSite(a, key, site)
  BY <1>6 DEF PublishSite, SiteManifest
<1>7. QED
  BY <1>1, <1>2, <1>3, <1>4, <1>5, <1>6 DEF DesktopAction

\* A live node and its tombstone are nodes.
LEMMA NodeTyped ==
  ASSUME NEW path \in Paths, NEW kind \in Kinds, NEW parent \in Paths,
         NEW content \in Contents
  PROVE  Node(path, kind, parent, content) \in NodeMetadata
BY DEF Node, NodeMetadata

LEMMA TombstoneTyped ==
  ASSUME NEW node \in NodeMetadata
  PROVE  Tombstone(node) \in NodeMetadata
BY DEF Tombstone, NodeMetadata

LEMMA MetadataTyped ==
  ASSUME TypeOK, NEW a \in Accounts, NEW key \in Keys, MetadataAction(a, key)
  PROVE  TypeOK'
<1> USE DEF TypeOK, RequireSender, IsOwner, desktop
<1>1. CASE \E p, parent \in Paths, kind \in Kinds, c \in Contents :
             SetNodeMetadata(a, key, p, kind, parent, c)
  BY <1>1, NodeTyped DEF SetNodeMetadata
<1>2. CASE \E p \in Paths : RemoveNodeMetadata(a, key, p)
  BY <1>2, TombstoneTyped DEF RemoveNodeMetadata
<1>3. CASE \E p \in Paths, entries \in SUBSET Names :
             SetDirectoryIndex(a, key, p, entries)
  BY <1>3 DEF SetDirectoryIndex, Index
<1>4. QED
  BY <1>1, <1>2, <1>3 DEF MetadataAction

LEMMA FileTyped ==
  ASSUME TypeOK, NEW a \in Accounts, NEW key \in Keys, FileAction(a, key)
  PROVE  TypeOK'
<1> USE DEF TypeOK, IsOwner, desktop, Live, LiveFile, MayCreate, MayRemove, MayRename
<1>1. ASSUME NEW p \in Paths, NEW parent \in Paths, NEW c \in Contents,
             NEW entries \in SUBSET Names,
             WriteFile(a, key, p, parent, c, entries)
      PROVE  TypeOK'
  BY <1>1, NodeTyped DEF WriteFile, Index
<1>2. ASSUME NEW p \in Paths, NEW parent \in Paths, NEW entries \in SUBSET Names,
             Mkdir(a, key, p, parent, entries)
      PROVE  TypeOK'
  BY <1>2, NodeTyped DEF Mkdir, Directory, Index
<1>3. ASSUME NEW p \in Paths, NEW entries \in SUBSET Names,
             RemoveNode(a, key, p, entries)
      PROVE  TypeOK'
  <2>1. nodes[p] \in NodeMetadata /\ nodes[p].parent \in Paths
    BY <1>3 DEF RemoveNode, NodeMetadata
  <2>2. QED
    BY <1>3, <2>1, TombstoneTyped DEF RemoveNode, Index
<1>4. ASSUME NEW from \in Paths, NEW to \in Paths, NEW fromParent \in Paths,
             NEW toParent \in Paths,
             NEW fromEntries \in SUBSET Names, NEW toEntries \in SUBSET Names,
             RenameFile(a, key, from, to, fromParent, toParent, fromEntries, toEntries)
      PROVE  TypeOK'
  <2>1. nodes[from] \in NodeMetadata
    BY <1>4 DEF RenameFile
  <2>2. Node(to, nodes[from].kind, toParent, nodes[from].content) \in NodeMetadata
    BY <2>1, NodeTyped DEF NodeMetadata
  <2>3. Tombstone(nodes[from]) \in NodeMetadata
    BY <2>1, TombstoneTyped
  <2>4. QED
    BY <1>4, <2>2, <2>3 DEF RenameFile, Index
<1>5. QED
  BY <1>1, <1>2, <1>3, <1>4 DEF FileAction

\* Type correctness: every map of the service holds records of its schema,
\* whoever sends which actions.
THEOREM TypeCorrect == Spec => []TypeOK
<1>1. TypeOK /\ [Next]_vars => TypeOK'
  <2> SUFFICES ASSUME TypeOK, [Next]_vars PROVE TypeOK'
    OBVIOUS
  <2>1. CASE Next
    BY <2>1, InitializeTyped, DesktopTyped, MetadataTyped, FileTyped
       DEF Next, Opening
  <2>2. CASE UNCHANGED vars
    BY <2>2 DEF vars, TypeOK
  <2>3. QED
    BY <2>1, <2>2
<1>2. QED
  BY InitTyped, <1>1, PTL DEF Spec

-----------------------------------------------------------------------------
(* What each kind of action may touch. *)

\* Any action but initialize is signed by the owner of an initialized Computer
\* and leaves the owner alone.
LEMMA OwnerSigned ==
  ASSUME TypeOK, NEW a \in Accounts, NEW key \in Keys,
         DesktopAction(a, key) \/ MetadataAction(a, key) \/ FileAction(a, key)
  PROVE  /\ profiles # None /\ profiles' # None
         /\ profiles.owner = a /\ profiles'.owner = a /\ sender' = a
<1> USE DEF RequireSender, IsOwner, desktop, MayCreate, MayRemove, MayRename
<1>1. CASE DesktopAction(a, key)
  <2>1. ASSUME NEW about \in Abouts, SetProfile(a, key, about)
        PROVE  /\ profiles # None /\ profiles' # None
               /\ profiles.owner = a /\ profiles'.owner = a /\ sender' = a
    <3>1. profiles' \in Profile
      BY <2>1 DEF SetProfile, TypeOK, Profile
    <3>2. QED
      BY <2>1, <3>1 DEF SetProfile
  <2>2. QED
    BY <1>1, <2>1 DEF DesktopAction, SetAppearance, UpsertDesktopIcon,
         RemoveDesktopIcon, SetDesktopIndex, PublishSite
<1>2. CASE MetadataAction(a, key)
  BY <1>2 DEF MetadataAction, SetNodeMetadata, RemoveNodeMetadata, SetDirectoryIndex
<1>3. CASE FileAction(a, key)
  BY <1>3 DEF FileAction, WriteFile, Mkdir, RemoveNode, RenameFile
<1>4. QED
  BY <1>1, <1>2, <1>3

\* initialize finds no profile and leaves one owned by its sender.
LEMMA Opened ==
  ASSUME NEW a \in Accounts, NEW key \in Keys, Opening(a, key)
  PROVE  /\ profiles = None /\ profiles' # None
         /\ profiles'.owner = a /\ sender' = a
<1>1. PICK about \in Abouts : Initialize(a, key, about)
  BY DEF Opening
<1>2. profiles' \in Profile
  BY <1>1 DEF Initialize, Profile
<1>3. QED
  BY <1>1, <1>2 DEF Initialize

\* The detailed service implements the ownership promise: one owner, set
\* once, who signed every later action.
THEOREM OwnershipHolds == Spec => ImplementsOwned
<1> USE DEF Owned!Init, Owned!Next, Owned!vars, Owned!Claim, Owned!Update
<1>1. Init => Owned!Init
  BY DEF Init
<1>2. TypeOK /\ [Next]_vars => [Owned!Next]_(Owned!vars)
  <2> SUFFICES ASSUME TypeOK, [Next]_vars
               PROVE  Owned!Next \/ UNCHANGED Owned!vars
    OBVIOUS
  <2>1. ASSUME NEW a \in Accounts, NEW key \in Keys, Opening(a, key)
        PROVE  Owned!Next
    BY <2>1, Opened
  <2>2. ASSUME NEW a \in Accounts, NEW key \in Keys,
               DesktopAction(a, key) \/ MetadataAction(a, key) \/ FileAction(a, key)
        PROVE  Owned!Next
    BY <2>2, OwnerSigned DEF TypeOK, Profile
  <2>3. CASE UNCHANGED vars
    BY <2>3 DEF vars, records
  <2>4. QED
    BY <2>1, <2>2, <2>3 DEF Next
<1>3. QED
  BY <1>1, <1>2, TypeCorrect, PTL DEF Spec, ImplementsOwned, Owned!Spec

-----------------------------------------------------------------------------
(* The tombstones. *)

\* The three ways a step changes the nodes: store a live node, mark one, or
\* do both with the content of a file.
Put == \E p, parent \in Paths, kind \in Kinds, c \in Contents :
         nodes' = [nodes EXCEPT ![p] = Node(p, kind, parent, c)]
Bury == \E p \in Paths :
          /\ nodes[p] # None
          /\ nodes' = [nodes EXCEPT ![p] = Tombstone(nodes[p])]
Move == \E from, to, toParent \in Paths :
          /\ Live(from)
          /\ nodes' = [nodes EXCEPT
               ![to] = Node(to, nodes[from].kind, toParent, nodes[from].content),
               ![from] = Tombstone(nodes[from])]

LEMMA NodesChange ==
  ASSUME [Next]_vars
  PROVE  UNCHANGED nodes \/ Put \/ Bury \/ Move
<1>1. ASSUME NEW a \in Accounts, NEW key \in Keys, Opening(a, key)
      PROVE  Put
  <2>1. nodes' = [nodes EXCEPT ![Root] = Node(Root, "directory", NoPath, NoContent)]
    BY <1>1 DEF Opening, Initialize, Directory
  <2>2. "directory" \in Kinds
    OBVIOUS
  <2>3. QED
    BY <2>1, <2>2, Zenon DEF Put
<1>2. ASSUME NEW a \in Accounts, NEW key \in Keys, DesktopAction(a, key)
      PROVE  UNCHANGED nodes
  BY <1>2 DEF DesktopAction, SetProfile, SetAppearance, UpsertDesktopIcon,
       RemoveDesktopIcon, SetDesktopIndex, PublishSite
<1>3. ASSUME NEW a \in Accounts, NEW key \in Keys, MetadataAction(a, key)
      PROVE  UNCHANGED nodes \/ Put \/ Bury
  BY <1>3 DEF MetadataAction, SetNodeMetadata, RemoveNodeMetadata,
       SetDirectoryIndex, Put, Bury
<1>4. ASSUME NEW a \in Accounts, NEW key \in Keys, FileAction(a, key)
      PROVE  Put \/ Bury \/ Move
  <2>1. ASSUME NEW p \in Paths, NEW parent \in Paths, NEW c \in Contents,
               NEW entries \in SUBSET Names, WriteFile(a, key, p, parent, c, entries)
        PROVE  Put
    BY <2>1 DEF WriteFile, Put
  <2>2. ASSUME NEW p \in Paths, NEW parent \in Paths, NEW entries \in SUBSET Names,
               Mkdir(a, key, p, parent, entries)
        PROVE  Put
    BY <2>2 DEF Mkdir, Directory, Put
  <2>3. ASSUME NEW p \in Paths, NEW entries \in SUBSET Names,
               RemoveNode(a, key, p, entries)
        PROVE  Bury
    BY <2>3 DEF RemoveNode, MayRemove, Live, Bury
  <2>4. ASSUME NEW from \in Paths, NEW to \in Paths, NEW fromParent \in Paths,
               NEW toParent \in Paths,
               NEW fromEntries \in SUBSET Names, NEW toEntries \in SUBSET Names,
               RenameFile(a, key, from, to, fromParent, toParent, fromEntries, toEntries)
        PROVE  Move
    BY <2>4 DEF RenameFile, MayRename, LiveFile, Move
  <2>5. QED
    BY <1>4, <2>1, <2>2, <2>3, <2>4 DEF FileAction
<1>5. CASE UNCHANGED vars
  BY <1>5 DEF vars
<1>6. QED
  BY <1>1, <1>2, <1>3, <1>4, <1>5 DEF Next

\* What a step may do to one node, and that every node says its path.
NodeKept(p) ==
  nodes[p] # None =>
    /\ nodes'[p] # None
    /\ Live(p) /\ nodes'[p].removed => nodes'[p] = Tombstone(nodes[p])

LEMMA NodesKept ==
  ASSUME TypeOK, NodesSayTheirPath, [Next]_vars
  PROVE  NodesSayTheirPath' /\ \A p \in Paths : NodeKept(p)
<1> USE DEF NodesSayTheirPath, NodeKept, Live
<1>0. /\ nodes \in [Paths -> NodeMetadata \cup {None}]
      /\ \A node \in NodeMetadata : node # None
  BY DEF TypeOK
<1>t. \A node \in NodeMetadata :
        /\ Tombstone(node) \in NodeMetadata
        /\ Tombstone(node).path = node.path
        /\ Tombstone(node).removed
  BY DEF Tombstone, NodeMetadata
<1>n. \A p, parent \in Paths, kind \in Kinds, c \in Contents :
        /\ Node(p, kind, parent, c) \in NodeMetadata
        /\ Node(p, kind, parent, c).path = p
        /\ ~Node(p, kind, parent, c).removed
  BY DEF Node, NodeMetadata
<1>1. CASE UNCHANGED nodes
  BY <1>0, <1>1
<1>2. CASE Put
  BY <1>0, <1>2, <1>n DEF Put
<1>3. CASE Bury
  BY <1>0, <1>3, <1>t DEF Bury
<1>4. CASE Move
  <2>1. PICK from, to, toParent \in Paths :
          /\ Live(from)
          /\ nodes' = [nodes EXCEPT
               ![to] = Node(to, nodes[from].kind, toParent, nodes[from].content),
               ![from] = Tombstone(nodes[from])]
    BY <1>4 DEF Move
  <2> DEFINE moved == Node(to, nodes[from].kind, toParent, nodes[from].content)
  <2>2. nodes[from] \in NodeMetadata
    BY <2>1, <1>0
  <2>3. nodes[from].kind \in Kinds /\ nodes[from].content \in Contents
    BY <2>2 DEF NodeMetadata
  <2>4. moved \in NodeMetadata /\ moved.path = to /\ ~moved.removed
    BY <2>3, <1>n
  <2> HIDE DEF moved
  <2>5. nodes' = [nodes EXCEPT ![to] = moved, ![from] = Tombstone(nodes[from])]
    BY <2>1 DEF moved
  <2>6. QED
    BY <2>1, <2>2, <2>4, <2>5, <1>0, <1>t
<1>5. QED
  BY <1>1, <1>2, <1>3, <1>4, NodesChange

\* A node says the path it is stored under, whatever the caller submits.
THEOREM PathsSaid == Spec => []NodesSayTheirPath
<1>1. Init => NodesSayTheirPath
  BY DEF Init, NodesSayTheirPath
<1>2. TypeOK /\ NodesSayTheirPath /\ [Next]_vars => NodesSayTheirPath'
  BY NodesKept
<1>3. QED
  BY <1>1, <1>2, TypeCorrect, PTL DEF Spec

\* Removal marks the record and keeps it.
THEOREM RecordsKept == Spec => RemovalKeepsTheRecord
<1>1. /\ TypeOK /\ NodesSayTheirPath /\ [Next]_vars
      => [\A p \in Paths :
            nodes[p] # None =>
              /\ nodes'[p] # None
              /\ Live(p) /\ nodes'[p].removed
                   => nodes'[p] = Tombstone(nodes[p])]_nodes
  BY NodesKept DEF NodeKept
<1>2. QED
  BY <1>1, TypeCorrect, PathsSaid, PTL DEF Spec, RemovalKeepsTheRecord

-----------------------------------------------------------------------------
(* A Computer opens in one step. *)

\* What an action stores is a record.
LEMMA IndexIsRecord ==
  ASSUME NEW members, members \in {Names, Icons}, NEW names \in SUBSET members
  PROVE  [entries |-> names] # None
<1>1. [entries |-> names] \in Index(members)
  BY DEF Index
<1>2. QED
  BY <1>1

LEMMA ManifestIsRecord ==
  ASSUME NEW site \in Sites, NEW published \in BOOLEAN
  PROVE  [site |-> site, published |-> published] # None
<1>1. [site |-> site, published |-> published] \in SiteManifest
  BY DEF SiteManifest
<1>2. QED
  BY <1>1

\* No step takes an index away.
LEMMA IndexesKept ==
  ASSUME TypeOK, [Next]_vars
  PROVE  \A p \in Paths : directoryIndexes[p] # None => directoryIndexes'[p] # None
<1> USE DEF TypeOK
<1>0. \A names \in SUBSET Names : [entries |-> names] # None
  BY IndexIsRecord
<1>1. ASSUME NEW a \in Accounts, NEW key \in Keys, Opening(a, key)
      PROVE  \A p \in Paths : directoryIndexes[p] # None => directoryIndexes'[p] # None
  BY <1>0, <1>1 DEF Opening, Initialize
<1>2. ASSUME NEW a \in Accounts, NEW key \in Keys,
             DesktopAction(a, key) \/ MetadataAction(a, key)
      PROVE  \A p \in Paths : directoryIndexes[p] # None => directoryIndexes'[p] # None
  BY <1>0, <1>2 DEF DesktopAction, SetProfile, SetAppearance, UpsertDesktopIcon,
       RemoveDesktopIcon, SetDesktopIndex, PublishSite, MetadataAction,
       SetNodeMetadata, RemoveNodeMetadata, SetDirectoryIndex
<1>3. ASSUME NEW a \in Accounts, NEW key \in Keys, FileAction(a, key)
      PROVE  \A p \in Paths : directoryIndexes[p] # None => directoryIndexes'[p] # None
  <2>1. ASSUME NEW p \in Paths, NEW parent \in Paths, NEW c \in Contents,
               NEW entries \in SUBSET Names, WriteFile(a, key, p, parent, c, entries)
        PROVE  \A d \in Paths : directoryIndexes[d] # None => directoryIndexes'[d] # None
    BY <1>0, <2>1 DEF WriteFile
  <2>2. ASSUME NEW p \in Paths, NEW parent \in Paths, NEW entries \in SUBSET Names,
               Mkdir(a, key, p, parent, entries)
        PROVE  \A d \in Paths : directoryIndexes[d] # None => directoryIndexes'[d] # None
    BY <1>0, <2>2 DEF Mkdir
  <2>3. ASSUME NEW p \in Paths, NEW entries \in SUBSET Names,
               RemoveNode(a, key, p, entries)
        PROVE  \A d \in Paths : directoryIndexes[d] # None => directoryIndexes'[d] # None
    BY <1>0, <2>3 DEF RemoveNode
  <2>4. ASSUME NEW from \in Paths, NEW to \in Paths, NEW fromParent \in Paths,
               NEW toParent \in Paths,
               NEW fromEntries \in SUBSET Names, NEW toEntries \in SUBSET Names,
               RenameFile(a, key, from, to, fromParent, toParent, fromEntries, toEntries)
        PROVE  \A d \in Paths : directoryIndexes[d] # None => directoryIndexes'[d] # None
    BY <1>0, <2>4 DEF RenameFile
  <2>5. QED
    BY <1>3, <2>1, <2>2, <2>3, <2>4 DEF FileAction
<1>4. CASE UNCHANGED vars
  BY <1>4 DEF vars
<1>5. QED
  BY <1>1, <1>2, <1>3, <1>4 DEF Next

LEMMA OpenedStep ==
  ASSUME TypeOK, NodesSayTheirPath, OpenedAtOnce, [Next]_vars
  PROVE  OpenedAtOnce'
<1> USE DEF OpenedAtOnce, TypeOK
<1>1. ASSUME NEW a \in Accounts, NEW key \in Keys, Opening(a, key)
      PROVE  OpenedAtOnce'
  <2>1. PICK about \in Abouts : Initialize(a, key, about)
    BY <1>1 DEF Opening
  <2>2. profiles' # None
    BY <1>1, Opened
  <2>3. Directory(Root, NoPath) \in NodeMetadata /\ [entries |-> {}] \in Index(Names)
    BY DEF Directory, Node, NodeMetadata, Index
  <2>4. nodes'[Root] # None /\ directoryIndexes'[Root] # None
    BY <2>1, <2>3 DEF Initialize
  <2>5. appearances' # None /\ manifests' # None /\ desktopIndexes' # None
    <3>1. appearances' \in Looks
      BY <2>1 DEF Initialize
    <3>2. manifests' # None
      BY <2>1, ManifestIsRecord DEF Initialize
    <3>3. desktopIndexes' # None
      BY <2>1, IndexIsRecord DEF Initialize
    <3>4. QED
      BY <3>1, <3>2, <3>3
  <2>6. QED
    BY <2>2, <2>4, <2>5
<1>2. ASSUME NEW a \in Accounts, NEW key \in Keys,
             DesktopAction(a, key) \/ MetadataAction(a, key) \/ FileAction(a, key)
      PROVE  OpenedAtOnce'
  <2>1. /\ profiles # None /\ profiles' # None
    BY <1>2, OwnerSigned
  <2>2. TypeOK'
    BY <1>2, DesktopTyped, MetadataTyped, FileTyped
  <2>3. appearances' # None /\ manifests' # None /\ desktopIndexes' # None
    <3>0. \A icons \in SUBSET Icons : [entries |-> icons] # None
      BY IndexIsRecord
    <3>1. CASE DesktopAction(a, key)
      <4>1. ASSUME NEW site \in Sites, PublishSite(a, key, site)
            PROVE  appearances' # None /\ manifests' # None /\ desktopIndexes' # None
        BY <2>1, <4>1, ManifestIsRecord DEF PublishSite
      <4>2. ASSUME NEW look \in Looks, SetAppearance(a, key, look)
            PROVE  appearances' # None /\ manifests' # None /\ desktopIndexes' # None
        BY <2>1, <4>2 DEF SetAppearance
      <4>3. QED
        BY <2>1, <3>0, <3>1, <4>1, <4>2 DEF DesktopAction, SetProfile,
           UpsertDesktopIcon, RemoveDesktopIcon, SetDesktopIndex
    <3>2. CASE MetadataAction(a, key) \/ FileAction(a, key)
      BY <2>1, <3>2 DEF MetadataAction, SetNodeMetadata, RemoveNodeMetadata,
           SetDirectoryIndex, FileAction, WriteFile, Mkdir, RemoveNode, RenameFile,
           desktop
    <3>3. QED
      BY <1>2, <3>1, <3>2
  <2>4. nodes'[Root] # None
    BY <2>1, NodesKept DEF NodeKept
  <2>5. directoryIndexes'[Root] # None
    BY <2>1, IndexesKept
  <2>6. QED
    BY <2>1, <2>3, <2>4, <2>5
<1>3. CASE UNCHANGED vars
  BY <1>3 DEF vars
<1>4. QED
  BY <1>1, <1>2, <1>3 DEF Next

\* initialize creates a whole Computer or nothing.
THEOREM OpensAtOnce == Spec => []OpenedAtOnce
<1>1. Init => OpenedAtOnce
  BY DEF Init, OpenedAtOnce
<1>2. /\ TypeOK /\ NodesSayTheirPath /\ OpenedAtOnce /\ [Next]_vars
      => OpenedAtOnce'
  BY OpenedStep
<1>3. QED
  BY <1>1, <1>2, TypeCorrect, PathsSaid, PTL DEF Spec

-----------------------------------------------------------------------------
(* The tree, while only the semantic actions run. *)

LEMMA FileStep == FileNext => Next
BY DEF FileNext, Next

LEMMA FileTypeCorrect == FileSpec => []TypeOK
<1>1. TypeOK /\ [FileNext]_vars => TypeOK'
  <2> SUFFICES ASSUME TypeOK, [FileNext]_vars PROVE TypeOK'
    OBVIOUS
  <2>1. CASE FileNext
    BY <2>1, InitializeTyped, FileTyped DEF FileNext, Opening
  <2>2. CASE UNCHANGED vars
    BY <2>2 DEF vars, TypeOK
  <2>3. QED
    BY <2>1, <2>2
<1>2. QED
  BY InitTyped, <1>1, PTL DEF FileSpec

\* The three effects of a semantic action, with what its guard knows: a node
\* is stored below a live directory (or is the root), and a directory gets
\* its index in the same step.
Grown == \E p, parent \in Paths, kind \in Kinds, c \in Contents :
           /\ p = Root \/ LiveDirectory(parent)
           /\ nodes' = [nodes EXCEPT ![p] = Node(p, kind, parent, c)]
           /\ kind = "directory" => directoryIndexes'[p] # None
Moved == \E from, to, toParent \in Paths :
           /\ LiveFile(from)
           /\ LiveDirectory(toParent)
           /\ nodes' = [nodes EXCEPT
                ![to] = Node(to, nodes[from].kind, toParent, nodes[from].content),
                ![from] = Tombstone(nodes[from])]

LEMMA FileChange ==
  ASSUME TypeOK, [FileNext]_vars
  PROVE  UNCHANGED nodes \/ Grown \/ Bury \/ Moved
<1> USE DEF TypeOK
<1>0. \A names \in SUBSET Names : [entries |-> names] # None
  BY IndexIsRecord
<1>1. ASSUME NEW a \in Accounts, NEW key \in Keys, Opening(a, key)
      PROVE  Grown
  <2>1. /\ nodes' = [nodes EXCEPT ![Root] = Node(Root, "directory", NoPath, NoContent)]
        /\ directoryIndexes'[Root] # None
    BY <1>0, <1>1 DEF Opening, Initialize, Directory
  <2>2. QED
    BY <2>1, Zenon DEF Grown
<1>2. ASSUME NEW a \in Accounts, NEW key \in Keys, NEW p \in Paths,
             NEW parent \in Paths, NEW c \in Contents, NEW entries \in SUBSET Names,
             WriteFile(a, key, p, parent, c, entries)
      PROVE  Grown
  <2>1. /\ LiveDirectory(parent)
        /\ nodes' = [nodes EXCEPT ![p] = Node(p, "file", parent, c)]
        /\ "file" # "directory"
    BY <1>2 DEF WriteFile, MayCreate
  <2>2. QED
    BY <2>1, Zenon DEF Grown
<1>3. ASSUME NEW a \in Accounts, NEW key \in Keys, NEW p \in Paths,
             NEW parent \in Paths, NEW entries \in SUBSET Names,
             Mkdir(a, key, p, parent, entries)
      PROVE  Grown
  <2>1. /\ LiveDirectory(parent)
        /\ nodes' = [nodes EXCEPT ![p] = Node(p, "directory", parent, NoContent)]
        /\ directoryIndexes'[p] # None
    BY <1>0, <1>3 DEF Mkdir, MayCreate, Directory
  <2>2. QED
    BY <2>1, Zenon DEF Grown
<1>4. ASSUME NEW a \in Accounts, NEW key \in Keys, NEW p \in Paths,
             NEW entries \in SUBSET Names, RemoveNode(a, key, p, entries)
      PROVE  Bury
  BY <1>4 DEF RemoveNode, MayRemove, Live, Bury
<1>5. ASSUME NEW a \in Accounts, NEW key \in Keys, NEW from \in Paths, NEW to \in Paths,
             NEW fromParent \in Paths, NEW toParent \in Paths,
             NEW fromEntries \in SUBSET Names, NEW toEntries \in SUBSET Names,
             RenameFile(a, key, from, to, fromParent, toParent, fromEntries, toEntries)
      PROVE  Moved
  BY <1>5 DEF RenameFile, MayRename, Moved
<1>6. CASE UNCHANGED vars
  BY <1>6 DEF vars
<1>7. QED
  BY <1>1, <1>2, <1>3, <1>4, <1>5, <1>6 DEF FileNext, FileAction

LEMMA IndexesKeptByFiles ==
  ASSUME TypeOK, DirectoriesIndexed, [FileNext]_vars
  PROVE  DirectoriesIndexed'
<1> USE DEF DirectoriesIndexed, LiveDirectory, LiveFile, Live
<1>0. /\ nodes \in [Paths -> NodeMetadata \cup {None}]
      /\ \A node \in NodeMetadata :
           /\ node # None /\ node.parent \in Paths
           /\ node.kind \in Kinds /\ node.content \in Contents
  BY DEF TypeOK, NodeMetadata
<1>t. \A node \in NodeMetadata :
        /\ Tombstone(node) \in NodeMetadata
        /\ Tombstone(node).parent = node.parent
        /\ Tombstone(node).kind = node.kind
  BY DEF NodeMetadata, Tombstone
<1>n. \A p, parent \in Paths, kind \in Kinds, c \in Contents :
        /\ Node(p, kind, parent, c) \in NodeMetadata
        /\ Node(p, kind, parent, c).parent = parent
        /\ Node(p, kind, parent, c).kind = kind
  BY DEF Node, NodeMetadata
<1>i. \A p \in Paths : directoryIndexes[p] # None => directoryIndexes'[p] # None
  <2>1. [Next]_vars
    BY FileStep
  <2>2. QED
    BY <2>1, IndexesKept
<1>1. CASE UNCHANGED nodes
  BY <1>0, <1>1, <1>i
<1>2. CASE Grown
  <2>1. PICK p, parent \in Paths, kind \in Kinds, c \in Contents :
          /\ p = Root \/ LiveDirectory(parent)
          /\ nodes' = [nodes EXCEPT ![p] = Node(p, kind, parent, c)]
          /\ kind = "directory" => directoryIndexes'[p] # None
    BY <1>2 DEF Grown
  <2> DEFINE new == Node(p, kind, parent, c)
  <2>2. new \in NodeMetadata /\ new.parent = parent /\ new.kind = kind
    BY <1>n
  <2> HIDE DEF new
  <2>3. nodes' = [nodes EXCEPT ![p] = new]
    BY <2>1 DEF new
  <2>4. QED
    BY <2>1, <2>2, <2>3, <1>0, <1>i
<1>3. CASE Bury
  BY <1>0, <1>t, <1>3, <1>i DEF Bury
<1>4. CASE Moved
  <2>1. PICK from, to, toParent \in Paths :
          /\ LiveFile(from)
          /\ LiveDirectory(toParent)
          /\ nodes' = [nodes EXCEPT
               ![to] = Node(to, nodes[from].kind, toParent, nodes[from].content),
               ![from] = Tombstone(nodes[from])]
    BY <1>4 DEF Moved
  <2> DEFINE moved == Node(to, nodes[from].kind, toParent, nodes[from].content)
  <2>2. nodes[from] \in NodeMetadata
    BY <2>1, <1>0
  <2>3. moved \in NodeMetadata /\ moved.parent = toParent /\ moved.kind = "file"
    <3>1. /\ nodes[from].kind = "file" /\ nodes[from].kind \in Kinds
          /\ nodes[from].content \in Contents
      BY <2>1, <2>2, <1>0
    <3>2. QED
      BY <3>1, <1>n
  <2> HIDE DEF moved
  <2>4. nodes' = [nodes EXCEPT ![to] = moved, ![from] = Tombstone(nodes[from])]
    BY <2>1 DEF moved
  <2>5. QED
    BY <2>1, <2>2, <2>3, <2>4, <1>0, <1>t, <1>i
<1>5. QED
  BY <1>1, <1>2, <1>3, <1>4, FileChange

\* Every directory keeps an index and every node but the root a recorded
\* parent, whatever paths, parents and indexes the caller submits.
THEOREM TreeIndexed == FileSpec => []DirectoriesIndexed
<1>1. Init => DirectoriesIndexed
  BY DEF Init, DirectoriesIndexed
<1>2. TypeOK /\ DirectoriesIndexed /\ [FileNext]_vars => DirectoriesIndexed'
  BY IndexesKeptByFiles
<1>3. QED
  BY <1>1, <1>2, FileTypeCorrect, PTL DEF FileSpec

LEMMA BornBelowDirectories ==
  ASSUME TypeOK, [FileNext]_vars
  PROVE  \A p \in Paths :
           ~Live(p) /\ Live(p)' /\ p # Root => LiveDirectory(nodes'[p].parent)
<1> USE DEF Live, LiveFile
<1>0. /\ nodes \in [Paths -> NodeMetadata \cup {None}]
      /\ \A node \in NodeMetadata :
           /\ node # None /\ node.kind \in Kinds /\ node.content \in Contents
           /\ Tombstone(node) \in NodeMetadata /\ Tombstone(node).removed
  BY DEF TypeOK, NodeMetadata, Tombstone
<1>n. \A p, parent \in Paths, kind \in Kinds, c \in Contents :
        Node(p, kind, parent, c).parent = parent
  BY DEF Node
<1>1. CASE UNCHANGED nodes
  BY <1>1
<1>2. CASE Grown
  BY <1>0, <1>2, <1>n DEF Grown
<1>3. CASE Bury
  BY <1>0, <1>3 DEF Bury
<1>4. CASE Moved
  <2>1. PICK from, to, toParent \in Paths :
          /\ LiveFile(from)
          /\ LiveDirectory(toParent)
          /\ nodes' = [nodes EXCEPT
               ![to] = Node(to, nodes[from].kind, toParent, nodes[from].content),
               ![from] = Tombstone(nodes[from])]
    BY <1>4 DEF Moved
  <2> DEFINE moved == Node(to, nodes[from].kind, toParent, nodes[from].content)
  <2>2. nodes[from] \in NodeMetadata
    BY <2>1, <1>0
  <2>3. moved.parent = toParent
    BY <2>2, <1>0, <1>n
  <2> HIDE DEF moved
  <2>4. nodes' = [nodes EXCEPT ![to] = moved, ![from] = Tombstone(nodes[from])]
    BY <2>1 DEF moved
  <2>5. QED
    BY <2>1, <2>2, <2>3, <2>4, <1>0
<1>5. QED
  BY <1>1, <1>2, <1>3, <1>4, FileChange

\* A node comes to life only below a live directory.
THEOREM NodesGrowUnderDirectories == FileSpec => NewNodesHaveADirectory
<1>1. TypeOK /\ [FileNext]_vars =>
        [\A p \in Paths :
           /\ ~Live(p) /\ Live(p)'
           /\ p # Root
           => LiveDirectory(nodes'[p].parent)]_nodes
  BY BornBelowDirectories
<1>2. QED
  BY <1>1, FileTypeCorrect, PTL DEF FileSpec, NewNodesHaveADirectory

=============================================================================
