------------------------- MODULE LiveFileSystemProofs -------------------------
(***************************************************************************)
(* What holds of the live file system for every tree, any number of        *)
(* strands and any requests.                                               *)
(***************************************************************************)
EXTENDS LiveFileSystem, ComputerServiceProofs

USE ConstantsAssumption, NoneAssumption, TreeAssumption, RequestsAssumption

-----------------------------------------------------------------------------
(* Types *)

LEMMA RequestTyped ==
  ASSUME NEW r \in Requests
  PROVE  /\ r.op \in {"write", "mkdir", "remove", "rename"}
         /\ r.path \in Paths /\ r.to \in Paths
         /\ r.content \in Contents /\ r.recursive \in BOOLEAN
         /\ ParentOf[r.path] \in Paths /\ ParentOf[r.to] \in Paths
         /\ NameOf[r.path] \in Names /\ NameOf[r.to] \in Names
BY DEF Request

LEMMA IdleTyped == Idle \in Client
BY DEF Fresh, Idle, Client, Stages

LEMMA FsInitTyped == FsInit => FsTypeOK
<1> SUFFICES ASSUME FsInit PROVE FsTypeOK
  OBVIOUS
<1>1. nodes \in [Paths -> NodeMetadata \cup {None}]
  <2>1. \A p, parent \in Paths : Directory(p, parent) \in NodeMetadata
    BY NodeTyped DEF Directory
  <2>2. \A p \in Paths : /\ Directory(Root, NoPath) \in NodeMetadata
                         /\ Directory(p, ParentOf[p]) \in NodeMetadata
    BY <2>1
  <2>3. nodes = [p \in Paths |->
          IF p = Root THEN Directory(Root, NoPath)
          ELSE IF p \in Made THEN Directory(p, ParentOf[p]) ELSE None]
    BY DEF FsInit
  <2>4. QED
    BY <2>2, <2>3
<1>2. directoryIndexes \in [Paths -> Index(Names) \cup {None}]
  <2>1. \A p \in Paths :
          [entries |-> {NameOf[d] : d \in {m \in Made : ParentOf[m] = p}}] \in Index(Names)
    BY DEF Index
  <2>2. QED
    BY <2>1 DEF FsInit
<1>3. profiles \in Profile /\ manifests \in SiteManifest /\ desktopIndexes \in Index(Icons)
  BY DEF FsInit, Profile, SiteManifest, Index
<1>4. TypeOK
  BY <1>1, <1>2, <1>3 DEF FsInit, TypeOK
<1>5. clients \in [Clients -> Client] /\ \A c \in Clients : clients[c].pc = "idle"
  <2>1. clients = [c \in Clients |-> Idle] /\ Idle.pc = "idle"
    BY DEF FsInit, Fresh, Idle
  <2>2. QED
    BY <2>1, IdleTyped
<1>6. QED
  BY <1>4, <1>5 DEF FsTypeOK, FsInit

\* Moving a strand that works on a request to another stage keeps the types.
LEMMA GotoTyped ==
  ASSUME FsTypeOK, NEW c \in Clients, NEW pc \in Stages,
         clients[c].pc # "idle", Goto(c, pc)
  PROVE  /\ clients' \in [Clients -> Client]
         /\ \A d \in Clients : clients'[d].pc # "idle" => clients'[d].req \in Requests
BY DEF FsTypeOK, Goto, Client

LEMMA UpdateTyped ==
  ASSUME FsTypeOK, NEW c \in Clients, NEW new \in Client, new.req \in Requests,
         clients' = [clients EXCEPT ![c] = new]
  PROVE  /\ clients' \in [Clients -> Client]
         /\ \A d \in Clients : clients'[d].pc # "idle" => clients'[d].req \in Requests
BY DEF FsTypeOK

LEMMA StopTyped ==
  ASSUME FsTypeOK, NEW c \in Clients, Stop(c)
  PROVE  /\ clients' \in [Clients -> Client]
         /\ \A d \in Clients : clients'[d].pc # "idle" => clients'[d].req \in Requests
BY IdleTyped DEF FsTypeOK, Stop, Fresh, Idle

LEMMA ListedTyped ==
  ASSUME TypeOK, NEW p \in Paths
  PROVE  Listed(p) \in SUBSET Names
BY DEF TypeOK, Listed, Index

LEMMA NewEntriesTyped ==
  ASSUME TypeOK, NEW r \in Requests
  PROVE  NewEntries(r) \in SUBSET Names
BY RequestTyped, ListedTyped DEF NewEntries

\* The steps of a strand before the action is on its way, and its failures.
LEMMA ClientTyped ==
  ASSUME FsTypeOK, NEW c \in Clients,
         (\E r \in Requests : Begin(c, r)) \/ ClientStep(c) \/ StepFails(c) \/ GiveUp(c)
  PROVE  FsTypeOK'
<1> USE DEF service, vars
<1>t. TypeOK /\ (UNCHANGED service => TypeOK')
  BY DEF FsTypeOK, TypeOK
<1>1. ASSUME NEW r \in Requests, Begin(c, r)
      PROVE  FsTypeOK'
  <2> DEFINE new == [pc |-> IF r.op \in {"write", "mkdir"} THEN "parent" ELSE "target",
                     req |-> r, ticket |-> issued + 1,
                     fromEntries |-> {}, todo |-> {}, found |-> {}]
  <2>1. new \in Client /\ new.req \in Requests
    BY DEF FsTypeOK, Client, Stages
  <2>2. clients' = [clients EXCEPT ![c] = new]
    BY <1>1 DEF Begin, Fresh
  <2>3. issued' \in 0..MaxIssued
    <3>1. issued < MaxIssued /\ issued' = issued + 1
      BY <1>1 DEF Begin
    <3>2. issued \in 0..MaxIssued /\ MaxIssued \in Nat
      BY DEF FsTypeOK
    <3>3. QED
      BY <3>1, <3>2
  <2>4. QED
    BY <1>1, <2>1, <2>2, <2>3, <1>t, UpdateTyped DEF FsTypeOK, Begin
<1>2. CASE ReadParent(c)
  <2>1. AfterParent(clients[c].req) \in Stages
    BY DEF AfterParent, Stages
  <2>2. QED
    BY <1>2, <2>1, <1>t, GotoTyped, StopTyped DEF FsTypeOK, ReadParent
<1>3. CASE ReadTarget(c)
  <2>1. AfterTarget(clients[c].req) \in Stages
    BY DEF AfterTarget, Stages
  <2>2. QED
    BY <1>3, <2>1, <1>t, GotoTyped, StopTyped DEF FsTypeOK, ReadTarget
<1>4. CASE ReadListing(c)
  <2>1. Entries(clients[c].req.path) \in SUBSET Paths
    BY DEF Entries
  <2> DEFINE new == [clients[c] EXCEPT !.pc = "statting",
                                       !.todo = Entries(clients[c].req.path)]
  <2>2. new \in Client /\ new.req \in Requests
    <3>1. clients[c] \in Client /\ clients[c].req \in Requests
      BY <1>4 DEF FsTypeOK, ReadListing
    <3>2. QED
      BY <3>1, <2>1 DEF Client, Stages
  <2>3. clients' = [clients EXCEPT ![c] = new]
    BY <1>4 DEF ReadListing, FsTypeOK
  <2>4. QED
    BY <1>4, <2>2, <2>3, <1>t, UpdateTyped DEF FsTypeOK, ReadListing
<1>5. ASSUME NEW p \in Paths, StatEntry(c, p)
      PROVE  FsTypeOK'
  <2> DEFINE new == [clients[c] EXCEPT
                       !.todo = clients[c].todo \ {p},
                       !.found = IF Live(p) THEN clients[c].found \cup {p}
                                            ELSE clients[c].found]
  <2>1. new \in Client /\ new.req \in Requests
    <3>1. clients[c] \in Client /\ clients[c].req \in Requests
      BY <1>5 DEF FsTypeOK, StatEntry
    <3>2. QED
      BY <3>1 DEF Client, Stages
  <2>2. clients' = [clients EXCEPT ![c] = new]
    BY <1>5 DEF StatEntry, FsTypeOK
  <2>3. QED
    BY <1>5, <2>1, <2>2, <1>t, UpdateTyped DEF FsTypeOK, StatEntry
<1>6. CASE EndListing(c)
  BY <1>6, <1>t, GotoTyped, StopTyped DEF FsTypeOK, EndListing, Stages
<1>7. CASE PutContent(c)
  <2>1. clients[c].req.content \in Contents
    BY <1>7, RequestTyped DEF FsTypeOK, PutContent
  <2>2. QED
    BY <1>7, <2>1, <1>t, GotoTyped DEF FsTypeOK, PutContent, Stages
<1>8. CASE ReadFromIndex(c)
  <2>1. Listed(ParentOf[clients[c].req.path]) \in SUBSET Names
    BY <1>8, <1>t, RequestTyped, ListedTyped DEF FsTypeOK, ReadFromIndex
  <2> DEFINE new == [clients[c] EXCEPT
                       !.pc = "index",
                       !.fromEntries = Listed(ParentOf[clients[c].req.path])
                                         \ {NameOf[clients[c].req.path]}]
  <2>2. new \in Client /\ new.req \in Requests
    <3>1. clients[c] \in Client /\ clients[c].req \in Requests
      BY <1>8 DEF FsTypeOK, ReadFromIndex
    <3>2. QED
      BY <3>1, <2>1 DEF Client, Stages
  <2>3. clients' = [clients EXCEPT ![c] = new]
    BY <1>8 DEF ReadFromIndex, FsTypeOK
  <2>4. QED
    BY <1>8, <2>2, <2>3, <1>t, UpdateTyped DEF FsTypeOK, ReadFromIndex
<1>9. CASE Submit(c)
  <2> DEFINE r == clients[c].req
             item == [by |-> c, ticket |-> clients[c].ticket, req |-> r,
                      entries |-> Encoded(NewEntries(r)),
                      fromEntries |-> Encoded(clients[c].fromEntries)]
  <2>1. r \in Requests /\ clients[c] \in Client /\ clients[c].pc # "idle"
    BY <1>9 DEF FsTypeOK, Submit
  <2>2. NewEntries(r) \in SUBSET Names
    BY <2>1, <1>t, NewEntriesTyped
  <2>3. item \in Item
    BY <2>1, <2>2 DEF Item, Encoded, Client
  <2>4. inbox' \subseteq Item
    BY <1>9, <2>3 DEF Submit, FsTypeOK
  <2>5. /\ clients' \in [Clients -> Client]
        /\ \A d \in Clients : clients'[d].pc # "idle" => clients'[d].req \in Requests
    BY <1>9, <2>1, GotoTyped, StopTyped DEF Submit, Stages
  <2>6. QED
    BY <1>9, <2>4, <2>5, <1>t DEF FsTypeOK, Submit
<1>10. CASE StepFails(c)
  BY <1>10, <1>t, StopTyped DEF FsTypeOK, StepFails
<1>11. CASE GiveUp(c)
  BY <1>11, <1>t, StopTyped DEF FsTypeOK, GiveUp
<1>12. QED
  BY <1>1, <1>2, <1>3, <1>4, <1>5, <1>6, <1>7, <1>8, <1>9, <1>10, <1>11 DEF ClientStep

\* The action the chain applies is one the service admits, by the owner.
LEMMA ApplyIsFileAction ==
  ASSUME FsTypeOK, NEW item \in inbox, Apply(item)
  PROVE  FileAction(Owner, RootKey)
<1>1. item.req \in Requests /\ item.entries \in SUBSET Names /\ item.fromEntries \in SUBSET Names
  BY DEF FsTypeOK, Item
<1>2. QED
  BY <1>1, RequestTyped DEF Apply, FileAction

LEMMA SettleTyped ==
  ASSUME FsTypeOK, NEW item \in inbox, Settle(item)
  PROVE  /\ clients' \in [Clients -> Client]
         /\ \A d \in Clients : clients'[d].pc # "idle" => clients'[d].req \in Requests
         /\ inbox' \subseteq Item /\ store' = store /\ issued' = issued
BY IdleTyped DEF FsTypeOK, Settle, Fresh, Idle

LEMMA ChainTyped ==
  ASSUME FsTypeOK, NEW item \in inbox, ChainStep(item) \/ Lose(item)
  PROVE  FsTypeOK'
<1>1. TypeOK /\ item \in Item
  BY DEF FsTypeOK
<1>2. CASE Apply(item)
  <2>1. FileAction(Owner, RootKey)
    BY <1>2, ApplyIsFileAction
  <2>2. TypeOK'
    BY <1>1, <2>1, FileTyped
  <2>3. Settle(item) /\ last' = item
    BY <1>2 DEF Apply
  <2>4. QED
    BY <1>1, <2>2, <2>3, SettleTyped DEF FsTypeOK
<1>3. CASE Reject(item) \/ Lose(item)
  <2>1. Settle(item) /\ UNCHANGED <<service, last>>
    BY <1>3 DEF Reject, Lose
  <2>2. TypeOK'
    BY <1>1, <2>1 DEF TypeOK, service, vars
  <2>3. QED
    BY <2>1, <2>2, SettleTyped DEF FsTypeOK
<1>4. QED
  BY <1>2, <1>3 DEF ChainStep

\* Type correctness of the client and the chain together, for any number of
\* strands whose operations are cut anywhere.
THEOREM FsTypeCorrect == FsSpec => []FsTypeOK
<1>1. FsTypeOK /\ [FsNext]_fsVars => FsTypeOK'
  <2>1. ASSUME FsTypeOK, FsNext PROVE FsTypeOK'
    BY <2>1, ClientTyped, ChainTyped DEF FsNext
  <2>2. ASSUME FsTypeOK, UNCHANGED fsVars PROVE FsTypeOK'
    BY <2>2 DEF FsTypeOK, TypeOK, fsVars, service, vars
  <2>3. QED
    BY <2>1, <2>2
<1>2. QED
  BY <1>1, FsInitTyped, PTL DEF FsSpec

-----------------------------------------------------------------------------
(* Content is stored before any metadata mentions it. *)

\* What a strand has behind it at each stage.  A write reaches "index" only
\* through "content", and no other operation passes there.
Phased ==
  \A c \in Clients :
    LET r == clients[c].req IN
    /\ clients[c].pc = "parent" => r.op # "remove"
    /\ clients[c].pc = "target" => r.op # "write"
    /\ clients[c].pc \in {"listing", "statting"} => r.op = "remove"
    /\ clients[c].pc = "fromIndex" => r.op = "rename"
    /\ clients[c].pc = "content" => r.op = "write"
    /\ clients[c].pc = "index" /\ r.op = "write" => r.content \in store

StoredInv == FsTypeOK /\ Phased /\ ContentStored

LEMMA ClientPhased ==
  ASSUME StoredInv, NEW c \in Clients,
         (\E r \in Requests : Begin(c, r)) \/ ClientStep(c) \/ StepFails(c) \/ GiveUp(c)
  PROVE  Phased'
<1>t. /\ clients \in [Clients -> Client] /\ Phased
      /\ \A d \in Clients : clients[d].pc # "idle" => clients[d].req \in Requests
  BY DEF StoredInv, FsTypeOK
<1>i. Idle.pc = "idle"
  BY DEF Fresh, Idle
<1>s. ASSUME Stop(c), store' = store
      PROVE  Phased'
  BY <1>t, <1>i, <1>s DEF Stop, Phased
<1>1. ASSUME NEW r \in Requests, Begin(c, r)
      PROVE  Phased'
  BY <1>1, <1>t, RequestTyped DEF Begin, Fresh, Phased
<1>2. CASE ReadParent(c)
  BY <1>2, <1>s, <1>t, RequestTyped DEF ReadParent, Goto, AfterParent, Phased, Client
<1>3. CASE ReadTarget(c)
  BY <1>3, <1>s, <1>t, RequestTyped DEF ReadTarget, Goto, AfterTarget, Phased, Client
<1>4. CASE ReadListing(c)
  BY <1>4, <1>t DEF ReadListing, Phased, Client
<1>5. ASSUME NEW p \in Paths, StatEntry(c, p)
      PROVE  Phased'
  BY <1>5, <1>t DEF StatEntry, Phased, Client
<1>6. CASE EndListing(c)
  BY <1>6, <1>s, <1>t DEF EndListing, Goto, Phased, Client
<1>7. CASE PutContent(c)
  BY <1>7, <1>t DEF PutContent, Goto, Phased, Client
<1>8. CASE ReadFromIndex(c)
  BY <1>8, <1>t DEF ReadFromIndex, Phased, Client
<1>9. CASE Submit(c)
  BY <1>9, <1>s, <1>t DEF Submit, Goto, Phased, Client
<1>10. CASE StepFails(c) \/ GiveUp(c)
  BY <1>10, <1>s DEF StepFails, GiveUp
<1>11. QED
  BY <1>1, <1>2, <1>3, <1>4, <1>5, <1>6, <1>7, <1>8, <1>9, <1>10 DEF ClientStep

LEMMA ClientKeepsStored ==
  ASSUME StoredInv, NEW c \in Clients,
         (\E r \in Requests : Begin(c, r)) \/ ClientStep(c) \/ StepFails(c) \/ GiveUp(c)
  PROVE  ContentStored'
<1>1. nodes' = nodes /\ store \subseteq store'
  BY DEF ClientStep, Begin, ReadParent, ReadTarget, ReadListing, StatEntry, EndListing,
         PutContent, ReadFromIndex, Submit, StepFails, GiveUp, service, vars
<1>2. CASE inbox' = inbox
  BY <1>1, <1>2 DEF StoredInv, ContentStored
<1>3. CASE Submit(c)
  <2>1. \A item \in inbox' \ inbox :
          item.req = clients[c].req /\ clients[c].pc = "index"
    BY <1>3 DEF Submit
  <2>2. \A item \in inbox' : item.req.op = "write" => item.req.content \in store
    BY <2>1 DEF StoredInv, ContentStored, Phased
  <2>3. QED
    BY <1>1, <2>2 DEF StoredInv, ContentStored
<1>4. QED
  BY <1>2, <1>3 DEF ClientStep, Begin, ReadParent, ReadTarget, ReadListing, StatEntry,
         EndListing, PutContent, ReadFromIndex, StepFails, GiveUp

LEMMA ChainPhased ==
  ASSUME StoredInv, NEW item \in inbox, ChainStep(item) \/ Lose(item)
  PROVE  Phased'
<1>1. Settle(item)
  BY DEF ChainStep, Apply, Reject, Lose
<1>2. Idle.pc = "idle"
  BY DEF Fresh, Idle
<1>3. \A c \in Clients : clients'[c] = clients[c] \/ clients'[c] = Idle
  BY <1>1 DEF Settle, StoredInv, FsTypeOK
<1>4. store' = store
  BY <1>1 DEF Settle
<1>5. QED
  BY <1>2, <1>3, <1>4 DEF StoredInv, Phased

\* A file the chain makes, moves or removes has content the store holds.
LEMMA AppliedFilesStored ==
  ASSUME StoredInv, NEW item \in inbox, Apply(item), NEW p \in Paths,
         nodes'[p] # None, nodes'[p].kind = "file"
  PROVE  nodes'[p].content \in store
<1> DEFINE r == item.req
<1>t. /\ nodes \in [Paths -> NodeMetadata \cup {None}]
      /\ r \in Requests
      /\ \A q \in Paths : nodes[q] # None /\ nodes[q].kind = "file"
                            => nodes[q].content \in store
      /\ r.op = "write" => r.content \in store
  BY DEF StoredInv, FsTypeOK, TypeOK, Item, ContentStored
<1>r. r.path \in Paths /\ r.to \in Paths
  BY <1>t, RequestTyped
<1>1. ASSUME WriteFile(Owner, RootKey, r.path, ParentOf[r.path], r.content, item.entries),
             r.op = "write"
      PROVE  nodes'[p].content \in store
  BY <1>1, <1>t, <1>r DEF WriteFile, Node
<1>2. CASE Mkdir(Owner, RootKey, r.path, ParentOf[r.path], item.entries)
  BY <1>2, <1>t, <1>r DEF Mkdir, Directory, Node
<1>3. CASE RemoveNode(Owner, RootKey, r.path, item.entries)
  <2>1. nodes[r.path] \in NodeMetadata
    BY <1>3, <1>t, <1>r DEF RemoveNode, MayRemove, Live
  <2>2. /\ Tombstone(nodes[r.path]).kind = nodes[r.path].kind
        /\ Tombstone(nodes[r.path]).content = nodes[r.path].content
    BY <2>1 DEF Tombstone, NodeMetadata
  <2>3. nodes[r.path] # None
    BY <1>3 DEF RemoveNode, MayRemove, Live
  <2>4. QED
    BY <1>3, <2>2, <2>3, <1>t, <1>r DEF RemoveNode
<1>4. CASE RenameFile(Owner, RootKey, r.path, r.to, ParentOf[r.path], ParentOf[r.to],
                      item.fromEntries, item.entries)
  <2>1. nodes[r.path] # None /\ nodes[r.path].kind = "file"
    BY <1>4 DEF RenameFile, MayRename, LiveFile, Live
  <2>2. nodes[r.path].content \in store /\ nodes[r.path] \in NodeMetadata
    BY <2>1, <1>t, <1>r
  <2>3. Tombstone(nodes[r.path]).content = nodes[r.path].content
    BY <2>2 DEF Tombstone, NodeMetadata
  <2>4. QED
    BY <1>4, <2>2, <2>3, <1>t, <1>r DEF RenameFile, Node
<1>5. QED
  BY <1>1, <1>2, <1>3, <1>4 DEF Apply

LEMMA ChainKeepsStored ==
  ASSUME StoredInv, NEW item \in inbox, ChainStep(item) \/ Lose(item)
  PROVE  ContentStored'
<1>1. store' = store /\ inbox' \subseteq inbox
  BY DEF ChainStep, Apply, Reject, Lose, Settle
<1>2. \A p \in Paths : nodes'[p] # None /\ nodes'[p].kind = "file"
                         => nodes'[p].content \in store
  <2>1. CASE Apply(item)
    BY <2>1, AppliedFilesStored
  <2>2. CASE nodes' = nodes
    BY <2>2 DEF StoredInv, ContentStored
  <2>3. QED
    BY <2>1, <2>2 DEF ChainStep, Reject, Lose, service, vars
<1>3. QED
  BY <1>1, <1>2 DEF StoredInv, ContentStored

\* The invariant that carries ContentStored holds in every reachable state.
LEMMA StoredInvHolds == FsSpec => []StoredInv
<1>1. FsInit => StoredInv
  <2> SUFFICES ASSUME FsInit PROVE Phased /\ ContentStored
    BY FsInitTyped DEF StoredInv
  <2>1. \A c \in Clients : clients[c].pc = "idle"
    BY DEF FsInit, Fresh, Idle
  <2>2. \A p \in Paths : nodes[p] # None => nodes[p].kind = "directory"
    BY DEF FsInit, Directory, Node
  <2>3. QED
    BY <2>1, <2>2 DEF FsInit, Phased, ContentStored
<1>2. StoredInv /\ [FsNext]_fsVars => StoredInv'
  <2>1. ASSUME StoredInv, FsNext PROVE StoredInv'
    <3>1. FsTypeOK'
      BY <2>1, ClientTyped, ChainTyped DEF FsNext, StoredInv
    <3>2. Phased' /\ ContentStored'
      BY <2>1, ClientPhased, ClientKeepsStored, ChainPhased, ChainKeepsStored DEF FsNext
    <3>3. QED
      BY <3>1, <3>2 DEF StoredInv
  <2>2. ASSUME StoredInv, UNCHANGED fsVars PROVE StoredInv'
    BY <2>2 DEF StoredInv, FsTypeOK, TypeOK, Phased, ContentStored, fsVars, service, vars
  <2>3. QED
    BY <2>1, <2>2
<1>3. QED
  BY <1>1, <1>2, PTL DEF FsSpec

\* No file, live or removed, and no write on its way names bytes that the
\* content provider was not given, however operations interleave and fail.
THEOREM ContentIsStored == FsSpec => []ContentStored
<1>1. StoredInv => ContentStored
  BY DEF StoredInv
<1>2. QED
  BY <1>1, StoredInvHolds, PTL

-----------------------------------------------------------------------------
(* Indexes and records. *)

\* Of the paths in dir, names has recorded ones only, and perhaps new.
OnlyRecorded(dir, names, new) ==
  \A p \in Paths \ {Root, NoPath} :
    ParentOf[p] = dir /\ NameOf[p] \in names => nodes[p] # None \/ p = new

\* The directory whose index an operation changes, and the path it makes.
Into(r) == IF r.op = "rename" THEN ParentOf[r.to] ELSE ParentOf[r.path]
Makes(r) == CASE r.op \in {"write", "mkdir"} -> r.path
              [] r.op = "rename" -> r.to
              [] r.op = "remove" -> NoPath

\* What the indexes an action carries say of its own paths.
SaysItself(r, entries, fromEntries) ==
  /\ NoName \notin entries \cup fromEntries
  /\ r.op \in {"write", "mkdir"} /\ r.path \notin {Root, NoPath} => NameOf[r.path] \in entries
  /\ r.op = "remove" => NameOf[r.path] \notin entries
  /\ r.op = "rename" =>
       /\ NameOf[r.path] \notin fromEntries
       /\ NameOf[r.path] # NameOf[r.to] => NameOf[r.path] \notin entries
       /\ r.to \notin {Root, NoPath} => NameOf[r.to] \in entries

\* What an action in flight carries stays true of the nodes until it is applied.
ItemSound(item) ==
  /\ OnlyRecorded(Into(item.req), item.entries, Makes(item.req))
  /\ OnlyRecorded(ParentOf[item.req.path], item.fromEntries, NoPath)
  /\ SaysItself(item.req, item.entries, item.fromEntries)

\* The index a moving strand has read leaves out the entry it moves.
ClientSound(client) ==
  client.pc # "idle" =>
    /\ OnlyRecorded(ParentOf[client.req.path], client.fromEntries, NoPath)
    /\ NameOf[client.req.path] \notin client.fromEntries

\* A recorded node says the directory its path is in.
ParentsSaid == \A p \in Paths \ {Root} : nodes[p] # None => nodes[p].parent = ParentOf[p]

TreeInv ==
  /\ FsTypeOK /\ NodesSayTheirPath /\ ParentsSaid /\ EntriesAreRecorded
  /\ \A c \in Clients : ClientSound(clients[c])
  /\ \A item \in inbox : ItemSound(item)

LEMMA ListedRecorded ==
  ASSUME EntriesAreRecorded, NEW dir
  PROVE  OnlyRecorded(dir, Listed(dir), NoPath)
BY DEF EntriesAreRecorded, OnlyRecorded

\* How a strand's step changes the strands.
LEMMA ClientMoves ==
  ASSUME FsTypeOK, NEW c \in Clients,
         (\E r \in Requests : Begin(c, r)) \/ ClientStep(c) \/ StepFails(c) \/ GiveUp(c)
  PROVE  \A d \in Clients :
           \/ clients'[d] = clients[d]
           \/ clients'[d].pc = "idle" \/ clients'[d].fromEntries = {}
           \/ /\ clients[d].pc # "idle" /\ clients'[d].req = clients[d].req
              /\ clients'[d].fromEntries \in
                   {clients[d].fromEntries,
                    Listed(ParentOf[clients[d].req.path]) \ {NameOf[clients[d].req.path]}}
<1>t. clients \in [Clients -> Client] /\ clients[c] \in Client
  BY DEF FsTypeOK
<1>i. Idle.pc = "idle"
  BY DEF Fresh, Idle
<1>s. CASE Stop(c)
  BY <1>s, <1>t, <1>i DEF Stop
<1>g. ASSUME NEW pc \in Stages, Goto(c, pc), clients[c].pc # "idle"
      PROVE  /\ \A d \in Clients \ {c} : clients'[d] = clients[d]
             /\ clients'[c].req = clients[c].req
             /\ clients'[c].fromEntries = clients[c].fromEntries
  BY <1>g, <1>t DEF Goto, Client
<1>1. ASSUME NEW r \in Requests, Begin(c, r)
      PROVE  clients'[c].fromEntries = {} /\ \A d \in Clients \ {c} : clients'[d] = clients[d]
  BY <1>1, <1>t DEF Begin, Fresh
<1>2. CASE ReadParent(c) \/ ReadTarget(c) \/ EndListing(c) \/ PutContent(c) \/ Submit(c)
  <2>1. clients[c].pc # "idle"
    BY <1>2 DEF ReadParent, ReadTarget, EndListing, PutContent, Submit
  <2>2. Stop(c) \/ \E pc \in Stages : Goto(c, pc)
    <3>1. \A r : AfterParent(r) \in Stages /\ AfterTarget(r) \in Stages
      BY DEF AfterParent, AfterTarget, Stages
    <3>2. QED
      BY <1>2, <3>1 DEF ReadParent, ReadTarget, EndListing, PutContent, Submit, Stages
  <2>3. QED
    BY <1>s, <1>g, <2>1, <2>2
<1>3. CASE ReadListing(c) \/ \E p \in Paths : StatEntry(c, p)
  <2>1. /\ \A d \in Clients \ {c} : clients'[d] = clients[d]
        /\ clients[c].pc # "idle" /\ clients'[c].req = clients[c].req
        /\ clients'[c].fromEntries = clients[c].fromEntries
    <3>1. CASE ReadListing(c)
      BY <3>1, <1>t DEF ReadListing, Client
    <3>2. ASSUME NEW p \in Paths, StatEntry(c, p)
          PROVE  /\ \A d \in Clients \ {c} : clients'[d] = clients[d]
                 /\ clients[c].pc # "idle" /\ clients'[c].req = clients[c].req
                 /\ clients'[c].fromEntries = clients[c].fromEntries
      BY <3>2, <1>t DEF StatEntry, Client
    <3>3. QED
      BY <1>3, <3>1, <3>2
  <2>2. QED
    BY <2>1
<1>4. CASE ReadFromIndex(c)
  <2>1. /\ \A d \in Clients \ {c} : clients'[d] = clients[d]
        /\ clients[c].pc # "idle" /\ clients'[c].req = clients[c].req
        /\ clients'[c].fromEntries =
             Listed(ParentOf[clients[c].req.path]) \ {NameOf[clients[c].req.path]}
    BY <1>4, <1>t DEF ReadFromIndex, Client
  <2>2. QED
    BY <2>1
<1>5. CASE StepFails(c) \/ GiveUp(c)
  BY <1>5, <1>s DEF StepFails, GiveUp
<1>6. QED
  BY <1>1, <1>2, <1>3, <1>4, <1>5 DEF ClientStep

LEMMA ClientSubmits ==
  ASSUME NEW c \in Clients,
         (\E r \in Requests : Begin(c, r)) \/ ClientStep(c) \/ StepFails(c) \/ GiveUp(c)
  PROVE  /\ UNCHANGED <<nodes, directoryIndexes, last>>
         /\ \A item \in inbox' \ inbox :
              /\ clients[c].pc = "index" /\ item.req = clients[c].req
              /\ item.entries = Encoded(NewEntries(clients[c].req))
              /\ item.fromEntries = Encoded(clients[c].fromEntries)
<1>1. UNCHANGED <<nodes, directoryIndexes, last>>
  BY DEF ClientStep, Begin, ReadParent, ReadTarget, ReadListing, StatEntry, EndListing,
         PutContent, ReadFromIndex, Submit, StepFails, GiveUp, service, vars
<1>2. CASE Submit(c)
  BY <1>1, <1>2 DEF Submit
<1>3. CASE inbox' = inbox
  BY <1>1, <1>3
<1>4. QED
  BY <1>2, <1>3 DEF ClientStep, Begin, ReadParent, ReadTarget, ReadListing, StatEntry,
         EndListing, PutContent, ReadFromIndex, StepFails, GiveUp

\* An action is submitted with indexes that fit its request.
LEMMA SubmittedSound ==
  ASSUME TreeInv, NEW c \in Clients, clients[c].pc = "index", NEW item,
         item.req = clients[c].req,
         item.entries = Encoded(NewEntries(clients[c].req)),
         item.fromEntries = Encoded(clients[c].fromEntries)
  PROVE  ItemSound(item)
<1> DEFINE r == clients[c].req
<1>1. /\ r \in Requests /\ r.op \in {"write", "mkdir", "remove", "rename"}
      /\ r.path \in Paths /\ r.to \in Paths
  BY RequestTyped DEF TreeInv, FsTypeOK
<1>2. /\ OnlyRecorded(ParentOf[r.path], clients[c].fromEntries, NoPath)
      /\ NameOf[r.path] \notin clients[c].fromEntries
  BY DEF TreeInv, ClientSound
<1>3. OnlyRecorded(ParentOf[r.path], item.fromEntries, NoPath)
  BY <1>2 DEF OnlyRecorded, Encoded
<1>4. OnlyRecorded(Into(r), Listed(Into(r)), NoPath)
  BY ListedRecorded DEF TreeInv
<1>5. OnlyRecorded(Into(r), item.entries, Makes(r))
  <2>1. SUFFICES ASSUME NEW p \in Paths \ {Root, NoPath}, ParentOf[p] = Into(r),
                        NameOf[p] \in NewEntries(r), NameOf[p] # NoName, nodes[p] = None
                 PROVE  p = Makes(r)
    BY DEF OnlyRecorded, Encoded
  <2>2. NameOf[p] \notin Listed(Into(r))
    BY <1>4, <2>1 DEF OnlyRecorded
  <2>3. CASE r.op \in {"write", "mkdir"}
    <3>1. NameOf[p] = NameOf[r.path] /\ ParentOf[p] = ParentOf[r.path]
      BY <2>1, <2>2, <2>3 DEF NewEntries, Into
    <3>2. r.path \notin {Root, NoPath}
      BY <2>1, <3>1, PathsAssumption
    <3>3. QED
      BY <1>1, <2>3, <3>1, <3>2, PathsAssumption DEF Makes
  <2>4. CASE r.op = "remove"
    BY <2>1, <2>2, <2>4 DEF NewEntries, Into
  <2>5. CASE r.op = "rename"
    <3>1. NameOf[p] = NameOf[r.to] /\ ParentOf[p] = ParentOf[r.to]
      BY <2>1, <2>2, <2>5 DEF NewEntries, Into
    <3>2. r.to \notin {Root, NoPath}
      BY <2>1, <3>1, PathsAssumption
    <3>3. QED
      BY <1>1, <2>5, <3>1, <3>2, PathsAssumption DEF Makes
  <2>6. QED
    BY <1>1, <2>3, <2>4, <2>5
<1>6. SaysItself(r, item.entries, item.fromEntries)
  BY <1>1, <1>2, PathsAssumption DEF SaysItself, Encoded, NewEntries
<1>7. QED
  BY <1>3, <1>5, <1>6 DEF ItemSound

LEMMA ClientKeepsTree ==
  ASSUME TreeInv, NEW c \in Clients, FsTypeOK',
         (\E r \in Requests : Begin(c, r)) \/ ClientStep(c) \/ StepFails(c) \/ GiveUp(c)
  PROVE  TreeInv'
<1>1. /\ FsTypeOK /\ EntriesAreRecorded /\ UNCHANGED <<nodes, directoryIndexes>>
      /\ \A d \in Clients : ClientSound(clients[d])
      /\ \A item \in inbox : ItemSound(item)
  BY ClientSubmits DEF TreeInv
<1>2. NodesSayTheirPath' /\ ParentsSaid' /\ EntriesAreRecorded'
  BY <1>1 DEF TreeInv, NodesSayTheirPath, ParentsSaid, EntriesAreRecorded, Listed
<1>3. \A dir, names, new : OnlyRecorded(dir, names, new) => OnlyRecorded(dir, names, new)'
  BY <1>1 DEF OnlyRecorded
<1>4. ASSUME NEW d \in Clients PROVE ClientSound(clients[d])'
  <2>1. CASE clients'[d] = clients[d]
    BY <1>1, <1>3, <2>1 DEF ClientSound
  <2>2. CASE clients'[d].pc = "idle" \/ clients'[d].fromEntries = {}
    BY <2>2 DEF ClientSound, OnlyRecorded
  <2>3. CASE /\ clients[d].pc # "idle" /\ clients'[d].req = clients[d].req
             /\ clients'[d].fromEntries = clients[d].fromEntries
    BY <1>1, <1>3, <2>3 DEF ClientSound
  <2>4. CASE /\ clients'[d].req = clients[d].req
             /\ clients'[d].fromEntries =
                  Listed(ParentOf[clients[d].req.path]) \ {NameOf[clients[d].req.path]}
    <3>1. OnlyRecorded(ParentOf[clients[d].req.path],
                       Listed(ParentOf[clients[d].req.path]), NoPath)
      BY <1>1, ListedRecorded
    <3>2. OnlyRecorded(ParentOf[clients[d].req.path], clients'[d].fromEntries, NoPath)
      BY <3>1, <2>4 DEF OnlyRecorded
    <3>3. QED
      BY <1>3, <2>4, <3>2 DEF ClientSound
  <2>5. QED
    BY <1>1, <2>1, <2>2, <2>3, <2>4, ClientMoves
<1>5. ASSUME NEW item \in inbox' PROVE ItemSound(item)'
  <2>1. ItemSound(item)
    BY <1>1, ClientSubmits, SubmittedSound
  <2>2. QED
    BY <1>3, <2>1 DEF ItemSound
<1>6. QED
  BY <1>2, <1>4, <1>5 DEF TreeInv

\* What applying an action makes of the records.
LEMMA AppliedRecords ==
  ASSUME TreeInv, NEW item \in inbox, Apply(item)
  PROVE  /\ NodesSayTheirPath' /\ ParentsSaid'
         /\ \A p \in Paths : nodes[p] # None => nodes'[p] # None
         /\ Makes(item.req) # NoPath => nodes'[Makes(item.req)] # None
<1> DEFINE r == item.req
<1>1. /\ FsTypeOK /\ NodesSayTheirPath /\ ParentsSaid
      /\ nodes \in [Paths -> NodeMetadata \cup {None}]
      /\ r \in Requests /\ r.op \in {"write", "mkdir", "remove", "rename"}
      /\ r.path \in Paths /\ r.to \in Paths
  BY RequestTyped DEF TreeInv, FsTypeOK, TypeOK, Item
<1>2. FileAction(Owner, RootKey)
  BY <1>1, ApplyIsFileAction
<1>3. NodesSayTheirPath' /\ \A p \in Paths : nodes[p] # None => nodes'[p] # None
  BY <1>1, <1>2, NodesKept DEF Next, FsTypeOK, NodeKept
<1>4. /\ \A path, parent, kind, content :
           /\ Node(path, kind, parent, content).parent = parent
           /\ Directory(path, parent).parent = parent
      /\ \A node \in NodeMetadata : Tombstone(node).parent = node.parent /\ node # None
  BY DEF Node, Directory, Tombstone, NodeMetadata
<1>5. CASE r.op \in {"write", "mkdir"}
  <2>1. PICK node \in NodeMetadata : /\ node.parent = ParentOf[r.path]
                                    /\ nodes' = [nodes EXCEPT ![r.path] = node]
    <3>1. CASE r.op = "write"
      <4>1. Node(r.path, "file", ParentOf[r.path], r.content) \in NodeMetadata
        BY <1>1, RequestTyped, NodeTyped
      <4>2. QED
        BY <1>4, <3>1, <4>1 DEF Apply, WriteFile
    <3>2. CASE r.op = "mkdir"
      <4>1. Directory(r.path, ParentOf[r.path]) \in NodeMetadata
        BY <1>1, RequestTyped, NodeTyped DEF Directory
      <4>2. QED
        BY <1>4, <3>2, <4>1 DEF Apply, Mkdir
    <3>3. QED
      BY <1>5, <3>1, <3>2
  <2>2. ParentsSaid' /\ nodes'[r.path] # None
    BY <1>1, <1>4, <2>1 DEF ParentsSaid
  <2>3. QED
    BY <1>3, <1>5, <2>2 DEF Makes
<1>6. CASE r.op = "remove"
  <2>1. nodes[r.path] \in NodeMetadata /\ nodes' = [nodes EXCEPT ![r.path] = Tombstone(nodes[r.path])]
    BY <1>1, <1>6 DEF Apply, RemoveNode, MayRemove, Live
  <2>2. ParentsSaid'
    BY <1>1, <1>4, <2>1 DEF ParentsSaid
  <2>3. QED
    BY <1>3, <1>6, <2>2 DEF Makes
<1>7. CASE r.op = "rename"
  <2>1. PICK node \in NodeMetadata :
          /\ node.parent = ParentOf[r.to]
          /\ nodes[r.path] \in NodeMetadata
          /\ nodes' = [nodes EXCEPT ![r.to] = node, ![r.path] = Tombstone(nodes[r.path])]
    <3>1. nodes[r.path] \in NodeMetadata
      BY <1>1, <1>7 DEF Apply, RenameFile, MayRename, LiveFile, Live
    <3>2. Node(r.to, nodes[r.path].kind, ParentOf[r.to], nodes[r.path].content) \in NodeMetadata
      BY <1>1, <3>1, RequestTyped, NodeTyped DEF NodeMetadata
    <3>3. QED
      BY <1>4, <1>7, <3>1, <3>2 DEF Apply, RenameFile
  <2>2. Tombstone(nodes[r.path]) \in NodeMetadata
    BY <2>1, TombstoneTyped
  <2>3. ParentsSaid' /\ nodes'[r.to] # None
    BY <1>1, <1>4, <2>1, <2>2 DEF ParentsSaid
  <2>4. QED
    BY <1>3, <1>7, <2>3 DEF Makes
<1>8. QED
  BY <1>1, <1>5, <1>6, <1>7

\* What it makes of the indexes.
LEMMA AppliedIndexes ==
  ASSUME TreeInv, NEW item \in inbox, Apply(item)
  PROVE  /\ Listed(Into(item.req))' = item.entries
         /\ item.req.op = "rename" /\ ParentOf[item.req.path] # ParentOf[item.req.to] =>
              Listed(ParentOf[item.req.path])' = item.fromEntries
         /\ item.req.op = "mkdir" => Listed(item.req.path)' = {}
         /\ \A d \in Paths \ {Into(item.req)} :
              \/ Listed(d)' = Listed(d)
              \/ item.req.op = "mkdir" /\ d = item.req.path /\ Listed(d)' = {}
              \/ /\ item.req.op = "rename" /\ d = ParentOf[item.req.path]
                 /\ Listed(d)' = item.fromEntries
<1> DEFINE r == item.req
<1>1. /\ directoryIndexes \in [Paths -> Index(Names) \cup {None}]
      /\ nodes \in [Paths -> NodeMetadata \cup {None}] /\ NodesSayTheirPath /\ ParentsSaid
      /\ r.op \in {"write", "mkdir", "remove", "rename"}
      /\ r.path \in Paths /\ r.to \in Paths
      /\ ParentOf[r.path] \in Paths /\ ParentOf[r.to] \in Paths
      /\ item.entries \in SUBSET Names /\ item.fromEntries \in SUBSET Names
  BY RequestTyped DEF TreeInv, FsTypeOK, TypeOK, Item
<1>2. \A names \in SUBSET Names : [entries |-> names] # None
  BY IndexIsRecord
<1>3. CASE r.op = "write"
  <2>1. directoryIndexes' = [directoryIndexes EXCEPT ![ParentOf[r.path]] = [entries |-> item.entries]]
    BY <1>3 DEF Apply, WriteFile
  <2>2. QED
    BY <1>1, <1>2, <1>3, <2>1 DEF Into, Listed
<1>4. CASE r.op = "mkdir"
  <2>1. /\ directoryIndexes' = [directoryIndexes EXCEPT
             ![r.path] = [entries |-> {}], ![ParentOf[r.path]] = [entries |-> item.entries]]
        /\ r.path \notin {NoPath, Root}
    BY <1>4 DEF Apply, Mkdir, MayCreate
  <2>2. ParentOf[r.path] # r.path
    BY <1>1, <2>1, PathsAssumption
  <2>3. QED
    BY <1>1, <1>2, <1>4, <2>1, <2>2 DEF Into, Listed
<1>5. CASE r.op = "remove"
  <2>1. /\ directoryIndexes' = [directoryIndexes EXCEPT
             ![nodes[r.path].parent] = [entries |-> item.entries]]
        /\ nodes[r.path] # None /\ nodes[r.path].path # Root
    BY <1>5 DEF Apply, RemoveNode, MayRemove, Live
  <2>2. nodes[r.path].parent = ParentOf[r.path]
    BY <1>1, <2>1 DEF NodesSayTheirPath, ParentsSaid
  <2>3. QED
    BY <1>1, <1>2, <1>5, <2>1, <2>2 DEF Into, Listed
<1>6. CASE r.op = "rename"
  <2>1. directoryIndexes' = [directoryIndexes EXCEPT
             ![ParentOf[r.path]] = [entries |-> item.fromEntries],
             ![ParentOf[r.to]] = [entries |-> item.entries]]
    BY <1>6 DEF Apply, RenameFile
  <2>2. QED
    BY <1>1, <1>2, <1>6, <2>1 DEF Into, Listed
<1>7. QED
  BY <1>1, <1>3, <1>4, <1>5, <1>6

LEMMA ChainKeepsTree ==
  ASSUME TreeInv, NEW item \in inbox, FsTypeOK', ChainStep(item) \/ Lose(item)
  PROVE  TreeInv'
<1>1. Settle(item)
  BY DEF ChainStep, Apply, Reject, Lose
<1>2. inbox' \subseteq inbox /\ \A c \in Clients : clients'[c] = clients[c] \/ clients'[c].pc = "idle"
  BY <1>1 DEF Settle, TreeInv, FsTypeOK, Fresh, Idle
<1>3. /\ NodesSayTheirPath' /\ ParentsSaid' /\ EntriesAreRecorded'
      /\ \A p \in Paths : nodes[p] # None => nodes'[p] # None
  <2>1. CASE UNCHANGED <<nodes, directoryIndexes>>
    BY <2>1 DEF TreeInv, NodesSayTheirPath, ParentsSaid, EntriesAreRecorded, Listed
  <2>2. CASE Apply(item)
    <3>1. ItemSound(item) /\ EntriesAreRecorded
      BY DEF TreeInv
    <3>2. /\ NodesSayTheirPath' /\ ParentsSaid'
          /\ \A p \in Paths : nodes[p] # None => nodes'[p] # None
          /\ Makes(item.req) # NoPath => nodes'[Makes(item.req)] # None
      BY <2>2, AppliedRecords
    <3>3. ASSUME NEW p \in Paths \ {Root, NoPath}, NameOf[p] \in Listed(ParentOf[p])'
          PROVE  nodes'[p] # None
      <4>1. CASE ParentOf[p] = Into(item.req)
        BY <2>2, <3>1, <3>2, <3>3, <4>1, AppliedIndexes DEF ItemSound, OnlyRecorded
      <4>2. CASE /\ ParentOf[p] = ParentOf[item.req.path]
                 /\ Listed(ParentOf[p])' = item.fromEntries
        BY <3>1, <3>2, <3>3, <4>2 DEF ItemSound, OnlyRecorded
      <4>3. CASE Listed(ParentOf[p])' = Listed(ParentOf[p])
        BY <3>1, <3>2, <3>3, <4>3 DEF EntriesAreRecorded
      <4>4. CASE Listed(ParentOf[p])' = {}
        BY <3>3, <4>4
      <4>5. QED
        BY <2>2, <4>1, <4>2, <4>3, <4>4, AppliedIndexes
    <3>4. QED
      BY <3>2, <3>3 DEF EntriesAreRecorded
  <2>3. QED
    BY <2>1, <2>2 DEF ChainStep, Reject, Lose, service, vars
<1>4. \A dir, names, new : OnlyRecorded(dir, names, new) => OnlyRecorded(dir, names, new)'
  BY <1>3 DEF OnlyRecorded
<1>5. ASSUME NEW c \in Clients PROVE ClientSound(clients[c])'
  BY <1>2, <1>4 DEF TreeInv, ClientSound
<1>6. ASSUME NEW x \in inbox' PROVE ItemSound(x)'
  BY <1>2, <1>4 DEF TreeInv, ItemSound
<1>7. QED
  BY <1>3, <1>5, <1>6 DEF TreeInv

LEMMA TreeInvHolds == FsSpec => []TreeInv
<1>1. FsInit => TreeInv
  <2> SUFFICES ASSUME FsInit PROVE TreeInv
    OBVIOUS
  <2>1. FsTypeOK
    BY FsInitTyped
  <2>2. \A p \in Paths : \A parent \in Paths :
          Directory(p, parent).path = p /\ Directory(p, parent).parent = parent
          /\ Directory(p, parent) # None
    <3> SUFFICES ASSUME NEW p \in Paths, NEW parent \in Paths
                 PROVE  /\ Directory(p, parent).path = p /\ Directory(p, parent).parent = parent
                        /\ Directory(p, parent) # None
      OBVIOUS
    <3>1. Directory(p, parent).path = p /\ Directory(p, parent).parent = parent
      BY DEF Directory, Node
    <3>2. Directory(p, parent) \in NodeMetadata
      BY NodeTyped DEF Directory
    <3>3. QED
      BY <3>1, <3>2
  <2>3. NodesSayTheirPath /\ ParentsSaid
    BY <2>2 DEF FsInit, NodesSayTheirPath, ParentsSaid
  <2>4. EntriesAreRecorded
    <3> SUFFICES ASSUME NEW p \in Paths \ {Root, NoPath}, NameOf[p] \in Listed(ParentOf[p])
                 PROVE  nodes[p] # None
      BY DEF EntriesAreRecorded
    <3>1. PICK d \in Made : ParentOf[d] = ParentOf[p] /\ NameOf[d] = NameOf[p]
      BY DEF FsInit, Listed
    <3>2. d = p
      BY <3>1, PathsAssumption
    <3>3. QED
      BY <2>2, <3>2 DEF FsInit
  <2>5. \A c \in Clients : clients[c].pc = "idle"
    BY DEF FsInit, Fresh, Idle
  <2>6. QED
    BY <2>1, <2>3, <2>4, <2>5 DEF TreeInv, ClientSound, FsInit
<1>2. TreeInv /\ [FsNext]_fsVars => TreeInv'
  <2>1. ASSUME TreeInv, FsNext PROVE TreeInv'
    <3>1. FsTypeOK'
      BY <2>1, ClientTyped, ChainTyped DEF FsNext, TreeInv
    <3>2. QED
      BY <2>1, <3>1, ClientKeepsTree, ChainKeepsTree DEF FsNext
  <2>2. ASSUME TreeInv, UNCHANGED fsVars PROVE TreeInv'
    BY <2>2 DEF TreeInv, FsTypeOK, TypeOK, NodesSayTheirPath, ParentsSaid, EntriesAreRecorded,
       Listed, ClientSound, ItemSound, OnlyRecorded, fsVars, service, vars
  <2>3. QED
    BY <2>1, <2>2
<1>3. QED
  BY <1>1, <1>2, PTL DEF FsSpec

\* An index names no path that was never written, though every index stored
\* was built from an older one, whatever other strands did in between.
THEOREM EntriesRecorded == FsSpec => []EntriesAreRecorded
<1>1. TreeInv => EntriesAreRecorded
  BY DEF TreeInv
<1>2. QED
  BY <1>1, TreeInvHolds, PTL

\* An action takes effect whole: its node and the entries for it agree when
\* it is applied, whatever its client had read.  A rename of a file onto
\* itself or onto the root is the exception.
RenamesMove == \A r \in Requests : r.op = "rename" => r.to \notin {Root, NoPath, r.path}

LEMMA ApplyCommits ==
  ASSUME RenamesMove, TreeInv, NEW item \in inbox, Apply(item)
  PROVE  Committed(item.req)'
<1> DEFINE r == item.req
<1>1. /\ nodes \in [Paths -> NodeMetadata \cup {None}]
      /\ r \in Requests /\ r.op \in {"write", "mkdir", "remove", "rename"}
      /\ r.path \in Paths /\ r.to \in Paths
      /\ SaysItself(r, item.entries, item.fromEntries)
  BY RequestTyped DEF TreeInv, FsTypeOK, TypeOK, Item, ItemSound
<1>2. /\ Listed(Into(r))' = item.entries
      /\ r.op = "rename" /\ ParentOf[r.path] # ParentOf[r.to] =>
           Listed(ParentOf[r.path])' = item.fromEntries
      /\ r.op = "mkdir" => Listed(r.path)' = {}
  BY AppliedIndexes
<1>3. Makes(r) # NoPath => nodes'[Makes(r)] # None
  BY AppliedRecords
<1>4. CASE r.op = "write"
  <2>1. /\ nodes'[r.path].content = r.content /\ ~nodes'[r.path].removed
        /\ r.path \notin {NoPath, Root}
    BY <1>1, <1>4 DEF Apply, WriteFile, MayCreate, Node
  <2>2. QED
    BY <1>1, <1>2, <1>3, <1>4, <2>1 DEF Committed, Present, Live, SaysItself, Into, Makes
<1>5. CASE r.op = "mkdir"
  <2>1. ~nodes'[r.path].removed /\ r.path \notin {NoPath, Root}
    BY <1>1, <1>5 DEF Apply, Mkdir, MayCreate, Directory, Node
  <2>2. QED
    BY <1>1, <1>2, <1>3, <1>5, <2>1 DEF Committed, Present, Live, SaysItself, Into, Makes
<1>6. CASE r.op = "remove"
  <2>1. nodes'[r.path].removed
    BY <1>1, <1>6 DEF Apply, RemoveNode, MayRemove, Live, Tombstone, NodeMetadata
  <2>2. QED
    BY <1>1, <1>2, <1>6, <2>1 DEF Committed, Absent, Live, SaysItself, Into
<1>7. CASE r.op = "rename"
  <2>1. r.to \notin {Root, NoPath, r.path}
    BY <1>1, <1>7 DEF RenamesMove
  <2>2. nodes'[r.path].removed /\ ~nodes'[r.to].removed
    BY <1>1, <1>7, <2>1 DEF Apply, RenameFile, MayRename, LiveFile, Live, Tombstone, Node, NodeMetadata
  <2>3. NameOf[r.to] \in item.entries /\ NameOf[r.path] \notin item.fromEntries
    BY <1>1, <1>7, <2>1 DEF SaysItself
  <2>4. ParentOf[r.path] = ParentOf[r.to] => NameOf[r.path] \notin item.entries
    <3>1. SUFFICES ASSUME ParentOf[r.path] = ParentOf[r.to], NameOf[r.path] = NameOf[r.to]
                   PROVE  FALSE
      BY <1>1, <1>7 DEF SaysItself
    <3>2. r.path \notin {Root, NoPath}
      BY <2>1, <3>1, <1>1, PathsAssumption
    <3>3. QED
      BY <2>1, <3>1, <3>2, <1>1, PathsAssumption
  <2>5. Listed(ParentOf[r.to])' = item.entries
    BY <1>2, <1>7 DEF Into
  <2>6. NameOf[r.path] \notin Listed(ParentOf[r.path])'
    BY <1>2, <1>7, <2>3, <2>4, <2>5
  <2>7. QED
    BY <1>3, <1>7, <2>1, <2>2, <2>3, <2>5, <2>6 DEF Committed, Present, Absent, Live, Makes
<1>8. QED
  BY <1>1, <1>4, <1>5, <1>6, <1>7

\* If no file is renamed onto itself or the root, an action that the chain
\* applies leaves its node and what its directory lists of it both as its
\* operation means, whatever other strands had written since it was read.
THEOREM ActionsApplyWhole == RenamesMove => (FsSpec => AppliedWhole)
<1> SUFFICES ASSUME RenamesMove PROVE FsSpec => AppliedWhole
  OBVIOUS
<1>1. TreeInv /\ [FsNext]_fsVars => [last' # last => Committed(last.req)']_fsVars
  <2> SUFFICES ASSUME TreeInv, FsNext, last' # last PROVE Committed(last.req)'
    BY DEF fsVars
  <2>1. PICK item \in inbox : Apply(item)
    BY ClientSubmits DEF FsNext, ChainStep, Reject, Lose
  <2>2. last' = item
    BY <2>1 DEF Apply
  <2>3. Committed(item.req)'
    BY <2>1, ApplyCommits
  <2>4. QED
    BY <2>2, <2>3
<1>2. QED
  BY <1>1, TreeInvHolds, PTL DEF FsSpec, AppliedWhole

\* To the service the live file system is a user of its file actions.
LEMMA OnlyFileActions == FsTypeOK /\ [FsNext]_fsVars => [FileNext]_vars
<1> SUFFICES ASSUME FsTypeOK, FsNext PROVE [FileNext]_vars
  BY DEF fsVars, service
<1>1. ASSUME NEW c \in Clients, NEW r \in Requests, Begin(c, r) PROVE UNCHANGED vars
  BY <1>1 DEF Begin, service
<1>2. ASSUME NEW c \in Clients, ClientStep(c) PROVE UNCHANGED vars
  BY <1>2 DEF ClientStep, ReadParent, ReadTarget, ReadListing, EndListing, StatEntry,
              PutContent, ReadFromIndex, Submit, service
<1>3. ASSUME NEW c \in Clients, StepFails(c) \/ GiveUp(c) PROVE UNCHANGED vars
  BY <1>3 DEF StepFails, GiveUp, service
<1>4. ASSUME NEW item \in inbox, Reject(item) \/ Lose(item) PROVE UNCHANGED vars
  BY <1>4 DEF Reject, Lose, service
<1>5. ASSUME NEW item \in inbox, Apply(item) PROVE FileNext
  <2>1. FileAction(Owner, RootKey)
    BY <1>5, ApplyIsFileAction
  <2>2. QED
    BY <2>1 DEF FileNext
<1>6. QED
  BY <1>1, <1>2, <1>3, <1>4, <1>5 DEF FsNext, ChainStep

\* Whatever strands submit, every directory keeps an index and every node but
\* the root a recorded parent.
THEOREM LiveTreeIndexed == FsSpec => []DirectoriesIndexed
<1>1. FsInit => DirectoriesIndexed
  <2> SUFFICES ASSUME FsInit, NEW p \in Paths, nodes[p] # None
               PROVE  /\ nodes[p].kind = "directory" => directoryIndexes[p] # None
                      /\ p = Root \/ nodes[nodes[p].parent] # None
    BY DEF DirectoriesIndexed
  <2>1. \A q \in Made \cup {Root} : nodes[q] # None /\ directoryIndexes[q] # None
    <3>1. \A q, d \in Paths : Directory(q, d) # None
      <4>1. \A q, d \in Paths : Directory(q, d) \in NodeMetadata
        BY DEF Directory, Node, NodeMetadata
      <4>2. QED
        BY <4>1
    <3>2. \A q \in Made \cup {Root} : nodes[q] # None
      <4> SUFFICES ASSUME NEW q \in Made \cup {Root} PROVE nodes[q] # None
        OBVIOUS
      <4>1. PICK d \in Paths : nodes[q] = Directory(q, d)
        BY DEF FsInit
      <4>2. QED
        BY <3>1, <4>1
    <3>3. \A q \in Made \cup {Root} : directoryIndexes[q] # None
      <4> SUFFICES ASSUME NEW q \in Made \cup {Root} PROVE directoryIndexes[q] # None
        OBVIOUS
      <4> DEFINE listed == {NameOf[d] : d \in {m \in Made : ParentOf[m] = q}}
      <4>1. listed \in SUBSET Names /\ directoryIndexes[q] = [entries |-> listed]
        BY DEF FsInit
      <4> HIDE DEF listed
      <4>2. QED
        BY <4>1, IndexIsRecord
    <3>4. QED
      BY <3>2, <3>3
  <2>2. p \in Made \cup {Root}
    BY DEF FsInit
  <2>3. p # Root => nodes[p].parent = ParentOf[p] /\ ParentOf[p] \in Made \cup {Root}
    BY <2>2 DEF FsInit, Directory, Node
  <2>4. QED
    BY <2>1, <2>2, <2>3
<1>2. FsTypeOK /\ DirectoriesIndexed /\ [FsNext]_fsVars => DirectoriesIndexed'
  <2> SUFFICES ASSUME FsTypeOK, DirectoriesIndexed, [FsNext]_fsVars PROVE DirectoriesIndexed'
    OBVIOUS
  <2>1. TypeOK /\ [FileNext]_vars
    BY OnlyFileActions DEF FsTypeOK
  <2>2. QED
    BY <2>1, IndexesKeptByFiles
<1>3. QED
  BY <1>1, <1>2, FsTypeCorrect, PTL DEF FsSpec

\* Whatever strands submit, a node comes to life only below a live directory.
THEOREM LiveNodesGrowUnderDirectories == FsSpec => NewNodesHaveADirectory
<1>1. FsTypeOK /\ [FsNext]_fsVars =>
        [\A p \in Paths :
           /\ ~Live(p) /\ Live(p)'
           /\ p # Root
           => LiveDirectory(nodes'[p].parent)]_nodes
  <2> SUFFICES ASSUME FsTypeOK, [FsNext]_fsVars
               PROVE  \A p \in Paths :
                        ~Live(p) /\ Live(p)' /\ p # Root => LiveDirectory(nodes'[p].parent)
    OBVIOUS
  <2>1. TypeOK /\ [FileNext]_vars
    BY OnlyFileActions DEF FsTypeOK
  <2>2. QED
    BY <2>1, BornBelowDirectories
<1>2. QED
  BY <1>1, FsTypeCorrect, PTL DEF FsSpec, NewNodesHaveADirectory

-----------------------------------------------------------------------------
(* Operations kept apart, by users who keep files and directories apart:   *)
(* what a strand has read is still so when its action is applied, whoever  *)
(* else's actions were applied since.                                      *)

\* Where directories are made.
Homes == {Root} \cup Made \cup {r.path : r \in {s \in Requests : s.op = "mkdir"}}

\* No file is put where a directory is made, no directory is removed with
\* what is in it, and a file is moved or renamed, never both at once.
Orderly ==
  \A r \in Requests :
    /\ r.op = "write" => r.path \notin Homes
    /\ r.op = "remove" => ~r.recursive
    /\ r.op = "rename" =>
         /\ r.to \notin Homes \cup {NoPath}
         /\ ParentOf[r.to] = ParentOf[r.path] \/ NameOf[r.to] = NameOf[r.path]

GrownInv ==
  /\ \A p \in Paths : nodes[p] # None /\ nodes[p].kind = "directory" => p \in Homes
  /\ LiveDirectory(Root) /\ ~Live(NoPath)
  /\ \A p \in Paths \ {Root} : Live(p) =>
       LiveDirectory(ParentOf[p]) /\ NameOf[p] \in Listed(ParentOf[p])

Empty(p) == \A q \in Paths \ {Root} : ParentOf[q] = p => ~Live(q)

\* What the action of a request was submitted, or will be, in the light of.
Ready(r) ==
  /\ r.op = "mkdir" => ~Live(r.path)
  /\ r.op = "remove" => ~LiveDirectory(r.path) \/ Empty(r.path)

Without(r) == Listed(ParentOf[r.path]) \ {NameOf[r.path]}

\* What a strand has read is still so.
Knows(client) ==
  /\ client.pc = "statting" =>
       \A p \in Entries(client.req.path) : Live(p) => p \in client.todo \cup client.found
  /\ client.pc = "index" => Ready(client.req)
  /\ client.pc = "index" /\ client.req.op = "rename" => client.fromEntries = Without(client.req)

\* An action on its way carries the indexes it would be given now.
Current(item) ==
  /\ Ready(item.req)
  /\ item.entries = Encoded(NewEntries(item.req))
  /\ item.req.op = "rename" => item.fromEntries = Encoded(Without(item.req))

ApartInv ==
  /\ GrownInv
  /\ \A c \in Clients : Knows(clients[c])
  /\ \A item \in inbox : Current(item)

\* The steps of a strand read the tree and leave it as it is.
LEMMA ViewsStand ==
  ASSUME UNCHANGED <<nodes, directoryIndexes>>
  PROVE  /\ GrownInv => GrownInv'
         /\ \A p : Live(p)' <=> Live(p)
         /\ \A p : LiveDirectory(p)' <=> LiveDirectory(p)
         /\ \A p : Entries(p)' = Entries(p) /\ Listed(p)' = Listed(p)
         /\ \A r : (Ready(r)' <=> Ready(r)) /\ Without(r)' = Without(r)
         /\ \A r : NewEntries(r)' = NewEntries(r)
BY DEF GrownInv, Live, LiveDirectory, Entries, Listed, Ready, Empty, Without, NewEntries

\* The strand goes from old to new and has submitted nothing.
StrandGoes(c, new) ==
  /\ clients' = [clients EXCEPT ![c] = new]
  /\ UNCHANGED <<nodes, directoryIndexes, inbox>>

LEMMA StrandKeeps ==
  ASSUME FsTypeOK, ApartInv, NEW c \in Clients, NEW new, StrandGoes(c, new),
         new.pc = "statting" =>
           \A p \in Entries(new.req.path) : Live(p) => p \in new.todo \cup new.found,
         new.pc = "index" => Ready(new.req),
         new.pc = "index" /\ new.req.op = "rename" => new.fromEntries = Without(new.req)
  PROVE  ApartInv'
<1>1. clients'[c] = new /\ \A d \in Clients \ {c} : clients'[d] = clients[d]
  BY DEF StrandGoes, FsTypeOK
<1>2. UNCHANGED <<nodes, directoryIndexes, inbox>>
  BY DEF StrandGoes
<1>3. ASSUME NEW d \in Clients PROVE Knows(clients[d])'
  BY <1>1, <1>2, ViewsStand DEF Knows, ApartInv
<1>4. ASSUME NEW item \in inbox' PROVE Current(item)'
  BY <1>2, ViewsStand DEF Current, ApartInv
<1>5. QED
  BY <1>2, <1>3, <1>4, ViewsStand DEF ApartInv

LEMMA ClientKeepsApart ==
  ASSUME Orderly, FsTypeOK, Phased, ApartInv, NEW c \in Clients,
         (\E r \in Requests : Begin(c, r)) \/ ClientStep(c) \/ StepFails(c) \/ GiveUp(c)
  PROVE  ApartInv'
<1>t. /\ clients \in [Clients -> Client] /\ clients[c] \in Client /\ Knows(clients[c])
      /\ clients[c].pc # "idle" => clients[c].req \in Requests
      /\ UNCHANGED <<nodes, directoryIndexes>>
  BY ClientSubmits DEF FsTypeOK, ApartInv
<1>i. Idle \in Client /\ Idle.pc = "idle"
  BY IdleTyped DEF Fresh, Idle
<1>s. ASSUME Stop(c), inbox' = inbox
      PROVE  ApartInv'
  BY <1>i, <1>t, <1>s, StrandKeeps DEF Stop, StrandGoes
<1>g. ASSUME NEW pc \in Stages \ {"statting", "waiting"}, Goto(c, pc), inbox' = inbox,
             pc = "index" => /\ Ready(clients[c].req)
                             /\ clients[c].req.op = "rename" =>
                                  clients[c].fromEntries = Without(clients[c].req)
      PROVE  ApartInv'
  <2>1. PICK new \in Client : new = [clients[c] EXCEPT !.pc = pc]
    BY <1>t DEF Client
  <2>2. /\ new.pc = pc /\ new.req = clients[c].req
        /\ new.fromEntries = clients[c].fromEntries
    BY <1>t, <2>1 DEF Client
  <2>3. clients' = [clients EXCEPT ![c] = new]
    BY <1>g, <1>t, <2>1 DEF Goto
  <2>4. QED
    BY <1>g, <1>t, <2>2, <2>3, StrandKeeps DEF StrandGoes
<1>1. ASSUME NEW r \in Requests, Begin(c, r) PROVE ApartInv'
  <2>1. PICK new : new = Fresh(IF r.op \in {"write", "mkdir"} THEN "parent" ELSE "target",
                               r, issued + 1)
    OBVIOUS
  <2>2. new.pc \in {"parent", "target"}
    BY <2>1 DEF Fresh
  <2>3. clients' = [clients EXCEPT ![c] = new] /\ inbox' = inbox /\ clients[c].pc = "idle"
    BY <1>1, <2>1 DEF Begin
  <2>4. new \in Client
    BY <2>1 DEF FsTypeOK, Fresh, Client, Stages
  <2>5. QED
    BY <1>t, <2>2, <2>3, <2>4, StrandKeeps DEF StrandGoes
<1>2. CASE ReadParent(c)
  <2>1. clients[c].pc = "parent" /\ inbox' = inbox
    BY <1>2 DEF ReadParent
  <2>2. clients[c].req.op # "remove"
    BY <2>1 DEF Phased
  <2>3. AfterParent(clients[c].req) \in {"content", "target", "fromIndex"}
    BY <1>t, <2>1, <2>2, RequestTyped DEF AfterParent
  <2>4. QED
    BY <1>2, <1>s, <1>g, <2>1, <2>3 DEF ReadParent, Stages
<1>3. CASE ReadTarget(c)
  <2>1. clients[c].pc = "target" /\ inbox' = inbox
    BY <1>3 DEF ReadTarget
  <2>2. PICK r \in Requests : r = clients[c].req /\ r.op \in {"mkdir", "remove", "rename"}
    BY <1>t, <2>1, RequestTyped DEF Phased
  <2>3. CASE ~TargetSeen(r)
    BY <1>3, <1>s, <2>1, <2>2, <2>3 DEF ReadTarget
  <2>4. CASE TargetSeen(r) /\ r.op = "mkdir"
    <3>1. Goto(c, "index") /\ Ready(r)
      BY <1>3, <2>2, <2>4 DEF ReadTarget, TargetSeen, AfterTarget, Ready
    <3>2. QED
      BY <1>g, <2>1, <2>2, <2>4, <3>1 DEF Stages
  <2>5. CASE TargetSeen(r) /\ r.op = "remove"
    <3>1. ~r.recursive
      BY <2>2, <2>5 DEF Orderly
    <3>2. CASE nodes[r.path].kind = "directory"
      <4>1. Goto(c, "listing")
        BY <1>3, <2>2, <2>5, <3>1, <3>2 DEF ReadTarget, AfterTarget
      <4>2. QED
        BY <1>g, <2>1, <4>1 DEF Stages
    <3>3. CASE nodes[r.path].kind # "directory"
      <4>1. Goto(c, "index") /\ Ready(r)
        BY <1>3, <2>2, <2>5, <3>3 DEF ReadTarget, AfterTarget, Ready, LiveDirectory
      <4>2. QED
        BY <1>g, <2>1, <2>2, <2>5, <4>1 DEF Stages
    <3>4. QED
      BY <3>2, <3>3
  <2>6. CASE TargetSeen(r) /\ r.op = "rename"
    <3>1. Goto(c, "parent")
      BY <1>3, <2>2, <2>6 DEF ReadTarget, AfterTarget
    <3>2. QED
      BY <1>g, <2>1, <3>1 DEF Stages
  <2>7. QED
    BY <2>2, <2>3, <2>4, <2>5, <2>6
<1>4. CASE ReadListing(c)
  <2>1. clients[c].pc = "listing" /\ inbox' = inbox
    BY <1>4 DEF ReadListing
  <2>2. PICK new \in Client :
          new = [clients[c] EXCEPT !.pc = "statting", !.todo = Entries(clients[c].req.path)]
    <3>1. Entries(clients[c].req.path) \in SUBSET Paths
      BY DEF Entries
    <3>2. QED
      BY <1>t, <3>1 DEF Client, Stages
  <2>3. /\ new.pc = "statting" /\ new.req = clients[c].req
        /\ new.todo = Entries(clients[c].req.path)
    BY <1>t, <2>2 DEF Client
  <2>4. clients' = [clients EXCEPT ![c] = new]
    BY <1>4, <1>t, <2>2 DEF ReadListing
  <2>5. QED
    BY <1>t, <2>1, <2>3, <2>4, StrandKeeps DEF StrandGoes
<1>5. ASSUME NEW p \in Paths, StatEntry(c, p) PROVE ApartInv'
  <2>1. clients[c].pc = "statting" /\ inbox' = inbox
    BY <1>5 DEF StatEntry
  <2>2. PICK new \in Client :
          new = [clients[c] EXCEPT !.todo = @ \ {p}, !.found = IF Live(p) THEN @ \cup {p} ELSE @]
    BY <1>t DEF Client
  <2>3. /\ new.pc = "statting" /\ new.req = clients[c].req
        /\ new.todo = clients[c].todo \ {p}
        /\ new.found = IF Live(p) THEN clients[c].found \cup {p} ELSE clients[c].found
    BY <1>t, <2>1, <2>2 DEF Client
  <2>4. clients' = [clients EXCEPT ![c] = new]
    BY <1>5, <1>t, <2>2 DEF StatEntry
  <2>5. \A q \in Entries(new.req.path) : Live(q) => q \in new.todo \cup new.found
    BY <1>t, <2>1, <2>3 DEF Knows
  <2>6. QED
    BY <1>t, <2>1, <2>3, <2>4, <2>5, StrandKeeps DEF StrandGoes
<1>6. CASE EndListing(c)
  <2>1. clients[c].pc = "statting" /\ clients[c].todo = {} /\ inbox' = inbox
    BY <1>6 DEF EndListing
  <2>2. PICK r \in Requests : r = clients[c].req /\ r.op = "remove"
    BY <1>t, <2>1 DEF Phased
  <2>3. CASE clients[c].found # {}
    BY <1>6, <1>s, <2>1, <2>3 DEF EndListing
  <2>4. CASE clients[c].found = {}
    <3>1. \A p \in Entries(r.path) : ~Live(p)
      BY <1>t, <2>1, <2>2, <2>4 DEF Knows
    <3>2. Empty(r.path)
      BY <3>1 DEF Empty, Entries, ApartInv, GrownInv
    <3>3. Ready(r) /\ Goto(c, "index")
      BY <1>6, <2>2, <2>4, <3>2 DEF Ready, EndListing
    <3>4. QED
      BY <1>g, <2>1, <2>2, <3>3 DEF Stages
  <2>5. QED
    BY <2>3, <2>4
<1>7. CASE PutContent(c)
  <2>1. clients[c].pc = "content" /\ inbox' = inbox /\ Goto(c, "index")
    BY <1>7 DEF PutContent
  <2>2. clients[c].req.op = "write"
    BY <2>1 DEF Phased
  <2>3. QED
    BY <1>g, <2>1, <2>2 DEF Stages, Ready
<1>8. CASE ReadFromIndex(c)
  <2>1. clients[c].pc = "fromIndex" /\ inbox' = inbox
    BY <1>8 DEF ReadFromIndex
  <2>2. PICK r \in Requests : r = clients[c].req /\ r.op = "rename"
    BY <1>t, <2>1 DEF Phased
  <2>3. PICK new \in Client : new = [clients[c] EXCEPT !.pc = "index", !.fromEntries = Without(r)]
    <3>1. Without(r) \in SUBSET Names
      BY <2>2, RequestTyped, ListedTyped DEF Without, FsTypeOK
    <3>2. QED
      BY <1>t, <3>1 DEF Client, Stages
  <2>4. new.pc = "index" /\ new.req = r /\ new.fromEntries = Without(r)
    BY <1>t, <2>2, <2>3 DEF Client
  <2>5. clients' = [clients EXCEPT ![c] = new]
    BY <1>8, <1>t, <2>2, <2>3 DEF ReadFromIndex, Without
  <2>6. Ready(r)
    BY <2>2 DEF Ready
  <2>7. QED
    BY <1>t, <2>1, <2>4, <2>5, <2>6, StrandKeeps DEF StrandGoes
<1>9. CASE Submit(c)
  <2>1. clients[c].pc = "index"
    BY <1>9 DEF Submit
  <2>2. PICK r \in Requests : r = clients[c].req
    BY <1>t, <2>1
  <2>3. CASE Stop(c) /\ inbox' = inbox
    BY <1>s, <2>1, <2>3
  <2>4. CASE /\ Goto(c, "waiting")
             /\ inbox' = inbox \cup
                  {[by |-> c, ticket |-> clients[c].ticket, req |-> r,
                    entries |-> Encoded(NewEntries(r)),
                    fromEntries |-> Encoded(clients[c].fromEntries)]}
    <3> DEFINE new == [clients[c] EXCEPT !.pc = "waiting"]
    <3>0. PICK item : item = [by |-> c, ticket |-> clients[c].ticket, req |-> r,
                              entries |-> Encoded(NewEntries(r)),
                              fromEntries |-> Encoded(clients[c].fromEntries)]
      OBVIOUS
    <3>1. /\ inbox' = inbox \cup {item}
          /\ item.req = r /\ item.entries = Encoded(NewEntries(r))
          /\ item.fromEntries = Encoded(clients[c].fromEntries)
      BY <2>4, <3>0
    <3>2. new.pc = "waiting"
      BY <1>t DEF Client
    <3>w. clients' = [clients EXCEPT ![c] = new]
      BY <1>t, <2>4 DEF Goto
    <3> HIDE DEF new
    <3>3. clients'[c] = new /\ \A d \in Clients \ {c} : clients'[d] = clients[d]
      BY <1>t, <3>w
    <3>4. Ready(r) /\ (r.op = "rename" => clients[c].fromEntries = Without(r))
      BY <1>t, <2>1, <2>2 DEF Knows
    <3>5. \A d \in Clients : Knows(clients[d])'
      BY <1>t, <3>2, <3>3, ViewsStand DEF Knows, ApartInv
    <3>6. \A x \in inbox' : Current(x)'
      <4>1. Current(item)'
        BY <1>t, <3>1, <3>4, ViewsStand DEF Current
      <4>2. \A x \in inbox : Current(x)'
        BY <1>t, ViewsStand DEF Current, ApartInv
      <4>3. QED
        BY <3>1, <4>1, <4>2
    <3>7. GrownInv'
      BY <1>t, ViewsStand DEF ApartInv
    <3>8. QED
      BY <3>5, <3>6, <3>7 DEF ApartInv
  <2>5. QED
    BY <1>9, <2>2, <2>3, <2>4 DEF Submit
<1>10. CASE StepFails(c) \/ GiveUp(c)
  BY <1>10, <1>s DEF StepFails, GiveUp
<1>11. QED
  BY <1>1, <1>2, <1>3, <1>4, <1>5, <1>6, <1>7, <1>8, <1>9, <1>10 DEF ClientStep

\* What is live after an action: the path made, and what was before and was
\* not removed.
LEMMA AppliedLive ==
  ASSUME TreeInv, GrownInv, Orderly, NEW item \in inbox, Apply(item),
         NEW r \in Requests, r = item.req
  PROVE  /\ r.path \in Paths \ {NoPath} /\ r.path # Root
         /\ Makes(r) \in Paths
         /\ \A q \in Paths \ {r.path} : q # Makes(r) \/ r.op = "remove" => nodes'[q] = nodes[q]
         /\ r.op \in {"write", "mkdir"} => LiveDirectory(ParentOf[r.path])
         /\ r.op = "write" => LiveFile(r.path)' /\ nodes'[r.path].content = r.content
         /\ r.op = "mkdir" => LiveDirectory(r.path)' /\ r.path \in Homes
         /\ r.op = "remove" => /\ Live(r.path) /\ ~Live(r.path)'
                               /\ nodes'[r.path].kind = nodes[r.path].kind
         /\ r.op = "rename" =>
              /\ LiveFile(r.path) /\ LiveDirectory(ParentOf[r.to]) /\ ~Live(r.path)'
              /\ nodes'[r.path].kind = "file"
              /\ r.to # r.path => /\ LiveFile(r.to)'
                                  /\ nodes'[r.to].content = nodes[r.path].content
<1>1. /\ nodes \in [Paths -> NodeMetadata \cup {None}] /\ NodesSayTheirPath /\ FsTypeOK
      /\ r.op \in {"write", "mkdir", "remove", "rename"}
      /\ r.path \in Paths /\ r.to \in Paths /\ r.content \in Contents
      /\ ParentOf[r.path] \in Paths /\ ParentOf[r.to] \in Paths
  BY RequestTyped DEF TreeInv, FsTypeOK, TypeOK
<1>2. \A p, parent \in Paths, kind \in {"file", "directory"}, content \in Contents :
        /\ Node(p, kind, parent, content) # None /\ ~Node(p, kind, parent, content).removed
        /\ Node(p, kind, parent, content).kind = kind
        /\ Node(p, kind, parent, content).content = content
  <2> SUFFICES ASSUME NEW p \in Paths, NEW parent \in Paths, NEW kind \in {"file", "directory"},
                      NEW content \in Contents
               PROVE  /\ Node(p, kind, parent, content) # None
                      /\ ~Node(p, kind, parent, content).removed
                      /\ Node(p, kind, parent, content).kind = kind
                      /\ Node(p, kind, parent, content).content = content
    OBVIOUS
  <2>1. Node(p, kind, parent, content) \in NodeMetadata
    BY NodeTyped
  <2>2. QED
    BY <2>1 DEF Node
<1>3. \A m \in NodeMetadata : Tombstone(m).removed /\ Tombstone(m).kind = m.kind
  BY DEF Tombstone, NodeMetadata
<1>4. CASE r.op = "write"
  <2>1. /\ r.path \notin {NoPath, Root} /\ LiveDirectory(ParentOf[r.path])
        /\ nodes' = [nodes EXCEPT ![r.path] = Node(r.path, "file", ParentOf[r.path], r.content)]
    BY <1>4 DEF Apply, WriteFile, MayCreate
  <2>2. QED
    BY <1>1, <1>2, <1>4, <2>1 DEF Makes, LiveFile, Live
<1>5. CASE r.op = "mkdir"
  <2>1. /\ r.path \notin {NoPath, Root} /\ LiveDirectory(ParentOf[r.path])
        /\ nodes' = [nodes EXCEPT ![r.path] = Node(r.path, "directory", ParentOf[r.path], NoContent)]
    BY <1>5 DEF Apply, Mkdir, MayCreate, Directory
  <2>2. r.path \in Homes
    BY <1>5 DEF Homes
  <2>3. QED
    BY <1>1, <1>2, <1>5, <2>1, <2>2 DEF Makes, LiveDirectory, Live
<1>6. CASE r.op = "remove"
  <2>1. /\ Live(r.path) /\ nodes[r.path].path # Root
        /\ nodes' = [nodes EXCEPT ![r.path] = Tombstone(nodes[r.path])]
    BY <1>6 DEF Apply, RemoveNode, MayRemove
  <2>2. nodes[r.path] \in NodeMetadata /\ r.path \notin {NoPath, Root}
    BY <1>1, <2>1 DEF NodesSayTheirPath, GrownInv, Live
  <2>3. QED
    BY <1>1, <1>3, <1>6, <2>1, <2>2 DEF Makes, Live
<1>7. CASE r.op = "rename"
  <2>1. /\ LiveFile(r.path) /\ LiveDirectory(ParentOf[r.to])
        /\ nodes' = [nodes EXCEPT
             ![r.to] = Node(r.to, nodes[r.path].kind, ParentOf[r.to], nodes[r.path].content),
             ![r.path] = Tombstone(nodes[r.path])]
    BY <1>7 DEF Apply, RenameFile, MayRename
  <2>2. /\ nodes[r.path] \in NodeMetadata /\ nodes[r.path].kind = "file"
        /\ nodes[r.path].content \in Contents
        /\ r.path \notin {NoPath, Root}
    BY <1>1, <2>1 DEF GrownInv, LiveFile, LiveDirectory, Live, NodeMetadata
  <2>3. /\ nodes'[r.path] = Tombstone(nodes[r.path])
        /\ r.to # r.path =>
             nodes'[r.to] = Node(r.to, "file", ParentOf[r.to], nodes[r.path].content)
        /\ \A q \in Paths \ {r.path, r.to} : nodes'[q] = nodes[q]
    BY <1>1, <2>1, <2>2
  <2>4. Makes(r) = r.to
    BY <1>7 DEF Makes
  <2>5. ~Live(r.path)' /\ nodes'[r.path].kind = "file"
    <3>1. Tombstone(nodes[r.path]).removed /\ Tombstone(nodes[r.path]).kind = "file"
      BY <1>3, <2>2
    <3>2. QED
      BY <2>3, <3>1 DEF Live
  <2>6. r.to # r.path => LiveFile(r.to)' /\ nodes'[r.to].content = nodes[r.path].content
    <3> SUFFICES ASSUME r.to # r.path
                 PROVE  LiveFile(r.to)' /\ nodes'[r.to].content = nodes[r.path].content
      OBVIOUS
    <3> DEFINE moved == Node(r.to, "file", ParentOf[r.to], nodes[r.path].content)
    <3>1. /\ moved # None /\ ~moved.removed /\ moved.kind = "file"
          /\ moved.content = nodes[r.path].content
      <4>1. "file" \in {"file", "directory"} /\ ParentOf[r.to] \in Paths /\ r.to \in Paths
            /\ nodes[r.path].content \in Contents
        BY <1>1, <2>2
      <4>2. QED
        BY <1>2, <4>1
    <3>2. nodes'[r.to] = moved
      BY <2>3
    <3> HIDE DEF moved
    <3>3. QED
      BY <3>1, <3>2 DEF LiveFile, Live
  <2>7. /\ r.path \in Paths \ {NoPath} /\ r.path # Root /\ Makes(r) \in Paths
        /\ \A q \in Paths \ {r.path} : q # Makes(r) => nodes'[q] = nodes[q]
    BY <1>1, <2>2, <2>3, <2>4
  <2>8. QED
    BY <1>7, <2>1, <2>5, <2>6, <2>7
<1>8. QED
  BY <1>1, <1>4, <1>5, <1>6, <1>7

\* An action kept apart finds the tree its indexes were read from.
LEMMA AppliedInOrder ==
  ASSUME TreeInv, ApartInv, NEW item \in inbox, Apply(item), NEW r \in Requests, r = item.req
  PROVE  /\ Ready(r)
         /\ Listed(Into(r))' = Encoded(NewEntries(r))
         /\ \A d \in Paths \ {Into(r)} :
              \/ Listed(d)' = Listed(d)
              \/ r.op = "mkdir" /\ d = r.path
              \/ r.op = "rename" /\ d = ParentOf[r.path] /\ Listed(d)' = Encoded(Without(r))
<1>1. Current(item) /\ item.by \in Clients
  BY DEF ApartInv, TreeInv, FsTypeOK, Item
<1>2. Ready(r)
  BY <1>1 DEF ApartInv, Current, Knows
<1>3. QED
  BY <1>1, <1>2, AppliedIndexes DEF Current

LEMMA ApplyKeepsGrown ==
  ASSUME Orderly, TreeInv, ApartInv, NEW item \in inbox, Apply(item)
  PROVE  GrownInv'
<1>0. PICK r \in Requests : r = item.req
  BY DEF TreeInv, FsTypeOK, Item
<1>1. /\ r.op \in {"write", "mkdir", "remove", "rename"}
      /\ r.path \in Paths /\ r.to \in Paths /\ GrownInv
      /\ nodes \in [Paths -> NodeMetadata \cup {None}]
  BY RequestTyped DEF ApartInv, TreeInv, FsTypeOK, TypeOK
<1> DEFINE made == Makes(r)
<1>2. /\ r.path \in Paths \ {NoPath} /\ r.path # Root /\ made \in Paths
      /\ \A q \in Paths \ {r.path} : q # made \/ r.op = "remove" => nodes'[q] = nodes[q]
      /\ r.op \in {"write", "mkdir"} => LiveDirectory(ParentOf[r.path])
      /\ r.op = "write" => LiveFile(r.path)'
      /\ r.op = "mkdir" => LiveDirectory(r.path)' /\ r.path \in Homes
      /\ r.op = "remove" => /\ Live(r.path) /\ ~Live(r.path)'
                            /\ nodes'[r.path].kind = nodes[r.path].kind
      /\ r.op = "rename" =>
           /\ LiveFile(r.path) /\ LiveDirectory(ParentOf[r.to]) /\ ~Live(r.path)'
           /\ nodes'[r.path].kind = "file"
           /\ r.to # r.path => LiveFile(r.to)'
  BY <1>0, <1>1, AppliedLive
<1>3. /\ Ready(r) /\ Listed(Into(r))' = Encoded(NewEntries(r))
      /\ \A d \in Paths \ {Into(r)} :
           \/ Listed(d)' = Listed(d)
           \/ r.op = "mkdir" /\ d = r.path
           \/ r.op = "rename" /\ d = ParentOf[r.path] /\ Listed(d)' = Encoded(Without(r))
  BY <1>0, AppliedInOrder
<1>4. /\ r.op \in {"write", "mkdir"} => made = r.path /\ Into(r) = ParentOf[r.path]
      /\ r.op = "remove" => made = NoPath /\ Into(r) = ParentOf[r.path]
      /\ r.op = "rename" => made = r.to /\ Into(r) = ParentOf[r.to]
  BY <1>1 DEF Makes, Into
<1> HIDE DEF made
<1>5. /\ r.op = "write" => ~LiveDirectory(r.path)
      /\ r.op = "rename" => ~LiveDirectory(r.path) /\ ~LiveDirectory(r.to)
                            /\ r.to \notin {Root, NoPath}
                            /\ (ParentOf[r.to] = ParentOf[r.path] \/ NameOf[r.to] = NameOf[r.path])
  BY <1>1, <1>2 DEF Orderly, Homes, GrownInv, LiveDirectory, LiveFile, Live
\* Whatever lives in a directory keeps it.
<1>6. ASSUME NEW q \in Paths \ {Root}, Live(q)
      PROVE  r.path # ParentOf[q] /\ (ParentOf[q] = made => r.op = "remove")
  <2>1. LiveDirectory(ParentOf[q])
    BY <1>1, <1>6 DEF GrownInv
  <2>2. CASE r.op = "mkdir" \/ r.op = "remove"
    BY <1>3, <1>4, <1>6, <2>1, <2>2 DEF Ready, LiveDirectory, Empty
  <2>3. CASE r.op = "write" \/ r.op = "rename"
    BY <1>4, <1>5, <2>1, <2>3
  <2>4. QED
    BY <1>1, <2>2, <2>3
<1>7. \A q \in Paths \ {Root} : Live(q) => LiveDirectory(ParentOf[q])'
  <2> SUFFICES ASSUME NEW q \in Paths \ {Root}, Live(q) PROVE LiveDirectory(ParentOf[q])'
    OBVIOUS
  <2>1. LiveDirectory(ParentOf[q]) /\ ParentOf[q] \in Paths
    BY <1>1 DEF GrownInv
  <2>2. ParentOf[q] # NoPath
    BY <1>1, <2>1 DEF GrownInv, LiveDirectory
  <2>3. ParentOf[q] \notin {r.path, made}
    BY <1>1, <1>4, <1>6, <2>2
  <2>4. QED
    BY <1>2, <2>1, <2>3 DEF LiveDirectory, Live
<1>8. \A q \in Paths \ {Root} : Live(q) => q # NoPath
  BY <1>1 DEF GrownInv
<1>9. ASSUME NEW q \in Paths \ {Root}, Live(q), q # r.path
      PROVE  NameOf[q] \in Listed(ParentOf[q])'
  <2>1. /\ NameOf[q] \in Listed(ParentOf[q]) /\ NameOf[q] # NoName /\ ParentOf[q] \in Paths
        /\ ParentOf[q] = ParentOf[r.path] => NameOf[q] # NameOf[r.path]
    BY <1>1, <1>2, <1>8, <1>9, PathsAssumption DEF GrownInv
  <2>2. CASE ParentOf[q] = Into(r)
    <3>1. NameOf[q] \in NewEntries(r)
      BY <1>1, <1>4, <1>5, <2>1, <2>2 DEF NewEntries
    <3>2. QED
      BY <1>3, <2>1, <2>2, <3>1 DEF Encoded
  <2>3. CASE ParentOf[q] # Into(r)
    <3>1. ~(r.op = "mkdir" /\ ParentOf[q] = r.path)
      BY <1>6, <1>9
    <3>2. CASE Listed(ParentOf[q])' = Listed(ParentOf[q])
      BY <2>1, <3>2
    <3>3. CASE ParentOf[q] = ParentOf[r.path] /\ Listed(ParentOf[q])' = Encoded(Without(r))
      BY <2>1, <3>3 DEF Encoded, Without
    <3>4. QED
      BY <1>3, <2>1, <2>3, <3>1, <3>2, <3>3
  <2>4. QED
    BY <2>2, <2>3
<1>10. ASSUME NEW q \in Paths \ {Root}, Live(q)'
       PROVE  LiveDirectory(ParentOf[q])' /\ NameOf[q] \in Listed(ParentOf[q])'
  <2>1. CASE q # r.path /\ Live(q)
    BY <1>7, <1>9, <2>1
  <2>2. CASE q = r.path \/ ~Live(q)
    <3>1. q = made /\ r.op # "remove"
      BY <1>1, <1>2, <1>4, <1>10, <2>2 DEF Live, GrownInv
    <3>2. /\ LiveDirectory(ParentOf[q]) /\ Into(r) = ParentOf[q] /\ NameOf[q] # NoName
          /\ NameOf[q] \in NewEntries(r) /\ ParentOf[q] # q /\ ParentOf[q] \in Paths
      BY <1>1, <1>2, <1>4, <1>5, <3>1, PathsAssumption DEF NewEntries
    <3>3. NameOf[q] \in Listed(ParentOf[q])'
      BY <1>3, <3>2 DEF Encoded
    <3>4. ParentOf[q] # r.path
      BY <1>1, <1>2, <1>4, <1>5, <3>1, <3>2
    <3>5. LiveDirectory(ParentOf[q])'
      BY <1>2, <3>1, <3>2, <3>4 DEF LiveDirectory, Live
    <3>6. QED
      BY <3>3, <3>5
  <2>3. QED
    BY <2>1, <2>2
<1>11. Root # made /\ Root # r.path
  BY <1>1, <1>2, <1>4, <1>5
<1>12. LiveDirectory(Root)'
  BY <1>1, <1>2, <1>11 DEF GrownInv, LiveDirectory, Live
<1>13. ~Live(NoPath)'
  <2>1. nodes'[NoPath] = nodes[NoPath]
    BY <1>1, <1>2, <1>4, <1>5
  <2>2. QED
    BY <1>1, <2>1 DEF GrownInv, Live
<1>14. ASSUME NEW p \in Paths, nodes'[p] # None, nodes'[p].kind = "directory"
       PROVE  p \in Homes
  <2>1. CASE r.op = "mkdir"
    BY <1>1, <1>2, <1>4, <1>14, <2>1 DEF GrownInv
  <2>2. CASE r.op = "write"
    BY <1>1, <1>2, <1>4, <1>14, <2>2 DEF GrownInv, LiveFile
  <2>3. CASE r.op = "remove"
    BY <1>1, <1>2, <1>4, <1>14, <2>3 DEF GrownInv, Live
  <2>4. CASE r.op = "rename"
    BY <1>1, <1>2, <1>4, <1>14, <2>4 DEF GrownInv, LiveFile
  <2>5. QED
    BY <1>1, <2>1, <2>2, <2>3, <2>4
<1>15. QED
  BY <1>10, <1>12, <1>13, <1>14 DEF GrownInv

\* An action leaves alone what a request clear of its own reads.
LEMMA ElsewhereStands ==
  ASSUME Orderly, TreeInv, GrownInv, NEW item \in inbox, Apply(item),
         NEW r \in Requests, Clear(r, item.req)
  PROVE  /\ (Live(r.path)' <=> Live(r.path)) /\ (LiveDirectory(r.path)' <=> LiveDirectory(r.path))
         /\ \A q \in Paths : ParentOf[q] = r.path => (Live(q)' <=> Live(q))
         /\ Ready(r)' <=> Ready(r)
         /\ Listed(r.path)' = Listed(r.path) /\ Entries(r.path)' = Entries(r.path)
         /\ Without(r)' = Without(r) /\ NewEntries(r)' = NewEntries(r)
<1>0. PICK s \in Requests : s = item.req
  BY DEF TreeInv, FsTypeOK, Item
<1>1. /\ r.op \in {"write", "mkdir", "remove", "rename"} /\ s.op \in {"write", "mkdir", "remove", "rename"}
      /\ r.path \in Paths /\ r.to \in Paths
      /\ ParentOf[r.path] \in Paths /\ ParentOf[r.to] \in Paths
  BY RequestTyped
<1>2. /\ Makes(s) \in {s.path, s.to, NoPath} /\ s.op # "remove" => Makes(s) \in Touched(s)
      /\ s.op # "remove" => ParentOf[Makes(s)] \in Touched(s)
      /\ s.path \in Touched(s) /\ ParentOf[s.path] \in Touched(s) /\ Into(s) \in Touched(s)
  BY <1>1 DEF Makes, Into, Touched
<1>3. /\ r.path \in Touched(r) /\ ParentOf[r.path] \in Touched(r)
      /\ r.op = "rename" => r.to \in Touched(r) /\ ParentOf[r.to] \in Touched(r)
  BY DEF Touched
<1>4. \A p : p \in Touched(r) => p \notin Touched(s)
  BY <1>0 DEF Clear
<1>5. \A q \in Paths : q # s.path /\ (q # Makes(s) \/ s.op = "remove") => nodes'[q] = nodes[q]
  BY <1>0, AppliedLive
<1>6. \A d \in Paths : d \notin Touched(s) => Listed(d)' = Listed(d)
  BY <1>0, <1>2, AppliedIndexes
<1>7. nodes'[r.path] = nodes[r.path]
  BY <1>1, <1>2, <1>3, <1>4, <1>5
<1>8. ASSUME NEW q \in Paths, ParentOf[q] = r.path PROVE nodes'[q] = nodes[q]
  BY <1>2, <1>3, <1>4, <1>5, <1>8
<1>9. /\ Listed(r.path)' = Listed(r.path) /\ Listed(ParentOf[r.path])' = Listed(ParentOf[r.path])
      /\ r.op = "rename" => Listed(ParentOf[r.to])' = Listed(ParentOf[r.to])
  BY <1>1, <1>3, <1>4, <1>6
<1>10. /\ (Live(r.path)' <=> Live(r.path)) /\ (LiveDirectory(r.path)' <=> LiveDirectory(r.path))
       /\ \A q \in Paths : ParentOf[q] = r.path => (Live(q)' <=> Live(q))
  BY <1>7, <1>8 DEF Live, LiveDirectory
<1>11. Ready(r)' <=> Ready(r)
  BY <1>10 DEF Ready, Empty
<1>12. Entries(r.path)' = Entries(r.path) /\ Without(r)' = Without(r)
  BY <1>9 DEF Entries, Without
<1>13. NewEntries(r)' = NewEntries(r)
  BY <1>1, <1>9 DEF NewEntries
<1>14. QED
  BY <1>9, <1>10, <1>11, <1>12, <1>13

LEMMA ChainKeepsApart ==
  ASSUME Orderly, Apart, TreeInv, ApartInv, NEW item \in inbox, ChainStep(item) \/ Lose(item)
  PROVE  ApartInv'
<1>1. /\ Settle(item) /\ item.by \in Clients /\ item.req \in Requests
      /\ clients \in [Clients -> Client]
      /\ \A c \in Clients : clients[c].pc # "idle" => clients[c].req \in Requests
      /\ \A x \in inbox : x.req \in Requests
  BY DEF ChainStep, Apply, Reject, Lose, TreeInv, FsTypeOK, Item
<1>2. Idle.pc = "idle"
  BY DEF Idle, Fresh
\* A strand that goes on is at work on something else.
<1>3. ASSUME NEW c \in Clients
      PROVE  \/ clients'[c].pc = "idle"
             \/ /\ clients'[c] = clients[c] /\ clients[c].req \in Requests
                /\ Clear(clients[c].req, item.req)
  <2>1. clients'[c] = IF Awaits(c, item) THEN Idle ELSE clients[c]
    BY <1>1 DEF Settle, Awaits
  <2>2. CASE clients[c].pc = "idle" \/ Awaits(c, item)
    BY <1>2, <2>1, <2>2
  <2>3. CASE clients[c].pc # "idle" /\ ~Awaits(c, item)
    BY <1>1, <2>1, <2>3 DEF Apart
  <2>4. QED
    BY <2>2, <2>3
<1>4. \A x \in inbox' : x \in inbox /\ Clear(x.req, item.req)
  BY <1>1 DEF Settle, Apart
<1>5. CASE Apply(item)
  <2>1. GrownInv'
    BY <1>5, ApplyKeepsGrown
  <2>2. ASSUME NEW c \in Clients PROVE Knows(clients[c])'
    <3>1. CASE clients'[c].pc = "idle"
      BY <3>1 DEF Knows
    <3>2. CASE clients'[c] = clients[c] /\ clients[c].req \in Requests
               /\ Clear(clients[c].req, item.req)
      <4>1. PICK r \in Requests : r = clients[c].req
        BY <3>2
      <4>2. /\ Entries(r.path)' = Entries(r.path) /\ (Ready(r)' <=> Ready(r))
            /\ Without(r)' = Without(r)
            /\ \A q \in Entries(r.path) : Live(q)' <=> Live(q)
        BY <1>5, <3>2, <4>1, ElsewhereStands DEF ApartInv, Entries
      <4>3. Knows(clients[c])
        BY DEF ApartInv
      <4>4. PICK known : known = clients[c]
        OBVIOUS
      <4>5. clients'[c] = known /\ known.req = r /\ Knows(known)
        BY <3>2, <4>1, <4>3, <4>4
      <4>6. known.pc = "statting" =>
              \A q \in Entries(r.path)' : Live(q)' => q \in known.todo \cup known.found
        BY <4>2, <4>5 DEF Knows
      <4>7. QED
        BY <4>2, <4>5, <4>6 DEF Knows
    <3>3. QED
      BY <1>3, <3>1, <3>2
  <2>3. ASSUME NEW x \in inbox' PROVE Current(x)'
    <3>1. Current(x) /\ x.req \in Requests /\ Clear(x.req, item.req)
      BY <1>1, <1>4 DEF ApartInv
    <3>2. /\ (Ready(x.req)' <=> Ready(x.req))
          /\ Without(x.req)' = Without(x.req) /\ NewEntries(x.req)' = NewEntries(x.req)
      BY <1>5, <3>1, ElsewhereStands DEF ApartInv
    <3>3. QED
      BY <3>1, <3>2 DEF Current, Encoded
  <2>4. QED
    BY <2>1, <2>2, <2>3 DEF ApartInv
<1>6. CASE UNCHANGED <<nodes, directoryIndexes>>
  <2>1. GrownInv'
    BY <1>6, ViewsStand DEF ApartInv
  <2>2. ASSUME NEW c \in Clients PROVE Knows(clients[c])'
    BY <1>3, <1>6, ViewsStand DEF Knows, ApartInv
  <2>3. ASSUME NEW x \in inbox' PROVE Current(x)'
    BY <1>4, <1>6, ViewsStand DEF Current, ApartInv
  <2>4. QED
    BY <2>1, <2>2, <2>3 DEF ApartInv
<1>7. QED
  BY <1>5, <1>6 DEF ChainStep, Reject, Lose, service, vars

LEMMA ApartBegins == FsInit => ApartInv
<1> SUFFICES ASSUME FsInit PROVE ApartInv
  OBVIOUS
<1>1. \A p, parent \in Paths : /\ Directory(p, parent) # None
                               /\ Directory(p, parent).kind = "directory"
                               /\ ~Directory(p, parent).removed
  <2> SUFFICES ASSUME NEW p \in Paths, NEW parent \in Paths
               PROVE  /\ Directory(p, parent) # None
                      /\ Directory(p, parent).kind = "directory"
                      /\ ~Directory(p, parent).removed
    OBVIOUS
  <2>1. Directory(p, parent) \in NodeMetadata
    BY NodeTyped DEF Directory
  <2>2. QED
    BY <2>1 DEF Directory, Node
<1>2. \A p \in Paths : /\ LiveDirectory(p) <=> p \in {Root} \cup Made
                       /\ nodes[p] # None => p \in {Root} \cup Made
  BY <1>1 DEF FsInit, LiveDirectory, Live
<1>3. \A p \in Made : NameOf[p] \in Listed(ParentOf[p])
  <2>1. \A names \in SUBSET Names : [entries |-> names] # None
    BY IndexIsRecord
  <2> SUFFICES ASSUME NEW p \in Made PROVE NameOf[p] \in Listed(ParentOf[p])
    OBVIOUS
  <2> DEFINE names == {NameOf[d] : d \in {m \in Made : ParentOf[m] = ParentOf[p]}}
  <2>2. names \in SUBSET Names /\ NameOf[p] \in names
    OBVIOUS
  <2>3. directoryIndexes[ParentOf[p]] = [entries |-> names]
    BY DEF FsInit
  <2> HIDE DEF names
  <2>4. QED
    BY <2>1, <2>2, <2>3 DEF Listed
<1>4. GrownInv
  <2>1. LiveDirectory(Root) /\ ~Live(NoPath)
    BY <1>2 DEF Live
  <2>2. \A p \in Paths \ {Root} : Live(p) => p \in Made
    BY <1>2 DEF Live
  <2>3. QED
    BY <1>2, <1>3, <2>1, <2>2 DEF GrownInv, Homes
<1>5. inbox = {} /\ \A c \in Clients : clients[c].pc = "idle"
  BY DEF FsInit, Idle, Fresh
<1>6. QED
  BY <1>4, <1>5 DEF ApartInv, Knows

\* ApartSpec is the client and the chain under the assumption that its users
\* keep operations apart.
LEMMA ApartIsAssumed == ApartSpec <=> FsSpec /\ []Apart
<1>1. FsInit => Apart
  <2> SUFFICES ASSUME FsInit PROVE Apart
    OBVIOUS
  <2>1. inbox = {} /\ \A c \in Clients : clients[c].pc = "idle"
    BY DEF FsInit, Idle, Fresh
  <2>2. QED
    BY <2>1 DEF Apart
<1>2. Apart /\ [FsNext /\ Apart']_fsVars => Apart'
  <2>1. UNCHANGED fsVars => UNCHANGED <<clients, inbox>>
    BY DEF fsVars
  <2>2. Apart /\ UNCHANGED <<clients, inbox>> => Apart'
    BY DEF Apart, Awaits
  <2>3. QED
    BY <2>1, <2>2
<1>3. [FsNext /\ Apart']_fsVars => [FsNext]_fsVars
  OBVIOUS
<1>4. Apart' /\ [FsNext]_fsVars => [FsNext /\ Apart']_fsVars
  OBVIOUS
<1>5. ApartSpec => FsSpec /\ []Apart
  BY <1>1, <1>2, <1>3, PTL DEF ApartSpec, FsSpec
<1>6. FsSpec /\ []Apart => ApartSpec
  BY <1>4, PTL DEF ApartSpec, FsSpec
<1>7. QED
  BY <1>5, <1>6

LEMMA ApartInvHolds == Orderly => (ApartSpec => [](TreeInv /\ ApartInv))
<1> SUFFICES ASSUME Orderly PROVE ApartSpec => [](TreeInv /\ ApartInv)
  OBVIOUS
<1>1. Apart /\ TreeInv /\ Phased /\ ApartInv /\ [FsNext]_fsVars => ApartInv'
  <2>1. ASSUME Apart, TreeInv, Phased, ApartInv, FsNext PROVE ApartInv'
    BY <2>1, ClientKeepsApart, ChainKeepsApart DEF FsNext, TreeInv
  <2>2. ASSUME ApartInv, UNCHANGED fsVars PROVE ApartInv'
    <3>1. UNCHANGED <<nodes, directoryIndexes, clients, inbox>>
      BY <2>2 DEF fsVars, service, vars
    <3>2. QED
      BY <2>2, <3>1, ViewsStand DEF ApartInv, Knows, Current
  <2>3. QED
    BY <2>1, <2>2
<1>2. FsSpec => []Phased
  <2>1. StoredInv => Phased
    BY DEF StoredInv
  <2>2. QED
    BY <2>1, StoredInvHolds, PTL
<1>3. QED
  BY <1>1, <1>2, ApartBegins, ApartIsAssumed, TreeInvHolds, PTL DEF FsSpec

\* "Directory entries are newline-delimited canonical child names"
\* (service.ts:262): while operations in progress touch different directories
\* and requests are in order, the live file system lists every node that
\* lives, whatever is lost, fails or is given up on the way.
THEOREM IndexesListAll == Orderly => (ApartSpec => []IndexesListChildren)
<1>1. ApartInv => IndexesListChildren
  BY DEF ApartInv, GrownInv, IndexesListChildren
<1>2. QED
  BY <1>1, ApartInvHolds, PTL

\* One strand that waits for every answer.
OneAtATime == (\A c, d \in Clients : c = d) /\ ~MayGiveUp

Alone ==
  /\ \A c \in Clients : clients[c].pc # "waiting" => inbox = {}
  /\ \A item \in inbox : Awaits(item.by, item)
  /\ \A i, j \in inbox : i = j

LEMMA AloneIsApart == OneAtATime /\ FsTypeOK /\ Alone => Apart
BY DEF OneAtATime, FsTypeOK, Item, Alone, Apart

\* A user who waits for each operation to end keeps operations apart.
THEOREM OneAtATimeIsApart == OneAtATime => (FsSpec => ApartSpec)
<1> SUFFICES ASSUME OneAtATime PROVE FsSpec => ApartSpec
  OBVIOUS
<1>i. Idle.pc = "idle"
  BY DEF Idle, Fresh
<1>1. FsInit => Alone
  BY <1>i DEF FsInit, Alone
<1>2. FsTypeOK /\ Alone /\ [FsNext]_fsVars => Alone'
  <2> SUFFICES ASSUME FsTypeOK, Alone, [FsNext]_fsVars PROVE Alone'
    OBVIOUS
  <2>1. ASSUME NEW c \in Clients, Submit(c) PROVE Alone'
    <3>1. /\ clients[c].pc = "index" /\ inbox = {} /\ clients \in [Clients -> Client]
          /\ \A d \in Clients : d = c
      BY <2>1 DEF Submit, Alone, FsTypeOK, OneAtATime
    <3>2. CASE Stop(c) /\ inbox' = inbox
      BY <3>1, <3>2 DEF Alone
    <3>3. CASE Goto(c, "waiting") /\ inbox' # inbox
      <4>1. PICK item : inbox' = {item} /\ item.by = c /\ item.ticket = clients[c].ticket
        BY <2>1, <3>1, <3>3 DEF Submit
      <4>2. clients'[c].pc = "waiting" /\ clients'[c].ticket = clients[c].ticket
        BY <3>1, <3>3 DEF Goto, Client
      <4>3. QED
        BY <3>1, <4>1, <4>2 DEF Alone, Awaits
    <3>4. QED
      BY <2>1, <3>1, <3>2, <3>3 DEF Submit
  <2>2. ASSUME NEW c \in Clients, clients[c].pc # "waiting", inbox' = inbox PROVE Alone'
    BY <2>2 DEF Alone, OneAtATime
  <2>3. ASSUME NEW item \in inbox, Settle(item) PROVE Alone'
    <3>1. /\ item.by \in Clients /\ Awaits(item.by, item) /\ clients \in [Clients -> Client]
          /\ \A c \in Clients : c = item.by
      BY DEF FsTypeOK, Item, Alone, OneAtATime
    <3>2. inbox' = {}
      BY <2>3 DEF Settle, Alone
    <3>3. QED
      BY <3>2 DEF Alone
  <2>4. CASE UNCHANGED fsVars
    BY <2>4 DEF fsVars, Alone, Awaits
  <2>5. CASE FsNext
    <3>1. ASSUME NEW c \in Clients, (\E r \in Requests : Begin(c, r)) \/ ClientStep(c) \/ StepFails(c)
          PROVE  Alone'
      BY <2>1, <2>2, <3>1 DEF ClientStep, Begin, ReadParent, ReadTarget, ReadListing, EndListing,
           StatEntry, PutContent, ReadFromIndex, StepFails
    <3>2. ASSUME NEW item \in inbox, ChainStep(item) \/ Lose(item) PROVE Alone'
      BY <2>3, <3>2 DEF ChainStep, Apply, Reject, Lose
    <3>3. QED
      BY <2>5, <3>1, <3>2 DEF FsNext, GiveUp, OneAtATime
  <2>6. QED
    BY <2>4, <2>5
<1>3. QED
  BY <1>1, <1>2, AloneIsApart, ApartIsAssumed, FsTypeCorrect, PTL DEF FsSpec

-----------------------------------------------------------------------------
(* The promised tree.  Where indexes list all that lives, a walk from the  *)
(* root finds what lives.                                                  *)

\* The equation that defines the function shown of Shown.
Reached(f) ==
  [p \in Paths |->
     IF p = Root THEN Live(p) ELSE
       /\ Live(p) /\ LiveDirectory(ParentOf[p])
       /\ NameOf[p] \in Listed(ParentOf[p])
       /\ f[ParentOf[p]]]

LEMMA LivesIsReached ==
  ASSUME GrownInv
  PROVE  LET lives == [p \in Paths |-> Live(p)] IN lives = Reached(lives)
<1> DEFINE lives == [p \in Paths |-> Live(p)]
<1>1. ASSUME NEW p \in Paths PROVE lives[p] = Reached(lives)[p]
  <2>1. ParentOf[p] \in Paths
    OBVIOUS
  <2>2. p # Root /\ Live(p) => LiveDirectory(ParentOf[p]) /\ NameOf[p] \in Listed(ParentOf[p])
                               /\ Live(ParentOf[p])
    BY DEF GrownInv, LiveDirectory
  <2>3. Live(p) \in BOOLEAN
    BY DEF Live
  <2>4. QED
    BY <2>1, <2>2, <2>3 DEF Reached
<1>2. QED
  BY <1>1 DEF Reached

\* There is one function that satisfies the equation.
LEMMA ReachedOnce ==
  ASSUME GrownInv, NEW f, f = Reached(f), NEW p \in Paths
  PROVE  f[p] = Live(p)
<1> DEFINE lives == [q \in Paths |-> Live(q)]
<1> DEFINE S == {q \in Paths : f[q] # lives[q]}
<1>1. lives = Reached(lives)
  BY LivesIsReached
<1>2. ASSUME NEW q \in S PROVE q # Root /\ ParentOf[q] \in S
  <2>1. /\ f[q] = Reached(f)[q] /\ lives[q] = Reached(lives)[q]
        /\ ParentOf[q] \in Paths
    BY <1>1
  <2> HIDE DEF lives
  <2>2. QED
    BY <2>1 DEF Reached
<1>3. S = {}
  BY <1>2, DescentAssumption
<1>4. QED
  BY <1>3

\* What lives, wherever it is listed.
Found == [p \in Paths |-> IF ~Live(p) THEN None
                          ELSE IF nodes[p].kind = "directory" THEN "directory"
                          ELSE nodes[p].content]

LEMMA ShownIsFound == GrownInv => Shown = Found
<1> SUFFICES ASSUME GrownInv PROVE Shown = Found
  OBVIOUS
<1> DEFINE shown == CHOOSE f : f = Reached(f)
<1>1. shown = Reached(shown)
  BY LivesIsReached
<1>2. Shown = [p \in Paths |-> IF p = NoPath \/ ~shown[p] THEN None
                               ELSE IF nodes[p].kind = "directory" THEN "directory"
                               ELSE nodes[p].content]
  BY DEF Shown, Reached
<1> HIDE DEF shown
<1>3. \A p \in Paths : shown[p] = Live(p)
  BY <1>1, ReachedOnce
<1>4. ~Live(NoPath)
  BY DEF GrownInv
<1>5. QED
  BY <1>2, <1>3, <1>4 DEF Found

\* The equation that defines the function under of Below: what is under a
\* path is one of its children or is under something that is under it.
Deeper(p, f) == [q \in Paths |-> q # Root /\ (ParentOf[q] = p \/ f[ParentOf[q]])]

\* The least set closed under going down gives a solution.
LEMMA DeeperSolved == \A p \in Paths : \E g : g = Deeper(p, g)
<1> SUFFICES ASSUME NEW p \in Paths PROVE \E g : g = Deeper(p, g)
  OBVIOUS
<1> DEFINE Down(S) == {q \in Paths : q # Root /\ (ParentOf[q] = p \/ ParentOf[q] \in S)}
<1> DEFINE D == {q \in Paths : \A S \in SUBSET Paths : Down(S) \subseteq S => q \in S}
<1>1. \A S, T \in SUBSET Paths : S \subseteq T => Down(S) \subseteq Down(T)
  OBVIOUS
<1>2. \A S \in SUBSET Paths : Down(S) \in SUBSET Paths
  OBVIOUS
<1>3. \A S \in SUBSET Paths : Down(S) \subseteq S => D \subseteq S
  OBVIOUS
<1>4. D \in SUBSET Paths
  OBVIOUS
<1>d. \A q \in Paths : (\A S \in SUBSET Paths : Down(S) \subseteq S => q \in S) => q \in D
  OBVIOUS
<1>e. \A S : \A q \in Paths : q \in Down(S) <=> q # Root /\ (ParentOf[q] = p \/ ParentOf[q] \in S)
  OBVIOUS
<1> HIDE DEF Down, D
<1>5. Down(D) \subseteq D
  <2>1. \A S \in SUBSET Paths : Down(S) \subseteq S => Down(D) \subseteq S
    BY <1>1, <1>3, <1>4
  <2>2. \A q \in Down(D) : q \in Paths
    BY <1>2, <1>4
  <2>3. QED
    BY <1>d, <2>1, <2>2
<1>6. D \subseteq Down(D)
  <2>1. Down(Down(D)) \subseteq Down(D)
    BY <1>1, <1>2, <1>4, <1>5
  <2>2. QED
    BY <1>2, <1>3, <1>4, <2>1
<1>7. \A q \in Paths : q \in D <=> q # Root /\ (ParentOf[q] = p \/ ParentOf[q] \in D)
  BY <1>4, <1>5, <1>6, <1>e
<1> DEFINE f == [q \in Paths |-> q \in D]
<1>8. f = Deeper(p, f)
  <2>1. \A q \in Paths : f[q] = Deeper(p, f)[q]
    <3> SUFFICES ASSUME NEW q \in Paths PROVE f[q] = Deeper(p, f)[q]
      OBVIOUS
    <3>1. ParentOf[q] \in Paths
      OBVIOUS
    <3>2. f[q] = (q \in D) /\ f[ParentOf[q]] = (ParentOf[q] \in D)
      BY <3>1
    <3> HIDE DEF f
    <3>3. Deeper(p, f)[q] = (q # Root /\ (ParentOf[q] = p \/ f[ParentOf[q]]))
      BY DEF Deeper
    <3>4. (q \in D) = (q # Root /\ (ParentOf[q] = p \/ ParentOf[q] \in D))
      BY <1>7
    <3>5. QED
      BY <3>2, <3>3, <3>4
  <2>2. QED
    BY <2>1 DEF Deeper
<1>9. QED
  BY <1>8

LEMMA BelowUnfolds ==
  ASSUME NEW p \in Paths
  PROVE  /\ Tree!Below(p) \subseteq Paths \ {Root}
         /\ \A q \in Tree!Below(p) : ParentOf[q] = p \/ ParentOf[q] \in Tree!Below(p)
<1> DEFINE under == CHOOSE g : g = Deeper(p, g)
<1>1. under = Deeper(p, under)
  BY DeeperSolved
<1>2. Tree!Below(p) = {q \in Paths : under[q]}
  BY DEF Tree!Below, Deeper
<1> HIDE DEF under
<1>3. \A q \in Paths : under[q] = (q # Root /\ (ParentOf[q] = p \/ under[ParentOf[q]]))
  BY <1>1 DEF Deeper
<1>4. \A q \in Paths : under[q] => q # Root /\ (ParentOf[q] = p \/ under[ParentOf[q]])
  BY <1>3
<1>5. \A q : q \in Tree!Below(p) <=> q \in Paths /\ under[q]
  BY <1>2
<1>6. \A q \in Paths : ParentOf[q] \in Paths
  OBVIOUS
<1>7. QED
  BY <1>4, <1>5, <1>6

\* Nothing lives below a path in which nothing lives.
LEMMA NothingBelow ==
  ASSUME GrownInv, NEW p \in Paths, Empty(p)
  PROVE  \A q \in Tree!Below(p) : ~Live(q)
<1> DEFINE S == {q \in Tree!Below(p) : Live(q)}
<1>1. S \in SUBSET (Paths \ {Root})
  BY BelowUnfolds
<1>2. ASSUME NEW q \in S PROVE ParentOf[q] \in S
  <2>1. q \in Paths \ {Root} /\ Live(q) /\ Live(ParentOf[q])
    BY <1>1 DEF GrownInv, LiveDirectory
  <2>2. ParentOf[q] # p
    BY <2>1 DEF Empty
  <2>3. QED
    BY <2>1, <2>2, BelowUnfolds
<1>3. S = {}
  BY <1>1, <1>2, DescentAssumption
<1>4. QED
  BY <1>3

LEMMA WithIsExcept ==
  ASSUME GrownInv, NEW p \in Paths, Empty(p), NEW v
  PROVE  Tree!With(p, v) = [Found EXCEPT ![p] = v]
<1>1. Tree!With(p, v) =
        [q \in Paths |-> IF q = p THEN v ELSE IF q \in Tree!Below(p) THEN None ELSE Found[q]]
  BY ShownIsFound DEF Tree!With
<1>2. \A q \in Tree!Below(p) : q \in Paths /\ Found[q] = None
  BY NothingBelow, BelowUnfolds DEF Found
<1>3. QED
  BY <1>1, <1>2 DEF Found

\* Where no directory lives, nothing lives below.
LEMMA EmptyIfNoDirectory ==
  ASSUME GrownInv, NEW p \in Paths, ~LiveDirectory(p)
  PROVE  Empty(p)
BY DEF GrownInv, Empty

LEMMA ApplyPerforms ==
  ASSUME Orderly, RenamesMove, TreeInv, ApartInv, NEW item \in inbox, Apply(item)
  PROVE  \E r \in Requests : Tree!Perform(r)
<1>0. PICK r \in Requests : r = item.req
  BY DEF TreeInv, FsTypeOK, Item
<1>1. /\ r.op \in {"write", "mkdir", "remove", "rename"}
      /\ r.path \in Paths /\ r.to \in Paths /\ r.content \in Contents /\ GrownInv
      /\ nodes \in [Paths -> NodeMetadata \cup {None}]
      /\ ParentOf[r.path] \in Paths /\ ParentOf[r.to] \in Paths
  BY RequestTyped DEF ApartInv, TreeInv, FsTypeOK, TypeOK
<1>2. GrownInv'
  BY ApplyKeepsGrown
<1>3. Shown = Found /\ Shown' = Found'
  <2>1. (GrownInv => Shown = Found)'
    BY ShownIsFound, PTL
  <2>2. QED
    BY <1>1, <1>2, <2>1, ShownIsFound
<1>4. /\ r.path # Root
      /\ \A q \in Paths \ {r.path} : q # Makes(r) \/ r.op = "remove" => nodes'[q] = nodes[q]
      /\ r.op \in {"write", "mkdir"} => LiveDirectory(ParentOf[r.path])
      /\ r.op = "write" => LiveFile(r.path)' /\ nodes'[r.path].content = r.content
      /\ r.op = "mkdir" => LiveDirectory(r.path)'
      /\ r.op = "remove" => Live(r.path) /\ ~Live(r.path)'
      /\ r.op = "rename" =>
           /\ LiveFile(r.path) /\ LiveDirectory(ParentOf[r.to]) /\ ~Live(r.path)'
           /\ r.to # r.path => LiveFile(r.to)' /\ nodes'[r.to].content = nodes[r.path].content
  BY <1>0, <1>1, AppliedLive
<1>5. Ready(r)
  BY <1>0, AppliedInOrder
<1>6. /\ r.op = "write" => ~LiveDirectory(r.path)
      /\ r.op = "rename" => ~LiveDirectory(r.to) /\ r.to \notin {Root, r.path}
      /\ r.op = "remove" => ~r.recursive
  BY <1>1 DEF Orderly, RenamesMove, Homes, GrownInv, LiveDirectory, Live
<1>7. \A q \in Paths : LiveDirectory(q) => Found[q] = "directory"
  BY DEF Found, LiveDirectory
<1>8. \A q \in Paths : ~Live(q) => Found[q] = None
  BY DEF Found
<1>9. \A q \in Paths : Live(q) => Found[q] # None
  BY <1>1, ContentsAssumption DEF Found, Live, NodeMetadata
<1>10. \A q \in Paths : LiveFile(q) => Found[q] = nodes[q].content
  BY DEF Found, LiveFile
<1>11. ASSUME NEW q \in Paths
       PROVE  /\ LiveDirectory(q)' => Found'[q] = "directory"
              /\ ~Live(q)' => Found'[q] = None
              /\ LiveFile(q)' => Found'[q] = nodes'[q].content
              /\ nodes'[q] = nodes[q] => Found'[q] = Found[q]
  BY DEF Found, LiveDirectory, LiveFile, Live
<1>12. last'.req = r
  BY <1>0 DEF Apply
<1>13. Found \in [Paths -> {Found[q] : q \in Paths}] /\ Found' \in [Paths -> {Found'[q] : q \in Paths}]
  BY DEF Found
<1>14. CASE r.op = "write"
  <2>1. Empty(r.path)
    BY <1>1, <1>6, <1>14, EmptyIfNoDirectory
  <2>2. Tree!With(r.path, r.content) = [Found EXCEPT ![r.path] = r.content]
    BY <1>1, <2>1, WithIsExcept
  <2>3. \A q \in Paths : Found'[q] = [Found EXCEPT ![r.path] = r.content][q]
    BY <1>1, <1>4, <1>11, <1>13, <1>14 DEF Makes
  <2>4. Tree!Write(r)
    BY <1>1, <1>3, <1>4, <1>7, <1>13, <1>14, <2>2, <2>3 DEF Tree!Write
  <2>5. QED
    BY <1>12, <2>4 DEF Tree!Perform
<1>15. CASE r.op = "mkdir"
  <2>1. Empty(r.path) /\ ~Live(r.path)
    BY <1>1, <1>5, <1>15, EmptyIfNoDirectory DEF Ready, LiveDirectory
  <2>2. Tree!With(r.path, "directory") = [Found EXCEPT ![r.path] = "directory"]
    BY <1>1, <2>1, WithIsExcept
  <2>3. \A q \in Paths : Found'[q] = [Found EXCEPT ![r.path] = "directory"][q]
    BY <1>1, <1>4, <1>11, <1>13, <1>15 DEF Makes
  <2>4. Found' = Tree!With(r.path, "directory")
    <3> DEFINE made == [Found EXCEPT ![r.path] = "directory"]
    <3>1. DOMAIN made = Paths /\ Found' = [q \in Paths |-> made[q]]
      BY <1>13, <2>3
    <3>2. made = [q \in Paths |-> made[q]]
      BY <1>13
    <3>3. QED
      BY <2>2, <3>1, <3>2
  <2>5. Found[r.path] = None /\ Found[ParentOf[r.path]] = "directory"
    BY <1>1, <1>4, <1>7, <1>8, <1>15, <2>1
  <2>6. Tree!Mkdir(r)
    BY <1>3, <1>15, <2>4, <2>5 DEF Tree!Mkdir
  <2>7. QED
    BY <1>12, <2>6 DEF Tree!Perform
<1>16. CASE r.op = "remove"
  <2>1. Empty(r.path)
    BY <1>1, <1>5, <1>16, EmptyIfNoDirectory DEF Ready
  <2>2. Tree!With(r.path, None) = [Found EXCEPT ![r.path] = None]
    BY <1>1, <2>1, WithIsExcept
  <2>3. \A q \in Paths : Found'[q] = [Found EXCEPT ![r.path] = None][q]
    <3>1. Found'[r.path] = None
      BY <1>1, <1>4, <1>11, <1>16
    <3>2. \A q \in Paths \ {r.path} : Found'[q] = Found[q]
      BY <1>4, <1>11, <1>16
    <3>3. QED
      BY <1>13, <3>1, <3>2
  <2>4. \A q \in Tree!Below(r.path) : Found[q] = None
    BY <1>1, <1>8, <2>1, NothingBelow, BelowUnfolds
  <2>5. Tree!Remove(r)
    BY <1>1, <1>3, <1>4, <1>9, <1>13, <1>16, <2>2, <2>3, <2>4 DEF Tree!Remove
  <2>6. QED
    BY <1>12, <2>5 DEF Tree!Perform
<1>17. CASE r.op = "rename"
  <2>1. Empty(r.to)
    BY <1>1, <1>6, <1>17, EmptyIfNoDirectory
  <2> DEFINE moved == [[Found EXCEPT ![r.to] = Found[r.path]] EXCEPT ![r.path] = None]
  <2>2. [Tree!With(r.to, Found[r.path]) EXCEPT ![r.path] = None] = moved
    BY <1>1, <2>1, WithIsExcept
  <2>3. \A q \in Paths : Found'[q] = moved[q]
    <3>1. Found'[r.path] = None
      BY <1>1, <1>4, <1>11, <1>17
    <3>2. Found'[r.to] = Found[r.path]
      BY <1>1, <1>4, <1>6, <1>10, <1>11, <1>17
    <3>3. \A q \in Paths \ {r.path, r.to} : Found'[q] = Found[q]
      BY <1>4, <1>11, <1>17 DEF Makes
    <3>4. QED
      BY <1>6, <1>13, <1>17, <3>1, <3>2, <3>3
  <2>4. Found[r.path] \notin {"directory", None}
    BY <1>1, <1>4, <1>10, <1>17, ContentsAssumption DEF LiveFile, Live, NodeMetadata
  <2>5. Found' = [Tree!With(r.to, Found[r.path]) EXCEPT ![r.path] = None]
    <3>1. Found' = moved
      BY <1>13, <2>3
    <3> HIDE DEF moved
    <3>2. QED
      BY <2>2, <3>1
  <2>6. Found[ParentOf[r.to]] = "directory"
    BY <1>1, <1>4, <1>7, <1>17
  <2>7. Tree!Rename(r)
    BY <1>3, <1>6, <1>17, <2>4, <2>5, <2>6 DEF Tree!Rename, Tree!IsFile
  <2>8. QED
    BY <1>12, <2>7 DEF Tree!Perform
<1>18. QED
  BY <1>1, <1>14, <1>15, <1>16, <1>17

\* While operations in progress touch different directories and requests are
\* in order, the live file system, walked from the root along its listings,
\* is a tree that changes as the interface says: each operation takes effect
\* as a whole, at once, or not at all.
THEOREM TreePromised ==
  Orderly /\ RenamesMove => (ApartSpec => ImplementsFileTree)
<1> SUFFICES ASSUME Orderly, RenamesMove PROVE ApartSpec => ImplementsFileTree
  OBVIOUS
<1>1. FsInit => Tree!Init
  <2> SUFFICES ASSUME FsInit PROVE Shown[Root] = "directory"
    BY DEF Tree!Init
  <2>1. GrownInv
    BY ApartBegins DEF ApartInv
  <2>2. QED
    BY <2>1, ShownIsFound DEF GrownInv, LiveDirectory, Found
<1>2. TreeInv /\ ApartInv /\ ApartInv' /\ [FsNext]_fsVars => [Tree!Next]_(Tree!vars)
  <2> SUFFICES ASSUME TreeInv, ApartInv, ApartInv', [FsNext]_fsVars
               PROVE  Tree!Next \/ UNCHANGED <<Shown, last>>
    BY DEF Tree!vars
  <2>1. ASSUME UNCHANGED <<nodes, directoryIndexes, last>> PROVE UNCHANGED <<Shown, last>>
    <3>1. (GrownInv => Shown = Found)'
      BY ShownIsFound, PTL
    <3>2. Shown = Found /\ Shown' = Found'
      BY <3>1, ShownIsFound DEF ApartInv
    <3>3. Found' = Found
      BY <2>1 DEF Found, Live
    <3>4. QED
      BY <2>1, <3>2, <3>3
  <2>2. ASSUME NEW item \in inbox, Apply(item) PROVE Tree!Next
    BY <2>2, ApplyPerforms DEF Tree!Next
  <2>3. QED
    BY <2>1, <2>2, ClientSubmits DEF FsNext, ChainStep, Reject, Lose, service, vars, fsVars
<1>3. QED
  BY <1>1, <1>2, ApartInvHolds, ApartIsAssumed, PTL DEF FsSpec, ImplementsFileTree, Tree!Spec

=============================================================================
