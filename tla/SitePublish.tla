------------------------------ MODULE SitePublish ------------------------------
(***************************************************************************)
(* Publishing a site and visiting it: publish of LiveFileSystemRuntime.ts  *)
(* over the Computer Service, the content server and an owner who goes on  *)
(* editing, and a visitor who follows a jam: address, protocolRouter.ts.   *)
(*                                                                         *)
(* publish walks the tree by queries, each at its own time, and signs the  *)
(* list it comes to.  The edits here are whole operations that keep the    *)
(* indexes true; how edits race each other is LiveFileSystem's subject.    *)
(***************************************************************************)
EXTENDS ComputerService, ContentServer, FiniteSets

CONSTANTS
  Owner, Tab, Guest,   \* a wallet, and the two callers of the content server
  SiteDirectory, IndexPage,
  ParentOf, NameOf, Ancestors,   \* of a path: its directory, its name, all above
  SizeOf,              \* size of some bytes
  FirstPage,           \* what index.html holds to begin with
  MaxFiles,            \* files that fit in a manifest
  MaxEdits, MaxPublishes, MaxVisits

VARIABLES
  edit,          \* the path and the content the owner is uploading, or None
  publisher,     \* how far the walk has come
  visit,         \* how far the visitor has come
  held,          \* history: contents paths have held since the walk began
  untouched,     \* history: no edit since the walk began
  spent          \* edits, publishes and visits begun

service == vars
siteVars == <<service, serverVars, edit, publisher, visit, held, untouched, spent>>
history == <<held, untouched>>

\* A line of a manifest; the size is that of some content.
Line == [path: Paths, size: Contents, root: Contents]

ASSUME SiteAssumption ==
  /\ Owner \in Accounts /\ Callers = {Tab, Guest} /\ Tab # Guest
  /\ Contents = Bytes \cup {NoContent} /\ NoContent \notin Bytes
  /\ FirstPage \in Bytes
  /\ {SiteDirectory, IndexPage} \subseteq Paths \ {NoPath}
  /\ ParentOf \in [Paths -> Paths] /\ NameOf \in [Paths -> Names]
  /\ Ancestors \in [Paths -> SUBSET Paths]

\* The paths make a tree, and no two entries of a directory share a name.
Below(p) == p \in Paths \ {Root, NoPath}
ASSUME TreeAssumption ==
  /\ \A p \in Paths : Below(p) =>
       /\ Ancestors[p] = {ParentOf[p]} \cup Ancestors[ParentOf[p]]
       /\ p \notin Ancestors[p] /\ Root \in Ancestors[p]
       /\ \A d \in Ancestors[p] :
            /\ Ancestors[d] \subseteq Ancestors[p]
            /\ \E q \in Ancestors[p] \cup {p} : Below(q) /\ ParentOf[q] = d
       /\ \A q \in Paths :
            Below(q) /\ ParentOf[q] = ParentOf[p] /\ NameOf[q] = NameOf[p] => q = p
  /\ Ancestors[Root] = {} /\ Ancestors[NoPath] = {}
  /\ Below(IndexPage) /\ ParentOf[IndexPage] = SiteDirectory

\* The directories there are to begin with.
Opened == {SiteDirectory} \cup Ancestors[SiteDirectory]

Stopped == [pc |-> "idle", todo |-> {}, lines |-> {}]
NoVisit(pc) == [pc |-> pc, path |-> NoPath, line |-> None]

SiteInit ==
  /\ profiles \in [owner: {Owner}, about: Abouts]
  /\ appearances = DefaultLook
  /\ manifests = [site |-> NoSite, published |-> FALSE]
  /\ desktopIndexes = [entries |-> {}]
  /\ desktopIcons = [i \in Icons |-> None]
  /\ nodes = [p \in Paths |->
       CASE p \in Opened -> Directory(p, IF p = Root THEN NoPath ELSE ParentOf[p])
         [] p = IndexPage -> Node(p, "file", SiteDirectory, FirstPage)
         [] OTHER -> None]
  /\ directoryIndexes = [p \in Paths |->
       IF p \in Opened
       THEN [entries |-> {NameOf[q] : q \in {r \in Opened \cup {IndexPage} : Below(r) /\ ParentOf[r] = p}}]
       ELSE None]
  /\ sender = Owner
  /\ ServerInit({FirstPage})
  /\ edit = None
  /\ publisher = Stopped
  /\ visit = NoVisit("idle")
  /\ held = {} /\ untouched = FALSE
  /\ spent = [edits |-> 0, publishes |-> 0, visits |-> 0]

-----------------------------------------------------------------------------
(* The owner, who edits. *)

Listed(directory) ==
  IF directoryIndexes[directory] = None THEN {} ELSE directoryIndexes[directory].entries
Entries(directory) ==
  {p \in Paths : Below(p) /\ ParentOf[p] = directory /\ NameOf[p] \in Listed(directory)}

LiveFiles == {<<p, nodes[p].content>> : p \in {q \in Paths : LiveFile(q)}}

MayEdit(p) ==
  /\ edit = None
  /\ spent.edits < MaxEdits
  /\ p \notin {Root, NoPath, SiteDirectory} /\ LiveDirectory(ParentOf[p])
  /\ spent' = [spent EXCEPT !.edits = @ + 1]

Edited ==
  /\ held' = held \cup LiveFiles'
  /\ untouched' = FALSE

\* write uploads first.
BeginWrite(p, content, body) ==
  /\ MayEdit(p)
  /\ ~LiveDirectory(p)
  /\ Ask(Tab, "PUT", content, body)
  /\ edit' = [path |-> p, content |-> content, uploaded |-> FALSE]
  /\ UNCHANGED <<service, temporaries, objects, crashes, publisher, visit, history>>

EndUpload ==
  /\ edit # None
  /\ ~edit.uploaded
  /\ TakeAnswer(Tab)
  /\ edit' = IF requests[Tab].status = 201 THEN [edit EXCEPT !.uploaded = TRUE] ELSE None
  /\ UNCHANGED <<service, temporaries, objects, crashes, publisher, visit, spent, history>>

ApplyWrite ==
  /\ edit # None
  /\ edit.uploaded
  /\ LET d == ParentOf[edit.path] IN
       WriteFile(Owner, RootKey, edit.path, d, edit.content, Listed(d) \cup {NameOf[edit.path]})
  /\ edit' = None
  /\ Edited
  /\ UNCHANGED <<serverVars, publisher, visit, spent>>

MakeDirectory(p) ==
  /\ MayEdit(p)
  /\ ~Live(p)
  /\ LET d == ParentOf[p] IN Mkdir(Owner, RootKey, p, d, Listed(d) \cup {NameOf[p]})
  /\ Edited
  /\ UNCHANGED <<serverVars, edit, publisher, visit>>

\* A file, or a directory that lists nothing.
Remove(p) ==
  /\ MayEdit(p)
  /\ LiveDirectory(p) => Entries(p) = {}
  /\ RemoveNode(Owner, RootKey, p, Listed(ParentOf[p]) \ {NameOf[p]})
  /\ Edited
  /\ UNCHANGED <<serverVars, edit, publisher, visit>>

-----------------------------------------------------------------------------
(* publish *)

Task(do, p, size) == [do |-> do, path |-> p, size |-> size]
Published == IF manifests.published THEN manifests.site ELSE {}
Statting == \E t \in publisher.todo : t.do = "stat"
Others == <<service, serverVars, edit, visit, spent, history>>

\* Mutant: the list goes on from the one published before.
BeginPublishOnTop ==
  /\ publisher.pc = "idle"
  /\ spent.publishes < MaxPublishes
  /\ spent' = [spent EXCEPT !.publishes = @ + 1]
  /\ publisher' = [pc |-> "walking", lines |-> Published,
                    todo |-> {Task("list", SiteDirectory, NoContent)}]
  /\ held' = LiveFiles
  /\ untouched' = TRUE
  /\ UNCHANGED <<service, serverVars, edit, visit>>

BeginPublish ==
  /\ publisher.pc = "idle"
  /\ spent.publishes < MaxPublishes
  /\ spent' = [spent EXCEPT !.publishes = @ + 1]
  /\ publisher' = [pc |-> "walking", lines |-> {},
                    todo |-> {Task("list", SiteDirectory, NoContent)}]
  /\ held' = LiveFiles
  /\ untouched' = TRUE
  /\ UNCHANGED <<service, serverVars, edit, visit>>

\* list: the index, then a stat of every entry at once; only when all have
\* been answered does the walk go on, with one entry at a time.
ListDirectory(t) ==
  /\ t.do = "list" /\ ~Statting
  /\ publisher' = [publisher EXCEPT
       !.todo = (@ \ {t}) \cup {Task("stat", p, NoContent) : p \in Entries(t.path)}]
  /\ UNCHANGED Others

\* Mutant: the walk does not go into directories.
AfterStatFlat(p) ==
  IF ~Live(p) \/ nodes[p].kind = "directory" THEN {} ELSE {Task("read", p, nodes[p].content)}

AfterStat(p) ==
  IF ~Live(p) THEN {}
  ELSE IF nodes[p].kind = "directory" THEN {Task("list", p, NoContent)}
  ELSE {Task("read", p, nodes[p].content)}

StatEntry(t) ==
  /\ t.do = "stat"
  /\ publisher' = [publisher EXCEPT !.todo = (@ \ {t}) \cup AfterStat(t.path)]
  /\ UNCHANGED Others

\* The size was read with the stat; the root is read now, from a node that
\* may have been written or removed in between.
ReadNode(t) ==
  /\ t.do = "read" /\ ~Statting
  /\ publisher' = [publisher EXCEPT
       !.todo = @ \ {t},
       !.lines = @ \cup {[path |-> t.path, size |-> t.size, root |-> nodes[t.path].content]}]
  /\ UNCHANGED Others

EndWalk ==
  /\ publisher.pc = "walking"
  /\ publisher.todo = {}
  /\ publisher' =
       IF /\ \E line \in publisher.lines : line.path = IndexPage
          /\ Cardinality(publisher.lines) <= MaxFiles
         THEN [publisher EXCEPT !.pc = "submitted"] ELSE Stopped
  /\ UNCHANGED Others

\* A query, the signature or the wait fails, or the action is lost.
PublishFails ==
  /\ publisher.pc # "idle"
  /\ publisher' = Stopped
  /\ UNCHANGED Others

ApplyPublish ==
  /\ publisher.pc = "submitted"
  /\ PublishSite(Owner, RootKey, publisher.lines)
  /\ publisher' = Stopped
  /\ UNCHANGED <<serverVars, edit, visit, spent, history>>

Walk ==
  \/ \E t \in publisher.todo : ListDirectory(t) \/ StatEntry(t) \/ ReadNode(t)
  \/ EndWalk

-----------------------------------------------------------------------------
(* The visitor. *)

Rest == <<service, edit, publisher, spent, history>>

BeginVisit(address) ==
  /\ visit.pc \in {"idle", "shown", "listing", "failed"}
  /\ spent.visits < MaxVisits
  /\ spent' = [spent EXCEPT !.visits = @ + 1]
  /\ visit' = [pc |-> "manifest", path |-> address, line |-> None]
  /\ UNCHANGED <<service, serverVars, edit, publisher, history>>

Requested(address) == IF address = SiteDirectory THEN IndexPage ELSE address

\* readPublished: the manifest, then the bytes of the line, if there is one.
ReadManifest ==
  /\ visit.pc = "manifest"
  /\ \/ \E line \in Published :
          /\ line.path = Requested(visit.path) /\ line.root # NoContent
          /\ Ask(Guest, "GET", line.root, line.root)
          /\ visit' = [visit EXCEPT !.pc = "fetching", !.line = line]
     \/ /\ \A line \in Published : line.path = Requested(visit.path) => line.root = NoContent
        /\ visit' = [visit EXCEPT !.pc = "fallback"]
        /\ UNCHANGED requests
  /\ UNCHANGED <<Rest, temporaries, objects, crashes>>

\* The bytes count if they have the size the line says.
EndFetch ==
  /\ visit.pc = "fetching"
  /\ TakeAnswer(Guest)
  /\ visit' = [visit EXCEPT !.pc =
       IF requests[Guest].status = 200 /\ SizeOf[visit.line.size] = SizeOf[visit.line.root]
         THEN "shown" ELSE "fallback"]
  /\ UNCHANGED <<Rest, temporaries, objects, crashes>>

\* Whatever went wrong, the manifest is read again for files below the address.
FallBack ==
  /\ visit.pc = "fallback"
  /\ visit' = [visit EXCEPT !.pc =
       IF \E line \in Published : visit.path \in Ancestors[line.path]
         THEN "listing" ELSE "failed"]
  /\ UNCHANGED <<Rest, serverVars>>

VisitFails ==
  /\ visit.pc \in {"manifest", "fallback"}
  /\ visit' = [visit EXCEPT !.pc = "failed"]
  /\ UNCHANGED <<Rest, serverVars>>

-----------------------------------------------------------------------------
Serve(c) ==
  /\ Handle(c)
  /\ UNCHANGED <<service, edit, publisher, visit, spent, history>>

ServerRestarts ==
  /\ Crash
  /\ UNCHANGED <<service, edit, publisher, visit, spent, history>>

SiteNext ==
  \/ \E p \in Paths, content \in Bytes, body \in Bytes : BeginWrite(p, content, body)
  \/ EndUpload \/ ApplyWrite
  \/ \E p \in Paths : MakeDirectory(p) \/ Remove(p)
  \/ BeginPublish \/ Walk \/ PublishFails \/ ApplyPublish
  \/ \E p \in Paths : BeginVisit(p)
  \/ ReadManifest \/ EndFetch \/ FallBack \/ VisitFails
  \/ \E c \in Callers : Serve(c)
  \/ ServerRestarts

SiteSpec == SiteInit /\ [][SiteNext]_siteVars

-----------------------------------------------------------------------------
(* Properties *)

\* Every line of a manifest, published or being gathered, names bytes that
\* the server has and has whole, whatever is uploaded again or cut off by a
\* crash: the upload comes before the metadata, an object is replaced by a
\* rename only.  Left out are lines with the zero root, which a file that
\* becomes a directory during the walk leaves (LiveFileSystemRuntime.ts:36).
PublishedIsServed ==
  \A line \in Published \cup publisher.lines :
    line.root # NoContent => objects[line.root] = line.root

\* Nothing older than the walk is published: each root was held by its path
\* after publish was called (and was not left there by an earlier version).
SnapshotIsRecent ==
  \A line \in publisher.lines : line.root # NoContent => <<line.path, line.root>> \in held

SiteFiles ==
  {p \in Paths : /\ LiveFile(p) /\ SiteDirectory \in Ancestors[p]
                 /\ \A d \in Ancestors[p] : SiteDirectory \in Ancestors[d] => LiveDirectory(d)}

\* If nothing was edited during the walk, what is signed is the tree, file by
\* file, with the size and the root of one and the same content.
QuietSnapshotIsExact ==
  publisher.pc = "submitted" /\ untouched =>
    publisher.lines = {[path |-> p, size |-> nodes[p].content, root |-> nodes[p].content] :
                       p \in SiteFiles}

=============================================================================
