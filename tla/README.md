# A formal model of JAM Computer

JAM Computer is a desktop in a browser whose files, names and identity live on
chain, in services of the MiniJAM network. This directory holds TLA+ modules
translated from its source, the TLC configurations that check them on small
instances, and theorems about them checked by TLAPS. Paths below are relative to
the root of the repository.

Parse with `tlasany M.tla`, check with `tlc -config X.cfg M`, prove with
`tlapm M.tla`. `PROJECT.json` lists the runs, the lines of source each definition
stands for, a mutation of the code that each property detects, the disagreements
found, and the hazards the properties are for.

## 1. The system

| Component | State it keeps | Operations | Talks to |
|---|---|---|---|
| Computer Service, `services/computer/src/service.ts` | on chain: profile, appearance, site manifest, desktop index (one record each), desktop icons, nodes and directory indexes (by id or path) | `initialize` and twelve more wallet actions, seven queries | applied by the chain one action at a time |
| Live file system client, `src/runtime/minijam/LiveFileSystemRuntime.ts`, `src/jam/computerBackend.ts` | none but the locals of an operation between two awaits | `write`, `mkdir`, `remove`, `rename`, `publish`, `list`, `stat`, `read`, `readPublished` | queries and signed actions to the Computer Service; bytes to the content provider |
| JNS Service, `services/jns/src/service.ts` | on chain: name to owner and service id | `claim`, `bind`, `resolve` | applied by the chain |
| JNS Service as deployed, `artifacts/jns/stage1/scriptc` | the same, behind a state root; a counter of each signer; views and overlays of the runs under way | verify a signed action, run it, refine, accumulate | workers off chain, the chain |
| JNS client, `src/jam/names.ts`, `src/jam/jnsBackend.ts` | none live; in preview a map in each tab and one copy in localStorage | `claim`, `bind`, `resolve` | account adapter, JNS Service |
| Provisioning, `src/jam/computer.ts`, `src/jam/computerCache.ts`, phases of `src/App.tsx` | localStorage: service id by account; per tab: phase, account, service id | `provision`, `create`, `initialize`, `verify`, `current` | deployment RPC, Computer Service |
| Accounts, `src/jam/account.ts` | the connected wallet account, in memory | `connect`, `disconnect`, `current`, `sign` | wallet extension |
| Content provider, `src/jam/contentProvider.ts`, `tools/content-provider` | objects by hash and temporary files, on the server's disk | `put`, `get`, `has` | HTTP |
| Work runtime and transport, `src/runtime/minijam/LiveWorkRuntime.ts`, `src/jam/transport.ts` | none; the operation's status is the node's | `submit`, `status`, `wait`, RPC | MiniJAM node |
| DOOM in preview, `src/runtime/doom/MockDoomRuntime.ts`, `realtime-local.ts`, `src/apps/doom` | runs and results in memory, the active run's id in localStorage, a session and a timer per window | create, input, tick, pause, finish, close | timers, the page's visibility |
| DOOM service, `services/doom/src/service.c`, and its runtime, `MiniJamDoomRuntime.ts` | on chain: session meta, state, inputs, result, best by account | create, input, execute, finish, by Work items | Work runtime |
| DOOM realtime session and formats, `realtime.ts`, `frame.ts`, `replay.ts` | socket status, promises of checkpoints in a queue | input, checkpoint, pause, resume, close | WebSocket gateway |
| JAM Browser, `src/apps/browser`, `src/protocols` | history, cursor, document | navigate, back, forward | names, published sites |
| Preview client, `src/jam/MockJamClient.ts`, `src/runtime/mock` | an in-memory Computer, copied to localStorage | the same operations as live | localStorage |
| Window manager, `src/App.tsx`, `src/os/window` | window list with z order | open, focus, minimize, close | applications |
| Shell, `src/shell`, `src/apps/terminal` | the working directory, in a context made anew by every rendering of the window | `cd` and the commands over the runtimes | Computer Service, names |
| Public page, Files, Settings and other applications | view state | call the runtimes above | |

What is hard about it, and what makes each part correct:

* **The service.** One handler is one transition, so the questions are about
  sequences of legal calls: is the owner fixed for good, is a Computer ever seen
  half made, does anything erase a record, do the file actions keep a tree.
* **The file client.** An operation is several queries followed by one signed
  action that carries a whole directory index, computed from what was read. Two
  operations overlap when two tabs, two promises, or an operation whose wait timed
  out and its successor are under way. Correct would be: a listing shows the live
  children, bytes exist before metadata names them, an action takes effect whole.
* **Publishing.** The walk over the tree is made of queries at different times
  while the owner edits, and the bytes are on a server that may crash in the middle
  of an upload. Correct would be: what a manifest names can be fetched whole, and
  the manifest is the tree, or at least nothing older than the walk.
* **Names.** Two wallets race for a name; the user switches accounts between the
  signature and the record that is shown; a wait ends without a receipt. In preview
  the tabs of a browser each hold the whole registry.
* **The deployed service.** A signed action runs off chain on a part of the state
  that somebody read at some time. Correct would be: what is accumulated is the
  service applying one action at a time, and each signature once.
* **Provisioning.** Every step may fail or be cut off by a reload; several tabs
  share the cache; anyone may initialize a new service first. Correct would be:
  what is remembered and shown is the account's own, a known Computer is not
  replaced, the progress screen ends.
* **DOOM.** Windows share a run and each has a timer and its own idea of the tick,
  and tabs share the key of the run under way; Works of several tabs are carried out
  in any order, and the service drops what it does not like in silence and finds
  numbers of 32 bits by the first text that looks like their name; what comes over
  the socket carries no number and may answer nothing.

## 2. The modules

| Module | Stands for | Composition |
|---|---|---|
| `OwnedComputer` | the promise: one owner, set once, who signed every change since | refined by `ComputerService` |
| `ComputerService` | the Computer Service, one action per wallet action | |
| `FileTree` | the promise of the file system interface: a tree that each operation changes at once | refined by `LiveFileSystem` |
| `LiveFileSystem` | the live client, the chain that applies its actions, the content provider | EXTENDS `ComputerService` |
| `ContentServer` | the content provider's handlers, temporary files, crashes | |
| `SitePublish` | publish, the owner's edits meanwhile, a visitor | EXTENDS `ComputerService`, `ContentServer` |
| `NameRegistry` | the promise of JNS: first claim owns, only the owner binds | refined by `LiveNames` |
| `JnsService` | the JNS Service with its error codes | refined by `JnsRuntime` |
| `LiveNames` | the JNS client, its account and the chain | EXTENDS `JnsService` |
| `PreviewNames` | the JNS client over the preview backend, in several tabs | beside `LiveNames` in the run `names` |
| `NameWire` | a claim on its way from what the user types to the key of its record: three checks of a name in three files | beside `LiveNames` in the run `names` |
| `ShellSession` | the shell's working directory: `cd`, the resolution of its argument, the rendering of the window | beside `LiveNames` in the run `names` |
| `StateView` | the deployed service's view of its state: binary search, overlay, requests for more | |
| `JnsRuntime` | workers that run signed actions and blocks that accumulate the results | EXTENDS `StateView` |
| `Provisioning` | provision, current, the cache and the phases of App, in several tabs | |
| `PreviewDoom` | the mock runtime, the realtime sessions on it, the windows | |
| `DoomService` | the DOOM service, one action per request | |
| `MiniJamDoom` | the live runtime's calls, the Work runtime, the chain | EXTENDS `DoomService` |
| `DoomRealtime` | the WebSocket session and its promises | |
| `DoomWire` | frames and replays as bytes | |
| `ServiceInfo` | the decoder of a finalized service | |
| `MC...` | constants for TLC | EXTEND the above |
| `...Proofs` | theorems | EXTEND the above |

**ComputerService.** The seven maps of the service are seven variables. Only the
root key reaches the records keyed by it, so each of those maps is one record or
`None`. `sender` is `ctx.sender` of the last action, there for the properties. A
handler that aborts changes nothing, so `abort(n)` is a negated guard. The guards
of the file actions are operators of their own (`MayCreate`, `MayRemove`,
`MayRename`), because the client model needs to know when the chain rejects. Data
that no property tells apart is one value: a node's mime, size and root are a
`Contents`, an encoded index the set of names in it.

**LiveFileSystem.** A client is a strand of execution: a tab, or one of several
promises in a tab. `clients[c].pc` says which await it is at; the requests are
records in `Requests`. `ReadParent`, `ReadTarget`, `ReadListing`, `StatEntry`,
`PutContent`, `ReadFromIndex` and `Submit` are the awaits in the order of the
code, including what differs between operations: `rename` asks of its target
parent only that it is there, `remove` and `rename` take a removed node for
present, `rename` also takes the *old* name out of the *new* directory. The last
query and the submission of the action built from it are one step, because
nothing the strand does in between is visible. Signed actions wait in `inbox`; the
chain applies, rejects or loses each, in any order. A failed await ends the
operation (`StepFails`), and a wait may end while its action is on its way
(`GiveUp`). Paths are abstract: `ParentOf` and `NameOf` replace the string
arithmetic, and in the MC module a path is the sequence of its components. The
4096 bytes of an index are `IndexCapacity` names. The wallet is the same
throughout; account changes are the subject of `LiveNames`.

**ContentServer and SitePublish.** A caller of the server has one request, whose
handler is cut at its awaits: the body is read, the temporary file is written
(`Torn` until the write ends), renamed, or taken away after a failure; `HEAD` and
`GET` read what the disk holds and check its digest. `Crash` forgets the requests
and leaves the disk. In `SitePublish`, `publisher` holds the walk: the directories
still to visit, and in each the listing, which has the size of every entry, then
for each file a second query, which has its root. The owner's edits are
whole file operations, signed one at a time, between any two steps of the walk; how
edits race each other is `LiveFileSystem`. The visitor resolves an address to the
manifest, the entry, the bytes and the fallback listing, as `protocolRouter.ts`
does. `held` and `untouched` are histories for the properties.

**LiveNames.** A call signs with the account connected at that moment, waits, and
then resolves the name in a separate query for the record it returns. `Switch` may
happen anywhere, `ForeignAction` is any other wallet.

**PreviewNames.** A tab's `registries` entry is the map of `MockJnsBackend`, read
from `saved` (localStorage) when the tab is opened and written back whole by every
change. Calls are cut at the awaits of `names.ts`, and calls of one tab alternate.

**NameWire.** Characters are code points and a u32 two halves. The client's
`validateName`, `isCanonicalJnsName` and `parseJnsServiceId` decide what is asked,
`EncodeClaim` is the input as the ABI describes it, `Spoil` makes another client's
input of it, and the service's `jamNatural`, `DecodeClaim` and `validName` read it.
`key_names` and `Before` are the key and the order by which `StateView` keeps it. The
instance has a character that `toLowerCase` turns into an ASCII letter and names at
both ends of the length that is let pass.

**ShellSession.** A path is the sequence of its parts, an argument of `cd` says where
it starts (`/`, `~` or the working directory). `Enter` resolves it at once against the
directory of that moment; `Changed` and `NotChanged` are the file system's answer,
`Render` a new context. `trail` and `calm` are histories for the property.

**StateView and JnsRuntime.** Generated code is modelled where its control matters:
the search in a sorted view turn by turn (`Turn`), the overlay of writes, and the
request for a key that is in neither, which ends the run. A worker takes a signed
action and a state, runs the handler on the view, adds the key it is asked for and
starts over, and reports state before, state after and the signer's counter. A
block accumulates some reports in order and refuses those whose earlier state is
not the chain's. Reports may be late, repeated, or made from an outdated state.

**Provisioning.** `pc` runs through the awaits of `provision`, with the phases of
`App.tsx` around them. `Check` is `verify`, which answers *false* for a failed RPC.
`ListServices` and `Listed` are `current()`, which My Computer calls through
`services.list()` whenever it is opened, and which clears the cache entry if
`verify` says no. `Remember` and `Forget` write the cache, and a storage that refuses is
ignored, as in `computerCache.ts`. `Reload` forgets all but the cache. Live mode only; the code hash
is fixed, so of the profile only the owner matters. The history variable `inDoubt` has
the tabs that took the account's own service for another's since they last read the
cache, or relied on a reading that another tab of the account has since replaced.

**DOOM.** In `PreviewDoom` every call of the runtime settles in microtasks, so a
timer tick or a click is one step, and what interleaves is the steps of several
windows on one run. `OtherTabs` writes localStorage's key as the other preview tabs
do, whose runs bear the ids of this tab's. `DoomService` follows `service.c` request by
request, the silent refusals included. Its numbers have `Word` values and wrap, and
`Called` says which field's name a session's id is, if any: that field is then read as
0. `MiniJamDoom` cuts `createSession`, `submitInput`,
`executeTicks`, `getState` and `finish` at their awaits; a Work may be reported,
imported or failed at any time, and a wait may time out first. `DoomRealtime` has
the socket, both directions of messages and the promises, by number. Besides its
answers the gateway sends at any time what nobody asked for (`Sends`): errors about an
input, frames, some of them unreadable, statuses, checkpoints. `strays` counts
those that `receive` takes for the answer to a checkpoint. `DoomWire`
encodes and decodes with a one byte magic, shorter hashes and a small byte, and
damages what is on the wire.

**ServiceInfo.** The prefix the node writes and what `readCompact` makes of it,
with the lengths at the edges of each form.

## 3. What is checked

Passing runs (module, bounds, what it shows):

| Run | Bounds | Shows |
|---|---|---|
| `computer_service` | 2 wallets, 2 keys, 3 paths, 1 icon | `TypeOK`; `OpenedAtOnce`: no profile means no record at all, a profile means every record of a new Computer; `NodesSayTheirPath`, which `removeNode` relies on to spare the root; `ImplementsOwned`; `RemovalKeepsTheRecord`: no action erases a node and a node that dies keeps its content |
| `fs_apart` | two strands, two directories, 4 operations, giving up allowed, no two operations in progress on one directory | `IndexesListChildren` and `ImplementsFileTree`: users who stay out of each other's directories while an operation is in progress, on the requests clear of the flaws below, have a file tree, whatever is lost or given up |
| `fs_concurrent` | two strands on one directory, 3 operations, index of one name, giving up allowed, fair | `ContentStored`, `EntriesAreRecorded`, `DirectoriesIndexed`, `AppliedWhole`, `NewNodesHaveADirectory`: what holds although updates are lost; `OperationsEnd`; `FsTypeOK` |
| `site` | 2 edits, 2 publishes, 1 visit, 1 crash, 2 contents, 5 paths, 2 names of temporary files | `PublishedIsServed`: what a manifest names, published or being gathered, is on the server whole; `SnapshotIsRecent`: no root is older than the walk; `QuietSnapshotIsExact`: without edits the manifest is the tree; `OnlyCrashesLitter`: a temporary file outlives its request only if the server crashes |
| `names` | live: 2 strands, two accounts and one foreign, 3 calls; preview: 2 tabs, 2 strands each, 4 typed names, 3 calls; wire: 9 texts, 3 ids, 2 bytes changed, missing or added; shell: 9 arguments, 4 commands, paths of 4 parts | `ImplementsRegistry`, `RecordsAreTheSigners`, `AppliedNamesResolve`, `ErrorsStayTrue` of the live client; `NamesAreKept` of the preview: a tab's map loses no name and only a bind changes an entry, and a name leaves localStorage only through a tab whose map is outdated; of the wire `ClaimsAreRead`: the service reads the name and id that were typed, and a name it takes from anyone is one this client can look up, with a key of its own; of the shell `CwdIsWhereCommandsLed`: commands given one after the other lead where all that was typed leads, resolved at once |
| `jns_runtime` | 2 accounts, 2 names, one of them valid, 2 workers, 2 signatures, 2 blocks of 2 reports | `ImplementsService`: each report a block takes is one action of `JnsService` on the chain's state, though no run saw all of it; `CountsOnce`: no signature is applied twice; `AsksForMore`: a run asks only for what it does not see, so that it ends |
| `provisioning` | 2 tabs, 1 account, 1 foreign wallet, 3 services, failures, fair | `MineOnly`: what is cached or shown is owned by the account; `ProvisioningEnds`; `ProvTypeOK` |
| `provisioning_doubts` | 2 tabs, 2 accounts, 1 foreign wallet, 3 services, failures and reloads | `SecondOnlyInDoubt`: a service is deployed for an account whose Computer the browser remembers only by a tab in doubt; `KeptUnlessInDoubt`: only such a tab makes it forget that Computer or remember another |
| `doom` | six scopes, each behaviour taking one: 2 windows, 2 runs of 3 ticks, 1 reload, once alone and once, without keys pressed, beside other tabs; the service with 2 sessions, one of them called "score", 2 accounts, 4 ticks played; 2 tabs with 3 Works of one session; numbers of 3 values, batches of 2 and of 3 ticks; 3 checkpoints, 2 stray messages, 2 statuses from the gateway; messages damaged twice | preview: `InputsArePlayed`, `ResultsAreFinal`, `KeyIsResumable`: a window shows runs of its page, and the key this tab wrote last names one it has not finished; service: `BestIsHighest`, in any order of Works; live runtime: `ExecutionsCount`; session: `CheckpointsSettle`: no checkpoint gets a later one's answer, nor an earlier one's by more places than strays came in; wire: `BytesAreTheMessage`, two encodings of one message do not exist and what is decoded is what was sent |

Why the bounds are enough to be interesting: every conflict found in the file system
needs two operations on one directory, or three for what a move or a recursive
remove leaves behind; the concurrent run allows three, with reads of one between the
reads and the action of another. An index of one name makes the full index happen at
once. Two edits during one walk change a file between its listing, its size and its
root, remove it, or put a directory in its place; two publishes let a crash fall
into an upload that replaces an object already published. Two signatures of one
account on two workers make one of the reports stale, and a second block takes a
report held back by the first. Three services let one account deploy, lose and retry
while another has its own. Words of three values wrap within four ticks. Two windows are enough for one to be behind the run or to
hold a run the other has finished. The bounds named in the modules (`MaxIssued`,
`MaxEdits`, `MaxWorks` and their like) are the only cut-offs; when the operations
run out these models stop, hence `CHECK_DEADLOCK FALSE` in the runs of the file
system, of `site`, `jns_runtime` and `doom`. Symmetry is used in safety runs only.

Fairness. `fs_concurrent`: a strand with an answer waiting runs on, and each action
submitted is dealt with; nobody is obliged to start an operation.
`provisioning`: the same for `provision` and its initialize action; retry,
reload and the foreign wallet are never obliged. The code has no unbounded loop in
these paths, each await either answers or throws, and the chain orders actions
independently of each other, so weak fairness for each is what scheduling gives.
For the rest no liveness is stated: a Work's status is the node's to change, a
gateway may never answer, and what the code adds is a timeout.

Runs that refute something the repository says:

| Run | The code | The text it contradicts |
|---|---|---|
| `fs_race` | two overlapping writes: the later index drops the earlier name | `services/computer/src/service.ts:262`, an index lists the child names |
| `provisioning_transient` | a failed RPC while the cached id is verified deploys a second Computer | `README.md:56`, "create or reconnect to your Computer Service" |
| `service_info` | `readCompact` leaves the first byte of a four byte prefix out, so lengths of 16384 and more are misread; an info of today has about a hundred bytes | `src/jam/transport.ts:19`, "Decode SCALE compact-encoded length prefixes" |

Other behaviours of the file system that `fs_apart` steers clear of, the first by its
specification and the others by its requests. Each shows up as a violation of
`IndexesListChildren` or `AppliedWhole` when the request is added to the instance:

* a write abandoned by its client (`MayGiveUp`) and applied after its successor
  restores the older index, even with one strand, which is why an action still on its
  way counts as in progress in `Apart`;
* a move to another directory filters the old name from the *target's* index, where
  another file may have it;
* a recursive remove marks one node; the same directory made again has live
  children it does not list;
* a rename of a file onto itself removes it and leaves it listed, because the
  tombstone of the source is stored last;
* a rename to `/` stores a file over the root, which `writeFile`, `mkdir` and
  `removeNode` refuse to do (`service.ts:281, 294, 309`);
* a write or a rename onto a directory hides what is below it.

What else the models show, and no text of the repository denies:

* *Sites.* A file that becomes a directory during the walk is published with the
  zero root. Size and root of one line may be of two versions of the file, and a
  visitor then gets `CONTENT_INTEGRITY_ERROR`. An address whose index page cannot be
  read shows a listing instead.
* *Names in preview.* Tabs load the registry once and write it back whole, so each
  overwrites what the others claimed since; `NamesAreKept` says that nothing else
  takes a name away.
* *DOOM in preview.* Every tab numbers its runs from `mock-session-1` and all write
  one localStorage key, so the key may name another tab's run and be read as this
  page's of the same id: a window opened then shows a run that is finished, whose ticks and
  whose End run are errors. `KeyIsResumable` says of such a key only that the run exists.
  A page that becomes visible again resumes a run the user paused.
  Finishing one run clears the localStorage key although another run is active. Two windows on
  one run get in each other's way: an input for a tick the other has played ends the
  session, and the window does not show that error.
* *DOOM service.* A batch of inputs replaces the batch before it, and holds for every
  tick of an execute; in the mock an input holds for its own tick. A session that is
  complete may be executed and finished again, which the mock refuses. The client
  sends any safe integer of ticks and the service reads it modulo 2^32, so 2^32 ticks
  are none; a session played on past 2^32 ticks starts from 0. A session called "tick" or
  "score" has that field read as 0 by every request, one called "ticks" is never
  played, and one called "account" cannot be created; a best result of a session called
  "score" gives way to any score above 0. `ExecutionsCount` and `BestIsHighest` name these
  exceptions. A session whose map or difficulty is too long, or hidden by
  its id, is created without a meta and is nobody's. A create for a
  session that is there succeeds without a word, so ids that start from
  `doom-session-1` collide. A finish that took effect is reported as
  `INVALID_RECEIPT` if the session is played on between the two reads.
* *DOOM session.* A checkpoint asked for on a socket that is lost waits until the
  session is closed. Any error, any checkpoint sent unasked and any frame or message
  the session cannot read is taken for the answer to the oldest checkpoint, and the
  answers after it go to the promises after theirs; `CheckpointsSettle` bounds by how
  many. A gateway that reports `closed` on an open socket makes the session's `close`
  do nothing. `decodeDoomFrame` accepts dimensions of
  zero, which the encoder refuses.
* *Shell.* The working directory lives in a context that every rendering of the window
  makes anew, so it is `/home/user` again as soon as the account answers, while
  the last prompt still shows the other directory. Of two `cd`s under way at once both are
  resolved against the old directory and the one answered last wins.
  `CwdIsWhereCommandsLed` is therefore about a window that is not rendered again and
  commands that wait for each other.

## 4. What is proved

Every property the passing runs check is a theorem but for the two named at the end: for
any number of wallets, strands, tabs, workers, windows and calls, any paths, names and
contents, and every value of the bounds. The theorems rest on the assumptions that
the modules name and TLC evaluates in every run. Those that say more than what type a
constant has:

| Assumption | What it says | What makes it so |
|---|---|---|
| `NoneAssumption`, `NoEntryAssumption`, `NoRecordAssumption`, `MissingAssumption` | *no record* is not a record | an absent key and an empty value are told apart in every client |
| `PathsAssumption`, `DescentAssumption` of `LiveFileSystem` | a directory and a name determine a path; going up from any path ends at the root | a path is a string, its parent a shorter one |
| `ContentsAssumption` | no content is the word *directory* | an abstraction of `FileTree`, which gives a path one value |
| `TreeAssumption` of `SitePublish` | the same of paths, as the set of the directories above each | as above |
| `RuntimeAssumption` of `JnsRuntime` | names are finitely many and ordered | a key has at most 256 bytes and keys compare bytewise |
| `WireAssumption` of `DoomWire` | a byte has an even number of values, more than 3; the most tics of a replay fit four bytes | 256 values; `DOOM_REPLAY_MAX_TICS` |
| `ShellAssumption` of `ShellSession` | the home directory needs no resolving and is short; an error is no path | `/home/user`; an exception is thrown |

* `ComputerServiceProofs`: `TypeCorrect`; `PathsSaid`, by induction together with
  types, since removal copies the path of the record it read; `OpensAtOnce`, which
  needs that every guard but `initialize`'s asks for a profile; `RecordsKept`;
  `OwnershipHolds`, the refinement: `initialize` maps to the abstract claim, every
  other action to an update signed by the owner; `TreeIndexed` and
  `NodesGrowUnderDirectories` for the file actions alone.
* `LiveFileSystemProofs`, for strands that interleave and fail anywhere:
  `FsTypeCorrect` and `ContentIsStored`. The latter is not
  inductive: what makes it so is that a strand past `PutContent` has its content
  in the store, and that an action in flight was submitted by such a strand.
  `EntriesRecorded` and `ActionsApplyWhole` share the invariant `TreeInv`: the indexes
  an action or a strand carries name only recorded paths, but for the one the action
  makes, and say of the action's own paths what its operation means; and a recorded
  node says the directory it is in. The second has the hypothesis `RenamesMove`: the
  code lets a file be renamed onto itself, which leaves a tombstone that its directory
  lists. `LiveTreeIndexed` and `LiveNodesGrowUnderDirectories` are the service's theorems of
  `FileSpec` again: to the service the live file system is a user of its file actions.
* The same module, for operations kept apart: strands interleave, fail, lose actions and
  give up as before, but no two operations in progress touch the same directory (`Apart`,
  which `ApartSpec` asks of every step; the code has no lock that would see to it), and
  requests stay clear of the flaws of section 3 (`Orderly`: no file where a directory is
  made, no recursive remove, a rename that changes the name or the directory and not
  both). The run `fs_apart` is an instance of both hypotheses, and `OneAtATimeIsApart` says
  that a single strand that waits is such a use. `IndexesListAll` rests on `ApartInv`:
  what lives is listed by a live directory, and what a strand has read is still so, up to
  the action that carries it (`Knows`, `Current`), whoever else's actions were applied in
  between: they are about other directories, where nothing of it can change
  (`ElsewhereStands`).
  `TreePromised` is the refinement of `FileTree`, with
  `RenamesMove` besides. Its map `Shown` is a recursive function, of which nothing is
  known until one is shown to exist: `Found`, what lives with its content, solves the
  equation, and a solution is unique because descent ends (`ReachedOnce`,
  `ShownIsFound`). With the same argument for `Below`, of which `DeeperSolved` gives
  the solution, nothing lives below where nothing lives. Then each action applied is one
  operation of the tree (`ApplyPerforms`), and every other step a stutter.
* `SitePublishProofs`: `ServerTypeCorrect`, `PublishedStaysServed`,
  `SnapshotsAreRecent`, `HandlersLeaveNoLitter`. The inductive invariant `SiteInv`
  says of the server that a request about to rename has its bytes whole in a
  temporary file that no other request has (`Kept`, `Apart`), and of the rest that
  every root a node, an edit, the walk or a manifest mentions was uploaded first.
  From there no crash and no second upload can take a published object away.
  `QuietSnapshotsAreExact` needs two more: `TreeInv`, that the owner's edits keep a tree
  whose indexes list what lives, and `WalkInv`, of the walk while nobody edits: each
  task is about what is there, each line is exact, and every file of the site has its
  line or is below a task still to do.
* `LiveNamesProofs`: `LiveTypeCorrect`, `RegistryHolds`, `SignersGetTheirRecords`,
  `AppliedNamesAreFound`, `AnswersDoNotGoStale`. They share one lemma on what a
  step may do to the registry (an entry stays, with its owner) and an invariant on
  calls that wait: the account they remember is the one their action was signed by.
  `PreviewKeepsNames` is the action property of the preview; calls under way belong to
  tabs that are open and are about valid names.
* The same module has `ClaimsRead`, of any texts, ids and bytes (`NameWire`). What is
  decoded of an input nobody changed is what was encoded (`ClaimReadBack`), since the
  length of a name is below 128 and so is one byte (`LeadingOnesTyped`); the bytes of any
  input whatever stay bytes (`WireInv`), a name in them that passes one of the three
  checks passes the others (`ChecksAgree`) and is its own normal form
  (`CanonicalIsEncoded`); and of two different keys exactly one is before the other
  (`BytesOrdered`, by the least place where they differ), which is what the binary search
  of `JnsRuntime` asks of the order of keys.
* And `CwdIsFollowed`, of any commands and paths (`ShellSession`). While commands wait for
  each other, the directory is where all that was typed leads, and so would be the target
  of the one command under way (`ShellInv`). That a step keeps this is `FollowConcat`, two
  pieces lead where the whole does, together with `FollowClean`, a path that needs no
  resolving leads to itself, since each `cd` is resolved against a directory that was
  resolved before. `FollowLeads` then says of where a path leads, by induction over its
  parts, what the property says: which part of the directory comes from which part typed.
  `Follow` is a recursive function, shown to exist first (`RunsExist`).
* `JnsRuntimeProofs`: `RuntimeTypeCorrect`, `SignaturesCountOnce`,
  `ServiceImplemented` and `RunsAskForMore`. The third needs of a run that its view
  holds nothing but what its state says, under an overlay of its own writes, and of a
  report that its two states differ by one handler of the service; the chain's check
  that the earlier state is its own then makes it a step of `JnsService`. The last is
  the correctness of the binary search: in a view that is in order, `TurnNarrows` keeps
  the key between the bounds, `SearchFinds` follows by induction over the
  distance of the bounds, and `OrderHoldsAll` says that a view in order exists of any
  finite set of names. (The library's induction theorems take an operator, which the
  provers cannot instantiate; the least element of a set of naturals does the same.)
* `ProvisioningProofs`: `ProvTypeCorrect` and `MineOnlyHolds`: owners on chain
  never change (`OwnersStay`), and an id reaches the cache or the desktop only from
  a stage that verified it (`VerifiedFirst`). `SecondIsInDoubt` and `ComputerIsKept`
  hold for any tabs, accounts and failures, and say what is left of the promise that
  `provisioning_transient` refutes. Their invariant `DoubtInv` says at each await what a
  tab that is not in doubt knows of the id the browser remembers: from its reading of the
  cache to the end of `provision` the cache is empty or holds the id the tab goes by
  (`Stands`), so that a tab without an id finds it empty, and a tab that drops one,
  `MineOnly` says, drops its account's own.
* `PreviewDoomProofs`: `InputsGetPlayed`, `ResultsStayFinal` and `KeyStaysResumable`,
  from one invariant `PreviewInv`: the runs are numbered from 1 without gaps, a window's session
  has seen no more of a run than was played, a result is of a run that is finished
  and as it was left, and the key is of this page's making or another tab's.
* `DoomLiveProofs`: `BestResultIsHighest`, of the service on any Works, and
  `BestResultIsHighestLive` under the runtimes of any number of tabs: a stored result
  is never above the best of its account, and a best is one that was awarded
  (`Stored`, `Best`). `ExecutionsAreCounted`: at each await of `executeTicks` the call
  knows that its session has only been played on since, and once its Work is imported,
  by enough ticks (`Executing`), which for a session that has not wrapped is what
  its tick says. `CheckpointsAreSettled`: the numbers of the answers on their way and of the
  messages the gateway has not read follow those answered already, the promises in
  the queue follow those taken off it, and the second count is ahead of the first by no
  more than the strays (`Ahead`).
* The same module has `MessagesAreTheirBytes`, of any messages, any even number of values of
  a byte, any length of hashes and any damage (`DoomWire`). Division leaves one quotient and
  one remainder (`DividesOnce`), so numbers of two and four bytes and their bytes determine
  each other (`TwoBytes`, `FourBytes`), and so do signed numbers and their two's complement
  (`SignedBack`, `SignedForth`). Then commands and whole replays are read back as they
  were (`CommandBack`, `ReplayBack`), and bytes a replay is read from are its encoding
  (`CommandForth`, `ReplayForth`), which needs the check that the length fits exactly. For
  frames the first holds (`FrameBack`); the second does not, since what is no
  character is read as one sign whatever it was. The invariant `WireHolds` says only
  that the wire has bytes, those of the message sent until they are damaged.

Only model-checked:

* `OperationsEnd` and `ProvisioningEnds`, which are liveness under fairness; the
  prover does not treat ENABLED.

## 5. Not modelled

* The preview client and runtime (`MockJamClient.ts`, `src/runtime/mock`): each call
  is one synchronous step on data of one tab, without the network, chain and content
  it stands for. Its parts with shared state, names and DOOM, are modelled. It differs
  from the live one in what it accepts: `remove("/")` takes the root alone away, a
  rename into a directory that is missing succeeds, and published bytes are looked up
  by a short hash in the files as they are now.
* The browser's history. `navigate` cuts the history at the cursor of the render it
  was started in, so two that overlap may leave the cursor outside of it. Whatever
  could be said of the history fails as soon as that happens, and no text of the
  repository promises more.
* The window manager (one list in one tab, changed by one click at a time;
  `windowStore.ts` is called by its test only), the preview page, Files, Settings, the
  commands of the shell but `cd`, and the other applications: thin callers of what is
  modelled, with view state.
* The wallet extension, the MiniJAM network beyond what the modules name (actions in
  any order, Works carried out once or never), fees, gas, the encoding of wallet
  actions, clocks and backoff; run permits and the runner behind the DOOM gateway;
  DOOM itself, of which a state is a tick and a score. Live mode is given
  `DeferredDoomRuntime`, so the DOOM service and its runtime are not reachable in the
  product yet.
* Build, release and smoke scripts, sequential tooling; `tools/doom-runner` is a smoke
  harness. (`scripts/stage1-guards.mjs`, which keeps the raw metadata actions out of
  the live client, is why `FileSpec` is a specification of its own, with two
  theorems.) The other generated files, and `services/computer/src/service.c`,
  historical and never deployed.
* Reads that change nothing (`read`, the public page), and user interface layout.

## 6. What could come next

1. **Preview**: the mock Computer as a second refinement of `FileTree`, once its
   `remove` and `rename` agree with the live ones.
2. **Lengths of paths**, of which the client allows 512 characters and the service's
   keys 256 bytes (`src/protocols/jamFs.ts:16`).
3. **Browser**: the history, once its overlaps are defined.
