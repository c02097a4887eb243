----------------------------- MODULE PreviewNames -----------------------------
(***************************************************************************)
(* Names in a preview tab: JamNameService (names.ts) over MockJnsBackend   *)
(* (jnsBackend.ts).  A tab loads the registry from localStorage once and   *)
(* writes it back whole with every change; the tabs of a browser share the *)
(* key.  Everybody is the one mock account.                                *)
(*                                                                         *)
(* Within a tab the calls run in microtasks, and those of two calls made   *)
(* in the same turn may alternate at each await.                           *)
(***************************************************************************)
EXTENDS Naturals

CONSTANTS
  PreviewTabs,        \* tabs of the browser
  Strands,            \* calls a tab may have under way at a time
  TypedNames,         \* names as the user types them
  Canonical,          \* what validateName makes of those it lets pass
  MockServices, Missing,
  MaxCalls            \* calls made

VARIABLES
  saved,      \* the key jam-jns-mock-v1 of localStorage
  registries, \* the map of each tab, Missing before the tab is opened
  strands,    \* the calls of each tab
  made        \* calls made so far

previewVars == <<saved, registries, strands, made>>

Valid == DOMAIN Canonical
StoredNames == {Canonical[n] : n \in Valid}

ASSUME PreviewNamesAssumption ==
  /\ Valid \subseteq TypedNames
  /\ \A n \in Valid : Canonical[n] \in Valid /\ Canonical[Canonical[n]] = Canonical[n]
  /\ Missing \notin MockServices /\ MaxCalls \in Nat

\* An entry is its service: the owner is mockAccountId32 of the mock account.
Map == [StoredNames -> MockServices \cup {Missing}]
Nothing == [n \in StoredNames |-> Missing]

\* The map of an open tab is not missing.
ASSUME MissingAssumption == Missing \notin Map

\* A call: what it awaits, its operation, and the service of the entry it
\* has read (bind) or returns.
Strand == [pc: {"idle", "owner", "resolve", "record", "invalid", "taken", "not found"},
           op: {"claim", "bind"}, name: StoredNames \cup {Missing},
           service: MockServices \cup {Missing}]

At(pc, op, name, service) == [pc |-> pc, op |-> op, name |-> name, service |-> service]
Unmade == At("idle", "claim", Missing, Missing)

PreviewNamesTypeOK ==
  /\ saved \in Map
  /\ registries \in [PreviewTabs -> Map \cup {Missing}]
  /\ strands \in [PreviewTabs \X Strands -> Strand]
  /\ made \in 0..MaxCalls

PreviewNamesInit ==
  /\ saved = Nothing
  /\ registries = [t \in PreviewTabs |-> Missing]
  /\ strands = [s \in PreviewTabs \X Strands |-> Unmade]
  /\ made = 0

----------------------------------------------------------------------------
\* jnsBackendFor and loadMockEntries, when the runtime is made: what cannot
\* be read is an empty registry.
Load(t) ==
  /\ registries[t] = Missing
  /\ \E found \in {saved, Nothing} : registries' = [registries EXCEPT ![t] = found]
  /\ UNCHANGED <<saved, strands, made>>

\* The page is left, and its calls with it.
Leave(t) ==
  /\ registries[t] # Missing
  /\ registries' = [registries EXCEPT ![t] = Missing]
  /\ strands' = [s \in DOMAIN strands |-> IF s[1] = t THEN Unmade ELSE strands[s]]
  /\ UNCHANGED <<saved, made>>

Ready(s) == strands[s].pc \notin {"owner", "resolve"}
Move(s, strand) == strands' = [strands EXCEPT ![s] = strand]

\* A call up to its first await: the name is put in its canonical form or
\* refused, and bind looks the entry up before it asks for the account.
Ask(s, op, typed, service) ==
  LET name == Canonical[typed] IN
  /\ registries[s[1]] # Missing /\ Ready(s) /\ made < MaxCalls
  /\ made' = made + 1
  /\ Move(s, IF typed \notin Valid THEN At("invalid", op, Missing, Missing)
             ELSE IF op = "bind" /\ registries[s[1]][name] = Missing
                  THEN At("not found", op, name, Missing)
             ELSE At("owner", op, name, service))
  /\ UNCHANGED <<saved, registries>>

\* Mutant: the new entry alone is written.
SavedAlone(old, registry, name) == [Nothing EXCEPT ![name] = registry[name]]

\* saveMockEntries; localStorage may be full or closed to the page.
Saved(old, registry, name) == registry

\* The account is there: set and persist are one step.
Store(s) ==
  LET c == strands[s]  t == s[1] IN
  /\ c.pc = "owner"
  /\ IF c.op = "claim" /\ registries[t][c.name] # Missing
     THEN Move(s, [c EXCEPT !.pc = "taken"]) /\ UNCHANGED <<saved, registries>>
     ELSE /\ registries' = [registries EXCEPT ![t][c.name] = c.service]
          /\ saved' \in {saved, Saved(saved, registries'[t], c.name)}
          /\ Move(s, [c EXCEPT !.pc = "resolve"])
  /\ UNCHANGED made

\* The record returned is looked up again.
Answer(s) ==
  /\ strands[s].pc = "resolve"
  /\ Move(s, [strands[s] EXCEPT !.pc = "record", !.service = registries[s[1]][strands[s].name]])
  /\ UNCHANGED <<saved, registries, made>>

PreviewNamesNext ==
  \/ \E t \in PreviewTabs : Load(t) \/ Leave(t)
  \/ \E s \in PreviewTabs \X Strands :
       \/ Store(s) \/ Answer(s)
       \/ \E op \in {"claim", "bind"}, typed \in TypedNames, service \in MockServices :
            Ask(s, op, typed, service)

PreviewNamesSpec == PreviewNamesInit /\ [][PreviewNamesNext]_previewVars

----------------------------------------------------------------------------
\* The call of a tab that stores an entry in this step.
Stores(s) == strands[s].pc = "owner" /\ strands'[s].pc = "resolve"

\* In a tab only a bind of a name changes its entry: of two claims that wait
\* for the account together the second is refused.
KeptInTab(n, t) ==
  registries[t] # Missing /\ registries[t][n] # Missing =>
    \/ registries'[t] = Missing \/ registries'[t][n] = registries[t][n]
    \/ \E k \in Strands : Stores(<<t, k>>) /\ strands[<<t, k>>].op = "bind"
                                           /\ strands[<<t, k>>].name = n

\* In storage a change of one name takes another away, or back to an older
\* service, only if the tab's map was loaded or changed without what the
\* other tabs have saved (jnsBackend.ts:60, the map is written whole).
KeptInStorage(n) ==
  saved'[n] # saved[n] =>
    \E s \in PreviewTabs \X Strands :
      Stores(s) /\ (strands[s].name = n \/ registries[s[1]][n] # saved[n])

\* A name that is taken stays so, in a tab and, but for what tabs with an
\* outdated map write, in storage.
NamesAreKept ==
  [][\A n \in StoredNames : (\A t \in PreviewTabs : KeptInTab(n, t)) /\ KeptInStorage(n)]_previewVars
=============================================================================
