----------------------------- MODULE DoomService -----------------------------
(***************************************************************************)
(* The DOOM simulation service, services/doom/src/service.c: what dispatch *)
(* does with the request of a Work.  A request it does not like is dropped *)
(* without a word; the Work succeeds all the same.                         *)
(*                                                                         *)
(* A score is the ticks played with an input: the actions differ in what   *)
(* they give, and the service gives it on every tick of an execute.        *)
(*                                                                         *)
(* Numbers are uint32_t.  A field of a JSON text is found by its quoted    *)
(* name, wherever that stands first: the session's id stands before most   *)
(* of the fields, and an id that is a field's name hides that field.       *)
(***************************************************************************)
EXTENDS Integers, FiniteSetsExt

CONSTANTS
  Sessions, Principals,   \* session ids and the accounts named in requests
  None,
  Called,                 \* the field that a session's id is the name of, if any
  Word,                   \* values of a uint32_t
  Batches,                \* numbers of ticks the clients ask for
  MaxPlayed               \* ticks of a session the service is explored for

VARIABLES
  metas,      \* doom:session:<id>:meta, the account a session is bound to
  states,     \* doom:session:<id>:state
  inputs,     \* doom:session:<id>:inputs, whether there is one
  outcomes,   \* doom:session:<id>:result
  best,       \* doom:best:<account>
  awarded,    \* history: the results ever stored
  played      \* history: the ticks ever executed of a session

doomStorage == <<metas, states, inputs, outcomes, best>>
serviceVars == <<doomStorage, awarded, played>>

ASSUME DoomServiceAssumption ==
  /\ None \notin Principals /\ Batches \subseteq Nat /\ MaxPlayed \in Nat
  /\ Called \in [Sessions -> STRING] /\ Word \in Nat \ {0}

Number == 0..Word - 1
State == [tick: Number, score: Number, completed: BOOLEAN]
Outcome == [session: Sessions, account: Principals, score: Number, ticks: Number, final: State]
Request == [op: {"create", "input", "execute", "finish"}, session: Sessions,
            account: Principals, ticks: Batches \cup {0}]

\* None is no record.
ASSUME NoRecordAssumption == None \notin State \cup Outcome \cup Request

DoomServiceInit ==
  /\ metas = [s \in Sessions |-> None]
  /\ states = [s \in Sessions |-> None]
  /\ inputs = [s \in Sessions |-> FALSE]
  /\ outcomes = [s \in Sessions |-> None]
  /\ best = [a \in Principals |-> None]
  /\ awarded = {}
  /\ played = [s \in Sessions |-> 0]

\* string_value and number_value: whether a request names an account, the
\* ticks it asks for, the state as load_state reads it.
Readable(q) == Called[q.session] # "account"
TicksRead(q) == IF Called[q.session] = "ticks" THEN 0 ELSE q.ticks % Word
Read(s, field, value) == IF Called[s] = field THEN 0 ELSE value
Loaded(s) ==
  [tick |-> Read(s, "tick", states[s].tick), score |-> Read(s, "score", states[s].score),
   completed |-> states[s].completed]

\* session_owner_matches.
OwnerMatches(q) == metas[q.session] = q.account

\* A map or difficulty that cannot be read, being too long or hidden, leaves
\* the session without a meta: it is nobody's.
CreateSession(q) ==
  /\ q.op = "create" /\ Readable(q) /\ states[q.session] = None
  /\ states' = [states EXCEPT ![q.session] = [tick |-> 0, score |-> 0, completed |-> FALSE]]
  /\ \E owner \in {q.account, None} : metas' = [metas EXCEPT ![q.session] = owner]
  /\ UNCHANGED <<inputs, outcomes, best, awarded, played>>

\* An input takes the place of the one before it.
StoreInput(q) ==
  /\ q.op = "input" /\ Readable(q) /\ OwnerMatches(q)
  /\ inputs' = [inputs EXCEPT ![q.session] = TRUE]
  /\ UNCHANGED <<metas, states, outcomes, best, awarded, played>>

\* A completed session is played on like any other.
Execute(q) ==
  LET s == Loaded(q.session)  ticks == TicksRead(q) IN
  /\ q.op = "execute" /\ Readable(q) /\ OwnerMatches(q)
  /\ states' = [states EXCEPT ![q.session] =
       [tick |-> (s.tick + ticks) % Word, completed |-> s.completed,
        score |-> (s.score + IF inputs[q.session] THEN ticks ELSE 0) % Word]]
  /\ inputs' = [inputs EXCEPT ![q.session] = FALSE]
  /\ played' = [played EXCEPT ![q.session] = @ + ticks]
  /\ UNCHANGED <<metas, outcomes, best, awarded>>

\* Of the results of an account the better one is kept, of equals the older;
\* the score of the older is read from the stored text.
Latest(previous, result) == result

Better(previous, result) ==
  IF previous = None \/ result.score > Read(previous.session, "score", previous.score)
  THEN result ELSE previous

Complete(q) ==
  LET final == [Loaded(q.session) EXCEPT !.completed = TRUE]
      result == [session |-> q.session, account |-> q.account, score |-> final.score,
                 ticks |-> final.tick, final |-> final]
  IN /\ q.op = "finish" /\ Readable(q) /\ OwnerMatches(q)
     /\ states' = [states EXCEPT ![q.session] = final]
     /\ outcomes' = [outcomes EXCEPT ![q.session] = result]
     /\ best' = [best EXCEPT ![q.account] = Better(@, result)]
     /\ awarded' = awarded \cup {result}
     /\ UNCHANGED <<metas, inputs, played>>

Drop(q) ==
  /\ Readable(q) => IF q.op = "create" THEN states[q.session] # None ELSE ~OwnerMatches(q)
  /\ UNCHANGED serviceVars

Dispatch(q) == CreateSession(q) \/ StoreInput(q) \/ Execute(q) \/ Complete(q) \/ Drop(q)

\* Any Works, in any order, of sessions played for at most MaxPlayed ticks.
Played(q) ==
  q.op = "execute" /\ OwnerMatches(q) => played[q.session] + TicksRead(q) <= MaxPlayed
DoomServiceNext == \E q \in Request : Played(q) /\ Dispatch(q)

DoomServiceSpec == DoomServiceInit /\ [][DoomServiceNext]_serviceVars

----------------------------------------------------------------------------
\* The service "stores that account's highest completed result": whichever
\* sessions an account has finished, in whichever order and however often,
\* the best is one of its results, and none of them has a higher score.  The
\* exception is an account with a result of a session called "score": when
\* that is its best, dispatch reads it as 0 and a lower score replaces it.
BestIsHighest ==
  \A a \in Principals :
    LET mine == {r \in awarded : r.account = a} IN
    IF mine = {} THEN best[a] = None
    ELSE /\ best[a] \in mine
         /\ (\A r \in mine : Called[r.session] # "score") => best[a].score = Max({r.score : r \in mine})
=============================================================================
