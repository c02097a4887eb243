---------------------------- MODULE DoomLiveProofs ----------------------------
(***************************************************************************)
(* What holds of live DOOM for any sessions, accounts and numbers of ticks:*)
(* of the service alone, of the runtimes that submit Works to it, and of   *)
(* the realtime session; and of the bytes of replays and frames, for any   *)
(* messages, any size of a byte and any damage.                            *)
(***************************************************************************)
EXTENDS MiniJamDoom, DoomRealtime, DoomWire, SequenceTheorems, TLAPS

USE DoomServiceAssumption, NoRecordAssumption

-----------------------------------------------------------------------------
(* The service. *)

\* What is stored has its type, a session has a state if it is bound, and the
\* tick stored is the ticks executed unless it was misread or has overflowed.
Stored ==
  /\ metas \in [Sessions -> Principals \cup {None}]
  /\ states \in [Sessions -> State \cup {None}]
  /\ best \in [Principals -> Outcome \cup {None}]
  /\ awarded \subseteq Outcome /\ played \in [Sessions -> Nat]
  /\ \A s \in Sessions :
       /\ metas[s] # None => states[s] # None /\ Called[s] # "account"
       /\ states[s] = None => played[s] = 0
       /\ states[s] # None /\ Called[s] # "tick" /\ played[s] < Word => states[s].tick = played[s]

\* None of the account's results is of a session called "score".
ScoresRead(a) == \A r \in awarded : r.account = a => Called[r.session] # "score"

\* The best result of an account is one of its own, and the highest.
Best ==
  \A a \in Principals :
    /\ \A r \in awarded :
         r.account = a => best[a] # None /\ (ScoresRead(a) => r.score <= best[a].score)
    /\ best[a] # None => best[a] \in awarded /\ best[a].account = a

LEMMA RequestTyped ==
  ASSUME NEW q \in Request
  PROVE  q.session \in Sessions /\ q.account \in Principals /\ q.ticks \in Nat
<1>1. q.session \in Sessions /\ q.account \in Principals /\ q.ticks \in Batches \cup {0}
  BY DEF Request
<1>2. QED
  BY <1>1

\* A uint32_t.
LEMMA WordRemainder ==
  ASSUME NEW n \in Nat
  PROVE  n % Word \in Number /\ (n < Word => n % Word = n)
BY DEF Number

LEMMA RecordsTyped ==
  /\ Number \subseteq Nat /\ 0 \in Number
  /\ \A r \in State : r.tick \in Number /\ r.score \in Number /\ r.completed \in BOOLEAN
  /\ \A r \in Outcome : r.score \in Number /\ r.account \in Principals /\ r.session \in Sessions
BY DEF State, Outcome, Number

LEMMA LoadedTyped ==
  ASSUME NEW s \in Sessions, states[s] \in State
  PROVE  /\ Loaded(s) \in State /\ Loaded(s).tick = Read(s, "tick", states[s].tick)
         /\ Called[s] # "tick" => Loaded(s).tick = states[s].tick
<1>1. Read(s, "tick", states[s].tick) \in Number /\ Read(s, "score", states[s].score) \in Number
  BY RecordsTyped DEF Read
<1>2. Called[s] # "tick" => Read(s, "tick", states[s].tick) = states[s].tick
  BY DEF Read
<1>3. Loaded(s) \in State /\ Loaded(s).tick = Read(s, "tick", states[s].tick)
  BY <1>1, RecordsTyped DEF Loaded, State
<1>4. QED
  BY <1>2, <1>3

LEMMA TicksTyped ==
  ASSUME NEW q \in Request
  PROVE  /\ TicksRead(q) \in Nat
         /\ q.ticks < Word /\ Called[q.session] # "ticks" => TicksRead(q) = q.ticks
BY RequestTyped, WordRemainder DEF TicksRead, Number

LEMMA ServiceStored == DoomServiceInit => Stored /\ Best
BY RecordsTyped DEF DoomServiceInit, Stored, Best

LEMMA CreateStored ==
  ASSUME Stored, NEW q \in Request, CreateSession(q)
  PROVE  /\ Stored' /\ played' = played
         /\ \A s \in Sessions : states[s] # None => states'[s] = states[s] /\ metas'[s] = metas[s]
<1> DEFINE new == [tick |-> 0, score |-> 0, completed |-> FALSE]
<1>1. new \in State /\ new.tick = 0
  BY RecordsTyped DEF State
<1>2. q.session \in Sessions /\ q.account \in Principals
  BY RequestTyped
<1>3. /\ Called[q.session] # "account" /\ states[q.session] = None
      /\ states' = [states EXCEPT ![q.session] = new]
      /\ UNCHANGED <<best, awarded, played>>
  BY DEF CreateSession, Readable
<1>4. PICK owner \in {q.account, None} : metas' = [metas EXCEPT ![q.session] = owner]
  BY DEF CreateSession
<1> HIDE DEF new
<1>5. /\ metas' \in [Sessions -> Principals \cup {None}]
      /\ states' \in [Sessions -> State \cup {None}]
      /\ states'[q.session] = new /\ new # None
      /\ \A s \in Sessions : s # q.session => metas'[s] = metas[s] /\ states'[s] = states[s]
  BY <1>1, <1>2, <1>3, <1>4 DEF Stored
<1>6. \A s \in Sessions :
        /\ metas'[s] # None => states'[s] # None /\ Called[s] # "account"
        /\ states'[s] = None => played[s] = 0
        /\ states'[s] # None /\ Called[s] # "tick" /\ played[s] < Word => states'[s].tick = played[s]
  BY <1>1, <1>2, <1>3, <1>5 DEF Stored
<1>7. QED
  BY <1>2, <1>3, <1>5, <1>6 DEF Stored

LEMMA ExecuteStored ==
  ASSUME Stored, NEW q \in Request, Execute(q)
  PROVE  /\ Stored' /\ metas' = metas
         /\ played' = [played EXCEPT ![q.session] = played[q.session] + TicksRead(q)]
         /\ \A s \in Sessions : states[s] # None => states'[s] # None
<1> DEFINE id == q.session
           s == Loaded(id)
           ticks == TicksRead(q)
           after == [tick |-> (s.tick + ticks) % Word, completed |-> s.completed,
                     score |-> (s.score + IF inputs[id] THEN ticks ELSE 0) % Word]
<1>1. id \in Sessions /\ ticks \in Nat
  BY RequestTyped, TicksTyped
<1>2. /\ metas[id] # None /\ states[id] \in State
      /\ UNCHANGED <<metas, best, awarded>>
  BY <1>1, RequestTyped DEF Execute, OwnerMatches, Stored
<1>3. s \in State /\ (Called[id] # "tick" => s.tick = states[id].tick)
  BY <1>1, <1>2, LoadedTyped
<1>4. /\ states' = [states EXCEPT ![id] = after]
      /\ played' = [played EXCEPT ![id] = played[id] + ticks]
  BY DEF Execute
<1>5. s.tick \in Nat /\ s.score \in Nat /\ s.completed \in BOOLEAN
  BY <1>3, RecordsTyped
<1> HIDE DEF s, ticks
<1>6. /\ after \in State /\ after.tick = (s.tick + ticks) % Word
  <2>1. /\ s.tick + ticks \in Nat
        /\ s.score + (IF inputs[id] THEN ticks ELSE 0) \in Nat
    BY <1>1, <1>5
  <2>2. (s.tick + ticks) % Word \in Number
    BY <2>1, WordRemainder
  <2>3. (s.score + IF inputs[id] THEN ticks ELSE 0) % Word \in Number
    BY <2>1, WordRemainder
  <2>4. QED
    BY <1>5, <2>2, <2>3 DEF State
<1>7. ASSUME Called[id] # "tick", played[id] + ticks < Word
      PROVE  after.tick = played[id] + ticks
  <2>1. played[id] \in Nat /\ played[id] < Word
    BY <1>1, <1>7 DEF Stored
  <2>2. s.tick = played[id]
    BY <1>1, <1>2, <1>3, <1>7, <2>1 DEF Stored
  <2>3. played[id] + ticks \in Nat
    BY <1>1, <2>1
  <2>4. (played[id] + ticks) % Word = played[id] + ticks
    BY <1>7, <2>3, WordRemainder
  <2>5. QED
    BY <1>6, <2>2, <2>4
<1> HIDE DEF after
<1>8. /\ states' \in [Sessions -> State \cup {None}] /\ states'[id] = after /\ after # None
      /\ played' \in [Sessions -> Nat] /\ played'[id] = played[id] + ticks
      /\ \A r \in Sessions : r # id => states'[r] = states[r] /\ played'[r] = played[r]
  BY <1>1, <1>4, <1>6 DEF Stored
<1>9. \A r \in Sessions :
        /\ metas[r] # None => states'[r] # None /\ Called[r] # "account"
        /\ states'[r] = None => played'[r] = 0
        /\ states'[r] # None /\ Called[r] # "tick" /\ played'[r] < Word => states'[r].tick = played'[r]
  BY <1>7, <1>8 DEF Stored
<1>10. QED
  BY <1>2, <1>4, <1>8, <1>9 DEF Stored, ticks

\* The better of two results, when what is read of the stored one is its score.
LEMMA BetterKept ==
  ASSUME NEW result \in Outcome, NEW previous \in Outcome \cup {None}
  PROVE  /\ Better(previous, result) \in {previous, result} /\ Better(previous, result) # None
         /\ (previous # None => Called[previous.session] # "score") =>
              /\ result.score <= Better(previous, result).score
              /\ previous # None => previous.score <= Better(previous, result).score
<1>1. result # None /\ result.score \in Nat /\ (previous # None => previous.score \in Nat)
  BY RecordsTyped
<1>2. CASE previous = None
  BY <1>1, <1>2 DEF Better
<1>3. CASE previous # None
  <2>1. Called[previous.session] # "score" => Read(previous.session, "score", previous.score) = previous.score
    BY DEF Read
  <2>2. QED
    BY <1>1, <1>3, <2>1 DEF Better
<1>4. QED
  BY <1>2, <1>3

LEMMA CompleteStored ==
  ASSUME Stored, Best, NEW q \in Request, Complete(q)
  PROVE  /\ Stored' /\ Best' /\ metas' = metas /\ played' = played
         /\ \A s \in Sessions : states[s] # None => states'[s] # None
<1> DEFINE id == q.session
           final == [Loaded(id) EXCEPT !.completed = TRUE]
           result == [session |-> id, account |-> q.account, score |-> final.score,
                      ticks |-> final.tick, final |-> final]
<1>1. id \in Sessions /\ q.account \in Principals
  BY RequestTyped
<1>2. states[id] \in State /\ metas[id] # None
  BY <1>1 DEF Complete, OwnerMatches, Stored
<1>3. Loaded(id) \in State /\ (Called[id] # "tick" => Loaded(id).tick = states[id].tick)
  BY <1>1, <1>2, LoadedTyped
<1>4. final \in State /\ final.tick = Loaded(id).tick
  BY <1>3 DEF State
<1>5. result \in Outcome /\ result.account = q.account /\ result.session = id
  BY <1>1, <1>4, RecordsTyped DEF Outcome
<1>6. /\ states' = [states EXCEPT ![id] = final]
      /\ best' = [best EXCEPT ![q.account] = Better(best[q.account], result)]
      /\ awarded' = awarded \cup {result}
      /\ metas' = metas /\ played' = played
  BY DEF Complete
<1> HIDE DEF final, result
<1>7. best[q.account] \in Outcome \cup {None}
  BY <1>1 DEF Stored
<1>8. /\ states' \in [Sessions -> State \cup {None}] /\ states'[id] = final /\ final # None
      /\ \A r \in Sessions : r # id => states'[r] = states[r]
  BY <1>1, <1>4, <1>6 DEF Stored
<1>9. Stored'
  <2>1. best' \in [Principals -> Outcome \cup {None}] /\ awarded' \subseteq Outcome
    BY <1>1, <1>5, <1>6, <1>7, BetterKept DEF Stored
  <2>2. \A r \in Sessions :
          /\ metas[r] # None => states'[r] # None /\ Called[r] # "account"
          /\ states'[r] = None => played[r] = 0
          /\ states'[r] # None /\ Called[r] # "tick" /\ played[r] < Word => states'[r].tick = played[r]
    BY <1>2, <1>3, <1>4, <1>8 DEF Stored
  <2>3. QED
    BY <1>6, <1>8, <2>1, <2>2 DEF Stored
<1>10. Best'
  <2> DEFINE new == Better(best[q.account], result)
  <2>1. new \in {best[q.account], result} /\ new # None
    BY <1>5, <1>7, BetterKept
  <2>2. best[q.account] # None => best[q.account] \in awarded /\ best[q.account].account = q.account
    BY <1>1 DEF Best
  <2>3. new \in awarded' /\ new.account = q.account
    BY <1>5, <1>6, <2>1, <2>2
  <2>4. ScoresRead(q.account) =>
          /\ result.score <= new.score
          /\ best[q.account] # None => best[q.account].score <= new.score
    BY <1>5, <1>7, <2>2, BetterKept DEF ScoresRead
  <2> HIDE DEF new
  <2>5. /\ best'[q.account] = new
        /\ \A a \in Principals : a # q.account => best'[a] = best[a]
    BY <1>1, <1>6 DEF Stored, new
  <2>6. \A a \in Principals : ScoresRead(a)' => ScoresRead(a)
    BY <1>6 DEF ScoresRead
  <2>7. ASSUME NEW a \in Principals, NEW r \in awarded', r.account = a
        PROVE  best'[a] # None /\ (ScoresRead(a)' => r.score <= best'[a].score)
    <3>1. CASE a # q.account
      BY <1>5, <1>6, <2>5, <2>6, <2>7, <3>1 DEF Best
    <3>2. CASE a = q.account /\ r = result
      BY <2>1, <2>4, <2>5, <2>6, <3>2
    <3>3. CASE a = q.account /\ r \in awarded
      <4>1. /\ best[a] # None /\ (ScoresRead(a) => r.score <= best[a].score)
            /\ best[a].score \in Nat /\ r.score \in Nat /\ new.score \in Nat
        <5>1. best[a] # None /\ (ScoresRead(a) => r.score <= best[a].score)
          BY <2>7, <3>3 DEF Best
        <5>2. best[a] \in Outcome /\ r \in Outcome /\ new \in Outcome
          BY <1>5, <1>7, <2>1, <3>3, <5>1 DEF Stored
        <5>3. QED
          BY <5>1, <5>2, RecordsTyped
      <4>2. ScoresRead(a) => r.score <= new.score
        BY <2>4, <3>3, <4>1
      <4>3. QED
        BY <2>1, <2>5, <2>6, <3>3, <4>2
    <3>4. QED
      BY <1>6, <3>1, <3>2, <3>3
  <2>8. ASSUME NEW a \in Principals, best'[a] # None
        PROVE  best'[a] \in awarded' /\ best'[a].account = a
    BY <1>6, <2>3, <2>5, <2>8 DEF Best
  <2>9. QED
    BY <2>7, <2>8 DEF Best
<1>11. QED
  BY <1>6, <1>8, <1>9, <1>10

\* What any Work does to the service: a session keeps its account and is
\* played forward, by the ticks of an execute if its account asked for them.
LEMMA Dispatched ==
  ASSUME Stored, Best, NEW q \in Request, Dispatch(q)
  PROVE  /\ Stored' /\ Best'
         /\ \A s \in Sessions : states[s] # None =>
              states'[s] # None /\ metas'[s] = metas[s] /\ played[s] <= played'[s]
         /\ q.op = "execute" /\ OwnerMatches(q) =>
              played'[q.session] = played[q.session] + TicksRead(q)
<1>1. q.session \in Sessions /\ q.account \in Principals /\ TicksRead(q) \in Nat
  BY RequestTyped, TicksTyped
<1>2. \A s \in Sessions : played[s] \in Nat /\ played[s] <= played[s]
  BY DEF Stored
<1>3. CASE CreateSession(q)
  <2>1. Best'
    BY <1>3 DEF CreateSession, Best, ScoresRead
  <2>2. /\ Stored' /\ played' = played
        /\ \A s \in Sessions : states[s] # None => states'[s] = states[s] /\ metas'[s] = metas[s]
    BY <1>3, CreateStored
  <2>3. q.op # "execute"
    BY <1>3 DEF CreateSession
  <2>4. QED
    BY <1>2, <2>1, <2>2, <2>3
<1>4. CASE StoreInput(q)
  <2>1. UNCHANGED <<metas, states, best, awarded, played>> /\ q.op # "execute"
    BY <1>4 DEF StoreInput
  <2>2. Stored' /\ Best'
    BY <2>1 DEF Stored, Best, ScoresRead
  <2>3. QED
    BY <1>2, <2>1, <2>2
<1>5. CASE Execute(q)
  <2>1. Best'
    BY <1>5 DEF Execute, Best, ScoresRead
  <2>2. /\ Stored' /\ metas' = metas
        /\ played' = [played EXCEPT ![q.session] = played[q.session] + TicksRead(q)]
        /\ \A s \in Sessions : states[s] # None => states'[s] # None
    BY <1>5, ExecuteStored
  <2>3. /\ played'[q.session] = played[q.session] + TicksRead(q)
        /\ \A s \in Sessions : played[s] <= played'[s]
    <3>1. /\ played'[q.session] = played[q.session] + TicksRead(q)
          /\ \A s \in Sessions : s # q.session => played'[s] = played[s]
      BY <1>1, <2>2 DEF Stored
    <3>2. played[q.session] <= played[q.session] + TicksRead(q)
      BY <1>1, <1>2
    <3>3. QED
      BY <1>2, <3>1, <3>2
  <2>4. QED
    BY <2>1, <2>2, <2>3
<1>6. CASE Complete(q)
  BY <1>2, <1>6, CompleteStored DEF Complete
<1>7. CASE Drop(q)
  <2>1. UNCHANGED <<metas, states, best, awarded, played>>
    BY <1>7 DEF Drop, serviceVars, doomStorage
  <2>2. Stored' /\ Best'
    BY <2>1 DEF Stored, Best, ScoresRead
  <2>3. ~(q.op = "execute" /\ OwnerMatches(q))
    BY <1>1, <1>7 DEF Drop, Readable, OwnerMatches, Stored
  <2>4. QED
    BY <1>2, <2>1, <2>2, <2>3
<1>8. QED
  BY <1>3, <1>4, <1>5, <1>6, <1>7 DEF Dispatch

\* The same of the tick: as long as a session is counted, it is the ticks
\* executed, before the step and after it.
LEMMA TicksFollow ==
  ASSUME Stored, Stored', NEW s \in Sessions, states[s] # None, states'[s] # None,
         played[s] <= played'[s], Counted(s)'
  PROVE  /\ Counted(s) /\ states[s].tick = played[s] /\ states'[s].tick = played'[s]
         /\ played[s] \in Nat /\ played'[s] \in Nat
<1>1. played[s] \in Nat /\ played'[s] \in Nat
  BY DEF Stored
<1>2. Called[s] \notin {"ticks", "tick"} /\ played'[s] < Word /\ played[s] < Word
  BY <1>1 DEF Counted
<1>3. QED
  BY <1>1, <1>2 DEF Stored, Counted

LEMMA BestHighest == Stored /\ Best => BestIsHighest
<1> SUFFICES ASSUME Stored, Best, NEW a \in Principals,
                    {r \in awarded : r.account = a} # {}
             PROVE  /\ best[a] \in {r \in awarded : r.account = a}
                    /\ (\A r \in {m \in awarded : m.account = a} : Called[r.session] # "score") =>
                         best[a].score = Max({r.score : r \in {m \in awarded : m.account = a}})
  <2>1. ASSUME Stored, Best, NEW a \in Principals, {r \in awarded : r.account = a} = {}
        PROVE  best[a] = None
    BY <2>1 DEF Best
  <2>2. QED
    BY <2>1 DEF BestIsHighest
<1> DEFINE mine == {r \in awarded : r.account = a}
           scores == {r.score : r \in mine}
<1>1. best[a] \in mine
  BY DEF Best
<1>2. SUFFICES ASSUME ScoresRead(a) PROVE best[a].score = Max(scores)
  BY <1>1 DEF ScoresRead
<1>3. \A r \in mine : r.score <= best[a].score
  BY <1>2 DEF Best
<1>4. \A r \in mine : r.score \in Nat
  BY RecordsTyped DEF Stored
<1>5. best[a].score \in scores /\ (\A x \in scores : best[a].score >= x) /\ scores \subseteq Nat
  BY <1>1, <1>3, <1>4
<1> HIDE DEF scores
<1>6. ASSUME NEW x \in scores, \A y \in scores : x >= y
      PROVE  x = best[a].score
  <2>1. x \in Nat /\ best[a].score \in Nat /\ x >= best[a].score /\ best[a].score >= x
    BY <1>5, <1>6
  <2>2. QED
    BY <2>1
<1>7. QED
  BY <1>5, <1>6 DEF Max

\* Whatever Works come in whatever order, the best result of an account is
\* one of those it was ever awarded, and the highest of them unless one is of
\* a session called "score".
THEOREM BestResultIsHighest == DoomServiceSpec => []BestIsHighest
<1>1. Stored /\ Best /\ [DoomServiceNext]_serviceVars => (Stored /\ Best)'
  <2>1. ASSUME Stored, Best, DoomServiceNext PROVE (Stored /\ Best)'
    BY <2>1, Dispatched DEF DoomServiceNext
  <2>2. ASSUME Stored, Best, UNCHANGED serviceVars PROVE (Stored /\ Best)'
    BY <2>2 DEF serviceVars, doomStorage, Stored, Best, ScoresRead
  <2>3. QED
    BY <2>1, <2>2
<1>2. QED
  BY <1>1, ServiceStored, BestHighest, PTL DEF DoomServiceSpec

-----------------------------------------------------------------------------
(* The runtimes. *)

Stages == {"idle", "before", "submit", "wait", "after", "result", "returned"}
Work == [q: Request, status: {"submitted", "reported", "imported", "failed"}]
CallRecord == [pc: Stages, q: Request \cup {None}, work: Nat,
               before: State \cup {None}, after: State \cup {None}]

RuntimeTyped ==
  /\ works \in Seq(Work)
  /\ calls \in [Callers -> CallRecord]
  /\ \A c \in Callers : calls[c].pc # "idle" => calls[c].q \in Request

\* The session call is about has been played far enough since it was read:
\* from state before, for the ticks asked for, if its account asked.
Enough(call) ==
  Owed(call.q) => states[call.q.session].tick >= call.before.tick + call.q.ticks

\* What the calls of executeTicks know of their session at each await.
Executing(call) ==
  LET s == call.q.session IN
  call.pc \notin {"idle", "before"} /\ call.q.op = "execute" =>
    /\ call.before \in State /\ states[s] # None
    /\ Counted(s) => call.before.tick <= states[s].tick
    /\ call.pc = "wait" =>
         /\ call.work \in DOMAIN works /\ works[call.work].q = call.q
         /\ works[call.work].status = "imported" => Enough(call)
    /\ call.pc # "result"
    /\ call.pc = "after" => Enough(call)
    /\ call.pc = "returned" =>
         /\ call.after \in State
         /\ Owed(call.q) => call.after.tick >= call.before.tick + call.q.ticks

ExecutionInv ==
  /\ Stored /\ Best /\ RuntimeTyped
  /\ \A c \in Callers : Executing(calls[c])


\* The session is played forward only, and a Work once submitted stays what
\* it is; one that is imported now has been dispatched.
PlayedOn ==
  /\ \A s \in Sessions : states[s] # None =>
       /\ states'[s] # None /\ metas'[s] = metas[s]
       /\ Counted(s)' => Counted(s) /\ states[s].tick <= states'[s].tick
  /\ \A i \in DOMAIN works :
       /\ i \in DOMAIN works' /\ works'[i].q = works[i].q
       /\ works'[i].status = "imported" /\ works[i].status # "imported" =>
            \A q \in Request :
              q = works[i].q /\ q.op = "execute" /\ Owed(q)' /\ states[q.session] # None =>
                states'[q.session].tick = states[q.session].tick + q.ticks

\* A tick can be compared once it is counted.
LEMMA TickTyped ==
  ASSUME Stored, NEW s \in Sessions, states[s] # None
  PROVE  states[s].tick \in Nat
BY RecordsTyped DEF Stored

LEMMA OwedBefore ==
  ASSUME PlayedOn, NEW q \in Request, states[q.session] # None, Owed(q)'
  PROVE  Owed(q) /\ Counted(q.session)'
BY RequestTyped DEF PlayedOn, Owed, OwnerMatches

LEMMA EnoughStays ==
  ASSUME Stored, Stored', PlayedOn, NEW call, call.q \in Request, call.before \in State,
         states[call.q.session] # None, Enough(call)
  PROVE  Enough(call)'
<1> DEFINE s == call.q.session
<1> SUFFICES ASSUME Owed(call.q)'
             PROVE  states'[s].tick >= call.before.tick + call.q.ticks
  BY DEF Enough
<1>1. s \in Sessions /\ call.q.ticks \in Nat /\ call.before.tick \in Nat
  BY RequestTyped, RecordsTyped
<1>2. Owed(call.q) /\ Counted(s)'
  BY OwedBefore
<1>3. states'[s] # None /\ states[s].tick <= states'[s].tick
  BY <1>1, <1>2 DEF PlayedOn
<1>4. states[s].tick \in Nat /\ states'[s].tick \in Nat
  <2>1. states[s] \in State /\ states'[s] \in State
    BY <1>1, <1>3 DEF Stored
  <2>2. QED
    BY <2>1, RecordsTyped
<1>5. states[s].tick >= call.before.tick + call.q.ticks
  BY <1>2 DEF Enough
<1>6. QED
  BY <1>1, <1>3, <1>4, <1>5

LEMMA ExecutingStays ==
  ASSUME Stored, Stored', PlayedOn, NEW call, call.pc # "idle" => call.q \in Request,
         Executing(call)
  PROVE  Executing(call)'
<1> DEFINE s == call.q.session
<1> SUFFICES ASSUME call.pc \notin {"idle", "before"}, call.q.op = "execute"
             PROVE  /\ call.before \in State /\ states'[s] # None
                    /\ Counted(s)' => call.before.tick <= states'[s].tick
                    /\ call.pc = "wait" =>
                         /\ call.work \in DOMAIN works' /\ works'[call.work].q = call.q
                         /\ works'[call.work].status = "imported" => Enough(call)'
                    /\ call.pc # "result"
                    /\ call.pc = "after" => Enough(call)'
                    /\ call.pc = "returned" =>
                         /\ call.after \in State
                         /\ Owed(call.q)' => call.after.tick >= call.before.tick + call.q.ticks
  BY DEF Executing
<1>1. s \in Sessions /\ call.q.ticks \in Nat /\ call.q \in Request
  BY RequestTyped
<1>2. /\ call.before \in State /\ states[s] # None
      /\ Counted(s) => call.before.tick <= states[s].tick
  BY DEF Executing
<1>3. /\ states'[s] # None
      /\ Counted(s)' => Counted(s) /\ states[s].tick <= states'[s].tick
  BY <1>1, <1>2 DEF PlayedOn
<1>4. call.before.tick \in Nat /\ states[s].tick \in Nat /\ states'[s].tick \in Nat
  <2>1. states[s] \in State /\ states'[s] \in State
    BY <1>1, <1>2, <1>3 DEF Stored
  <2>2. QED
    BY <1>2, <2>1, RecordsTyped
<1>5. Enough(call) => Enough(call)'
  BY <1>1, <1>2, EnoughStays
<1>6. Owed(call.q)' => Owed(call.q) /\ Counted(s)'
  BY <1>1, <1>2, OwedBefore
<1>7. Counted(s)' => call.before.tick <= states'[s].tick
  BY <1>2, <1>3, <1>4
<1>8. ASSUME call.pc = "wait"
      PROVE  /\ call.work \in DOMAIN works' /\ works'[call.work].q = call.q
             /\ works'[call.work].status = "imported" => Enough(call)'
  <2>1. /\ call.work \in DOMAIN works /\ works[call.work].q = call.q
        /\ works[call.work].status = "imported" => Enough(call)
    BY <1>8 DEF Executing
  <2>2. call.work \in DOMAIN works' /\ works'[call.work].q = call.q
    BY <2>1 DEF PlayedOn
  <2>3. CASE works[call.work].status = "imported"
    BY <1>5, <2>1, <2>2, <2>3
  <2>4. CASE works[call.work].status # "imported" /\ works'[call.work].status = "imported"
    <3>1. SUFFICES ASSUME Owed(call.q)'
                   PROVE  states'[s].tick >= call.before.tick + call.q.ticks
      BY <2>2 DEF Enough
    <3>2. states'[s].tick = states[s].tick + call.q.ticks
      BY <1>2, <2>1, <2>4, <3>1 DEF PlayedOn
    <3>3. call.before.tick <= states[s].tick
      BY <1>2, <1>3, <1>6, <3>1
    <3>4. QED
      BY <1>1, <1>4, <3>2, <3>3
  <2>5. QED
    BY <2>2, <2>3, <2>4
<1>9. call.pc = "after" => Enough(call)'
  BY <1>5 DEF Executing
<1>10. /\ call.pc # "result"
       /\ call.pc = "returned" =>
            /\ call.after \in State
            /\ Owed(call.q)' => call.after.tick >= call.before.tick + call.q.ticks
  BY <1>6 DEF Executing
<1>11. QED
  BY <1>2, <1>3, <1>7, <1>8, <1>9, <1>10

\* What a call becomes in a step of its own.
Becomes(c, call) ==
  /\ calls' = [calls EXCEPT ![c] = call]
  /\ call \in CallRecord /\ (call.pc # "idle" => call.q \in Request)
  /\ Executing(call)'

LEMMA IdleTyped == Idle \in CallRecord /\ Idle.pc = "idle" /\ Executing(Idle)'
BY DEF Idle, CallRecord, Stages, Executing

\* An await moves a call on, its Work stays, and nothing else changes.
LEMMA CallSteps ==
  ASSUME ExecutionInv, UNCHANGED serviceVars, NEW c \in Callers,
         \/ works' = works
         \/ \E w \in Work : works' = Append(works, w),
         \E call \in CallRecord : Becomes(c, call)
  PROVE  ExecutionInv'
<1>1. PICK call \in CallRecord : Becomes(c, call)
  OBVIOUS
<1>2. works \in Seq(Work) /\ calls \in [Callers -> CallRecord]
  BY DEF ExecutionInv, RuntimeTyped
<1>3. works' \in Seq(Work) /\ \A i \in DOMAIN works : i \in DOMAIN works' /\ works'[i] = works[i]
  BY <1>2
<1>4. Stored' /\ Best' /\ PlayedOn
  <2>1. Stored' /\ Best'
    BY DEF ExecutionInv, serviceVars, doomStorage, Stored, Best, ScoresRead
  <2>2. \A s \in Sessions : states[s] # None => states[s].tick <= states[s].tick
    BY TickTyped DEF ExecutionInv
  <2>3. QED
    BY <1>3, <2>1, <2>2 DEF PlayedOn, serviceVars, doomStorage, Counted
<1>5. RuntimeTyped'
  BY <1>1, <1>2, <1>3 DEF Becomes, RuntimeTyped, ExecutionInv
<1>6. ASSUME NEW d \in Callers PROVE Executing(calls[d])'
  <2>1. CASE d = c
    BY <1>1, <1>2, <2>1 DEF Becomes
  <2>2. CASE d # c
    <3>1. calls'[d] = calls[d] /\ Executing(calls[d])
      BY <1>1, <1>2, <2>2 DEF Becomes, ExecutionInv
    <3>2. calls[d].pc # "idle" => calls[d].q \in Request
      BY DEF ExecutionInv, RuntimeTyped
    <3>3. QED
      BY <1>4, <3>1, <3>2, ExecutingStays DEF ExecutionInv
  <2>3. QED
    BY <2>1, <2>2
<1>7. QED
  BY <1>4, <1>5, <1>6 DEF ExecutionInv

LEMMA CallerKeeps ==
  ASSUME ExecutionInv, NEW c \in Callers,
         \/ \E q \in Request : Call(c, q)
         \/ ReadBefore(c)
         \/ Submit(c)
         \/ Wait(c)
         \/ TimesOut(c)
         \/ RpcFails(c)
         \/ AnswerLost(c)
         \/ ReadAfter(c)
         \/ ReadResult(c)
  PROVE  ExecutionInv'
<1> DEFINE call == calls[c]
           s == call.q.session
<1>1. /\ call \in CallRecord /\ works \in Seq(Work) /\ Executing(call)
      /\ call.pc # "idle" => call.q \in Request
  BY DEF ExecutionInv, RuntimeTyped
<1>2. call.pc # "idle" => s \in Sessions /\ call.q.ticks \in Nat
  BY <1>1, RequestTyped
<1>3. ASSUME Fail(c) PROVE Becomes(c, Idle)
  BY <1>3, IdleTyped DEF Fail, Become, Becomes
<1>4. ASSUME NEW q \in Request, Call(c, q) PROVE ExecutionInv'
  <2> DEFINE new == [[Idle EXCEPT !.q = q]
                       EXCEPT !.pc = IF q.op \in {"input", "execute"} THEN "before" ELSE "submit"]
  <2>1. /\ new \in CallRecord /\ new.q = q
        /\ new.pc = IF q.op \in {"input", "execute"} THEN "before" ELSE "submit"
    BY DEF Idle, CallRecord, Stages
  <2>2. calls' = [calls EXCEPT ![c] = new] /\ UNCHANGED <<serviceVars, works>>
    BY <1>4 DEF Call, Become
  <2> HIDE DEF new
  <2>3. Executing(new)'
    BY <2>1 DEF Executing
  <2>4. QED
    BY <2>1, <2>2, <2>3, CallSteps DEF Becomes
<1>5. CASE ReadBefore(c)
  <2>1. CASE Fail(c)
    BY <1>3, <1>5, <2>1, CallSteps, IdleTyped DEF ReadBefore
  <2>2. CASE states[s] # None /\ Become(c, [[call EXCEPT !.pc = "submit"] EXCEPT !.before = states[s]])
    <3>. PICK new : new = [[call EXCEPT !.pc = "submit"] EXCEPT !.before = states[s]]
      OBVIOUS
    <3>1. call.pc = "before" /\ UNCHANGED <<serviceVars, works>>
      BY <1>5 DEF ReadBefore
    <3>2. states[s] \in State
      BY <1>2, <2>2, <3>1 DEF ExecutionInv, Stored
    <3>3. new \in CallRecord /\ new.pc = "submit" /\ new.q = call.q /\ new.before = states[s]
      BY <1>1, <3>2 DEF CallRecord, Stages
    <3>4. calls' = [calls EXCEPT ![c] = new]
      BY <2>2 DEF Become
    <3>5. states' = states /\ states[s].tick <= states[s].tick
      BY <3>1, <3>2, RecordsTyped DEF serviceVars, doomStorage
    <3>6. Executing(new)'
      BY <2>2, <3>2, <3>3, <3>5 DEF Executing
    <3>7. QED
      BY <1>1, <3>1, <3>3, <3>4, <3>6, CallSteps DEF Becomes
  <2>3. QED
    BY <1>5, <2>1, <2>2 DEF ReadBefore
<1>6. CASE Submit(c)
  <2>. PICK new : new = [[call EXCEPT !.pc = "wait"] EXCEPT !.work = Len(works) + 1]
    OBVIOUS
  <2>. PICK work : work = [q |-> call.q, status |-> "submitted"]
    OBVIOUS
  <2>1. call.pc = "submit" /\ UNCHANGED serviceVars
    BY <1>6 DEF Submit
  <2>2. work \in Work /\ work.q = call.q /\ work.status = "submitted"
    BY <1>1, <2>1 DEF Work
  <2>3. /\ new \in CallRecord /\ new.pc = "wait" /\ new.q = call.q
        /\ new.before = call.before /\ new.work = Len(works) + 1
    <3>1. Len(works) + 1 \in Nat
      BY <1>1
    <3>2. [call EXCEPT !.pc = "wait"] \in CallRecord
      BY <1>1 DEF CallRecord, Stages
    <3>3. new \in CallRecord
      BY <3>1, <3>2 DEF CallRecord
    <3>4. QED
      BY <1>1, <3>3 DEF CallRecord
  <2>4. calls' = [calls EXCEPT ![c] = new] /\ works' = Append(works, work)
    BY <1>6 DEF Submit, Become
  <2>5. Len(works) + 1 \in DOMAIN works' /\ works'[Len(works) + 1] = work
    BY <1>1, <2>2, <2>4
  <2>6. Executing(new)'
    BY <1>1, <2>1, <2>2, <2>3, <2>5 DEF Executing, serviceVars, doomStorage, Counted
  <2>7. QED
    BY <1>1, <2>1, <2>2, <2>3, <2>4, <2>6, CallSteps DEF Becomes
<1>7. CASE Wait(c)
  <2>1. call.pc = "wait" /\ UNCHANGED <<serviceVars, works>>
    BY <1>7 DEF Wait
  <2>2. CASE Fail(c)
    BY <1>3, <2>1, <2>2, CallSteps, IdleTyped
  <2>3. CASE call.q.op = "input" /\ Return(c, call)
    BY <1>3, <2>1, <2>3, CallSteps, IdleTyped DEF Return, Fail
  <2>4. CASE StatusOf(works[call.work].status) = "complete" /\ call.q.op # "input" /\ Goto(c, "after")
    <3>. PICK new : new = [call EXCEPT !.pc = "after"]
      OBVIOUS
    <3>1. /\ new \in CallRecord /\ new.pc = "after" /\ new.q = call.q /\ new.before = call.before
          /\ calls' = [calls EXCEPT ![c] = new]
      BY <1>1, <2>4 DEF CallRecord, Stages, Goto, Become
    <3>2. works[call.work].status = "imported"
      BY <2>4 DEF StatusOf
    <3>3. call.q.op = "execute" =>
            /\ call.before \in State /\ states[s] # None
            /\ (Counted(s) => call.before.tick <= states[s].tick) /\ Enough(call)
      BY <1>1, <2>1, <3>2 DEF Executing
    <3>4. Executing(new)'
      BY <2>1, <3>1, <3>3 DEF Executing, Enough, Owed, Counted, OwnerMatches, serviceVars, doomStorage
    <3>5. QED
      BY <1>1, <2>1, <3>1, <3>4, CallSteps DEF Becomes
  <2>5. QED
    BY <1>7, <2>2, <2>3, <2>4 DEF Wait
<1>8. CASE TimesOut(c) \/ RpcFails(c)
  BY <1>3, <1>8, CallSteps, IdleTyped DEF TimesOut, RpcFails
<1>9. CASE AnswerLost(c)
  <2>1. [q |-> call.q, status |-> "submitted"] \in Work
    BY <1>1, <1>9 DEF Work, AnswerLost
  <2>2. QED
    BY <1>3, <1>9, <2>1, CallSteps, IdleTyped DEF AnswerLost
<1>10. CASE ReadAfter(c)
  <2> DEFINE read == [call EXCEPT !.after = states[s]]
  <2>1. call.pc = "after" /\ UNCHANGED <<serviceVars, works>>
    BY <1>10 DEF ReadAfter
  <2>2. CASE Fail(c)
    BY <1>3, <2>1, <2>2, CallSteps, IdleTyped
  <2>3. CASE /\ states[s] # None
             /\ IF call.q.op = "finish" THEN Become(c, [read EXCEPT !.pc = "result"]) ELSE Return(c, read)
    <3>1. states[s] \in State
      BY <1>2, <2>1, <2>3 DEF ExecutionInv, Stored
    <3>2. read \in CallRecord /\ read.q = call.q
      BY <1>1, <3>1 DEF CallRecord
    <3>3. CASE call.q.op \notin {"finish", "execute"}
      BY <1>3, <2>1, <2>3, <3>2, <3>3, CallSteps, IdleTyped DEF Return, Fail
    <3>4. CASE call.q.op \in {"finish", "execute"}
      <4>. PICK new : new = [read EXCEPT !.pc = IF call.q.op = "finish" THEN "result" ELSE "returned"]
        OBVIOUS
      <4>1. /\ new \in CallRecord /\ new.q = call.q /\ new.before = call.before
            /\ new.after = states[s]
            /\ new.pc = IF call.q.op = "finish" THEN "result" ELSE "returned"
        BY <1>1, <3>1 DEF CallRecord, Stages
      <4>2. calls' = [calls EXCEPT ![c] = new]
        BY <2>3, <3>2, <3>4 DEF Return, Become
      <4> HIDE DEF read
      <4>3. call.q.op = "execute" =>
              /\ call.before \in State
              /\ (Counted(s) => call.before.tick <= states[s].tick) /\ Enough(call)
        BY <1>1, <2>1 DEF Executing
      <4>4. Executing(new)'
        BY <2>1, <2>3, <3>1, <4>1, <4>3 DEF Executing, Enough, Owed, Counted, OwnerMatches, serviceVars, doomStorage
      <4>5. QED
        BY <1>1, <2>1, <4>1, <4>2, <4>4, CallSteps DEF Becomes
    <3>5. QED
      BY <3>3, <3>4
  <2>4. QED
    BY <1>10, <2>2, <2>3 DEF ReadAfter
<1>11. CASE ReadResult(c)
  <2>1. call.pc = "result" /\ UNCHANGED <<serviceVars, works>>
    BY <1>11 DEF ReadResult
  <2>2. CASE Fail(c)
    BY <1>3, <2>1, <2>2, CallSteps, IdleTyped
  <2>3. CASE Return(c, call)
    <3>1. CASE call.q.op # "execute"
      BY <1>3, <2>1, <2>3, <3>1, CallSteps, IdleTyped DEF Return, Fail
    <3>2. call.q.op # "execute"
      BY <1>1, <2>1 DEF Executing
    <3>3. QED
      BY <3>1, <3>2
  <2>4. QED
    BY <1>11, <2>2, <2>3 DEF ReadResult
<1>12. QED
  BY <1>4, <1>5, <1>6, <1>7, <1>8, <1>9, <1>10, <1>11

\* A Work is reported, carried out or fails.
LEMMA ChainKeeps ==
  ASSUME ExecutionInv, NEW i \in DOMAIN works, Report(i) \/ Import(i) \/ WorkFails(i)
  PROVE  ExecutionInv'
<1>1. works \in Seq(Work) /\ calls' = calls /\ works[i] \in Work
  BY DEF ExecutionInv, RuntimeTyped, Report, Import, WorkFails, SetStatus
<1>2. PICK new \in {"reported", "imported", "failed"} : works' = [works EXCEPT ![i].status = new]
  BY DEF Report, Import, WorkFails, SetStatus
<1>3. /\ works' \in Seq(Work) /\ DOMAIN works' = DOMAIN works
      /\ \A j \in DOMAIN works : works'[j].q = works[j].q
      /\ \A j \in DOMAIN works : j # i => works'[j] = works[j]
  <2>1. [works[i] EXCEPT !.status = new] \in Work
    BY <1>1 DEF Work
  <2>2. QED
    BY <1>1, <1>2, <2>1
<1>4. Stored' /\ Best' /\ PlayedOn
  <2>1. CASE UNCHANGED serviceVars /\ works'[i].status # "imported"
    <3>1. Stored' /\ Best'
      BY <2>1 DEF ExecutionInv, serviceVars, doomStorage, Stored, Best, ScoresRead
    <3>2. \A s \in Sessions : states[s] # None => states[s].tick <= states[s].tick
      BY TickTyped DEF ExecutionInv
    <3>3. QED
      BY <1>3, <2>1, <3>1, <3>2 DEF PlayedOn, serviceVars, doomStorage, Counted
  <2>2. CASE Dispatch(works[i].q)
    <3> PICK q \in Request : q = works[i].q
      BY <1>1 DEF Work
    <3>1. Dispatch(q) /\ q.session \in Sessions
      BY <2>2, RequestTyped
    <3>2. /\ Stored /\ Stored' /\ Best'
          /\ \A s \in Sessions : states[s] # None =>
               states'[s] # None /\ metas'[s] = metas[s] /\ played[s] <= played'[s]
          /\ q.op = "execute" /\ OwnerMatches(q) =>
               played'[q.session] = played[q.session] + TicksRead(q)
      BY <3>1, Dispatched DEF ExecutionInv
    <3>3. ASSUME NEW s \in Sessions, states[s] # None, Counted(s)'
          PROVE  Counted(s) /\ states[s].tick <= states'[s].tick
      BY <3>2, <3>3, TicksFollow
    <3>4. ASSUME q.op = "execute", Owed(q)', states[q.session] # None
          PROVE  states'[q.session].tick = states[q.session].tick + q.ticks
      <4>1. OwnerMatches(q) /\ q.ticks < Word /\ Counted(q.session)'
        BY <3>1, <3>2, <3>4 DEF Owed, OwnerMatches
      <4>2. TicksRead(q) = q.ticks
        BY <3>1, <4>1, TicksTyped DEF Counted
      <4>3. states[q.session].tick = played[q.session] /\ states'[q.session].tick = played'[q.session]
        BY <3>1, <3>2, <3>4, <4>1, TicksFollow
      <4>4. QED
        BY <3>2, <3>4, <4>1, <4>2, <4>3
    <3>5. \A j \in DOMAIN works : works'[j].status = "imported" /\ works[j].status # "imported" => works[j].q = q
      BY <1>3
    <3>6. QED
      BY <1>3, <3>2, <3>3, <3>4, <3>5 DEF PlayedOn
  <2>3. CASE Report(i)
    <3>1. works'[i].status = "reported"
      BY <1>1, <2>3 DEF Report, SetStatus, Work
    <3>2. QED
      BY <2>1, <2>3, <3>1 DEF Report
  <2>4. CASE Import(i)
    BY <2>2, <2>4 DEF Import
  <2>5. CASE WorkFails(i)
    <3>1. works'[i].status = "failed"
      BY <1>1, <2>5 DEF WorkFails, SetStatus, Work
    <3>2. QED
      BY <2>1, <2>5, <3>1 DEF WorkFails
  <2>6. QED
    BY <2>3, <2>4, <2>5
<1>5. RuntimeTyped'
  BY <1>1, <1>3 DEF RuntimeTyped, ExecutionInv
<1>6. ASSUME NEW c \in Callers PROVE Executing(calls[c])'
  <2>1. calls[c].pc # "idle" => calls[c].q \in Request
    BY DEF ExecutionInv, RuntimeTyped
  <2>2. QED
    BY <1>1, <1>4, <2>1, ExecutingStays DEF ExecutionInv
<1>7. QED
  BY <1>4, <1>5, <1>6 DEF ExecutionInv

LEMMA ExecutionInvHolds == LiveSpec => []ExecutionInv
<1>1. LiveInit => ExecutionInv
  <2> SUFFICES ASSUME LiveInit PROVE ExecutionInv
    OBVIOUS
  <2>1. Stored /\ Best
    BY ServiceStored DEF LiveInit
  <2>2. Idle \in CallRecord /\ Idle.pc = "idle"
    BY IdleTyped
  <2>3. \A c \in Callers : calls[c] = Idle
    BY DEF LiveInit
  <2>4. RuntimeTyped
    BY <2>2, <2>3 DEF LiveInit, RuntimeTyped
  <2>5. \A c \in Callers : Executing(calls[c])
    BY <2>2, <2>3 DEF Executing
  <2>6. QED
    BY <2>1, <2>4, <2>5 DEF ExecutionInv
<1>2. ExecutionInv /\ [LiveNext]_liveVars => ExecutionInv'
  <2>1. ASSUME ExecutionInv, LiveNext PROVE ExecutionInv'
    BY <2>1, CallerKeeps, ChainKeeps DEF LiveNext
  <2>2. ASSUME ExecutionInv, UNCHANGED liveVars PROVE ExecutionInv'
    BY <2>2 DEF ExecutionInv, liveVars, serviceVars, doomStorage, runtimeVars, Stored, Best,
       ScoresRead, RuntimeTyped, Executing, Enough, Owed, Counted, OwnerMatches
  <2>3. QED
    BY <2>1, <2>2
<1>3. QED
  BY <1>1, <1>2, PTL DEF LiveSpec

\* However the calls of several tabs and accounts interleave, time out or
\* lose answers, executeTicks answers the account of a session with states
\* that are as many ticks apart as it asked for, or more: for ticks of a
\* uint32_t, in any session that has not been played for as many ticks as a
\* uint32_t has values and is not called "ticks" or "tick".
THEOREM ExecutionsAreCounted == LiveSpec => []ExecutionsCount
<1>1. ExecutionInv => ExecutionsCount
  BY DEF ExecutionInv, Executing, ExecutionsCount
<1>2. QED
  BY <1>1, ExecutionInvHolds, PTL

\* The service keeps the highest result in this composition too, but for
\* results of a session called "score".
THEOREM BestResultIsHighestLive == LiveSpec => []BestIsHighest
<1>1. ExecutionInv => BestIsHighest
  BY BestHighest DEF ExecutionInv
<1>2. QED
  BY <1>1, ExecutionInvHolds, PTL

-----------------------------------------------------------------------------
(* The realtime session. *)

Message ==
  [type: Kinds, of: Checkpoints \cup {0}] \cup [type: {"other"}, of: {0}]
    \cup [type: {"status"}, of: Statuses]

\* The checkpoints a queue of messages is about, and whether they are in order.
About(m) == m.type \in Kinds /\ m.of # 0
Asks(ms) == {i \in DOMAIN ms : About(ms[i])}
Numbers(ms) == {ms[i].of : i \in Asks(ms)}
InOrder(ms) == \A i, j \in Asks(ms) : i < j => ms[i].of < ms[j].of

\* The same of the list of promises.
Listed(ns) == {ns[i] : i \in DOMAIN ns}
Ascends(ns) == \A i, j \in DOMAIN ns : i < j => ns[i] < ns[j]

\* What becomes of a promise.
Promise ==
  [type: {"unasked", "waiting", "refused", "closed"}, of: {0}]
    \cup [type: Kinds, of: Checkpoints \cup {0}]

LEMMA MessageTyped ==
  ASSUME NEW m \in Message
  PROVE  /\ m.type \in Kinds \cup {"status", "other"}
         /\ About(m) => m.of \in Checkpoints /\ m.of \in Nat
         /\ m.type \in Kinds => m \in Promise /\ m # Unasked /\ m # Waiting
         /\ m.type = "status" => m.of \in Statuses
<1>1. \A n \in Checkpoints : n \in Nat
  BY RealtimeAssumption DEF Checkpoints
<1>2. m.type \in Kinds => m.of \in Checkpoints \cup {0}
  BY DEF Message, Kinds
<1>3. m.type \in Kinds => m \in Promise /\ m # Unasked /\ m # Waiting
  BY DEF Message, Promise, Unasked, Waiting, Fate, Kinds
<1>4. m.type \in Kinds \cup {"status", "other"} /\ (m.type = "status" => m.of \in Statuses)
  BY DEF Message, Kinds
<1>5. QED
  BY <1>1, <1>2, <1>3, <1>4 DEF About

LEMMA Received ==
  ASSUME NEW ms \in Seq(Message), ms # << >>, InOrder(ms)
  PROVE  /\ Head(ms) \in Message /\ Tail(ms) \in Seq(Message) /\ InOrder(Tail(ms))
         /\ ~About(Head(ms)) => Numbers(Tail(ms)) = Numbers(ms)
         /\ About(Head(ms)) =>
              /\ Head(ms).of \in Numbers(ms) /\ Numbers(Tail(ms)) = Numbers(ms) \ {Head(ms).of}
              /\ \A n \in Numbers(Tail(ms)) : Head(ms).of < n
<1> DEFINE t == Tail(ms)
<1>1. /\ Len(ms) \in Nat /\ Len(ms) >= 1 /\ DOMAIN ms = 1..Len(ms) /\ DOMAIN t = 1..Len(ms) - 1
      /\ t \in Seq(Message) /\ Head(ms) = ms[1] /\ ms[1] \in Message
      /\ \A i \in DOMAIN t : i + 1 \in DOMAIN ms /\ t[i] = ms[i + 1]
  OBVIOUS
<1> HIDE DEF t
<1>2. \A i \in DOMAIN ms : ms[i] \in Message
  OBVIOUS
<1>3. \A i \in DOMAIN ms : i # 1 => i - 1 \in DOMAIN t /\ t[i - 1] = ms[i]
  BY <1>1
<1>4. InOrder(t)
  <2>1. \A i \in Asks(t) : i \in Nat /\ i + 1 \in Asks(ms) /\ t[i] = ms[i + 1]
    BY <1>1 DEF Asks
  <2>2. ASSUME NEW i \in Asks(t), NEW j \in Asks(t), i < j PROVE t[i].of < t[j].of
    <3>1. i + 1 \in Asks(ms) /\ j + 1 \in Asks(ms) /\ i + 1 < j + 1
      BY <2>1, <2>2
    <3>2. ms[i + 1].of < ms[j + 1].of
      BY <3>1 DEF InOrder
    <3>3. QED
      BY <2>1, <3>2
  <2>3. QED
    BY <2>2 DEF InOrder
<1>5. Numbers(t) = {ms[i].of : i \in Asks(ms) \ {1}}
  <2>1. ASSUME NEW i \in Asks(t) PROVE i + 1 \in Asks(ms) \ {1} /\ t[i].of = ms[i + 1].of
    BY <1>1 DEF Asks
  <2>2. ASSUME NEW i \in Asks(ms) \ {1} PROVE i - 1 \in Asks(t) /\ t[i - 1].of = ms[i].of
    BY <1>3 DEF Asks
  <2>3. QED
    BY <2>1, <2>2 DEF Numbers
<1>6. ASSUME NEW i \in Asks(ms) \ {1}, About(ms[1])
      PROVE  ms[1].of < ms[i].of /\ ms[1].of \in Nat /\ ms[i].of \in Nat
  <2>1. 1 \in Asks(ms) /\ i \in Nat /\ 1 < i
    BY <1>1, <1>6 DEF Asks
  <2>2. QED
    BY <1>2, <1>6, <2>1, MessageTyped DEF InOrder, Asks
<1>7. CASE ~About(ms[1])
  BY <1>1, <1>4, <1>5, <1>7 DEF Numbers, Asks, t
<1>8. CASE About(ms[1])
  <2>1. 1 \in Asks(ms)
    BY <1>1, <1>8 DEF Asks
  <2>2. ms[1].of \notin Numbers(t)
    BY <1>5, <1>6, <1>8
  <2>3. Numbers(ms) = Numbers(t) \cup {ms[1].of}
    BY <1>5, <2>1 DEF Numbers
  <2>4. \A n \in Numbers(t) : ms[1].of < n
    BY <1>5, <1>6, <1>8
  <2>5. QED
    BY <1>1, <1>4, <1>8, <2>2, <2>3, <2>4 DEF t
<1>9. QED
  BY <1>7, <1>8

LEMMA Sent ==
  ASSUME NEW ms \in Seq(Message), InOrder(ms), NEW m \in Message,
         About(m) => \A n \in Numbers(ms) : n < m.of
  PROVE  /\ Append(ms, m) \in Seq(Message) /\ InOrder(Append(ms, m))
         /\ Numbers(Append(ms, m)) = Numbers(ms) \cup IF About(m) THEN {m.of} ELSE {}
<1> DEFINE a == Append(ms, m)
           last == Len(ms) + 1
<1>1. /\ a \in Seq(Message) /\ DOMAIN ms = 1..Len(ms) /\ DOMAIN a = 1..last
      /\ a[last] = m /\ \A i \in DOMAIN ms : a[i] = ms[i]
      /\ Len(ms) \in Nat
  OBVIOUS
<1> HIDE DEF a
<1>2. Asks(a) = Asks(ms) \cup IF About(m) THEN {last} ELSE {}
  BY <1>1 DEF Asks
<1>3. \A i \in Asks(ms) : i < last /\ i \in Nat /\ a[i] = ms[i] /\ i # last
  BY <1>1 DEF Asks
<1> HIDE DEF last
<1>4. InOrder(a)
  <2> SUFFICES ASSUME NEW i \in Asks(a), NEW j \in Asks(a), i < j PROVE a[i].of < a[j].of
    BY DEF InOrder
  <2>1. CASE i \in Asks(ms) /\ j \in Asks(ms)
    BY <1>3, <2>1 DEF InOrder
  <2>2. CASE i \in Asks(ms) /\ j = last /\ About(m)
    BY <1>1, <1>3, <2>2 DEF Numbers
  <2>3. CASE i = last
    BY <1>1, <1>2, <1>3, <2>3 DEF last
  <2>4. QED
    BY <1>2, <2>1, <2>2, <2>3
<1>5. Numbers(a) = Numbers(ms) \cup IF About(m) THEN {m.of} ELSE {}
  BY <1>1, <1>2, <1>3 DEF Numbers
<1>6. QED
  BY <1>1, <1>4, <1>5 DEF a

LEMMA PromiseListed ==
  ASSUME NEW ns \in Seq(Checkpoints), Ascends(ns), NEW n \in Checkpoints,
         \A k \in Listed(ns) : k < n
  PROVE  /\ Append(ns, n) \in Seq(Checkpoints) /\ Ascends(Append(ns, n))
         /\ Listed(Append(ns, n)) = Listed(ns) \cup {n}
<1> DEFINE a == Append(ns, n)
           last == Len(ns) + 1
<1>1. /\ a \in Seq(Checkpoints) /\ DOMAIN ns = 1..Len(ns) /\ DOMAIN a = 1..last
      /\ a[last] = n /\ \A i \in DOMAIN ns : a[i] = ns[i]
      /\ Len(ns) \in Nat
  OBVIOUS
<1> HIDE DEF a
<1>2. DOMAIN a = DOMAIN ns \cup {last} /\ \A i \in DOMAIN ns : i < last /\ i \in Nat
  BY <1>1
<1>3. ASSUME NEW i \in DOMAIN a, NEW j \in DOMAIN a, i < j PROVE a[i] < a[j]
  <2>1. i \in DOMAIN ns
    BY <1>1, <1>2, <1>3
  <2>2. CASE j \in DOMAIN ns
    BY <1>1, <1>3, <2>1, <2>2 DEF Ascends
  <2>3. CASE j = last
    BY <1>1, <2>1, <2>3 DEF Listed
  <2>4. QED
    BY <1>2, <2>2, <2>3
<1>4. Listed(a) = Listed(ns) \cup {n}
  BY <1>1, <1>2 DEF Listed
<1>5. QED
  BY <1>1, <1>3, <1>4 DEF a, Ascends

LEMMA PromiseSettled ==
  ASSUME NEW ns \in Seq(Checkpoints), Ascends(ns), ns # << >>
  PROVE  /\ Head(ns) \in Listed(ns) /\ \A n \in Listed(ns) : n # Head(ns) => Head(ns) < n
         /\ Tail(ns) \in Seq(Checkpoints) /\ Ascends(Tail(ns))
         /\ Listed(Tail(ns)) = Listed(ns) \ {Head(ns)}
<1> DEFINE t == Tail(ns)
<1>1. /\ Len(ns) \in Nat /\ Len(ns) >= 1 /\ DOMAIN ns = 1..Len(ns) /\ DOMAIN t = 1..Len(ns) - 1
      /\ t \in Seq(Checkpoints) /\ Head(ns) = ns[1] /\ \A i \in DOMAIN ns : ns[i] \in Nat
      /\ \A i \in DOMAIN t : i + 1 \in DOMAIN ns /\ t[i] = ns[i + 1]
  BY RealtimeAssumption DEF Checkpoints
<1> HIDE DEF t
<1>2. \A i \in DOMAIN ns : i # 1 => /\ i - 1 \in DOMAIN t /\ t[i - 1] = ns[i]
                                    /\ ns[1] < ns[i]
  BY <1>1 DEF Ascends
<1>3. ASSUME NEW i \in DOMAIN t, NEW j \in DOMAIN t, i < j PROVE t[i] < t[j]
  <2>1. i + 1 \in DOMAIN ns /\ j + 1 \in DOMAIN ns /\ i + 1 < j + 1
    BY <1>1, <1>3
  <2>2. ns[i + 1] < ns[j + 1]
    BY <2>1 DEF Ascends
  <2>3. QED
    BY <1>1, <2>2
<1>4. Listed(t) = Listed(ns) \ {ns[1]}
  <2>1. ASSUME NEW i \in DOMAIN t PROVE t[i] \in Listed(ns) /\ t[i] # ns[1]
    BY <1>1, <1>2 DEF Listed
  <2>2. ASSUME NEW i \in DOMAIN ns, ns[i] # ns[1] PROVE ns[i] \in Listed(t)
    BY <1>2, <2>2 DEF Listed
  <2>3. QED
    BY <2>1, <2>2 DEF Listed
<1>5. QED
  BY <1>1, <1>2, <1>3, <1>4 DEF Listed, Ascends, t

SessionTyped ==
  /\ socket \in {"connecting", "open", "closed"}
  /\ pending \in Seq(Checkpoints) /\ promises \in [Checkpoints -> Promise]
  /\ controls \in Seq(Message) /\ events \in Seq(Message)
  /\ strays \in Nat
  /\ socket = "connecting" => status = "connecting"
  /\ socket # "open" => controls = << >> /\ events = << >>

\* Checkpoints are asked for in the order of their numbers.
AskedUpTo(k) == \A n \in Checkpoints : promises[n] # Unasked <=> n <= k

\* Of the checkpoints asked for, the first to are answered and the first off
\* are off the list; the answers on their way are in the order of the others,
\* as are the promises of the list, which is ahead by no more than the strays.
Ahead(k, to, off) ==
  /\ to \in 0..k /\ off \in to..k /\ off - to <= strays
  /\ Ascends(pending) /\ InOrder(events) /\ InOrder(controls)
  /\ \A m \in Numbers(events), n \in Numbers(controls) : m < n
  /\ Listed(pending) = off + 1..k
  /\ socket = "connecting" => k = 0
  /\ socket = "open" => Numbers(events) \cup Numbers(controls) = to + 1..k

SessionInv ==
  /\ SessionTyped /\ CheckpointsSettle
  /\ \E k \in 0..MaxCheckpoints : AskedUpTo(k) /\ \E to, off \in Nat : Ahead(k, to, off)

\* What CheckpointsSettle says of a promise, when the list has these numbers.
Over == status = "closed" /\ socket = "closed"
Kept(promise, n, listed, closed, seen) ==
  /\ promise.type \in Kinds /\ promise.of # 0 => n - promise.of \in 0..seen
  /\ promise = Waiting => ~closed /\ n \in listed

LEMMA SettleIsKept ==
  /\ CheckpointsSettle <=>
       \A n \in Checkpoints : Kept(promises[n], n, Listed(pending), Over, strays)
  /\ CheckpointsSettle' <=>
       \A n \in Checkpoints : Kept(promises'[n], n, Listed(pending'), Over', strays')
BY DEF CheckpointsSettle, Kept, Listed, Over

\* A promise that keeps what it has come to stays kept.
LEMMA KeptOn ==
  ASSUME NEW promise \in Promise, NEW n \in Checkpoints, NEW seen \in Nat, NEW more \in Nat,
         seen <= more, NEW listed, NEW now, NEW closed, NEW over,
         Kept(promise, n, listed, closed, seen),
         promise = Waiting => ~over /\ (n \in listed => n \in now)
  PROVE  Kept(promise, n, now, over, more)
<1>1. promise.type \in Kinds /\ promise.of # 0 => n - promise.of \in 0..more
  <2>1. n \in Int /\ (promise.type \in Kinds => promise.of \in Int)
    BY RealtimeAssumption DEF Promise, Checkpoints, Kinds
  <2>2. QED
    BY <2>1 DEF Kept
<1>2. QED
  BY <1>1 DEF Kept

LEMMA FatesDiffer ==
  /\ Waiting \in Promise /\ Fate("refused") \in Promise /\ Fate("closed") \in Promise
  /\ Unasked \in Promise
  /\ Waiting # Unasked /\ Fate("refused") # Unasked /\ Fate("closed") # Unasked
  /\ Fate("refused") # Waiting /\ Fate("closed") # Waiting
  /\ Waiting.type \notin Kinds /\ Fate("refused").type \notin Kinds
  /\ Fate("closed").type \notin Kinds /\ Unasked.type \notin Kinds
BY DEF Waiting, Unasked, Fate, Promise, Kinds

LEMMA NothingQueued ==
  /\ Numbers(<< >>) = {} /\ InOrder(<< >>)
  /\ Listed(<< >>) = {} /\ Ascends(<< >>)
BY DEF Numbers, Asks, InOrder, Listed, Ascends

LEMMA AheadTyped ==
  ASSUME NEW k \in Nat, NEW to \in Nat, NEW off \in Nat, Ahead(k, to, off)
  PROVE  /\ to <= off /\ off <= k /\ off - to <= strays
         /\ Ascends(pending) /\ InOrder(events) /\ InOrder(controls)
         /\ \A m \in Numbers(events), n \in Numbers(controls) : m < n
         /\ \A n : n \in Listed(pending) <=> n \in Nat /\ off < n /\ n <= k
         /\ socket = "open" =>
              \A n : n \in Numbers(events) \cup Numbers(controls) <=> n \in Nat /\ to < n /\ n <= k
BY DEF Ahead

\* A checkpoint is asked for by the least number not asked for yet.
LEMMA NextNumber ==
  ASSUME NEW k \in 0..MaxCheckpoints, AskedUpTo(k), Made # Checkpoints
  PROVE  k + 1 \in Checkpoints
         /\ k + 1 = CHOOSE m \in Checkpoints \ Made : \A j \in Checkpoints \ Made : m <= j
<1> DEFINE Free == Checkpoints \ Made
           Least(m) == \A j \in Free : m <= j
<1>1. Checkpoints = 1..MaxCheckpoints /\ MaxCheckpoints \in Nat /\ k \in Nat
  BY RealtimeAssumption DEF Checkpoints
<1>2. Free = {n \in Checkpoints : n > k}
  BY <1>1 DEF AskedUpTo, Made
<1>3. Free # {}
  BY DEF Made
<1>4. k + 1 \in Free /\ Least(k + 1)
  BY <1>1, <1>2, <1>3
<1>5. ASSUME NEW m \in Free, Least(m) PROVE m = k + 1
  BY <1>1, <1>2, <1>4, <1>5
<1>6. (CHOOSE m \in Free : Least(m)) = k + 1
  <2> HIDE DEF Free, Least
  <2>1. QED
    BY <1>4, <1>5
<1>7. QED
  BY <1>4, <1>6

LEMMA CheckpointSafe ==
  ASSUME SessionInv, Checkpoint
  PROVE  SessionInv'
<1>1. PICK k \in 0..MaxCheckpoints, to \in Nat, off \in Nat : AskedUpTo(k) /\ Ahead(k, to, off)
  BY DEF SessionInv
<1> DEFINE n == k + 1
           fate == IF Connected THEN Waiting ELSE Fate("refused")
           ask == [type |-> "checkpoint", of |-> n]
<1>2. /\ n \in Checkpoints /\ socket # "connecting" /\ UNCHANGED <<socket, status, events, strays>>
      /\ pending' = Append(pending, n) /\ promises' = [promises EXCEPT ![n] = fate]
      /\ controls' = IF Connected THEN Append(controls, ask) ELSE controls
  <2>1. Made # Checkpoints
    BY DEF Checkpoint
  <2>2. n \in Checkpoints /\ n = CHOOSE m \in Checkpoints \ Made : \A j \in Checkpoints \ Made : m <= j
    BY <1>1, <2>1, NextNumber
  <2> HIDE DEF n
  <2>3. QED
    BY <2>2 DEF Checkpoint
<1>3. /\ k \in Nat /\ n \in Nat /\ n = k + 1 /\ n \in 0..MaxCheckpoints
      /\ \A m \in Checkpoints : m \in Nat
  BY <1>2, RealtimeAssumption DEF Checkpoints
<1>4. fate \in Promise /\ fate # Unasked /\ fate.type \notin Kinds /\ (fate = Waiting => Connected)
  BY FatesDiffer
<1>5. ask \in Message /\ About(ask) /\ ask.of = n
  BY <1>2, <1>3 DEF Message, Kinds, About
<1> HIDE DEF n, fate, ask
<1>6. /\ to <= off /\ off <= k /\ off - to <= strays
      /\ Ascends(pending) /\ InOrder(events) /\ InOrder(controls)
      /\ \A m \in Numbers(events), j \in Numbers(controls) : m < j
      /\ \A m : m \in Listed(pending) <=> m \in Nat /\ off < m /\ m <= k
      /\ socket = "open" =>
           \A m : m \in Numbers(events) \cup Numbers(controls) <=> m \in Nat /\ to < m /\ m <= k
  BY <1>1, <1>3, AheadTyped
<1>7. SessionTyped
  BY DEF SessionInv
<1>8. /\ pending' \in Seq(Checkpoints) /\ Ascends(pending')
      /\ Listed(pending') = Listed(pending) \cup {n}
  <2>1. \A m \in Listed(pending) : m < n
    BY <1>3, <1>6
  <2>2. QED
    BY <1>2, <1>6, <1>7, <2>1, PromiseListed DEF SessionTyped
<1>9. promises' \in [Checkpoints -> Promise] /\ promises'[n] = fate
      /\ \A m \in Checkpoints : m # n => promises'[m] = promises[m]
  BY <1>2, <1>4, <1>7 DEF SessionTyped
<1>10. /\ controls' \in Seq(Message) /\ InOrder(controls')
       /\ Connected => Numbers(controls') = Numbers(controls) \cup {n}
       /\ ~Connected => controls' = controls
  <2>1. CASE Connected
    <3>1. \A m \in Numbers(controls) : m < n
      BY <1>3, <1>6, <2>1 DEF Connected
    <3>2. QED
      BY <1>2, <1>5, <1>6, <1>7, <2>1, <3>1, Sent DEF SessionTyped
  <2>2. CASE ~Connected
    BY <1>2, <1>6, <1>7, <2>2 DEF SessionTyped
  <2>3. QED
    BY <2>1, <2>2
<1>11. SessionTyped'
  BY <1>2, <1>7, <1>8, <1>9, <1>10 DEF SessionTyped, Connected
<1>12. Ahead(n, to, off)'
  <2>1. ASSUME socket = "open"
        PROVE  /\ \A i \in Numbers(events), j \in Numbers(controls') : i < j
               /\ Numbers(events) \cup Numbers(controls') = to + 1..n
    <3>1. Numbers(controls') = Numbers(controls) \cup {n}
      BY <1>10, <2>1 DEF Connected
    <3>2. \A i \in Numbers(events) : i < n
      BY <1>3, <1>6, <2>1
    <3>3. \A m : m \in Numbers(events) \cup Numbers(controls') <=> m \in Nat /\ to < m /\ m <= n
      BY <1>3, <1>6, <2>1, <3>1
    <3>4. QED
      BY <1>3, <1>6, <3>1, <3>2, <3>3
  <2>2. socket # "open" => Numbers(events) = {}
    BY <1>7, NothingQueued DEF SessionTyped
  <2>3. Listed(pending') = off + 1..n
    BY <1>3, <1>6, <1>8
  <2>4. to \in 0..n /\ off \in to..n
    BY <1>3, <1>6
  <2>5. QED
    BY <1>2, <1>6, <1>8, <1>10, <2>1, <2>2, <2>3, <2>4 DEF Ahead
<1>13. CheckpointsSettle'
  <2>1. \A m \in Checkpoints : Kept(promises[m], m, Listed(pending), Over, strays)
    BY SettleIsKept DEF SessionInv
  <2>2. Over' = Over /\ (Connected => ~Over)
    BY <1>2 DEF Over, Connected
  <2>3. ASSUME NEW m \in Checkpoints
        PROVE  Kept(promises'[m], m, Listed(pending'), Over, strays)
    <3>1. CASE m = n
      BY <1>4, <1>8, <1>9, <2>2, <3>1 DEF Kept
    <3>2. CASE m # n
      BY <1>8, <1>9, <2>1, <3>2 DEF Kept
    <3>3. QED
      BY <3>1, <3>2
  <2>4. QED
    BY <1>2, <2>2, <2>3, SettleIsKept
<1>14. AskedUpTo(n)'
  BY <1>1, <1>3, <1>4, <1>9 DEF AskedUpTo
<1>15. QED
  BY <1>3, <1>11, <1>12, <1>13, <1>14 DEF SessionInv

\* Which checkpoints were asked for stays when no promise is made.
LEMMA AskedStays ==
  ASSUME NEW k, AskedUpTo(k), \A n \in Checkpoints : promises'[n] # Unasked <=> promises[n] # Unasked
  PROVE  AskedUpTo(k)'
BY DEF AskedUpTo

\* The promise at the head of the list is settled by the message at the head
\* of the queue: the answer it asked for, or one before that by no more places
\* than strays have moved the list.
LEMMA ReceiveSafe ==
  ASSUME SessionInv, Receive
  PROVE  SessionInv'
<1> DEFINE event == Head(events)
           about == About(event)
           settles == event.type \in Kinds /\ pending # << >>
           n == Head(pending)
<1>1. PICK k \in 0..MaxCheckpoints, to \in Nat, off \in Nat : AskedUpTo(k) /\ Ahead(k, to, off)
  BY DEF SessionInv
<1>2. k \in Nat /\ \A m \in Checkpoints : m \in Nat
  BY RealtimeAssumption DEF Checkpoints
<1>3. /\ to <= off /\ off <= k /\ off - to <= strays
      /\ Ascends(pending) /\ InOrder(events) /\ InOrder(controls)
      /\ \A m \in Numbers(events), j \in Numbers(controls) : m < j
      /\ \A m : m \in Listed(pending) <=> m \in Nat /\ off < m /\ m <= k
      /\ socket = "open" =>
           \A m : m \in Numbers(events) \cup Numbers(controls) <=> m \in Nat /\ to < m /\ m <= k
  BY <1>1, <1>2, AheadTyped
<1>4. /\ SessionTyped /\ strays \in Nat
      /\ \A m \in Checkpoints : Kept(promises[m], m, Listed(pending), Over, strays)
  BY SettleIsKept DEF SessionInv, SessionTyped
<1>5. socket = "open" /\ events # << >> /\ UNCHANGED <<socket, controls>> /\ events' = Tail(events)
  BY <1>4 DEF Receive, SessionTyped
<1>6. /\ event \in Message /\ events' \in Seq(Message) /\ InOrder(events')
      /\ ~about => Numbers(events') = Numbers(events)
      /\ about => /\ event.of \in Numbers(events) /\ Numbers(events') = Numbers(events) \ {event.of}
                  /\ \A m \in Numbers(events') : event.of < m
  BY <1>3, <1>4, <1>5, Received DEF SessionTyped
<1>7. /\ event.type \in Kinds \cup {"status", "other"}
      /\ event.type \in Kinds => event \in Promise /\ event # Unasked /\ event # Waiting
      /\ about => event.of \in Nat /\ event.type \in Kinds
  BY <1>6, MessageTyped DEF About
<1>8. strays' = IF event.type \in Kinds /\ ~about THEN strays + 1 ELSE strays
  BY DEF Receive, About
<1>9. settles => pending' = Tail(pending) /\ promises' = [promises EXCEPT ![n] = event]
  BY <1>7 DEF Receive, Settle, Kinds
<1>10. ~settles => UNCHANGED <<pending, promises>>
  BY <1>7 DEF Receive, Settle, Kinds
<1>11. ASSUME settles
       PROVE  /\ n = off + 1 /\ n \in Checkpoints /\ n <= k
              /\ Tail(pending) \in Seq(Checkpoints) /\ Ascends(Tail(pending))
              /\ \A m : m \in Listed(Tail(pending)) <=> m \in Nat /\ off + 1 < m /\ m <= k
  <2>1. /\ n \in Listed(pending) /\ \A m \in Listed(pending) : m # n => n < m
        /\ Tail(pending) \in Seq(Checkpoints) /\ Ascends(Tail(pending))
        /\ Listed(Tail(pending)) = Listed(pending) \ {n}
    BY <1>3, <1>4, <1>11, PromiseSettled DEF SessionTyped
  <2>2. n \in Checkpoints
    BY <1>4, <1>11 DEF SessionTyped
  <2>3. n \in Nat /\ off < n /\ n <= k
    BY <1>3, <2>1
  <2>4. off + 1 \in Listed(pending)
    BY <1>2, <1>3, <2>3
  <2> HIDE DEF n
  <2>5. n = off + 1
    BY <2>1, <2>3, <2>4
  <2>6. QED
    BY <1>3, <2>1, <2>2, <2>3, <2>5
<1>12. ASSUME about
       PROVE  /\ event.of = to + 1 /\ to < k
              /\ \A m : m \in Numbers(events') \cup Numbers(controls) <=> m \in Nat /\ to + 1 < m /\ m <= k
  <2>1. event.of \in Nat /\ to < event.of /\ event.of <= k
    BY <1>3, <1>5, <1>6, <1>12
  <2>2. to + 1 \in Numbers(events) \cup Numbers(controls)
    BY <1>2, <1>3, <1>5, <2>1
  <2>3. \A m \in Numbers(controls) : event.of < m
    BY <1>3, <1>6, <1>12
  <2>4. event.of = to + 1
    BY <1>6, <1>12, <2>1, <2>2, <2>3
  <2>5. \A m : m \in Numbers(events') \cup Numbers(controls)
               <=> m \in Numbers(events) \cup Numbers(controls) /\ m # event.of
    BY <1>2, <1>3, <1>5, <1>6, <1>12, <2>1, <2>3
  <2> HIDE DEF event
  <2>6. QED
    BY <1>2, <1>3, <1>5, <2>1, <2>4, <2>5
<1>13. event.type \in Kinds /\ ~settles => off = k
  <2>1. ASSUME pending = << >> PROVE off = k
    <3>1. \A m : m \notin Listed(pending)
      BY <2>1, NothingQueued
    <3>2. off + 1 \in Nat /\ ~(off + 1 <= k)
      BY <1>2, <1>3, <3>1
    <3>3. QED
      BY <1>2, <1>3, <3>2
  <2>2. QED
    BY <2>1
<1> HIDE DEF event, about, settles, n
<1>14. strays' \in Nat /\ strays <= strays'
  BY <1>4, <1>8
<1>15. PICK t \in Nat : t = IF about THEN to + 1 ELSE to
  OBVIOUS
<1>16. PICK o \in Nat : o = IF settles THEN off + 1 ELSE off
  OBVIOUS
<1>17. t <= o /\ o <= k /\ o - t <= strays'
  <2>1. settles => off + 1 <= k
    BY <1>11
  <2>2. settles => event.type \in Kinds
    BY DEF settles
  <2>3. about => event.type \in Kinds
    BY <1>7
  <2>4. CASE about
    BY <1>2, <1>3, <1>4, <1>8, <1>12, <1>13, <1>15, <1>16, <2>1, <2>3, <2>4
  <2>5. CASE ~about /\ event.type \in Kinds
    BY <1>2, <1>3, <1>4, <1>8, <1>15, <1>16, <2>1, <2>5
  <2>6. CASE ~about /\ event.type \notin Kinds
    BY <1>2, <1>3, <1>4, <1>8, <1>15, <1>16, <2>2, <2>6
  <2>7. QED
    BY <2>4, <2>5, <2>6
<1>18. /\ pending' \in Seq(Checkpoints) /\ Ascends(pending')
       /\ \A m : m \in Listed(pending') <=> m \in Nat /\ o < m /\ m <= k
  <2>1. CASE settles
    BY <1>9, <1>11, <1>16, <2>1
  <2>2. CASE ~settles
    <3>1. pending' = pending /\ o = off
      BY <1>10, <1>16, <2>2
    <3>2. pending \in Seq(Checkpoints) /\ Ascends(pending)
          /\ \A m : m \in Listed(pending) <=> m \in Nat /\ off < m /\ m <= k
      BY <1>3, <1>4 DEF SessionTyped
    <3>3. QED
      BY <3>1, <3>2
  <2>3. QED
    BY <2>1, <2>2
<1>19. \A m : m \in Numbers(events') \cup Numbers(controls) <=> m \in Nat /\ t < m /\ m <= k
  BY <1>3, <1>5, <1>6, <1>12, <1>15
<1>20. Ahead(k, t, o)'
  <2>1. t \in 0..k /\ o \in t..k
    BY <1>2, <1>17
  <2>2. Listed(pending') = o + 1..k
    <3>1. \A m : m \in Listed(pending') <=> m \in Nat /\ o < m /\ m <= k
      BY <1>18
    <3>2. \A m : m \in Listed(pending') <=> m \in o + 1..k
      BY <1>2, <1>16, <3>1
    <3>3. QED
      BY <3>2, Zenon
  <2>3. Numbers(events') \cup Numbers(controls) = t + 1..k
    BY <1>2, <1>19
  <2>4. \A m \in Numbers(events'), j \in Numbers(controls) : m < j
    BY <1>3, <1>6
  <2>5. socket' # "connecting" /\ o - t <= strays'
    BY <1>5, <1>17
  <2>6. InOrder(events') /\ InOrder(controls') /\ Ascends(pending')
    BY <1>3, <1>5, <1>6, <1>18
  <2>7. \A m \in Numbers(events'), j \in Numbers(controls') : m < j
    BY <1>5, <2>4
  <2>8. Numbers(events') \cup Numbers(controls') = t + 1..k
    BY <1>5, <2>3
  <2>9. QED
    BY <2>1, <2>2, <2>5, <2>6, <2>7, <2>8 DEF Ahead
<1>21. /\ promises' \in [Checkpoints -> Promise]
       /\ settles => /\ promises'[n] = event
                     /\ \A m \in Checkpoints : m # n => promises'[m] = promises[m]
  <2>1. CASE settles
    <3>1. event \in Promise /\ n \in Checkpoints
      BY <1>7, <1>11, <2>1 DEF settles
    <3>2. QED
      BY <1>4, <1>9, <2>1, <3>1 DEF SessionTyped
  <2>2. CASE ~settles
    BY <1>4, <1>10, <2>2 DEF SessionTyped
  <2>3. QED
    BY <2>1, <2>2
<1>22. SessionTyped'
  BY <1>4, <1>5, <1>6, <1>14, <1>18, <1>21 DEF SessionTyped
<1>23. CheckpointsSettle'
  <2>1. ~Over'
    BY <1>5 DEF Over
  <2>2. ASSUME NEW m \in Checkpoints
        PROVE  Kept(promises'[m], m, Listed(pending'), Over', strays')
    <3>1. CASE settles /\ m = n
      <4>1. promises'[m] = event /\ event # Waiting /\ event.type \in Kinds
        BY <1>7, <1>21, <3>1 DEF settles
      <4>2. ASSUME event.of # 0 PROVE m - event.of \in 0..strays'
        <5>1. about
          BY <4>1, <4>2 DEF about, About
        <5>2. m = off + 1 /\ event.of = to + 1 /\ strays' = strays
          BY <1>8, <1>11, <1>12, <3>1, <5>1
        <5>3. QED
          BY <1>3, <1>4, <5>2
      <4>3. QED
        BY <4>1, <4>2 DEF Kept
    <3>2. CASE settles /\ m # n
      <4>1. promises'[m] = promises[m] /\ promises[m] \in Promise
        BY <1>4, <1>21, <3>2 DEF SessionTyped
      <4>2. m \in Listed(pending) => m \in Listed(pending')
        BY <1>2, <1>3, <1>11, <1>16, <1>18, <3>2
      <4>3. QED
        BY <1>4, <1>14, <2>1, <4>1, <4>2, KeptOn
    <3>3. CASE ~settles
      <4>1. promises'[m] = promises[m] /\ promises[m] \in Promise /\ pending' = pending
        BY <1>4, <1>10, <3>3 DEF SessionTyped
      <4>2. QED
        BY <1>4, <1>14, <2>1, <4>1, KeptOn
    <3>4. QED
      BY <3>1, <3>2, <3>3
  <2>3. QED
    BY <2>2, SettleIsKept
<1>24. AskedUpTo(k)'
  <2>1. settles => event # Unasked /\ n \in Checkpoints /\ n <= k
    BY <1>7, <1>11 DEF settles
  <2>2. \A m \in Checkpoints : promises'[m] # Unasked <=> promises[m] # Unasked
    BY <1>1, <1>10, <1>21, <2>1 DEF AskedUpTo
  <2>3. QED
    BY <1>1, <2>2, AskedStays
<1>25. QED
  BY <1>20, <1>22, <1>23, <1>24 DEF SessionInv

LEMMA CloseSafe ==
  ASSUME SessionInv, Close
  PROVE  SessionInv'
<1>1. PICK k \in 0..MaxCheckpoints : AskedUpTo(k)
  BY DEF SessionInv
<1>2. /\ SessionTyped
      /\ \A m \in Checkpoints : Kept(promises[m], m, Listed(pending), Over, strays)
  BY SettleIsKept DEF SessionInv
<1>3. /\ socket' = "closed" /\ status' = "closed" /\ strays' = strays
      /\ pending' = << >> /\ controls' = << >> /\ events' = << >>
  BY DEF Close
<1>4. promises' = [m \in Checkpoints |->
         IF promises[m] = Waiting /\ m \in Listed(pending) THEN Fate("closed") ELSE promises[m]]
  BY DEF Close, Listed
<1>5. /\ promises' \in [Checkpoints -> Promise]
      /\ \A m \in Checkpoints :
           promises'[m] = IF promises[m] = Waiting THEN Fate("closed") ELSE promises[m]
  BY <1>2, <1>4, FatesDiffer DEF Kept, SessionTyped
<1>6. SessionTyped'
  BY <1>2, <1>3, <1>5 DEF SessionTyped
<1>7. Ahead(k, k, k)' /\ k \in Nat
  <2>1. k \in Nat /\ strays \in Nat /\ k + 1..k = {} /\ k - k <= strays /\ k \in 0..k /\ k \in k..k
    BY <1>2 DEF SessionTyped
  <2>2. QED
    BY <1>3, <2>1, NothingQueued DEF Ahead
<1>8. CheckpointsSettle'
  <2>1. ASSUME NEW m \in Checkpoints
        PROVE  Kept(promises'[m], m, Listed(pending'), Over', strays')
    BY <1>2, <1>3, <1>5, FatesDiffer DEF Kept
  <2>2. QED
    BY <2>1, SettleIsKept
<1>9. \A m \in Checkpoints : promises'[m] # Unasked <=> promises[m] # Unasked
  BY <1>5, FatesDiffer
<1>10. QED
  BY <1>1, <1>6, <1>7, <1>8, <1>9, AskedStays DEF SessionInv

\* A step of the queues alone: what they are about together stays.
LEMMA QueuesSafe ==
  ASSUME SessionInv, socket = "open", UNCHANGED <<socket, pending, promises, strays>>,
         controls' \in Seq(Message), events' \in Seq(Message),
         InOrder(controls'), InOrder(events'),
         \A m \in Numbers(events'), n \in Numbers(controls') : m < n,
         Numbers(events') \cup Numbers(controls') = Numbers(events) \cup Numbers(controls)
  PROVE  SessionInv'
<1>1. PICK k \in 0..MaxCheckpoints, to \in Nat, off \in Nat : AskedUpTo(k) /\ Ahead(k, to, off)
  BY DEF SessionInv
<1>2. SessionTyped' /\ AskedUpTo(k)'
  BY <1>1 DEF SessionInv, SessionTyped, AskedUpTo
<1>3. Ahead(k, to, off)'
  BY <1>1 DEF Ahead
<1>4. CheckpointsSettle'
  BY DEF SessionInv, CheckpointsSettle
<1>5. QED
  BY <1>2, <1>3, <1>4 DEF SessionInv

LEMMA Queues ==
  ASSUME SessionInv
  PROVE  /\ InOrder(events) /\ InOrder(controls)
         /\ events \in Seq(Message) /\ controls \in Seq(Message)
         /\ \A m \in Numbers(events), n \in Numbers(controls) : m < n
BY DEF SessionInv, SessionTyped, Ahead

\* An answer takes the place of the message it answers between the two queues.
LEMMA AnswersSafe ==
  ASSUME SessionInv, Answers
  PROVE  SessionInv'
<1> DEFINE message == Head(controls)
<1>1. /\ controls # << >> /\ socket = "open" /\ UNCHANGED <<socket, status, pending, promises, strays>>
      /\ controls' = Tail(controls)
  BY DEF Answers, SessionInv, SessionTyped
<1>2. /\ message \in Message /\ controls' \in Seq(Message) /\ InOrder(controls')
      /\ ~About(message) => Numbers(controls') = Numbers(controls)
      /\ About(message) =>
           /\ message.of \in Numbers(controls) /\ Numbers(controls') = Numbers(controls) \ {message.of}
           /\ \A n \in Numbers(controls') : message.of < n
  BY <1>1, Queues, Received
<1>3. \/ events' = events /\ ~About(message)
      \/ events' = Append(events, message) /\ ~About(message)
      \/ /\ message.type = "checkpoint"
         /\ \E type \in Kinds : events' = Append(events, [message EXCEPT !.type = type])
  BY DEF Answers, About, Kinds
<1>4. CASE events' = events /\ ~About(message)
  BY <1>1, <1>2, <1>4, Queues, QueuesSafe
<1>5. CASE /\ message.type = "checkpoint"
           /\ \E type \in Kinds : events' = Append(events, [message EXCEPT !.type = type])
  <2>1. PICK type \in Kinds : events' = Append(events, [message EXCEPT !.type = type])
    BY <1>5
  <2>2. message \in [type: Kinds, of: Checkpoints \cup {0}]
    BY <1>2, <1>5 DEF Message
  <2>3. PICK answer \in Message : /\ answer = [message EXCEPT !.type = type]
                                  /\ answer.of = message.of
                                  /\ About(answer) <=> About(message)
    <3>1. [message EXCEPT !.type = type] \in [type: Kinds, of: Checkpoints \cup {0}]
      BY <2>2
    <3>2. /\ [message EXCEPT !.type = type].type = type
          /\ [message EXCEPT !.type = type].of = message.of
      BY <2>2
    <3>3. message.type \in Kinds
      BY <2>2
    <3>4. QED
      BY <3>1, <3>2, <3>3 DEF Message, About
  <2>4. About(answer) => \A n \in Numbers(events) : n < answer.of
    BY <1>2, <2>3, Queues
  <2>5. /\ events' \in Seq(Message) /\ InOrder(events')
        /\ Numbers(events') = Numbers(events) \cup IF About(message) THEN {message.of} ELSE {}
    BY <2>1, <2>3, <2>4, Queues, Sent
  <2>6. Numbers(events') \cup Numbers(controls') = Numbers(events) \cup Numbers(controls)
    BY <1>2, <2>5
  <2>7. \A m \in Numbers(events'), n \in Numbers(controls') : m < n
    BY <1>2, <2>5, Queues
  <2>8. QED
    BY <1>1, <1>2, <2>5, <2>6, <2>7, QueuesSafe
<1>6. CASE events' = Append(events, message) /\ ~About(message)
  <2>1. events' \in Seq(Message) /\ InOrder(events') /\ Numbers(events') = Numbers(events)
    BY <1>2, <1>6, Queues, Sent
  <2>2. QED
    BY <1>1, <1>2, <1>6, <2>1, Queues, QueuesSafe
<1>7. QED
  BY <1>3, <1>4, <1>5, <1>6

\* What is about no checkpoint changes nothing of the queues' order.
LEMMA TurnSafe ==
  ASSUME SessionInv, NEW to \in {"paused", "running"}, Turn(to)
  PROVE  SessionInv'
<1> DEFINE message == [type |-> "status", of |-> to]
<1>1. message \in Message /\ ~About(message)
  BY DEF Message, About, Kinds, Statuses
<1>2. /\ socket = "open" /\ UNCHANGED <<socket, pending, promises, events, strays>>
      /\ controls' = Append(controls, message)
  BY DEF Turn, Connected
<1> HIDE DEF message
<1>3. controls' \in Seq(Message) /\ InOrder(controls') /\ Numbers(controls') = Numbers(controls)
  BY <1>1, <1>2, Queues, Sent
<1>4. QED
  BY <1>2, <1>3, Queues, QueuesSafe

LEMMA SendsSafe ==
  ASSUME SessionInv, Sends
  PROVE  SessionInv'
<1>1. PICK message \in Unprompted : events' = Append(events, message)
  BY DEF Sends
<1>2. message \in Message /\ ~About(message)
  BY RealtimeAssumption DEF Unprompted, Message, About, Kinds
<1>3. socket = "open" /\ UNCHANGED <<socket, status, pending, promises, controls, strays>>
  BY DEF Sends, Connected
<1>4. events' \in Seq(Message) /\ InOrder(events') /\ Numbers(events') = Numbers(events)
  BY <1>1, <1>2, Queues, Sent
<1>5. QED
  BY <1>3, <1>4, Queues, QueuesSafe

LEMMA ConnectionSafe ==
  ASSUME SessionInv, Connects \/ Disconnects
  PROVE  SessionInv'
<1>1. PICK k \in 0..MaxCheckpoints, to \in Nat, off \in Nat : AskedUpTo(k) /\ Ahead(k, to, off)
  BY DEF SessionInv
<1>2. /\ SessionTyped /\ \A m \in Checkpoints : Kept(promises[m], m, Listed(pending), Over, strays)
  BY SettleIsKept DEF SessionInv
<1>3. UNCHANGED <<pending, promises, strays>> /\ ~Over'
  BY DEF Connects, Disconnects, Over
<1>4. SessionTyped'
  <2>1. CASE Connects
    BY <1>2, <2>1 DEF Connects, SessionTyped
  <2>2. CASE Disconnects
    <3>1. << >> \in Seq(Message)
      OBVIOUS
    <3>2. QED
      BY <1>2, <2>2, <3>1 DEF Disconnects, SessionTyped
  <2>3. QED
    BY <2>1, <2>2
<1>5. CheckpointsSettle'
  <2>1. \A m \in Checkpoints : Kept(promises'[m], m, Listed(pending'), Over', strays')
    BY <1>2, <1>3 DEF Kept
  <2>2. QED
    BY <2>1, SettleIsKept
<1>6. Ahead(k, to, off)'
  <2>1. events' = << >> /\ controls' = << >> /\ socket' # "connecting"
    BY <1>2 DEF Connects, Disconnects, SessionTyped
  <2>2. Connects => to + 1..k = {}
    BY <1>1 DEF Connects, Ahead
  <2>3. Disconnects => socket' # "open"
    BY DEF Disconnects
  <2>4. Connects \/ Disconnects
    OBVIOUS
  <2>5. QED
    BY <1>1, <1>3, <2>1, <2>2, <2>3, <2>4, NothingQueued DEF Ahead
<1>7. AskedUpTo(k)'
  BY <1>1, <1>3 DEF AskedUpTo
<1>8. QED
  BY <1>1, <1>4, <1>5, <1>6, <1>7 DEF SessionInv

\* Whatever order the messages of the session and of the gateway come in,
\* whatever the gateway sends unasked and wherever the socket closes: no
\* checkpoint is settled by the answer to a later one, nor by that of an
\* earlier one by more places than stray messages came in; and none is left
\* waiting off the list.
THEOREM CheckpointsAreSettled == RealtimeSpec => []CheckpointsSettle
<1>1. RealtimeInit => SessionInv
  <2> SUFFICES ASSUME RealtimeInit PROVE SessionInv
    OBVIOUS
  <2>1. /\ pending = << >> /\ controls = << >> /\ events = << >>
        /\ socket = "connecting" /\ status = "connecting" /\ strays = 0
        /\ promises = [n \in Checkpoints |-> Unasked]
    BY DEF RealtimeInit
  <2>2. SessionTyped /\ \A n \in Checkpoints : promises[n] = Unasked
    BY <2>1, FatesDiffer DEF SessionTyped
  <2>3. Ahead(0, 0, 0)
    <3>1. 0 + 1..0 = {} /\ 0 \in 0..0 /\ 0 - 0 <= 0
      OBVIOUS
    <3>2. QED
      BY <2>1, <3>1, NothingQueued DEF Ahead
  <2>4. \A n \in Checkpoints : Kept(promises[n], n, Listed(pending), Over, strays)
    BY <2>2, FatesDiffer DEF Kept
  <2>5. CheckpointsSettle
    BY <2>4, SettleIsKept
  <2>6. AskedUpTo(0) /\ 0 \in 0..MaxCheckpoints /\ 0 \in Nat
    BY <2>2, RealtimeAssumption DEF AskedUpTo, Checkpoints
  <2>7. QED
    BY <2>2, <2>3, <2>5, <2>6 DEF SessionInv
<1>2. SessionInv /\ [RealtimeNext]_realtimeVars => SessionInv'
  <2>1. ASSUME SessionInv, RealtimeNext PROVE SessionInv'
    BY <2>1, CheckpointSafe, ReceiveSafe, CloseSafe, AnswersSafe, SendsSafe, TurnSafe, ConnectionSafe
       DEF RealtimeNext
  <2>2. ASSUME SessionInv, UNCHANGED realtimeVars PROVE SessionInv'
    BY <2>2 DEF realtimeVars, SessionInv, SessionTyped, Ahead, CheckpointsSettle, AskedUpTo
  <2>3. QED
    BY <2>1, <2>2
<1>3. SessionInv => CheckpointsSettle
  BY DEF SessionInv
<1>4. QED
  BY <1>1, <1>2, <1>3, PTL DEF RealtimeSpec

-----------------------------------------------------------------------------
(* Messages as bytes.  The base of the numbers is any, so that what reads *)
(* them back is the division with a remainder, which has one result.      *)

HIDE DoomServiceAssumption
HIDE NoRecordAssumption

LEMMA Monotone ==
  ASSUME NEW b \in Nat, NEW q \in Int, NEW p \in Int, q > p
  PROVE  b * q \in Int /\ b * p \in Int /\ b * q >= b * p + b
<1>1. b * (q - p - 1) >= 0
  OBVIOUS
<1>2. b * (q - p - 1) = b * q - b * p - b
  OBVIOUS
<1>3. b * q \in Int /\ b * p \in Int
  OBVIOUS
<1>4. QED
  BY <1>1, <1>2, <1>3

LEMMA Divides ==
  ASSUME NEW b \in Nat, b > 0, NEW n \in Int
  PROVE  /\ n \div b \in Int /\ n % b \in 0..b - 1
         /\ n = b * (n \div b) + (n % b)
OBVIOUS

LEMMA DividesOnce ==
  ASSUME NEW b \in Nat, b > 0, NEW q \in Int, NEW r \in 0..b - 1, NEW n \in Int,
         n = b * q + r
  PROVE  n \div b = q /\ n % b = r
<1> DEFINE p == n \div b
           t == n % b
<1>1. p \in Int /\ t \in 0..b - 1 /\ n = b * p + t
  BY Divides
<1> HIDE DEF p, t
<1>2. ~ q > p
  <2> SUFFICES ASSUME q > p PROVE FALSE
    OBVIOUS
  <2>1. b * q \in Int /\ b * p \in Int /\ b * q >= b * p + b
    BY <1>1, Monotone
  <2>2. QED
    BY <1>1, <2>1
<1>3. ~ p > q
  <2> SUFFICES ASSUME p > q PROVE FALSE
    OBVIOUS
  <2>1. b * q \in Int /\ b * p \in Int /\ b * p >= b * q + b
    BY <1>1, Monotone
  <2>2. QED
    BY <1>1, <2>1
<1>4. p = q
  BY <1>1, <1>2, <1>3
<1>5. b * q \in Int
  OBVIOUS
<1>6. t = r
  BY <1>1, <1>4, <1>5
<1>7. QED
  BY <1>4, <1>6 DEF p, t

LEMMA WideTyped ==
  /\ Bytes \in Nat \ {0} /\ Wide \in Nat \ {0} /\ 2 * (Wide \div 2) = Wide
  /\ Wide >= Bytes /\ Byte = 0..Bytes - 1 /\ 2 * (Bytes \div 2) = Bytes
  /\ Bytes > 3
<1> DEFINE half == Bytes \div 2
<1>1. Bytes \in Nat /\ Bytes > 3 /\ half \in Int /\ 2 * half = Bytes
  BY WireAssumption
<1> HIDE DEF half
<1>2. Wide \in Nat /\ Wide >= Bytes
  BY <1>1 DEF Wide
<1>3. half * Bytes \in Int /\ Wide = 2 * (half * Bytes) + 0
  BY <1>1 DEF Wide
<1>4. Wide \div 2 = half * Bytes
  BY <1>2, <1>3, DividesOnce
<1>5. QED
  BY <1>1, <1>2, <1>3, <1>4 DEF Byte, half

LEMMA Modulus ==
  ASSUME NEW b \in Nat, b > 0, NEW n \in Int, n >= -b, n < b
  PROVE  n % b = IF n >= 0 THEN n ELSE n + b
<1>1. CASE n >= 0
  <2>1. n = b * 0 + n /\ n \in 0..b - 1
    BY <1>1
  <2>2. QED
    BY <2>1, <1>1, DividesOnce
<1>2. CASE ~ n >= 0
  <2>1. n = b * (-1) + (n + b) /\ n + b \in 0..b - 1
    BY <1>2
  <2>2. QED
    BY <2>1, <1>2, DividesOnce
<1>3. QED
  BY <1>1, <1>2

\* The two bytes of a number: what they say, and which they are.
LEMMA TwoBytes ==
  ASSUME NEW n \in Int
  PROVE  /\ Put16(n) \in Seq(Byte) /\ Len(Put16(n)) = 2
         /\ Put16(n)[1] \in Byte /\ Put16(n)[2] \in Byte
         /\ Put16(n)[1] + Put16(n)[2] * Bytes = n % Wide
<1> DEFINE k == n \div Bytes
           r == n % Bytes
           j == k \div Bytes
           t == k % Bytes
<1>1. k \in Int /\ r \in 0..Bytes - 1 /\ n = Bytes * k + r
  BY Divides, WideTyped
<1>2. j \in Int /\ t \in 0..Bytes - 1 /\ k = Bytes * j + t
  BY <1>1, Divides, WideTyped
<1>3. Put16(n) = <<r, t>>
  BY DEF Put16
<1> HIDE DEF k, r, j, t
<1>4. n = Wide * j + (Bytes * t + r) /\ Bytes * t + r \in Int
  BY <1>1, <1>2, WideTyped DEF Wide
<1>5. t * Bytes = Bytes * t /\ Bytes * t >= 0 /\ Bytes * t + r < Wide
  <2>1. Bytes * (Bytes - 1 - t) >= 0
    BY <1>2, WideTyped
  <2>2. Bytes * (Bytes - 1 - t) = Wide - Bytes - Bytes * t
    BY <1>2, WideTyped DEF Wide
  <2>3. Bytes * t \in Int /\ t * Bytes = Bytes * t /\ Bytes * t >= 0
    BY <1>2, WideTyped
  <2>4. QED
    BY <2>1, <2>2, <2>3, <1>1, WideTyped
<1>6. PICK m \in Int : m = Bytes * t + r
  BY <1>4
<1>7. n % Wide = m
  <2>1. m \in 0..Wide - 1
    <3>1. m >= 0
      BY <1>1, <1>2, <1>5, <1>6, WideTyped
    <3>2. m < Wide
      BY <1>5, <1>6
    <3>3. QED
      BY <3>1, <3>2, <1>6, WideTyped
  <2>2. n = Wide * j + m
    BY <1>4, <1>6
  <2>3. Wide \in Nat /\ Wide > 0 /\ j \in Int
    BY <1>2, WideTyped
  <2>4. QED
    BY <2>1, <2>2, <2>3, DividesOnce
<1>8. r \in Byte /\ t \in Byte
  BY <1>1, <1>2, WideTyped
<1>9. QED
  <2>1. r + t * Bytes = n % Wide
    BY <1>1, <1>2, <1>5, <1>6, <1>7, WideTyped
  <2>2. Put16(n) \in Seq(Byte) /\ Len(Put16(n)) = 2
    BY <1>3, <1>8
  <2>3. Put16(n)[1] = r /\ Put16(n)[2] = t
    BY <1>3
  <2>4. QED
    BY <2>1, <2>2, <2>3, <1>8

LEMMA TwoBytesAre ==
  ASSUME NEW a \in Byte, NEW b \in Byte, NEW y \in Int
  PROVE  Put16(a + b * Bytes + y * Wide) = <<a, b>>
<1> DEFINE n == a + b * Bytes + y * Wide
           k == b + y * Bytes
<1>1. a \in 0..Bytes - 1 /\ b \in 0..Bytes - 1
  BY WideTyped
<1>2. k \in Int /\ n \in Int /\ n = Bytes * k + a
  BY <1>1, WideTyped DEF Wide
<1>3. k = Bytes * y + b
  BY <1>1, WideTyped
<1> HIDE DEF n, k
<1>4. n \div Bytes = k /\ n % Bytes = a
  BY <1>1, <1>2, WideTyped, DividesOnce
<1>5. k % Bytes = b
  BY <1>1, <1>2, <1>3, WideTyped, DividesOnce
<1>6. Put16(n) = <<a, b>>
  BY <1>4, <1>5 DEF Put16
<1>7. QED
  BY <1>6 DEF n

\* What the first half of a byte's values says of a number under two's
\* complement, there and back.
LEMMA SignedBack ==
  ASSUME NEW v \in Nat, v > 0, 2 * (v \div 2) = v, NEW n \in 0..v - 1
  PROVE  /\ Signed(n, v) \in Integer(v)
         /\ Signed(n, v) = n \/ Signed(n, v) = n - v
         /\ Signed(n, v) % v = n
<1> DEFINE h == v \div 2
<1>1. h \in Int /\ 2 * h = v
  OBVIOUS
<1> HIDE DEF h
<1>2. Integer(v) = -h..h - 1
  BY DEF Integer, h
<1>3. Signed(n, v) \in Integer(v) /\ (Signed(n, v) = n \/ Signed(n, v) = n - v)
  BY <1>1, <1>2 DEF Signed
<1>4. QED
  BY <1>1, <1>2, <1>3, Modulus

LEMMA SignedForth ==
  ASSUME NEW v \in Nat, v > 0, 2 * (v \div 2) = v, NEW n \in Integer(v)
  PROVE  n \in Int /\ n % v \in 0..v - 1 /\ Signed(n % v, v) = n
<1> DEFINE h == v \div 2
<1>1. h \in Int /\ 2 * h = v
  OBVIOUS
<1> HIDE DEF h
<1>2. n \in -h..h - 1
  BY DEF Integer, h
<1>3. n % v = IF n >= 0 THEN n ELSE n + v
  BY <1>1, <1>2, Modulus
<1>4. QED
  BY <1>1, <1>2, <1>3 DEF Signed

LEMMA TwoAndTwo ==
  ASSUME NEW S, NEW a \in S, NEW b \in S, NEW c \in S, NEW d \in S
  PROVE  <<a, b>> \o <<c, d>> = <<a, b, c, d>>
<1> DEFINE s == <<a, b>>
           t == <<c, d>>
           u == <<a, b, c, d>>
<1>1. s \in Seq(S) /\ t \in Seq(S) /\ u \in Seq(S)
  OBVIOUS
<1>2. Len(s) = 2 /\ Len(t) = 2 /\ Len(u) = 4
  OBVIOUS
<1>3. /\ s[1] = a /\ s[2] = b /\ t[1] = c /\ t[2] = d
      /\ u[1] = a /\ u[2] = b /\ u[3] = c /\ u[4] = d
  OBVIOUS
<1> HIDE DEF s, t, u
<1>4. /\ s \o t \in Seq(S) /\ Len(s \o t) = 4
      /\ \A i \in 1..4 : (s \o t)[i] = IF i <= 2 THEN s[i] ELSE t[i - 2]
  <2>1. /\ s \o t \in Seq(S) /\ Len(s \o t) = Len(s) + Len(t)
        /\ \A i \in 1..Len(s) + Len(t) :
             (s \o t)[i] = IF i <= Len(s) THEN s[i] ELSE t[i - Len(s)]
    BY <1>1, ConcatProperties
  <2>2. QED
    BY <2>1, <1>2
<1>5. \A i \in 1..4 : (s \o t)[i] = u[i]
  BY <1>3, <1>4
<1>6. s \o t = u
  BY <1>1, <1>2, <1>4, <1>5, SeqEqual
<1>7. QED
  BY <1>6 DEF s, t, u

\* Four bytes.
LEMMA FourBytes ==
  ASSUME NEW n \in 0..Wide * Wide - 1
  PROVE  LET p == Put32(n) IN
         /\ p \in Seq(Byte) /\ Len(p) = 4
         /\ (p[1] + p[2] * Bytes) + (p[3] + p[4] * Bytes) * Wide = n
<1> DEFINE low == Put16(n)
           high == Put16(n \div Wide)
           x == n % Wide
           y == n \div Wide
<1>1. n \in Int /\ n >= 0 /\ n < Wide * Wide /\ Wide * Wide \in Int
  BY WideTyped
<1>2. y \in Int /\ x \in 0..Wide - 1 /\ n = Wide * y + x
  BY <1>1, WideTyped, Divides
<1>3. /\ low \in Seq(Byte) /\ Len(low) = 2
      /\ low[1] + low[2] * Bytes = x
  BY <1>1, TwoBytes
<1>4. /\ high \in Seq(Byte) /\ Len(high) = 2
      /\ high[1] + high[2] * Bytes = y % Wide
  BY <1>2, TwoBytes
<1>5. Put32(n) = low \o high
  BY DEF Put32
<1> HIDE DEF low, high, x, y
<1>6. y >= 0 /\ y < Wide
  <2>1. ~ y < 0
    <3> SUFFICES ASSUME y < 0 PROVE FALSE
      OBVIOUS
    <3>1. Wide * 0 \in Int /\ Wide * y \in Int /\ Wide * 0 >= Wide * y + Wide
      BY <1>2, WideTyped, Monotone
    <3>2. QED
      BY <3>1, <1>1, <1>2, WideTyped
  <2>2. ~ y >= Wide
    <3> SUFFICES ASSUME y >= Wide PROVE FALSE
      OBVIOUS
    <3>1. Wide * y \in Int /\ Wide * y >= Wide * Wide
      BY <1>2, WideTyped
    <3>2. QED
      BY <3>1, <1>1, <1>2, WideTyped
  <2>3. QED
    BY <2>1, <2>2, <1>2, WideTyped
<1>7. y % Wide = y
  BY <1>2, <1>6, WideTyped, Modulus
<1>8. /\ low \o high \in Seq(Byte) /\ Len(low \o high) = 4
      /\ (low \o high)[1] = low[1] /\ (low \o high)[2] = low[2]
      /\ (low \o high)[3] = high[1] /\ (low \o high)[4] = high[2]
  <2>1. /\ low \o high \in Seq(Byte) /\ Len(low \o high) = Len(low) + Len(high)
        /\ \A i \in 1..Len(low) + Len(high) :
             (low \o high)[i] = IF i <= Len(low) THEN low[i] ELSE high[i - Len(low)]
    <3>1. low \in Seq(Byte) /\ high \in Seq(Byte)
      BY <1>3, <1>4
    <3>2. QED
      BY <3>1, ConcatProperties
  <2>2. Len(low) = 2 /\ Len(high) = 2
    BY <1>3, <1>4
  <2>3. QED
    BY <2>1, <2>2
<1>9. x + y * Wide = n
  BY <1>2, WideTyped
<1>10. QED
  BY <1>3, <1>4, <1>5, <1>7, <1>8, <1>9

LEMMA FourBytesAre ==
  ASSUME NEW a \in Byte, NEW b \in Byte, NEW c \in Byte, NEW d \in Byte
  PROVE  Put32((a + b * Bytes) + (c + d * Bytes) * Wide) = <<a, b, c, d>>
<1> DEFINE x == a + b * Bytes
           y == c + d * Bytes
           n == x + y * Wide
<1>1. /\ a \in Int /\ b \in Int /\ c \in Int /\ d \in Int
      /\ x \in Int /\ y \in Int /\ n \in Int /\ y + 0 * Wide = y
  BY WideTyped
<1>2. Put16(n) = <<a, b>>
  BY <1>1, TwoBytesAre
<1>3. Put16(y) = <<c, d>>
  BY <1>1, TwoBytesAre
<1>4. x \in 0..Wide - 1
  <2>1. Bytes * b \in Int /\ b * Bytes = Bytes * b /\ Bytes * b >= 0
    BY WideTyped
  <2>2. Bytes * (Bytes - 1 - b) >= 0
    BY WideTyped
  <2>3. Bytes * (Bytes - 1 - b) = Wide - Bytes - Bytes * b
    BY WideTyped DEF Wide
  <2>4. QED
    BY <2>1, <2>2, <2>3, WideTyped
<1>5. n = Wide * y + x
  BY <1>1, WideTyped
<1> HIDE DEF x, y, n
<1>6. n \div Wide = y
  BY <1>1, <1>4, <1>5, WideTyped, DividesOnce
<1>7. Put32(n) = <<a, b>> \o <<c, d>>
  BY <1>2, <1>3, <1>6 DEF Put32
<1>8. <<a, b>> \o <<c, d>> = <<a, b, c, d>>
  BY TwoAndTwo
<1>9. QED
  BY <1>7, <1>8 DEF n, x, y

\* Where the bytes of two and of three parts in a row are.
LEMMA Joined ==
  ASSUME NEW S, NEW s \in Seq(S), NEW t \in Seq(S)
  PROVE  /\ s \o t \in Seq(S) /\ Len(s \o t) = Len(s) + Len(t)
         /\ Len(s) \in Nat /\ Len(t) \in Nat
         /\ \A i \in 1..Len(s) : (s \o t)[i] = s[i]
         /\ \A i \in 1..Len(t) : (s \o t)[Len(s) + i] = t[i]
<1>1. /\ s \o t \in Seq(S) /\ Len(s \o t) = Len(s) + Len(t)
      /\ \A i \in 1..Len(s) + Len(t) :
           (s \o t)[i] = IF i <= Len(s) THEN s[i] ELSE t[i - Len(s)]
  BY ConcatProperties
<1>2. Len(s) \in Nat /\ Len(t) \in Nat
  OBVIOUS
<1>3. ASSUME NEW i \in 1..Len(s) PROVE (s \o t)[i] = s[i]
  BY <1>1, <1>2
<1>4. ASSUME NEW i \in 1..Len(t) PROVE (s \o t)[Len(s) + i] = t[i]
  <2>1. Len(s) + i \in 1..Len(s) + Len(t) /\ ~ Len(s) + i <= Len(s) /\ Len(s) + i - Len(s) = i
    BY <1>2
  <2>2. QED
    BY <1>1, <2>1
<1>5. QED
  BY <1>1, <1>2, <1>3, <1>4

LEMMA JoinedThree ==
  ASSUME NEW S, NEW s \in Seq(S), NEW t \in Seq(S), NEW u \in Seq(S)
  PROVE  /\ s \o t \o u \in Seq(S) /\ Len(s \o t \o u) = Len(s) + Len(t) + Len(u)
         /\ \A i \in 1..Len(s) : (s \o t \o u)[i] = s[i]
         /\ \A i \in 1..Len(t) : (s \o t \o u)[Len(s) + i] = t[i]
         /\ \A i \in 1..Len(u) : (s \o t \o u)[Len(s) + Len(t) + i] = u[i]
<1>1. PICK m \in Seq(S) : m = s \o t
  BY Joined
<1>2. /\ Len(m) = Len(s) + Len(t) /\ Len(s) \in Nat /\ Len(t) \in Nat
      /\ \A i \in 1..Len(s) : m[i] = s[i]
      /\ \A i \in 1..Len(t) : m[Len(s) + i] = t[i]
  BY <1>1, Joined
<1>3. /\ m \o u \in Seq(S) /\ Len(m \o u) = Len(m) + Len(u) /\ Len(u) \in Nat
      /\ \A i \in 1..Len(m) : (m \o u)[i] = m[i]
      /\ \A i \in 1..Len(u) : (m \o u)[Len(m) + i] = u[i]
  BY Joined
<1>4. ASSUME NEW i \in 1..Len(s) PROVE (m \o u)[i] = s[i]
  BY <1>2, <1>3
<1>5. ASSUME NEW i \in 1..Len(t) PROVE (m \o u)[Len(s) + i] = t[i]
  <2>1. Len(s) + i \in 1..Len(m)
    BY <1>2
  <2>2. QED
    BY <1>2, <1>3, <2>1
<1>6. QED
  BY <1>1, <1>2, <1>3, <1>4, <1>5

-----------------------------------------------------------------------------
\* Commands.

LEMMA ByteSigns ==
  /\ \A n \in Byte : /\ Signed(n, Bytes) \in Integer(Bytes)
                      /\ Signed(n, Bytes) % Bytes = n
  /\ \A n \in Integer(Bytes) : n \in Int /\ Signed(n % Bytes, Bytes) = n
<1>1. PICK v \in Nat : v = Bytes /\ v > 0 /\ 2 * (v \div 2) = v
  BY WideTyped
<1>2. \A n \in 0..v - 1 : Signed(n, v) \in Integer(v) /\ Signed(n, v) % v = n
  BY <1>1, SignedBack
<1>3. \A n \in Integer(v) : n \in Int /\ Signed(n % v, v) = n
  BY <1>1, SignedForth
<1>4. QED
  BY <1>1, <1>2, <1>3 DEF Byte

LEMMA WideSigns ==
  /\ \A n \in 0..Wide - 1 :
       /\ Signed(n, Wide) \in Integer(Wide)
       /\ Signed(n, Wide) = n \/ Signed(n, Wide) = n - Wide
  /\ \A n \in Integer(Wide) : n \in Int /\ Signed(n % Wide, Wide) = n
<1>1. PICK v \in Nat : v = Wide /\ v > 0 /\ 2 * (v \div 2) = v
  BY WideTyped
<1>2. \A n \in 0..v - 1 :
        /\ Signed(n, v) \in Integer(v)
        /\ Signed(n, v) = n \/ Signed(n, v) = n - v
  BY <1>1, SignedBack
<1>3. \A n \in Integer(v) : n \in Int /\ Signed(n % v, v) = n
  BY <1>1, SignedForth
<1>4. QED
  BY <1>1, <1>2, <1>3

LEMMA CommandParts ==
  ASSUME NEW c \in AnyCommand, IsCommand(c)
  PROVE  LET s == CommandBytes(c) IN
         /\ s \in Seq(Byte) /\ Len(s) = 5
         /\ s[1] = c.forwardMove % Bytes /\ s[2] = c.sideMove % Bytes
         /\ s[3] = Put16(c.angleTurn)[1] /\ s[4] = Put16(c.angleTurn)[2]
         /\ s[5] = c.buttons
<1> DEFINE a == <<c.forwardMove % Bytes, c.sideMove % Bytes>>
           b == Put16(c.angleTurn)
           d == <<c.buttons>>
<1>1. /\ c.forwardMove \in Int /\ c.sideMove \in Int /\ c.angleTurn \in Int
      /\ c.buttons \in Byte
  BY DEF AnyCommand, IsCommand
<1>2. a \in Seq(Byte) /\ Len(a) = 2
  <2>1. c.forwardMove % Bytes \in Byte /\ c.sideMove % Bytes \in Byte
    BY <1>1, WideTyped, Divides
  <2>2. QED
    BY <2>1
<1>3. b \in Seq(Byte) /\ Len(b) = 2
  BY <1>1, TwoBytes
<1>4. d \in Seq(Byte) /\ Len(d) = 1
  BY <1>1
<1>5. CommandBytes(c) = a \o b \o d
  BY DEF CommandBytes
<1>6. a[1] = c.forwardMove % Bytes /\ a[2] = c.sideMove % Bytes /\ d[1] = c.buttons
  OBVIOUS
<1> HIDE DEF a, b, d
<1>7. /\ a \o b \o d \in Seq(Byte) /\ Len(a \o b \o d) = Len(a) + Len(b) + Len(d)
      /\ \A i \in 1..Len(a) : (a \o b \o d)[i] = a[i]
      /\ \A i \in 1..Len(b) : (a \o b \o d)[Len(a) + i] = b[i]
      /\ \A i \in 1..Len(d) : (a \o b \o d)[Len(a) + Len(b) + i] = d[i]
  <2>1. a \in Seq(Byte) /\ b \in Seq(Byte) /\ d \in Seq(Byte)
    BY <1>2, <1>3, <1>4
  <2>2. QED
    BY <2>1, JoinedThree
<1>8. PICK s \in Seq(Byte) : s = CommandBytes(c)
  BY <1>5, <1>7
<1>9. /\ Len(s) = 5
      /\ \A i \in 1..2 : s[i] = a[i]
      /\ \A i \in 1..2 : s[2 + i] = b[i]
      /\ \A i \in 1..1 : s[2 + 2 + i] = d[i]
  BY <1>2, <1>3, <1>4, <1>5, <1>7, <1>8
<1>10. s[1] = a[1] /\ s[2] = a[2] /\ s[3] = b[1] /\ s[4] = b[2] /\ s[5] = d[1]
  BY <1>9
<1>11. QED
  BY <1>6, <1>8, <1>9, <1>10 DEF b

\* A command is read as it was written, and written as it was read.
LEMMA CommandBack ==
  ASSUME NEW c \in AnyCommand, IsCommand(c), NEW s \in Seq(Byte), NEW at \in Nat,
         \A k \in 1..5 : s[at + k] = CommandBytes(c)[k]
  PROVE  ReadCommand(s, at) = c
<1> DEFINE e == CommandBytes(c)
           n == c.angleTurn
<1>1. /\ e[1] = c.forwardMove % Bytes /\ e[2] = c.sideMove % Bytes
      /\ e[3] = Put16(n)[1] /\ e[4] = Put16(n)[2] /\ e[5] = c.buttons
  BY CommandParts
<1>2. s[at + 1] = e[1] /\ s[at + 2] = e[2] /\ s[at + 3] = e[3] /\ s[at + 4] = e[4]
      /\ s[at + 5] = e[5]
  OBVIOUS
<1>3. /\ c.forwardMove \in Integer(Bytes) /\ c.sideMove \in Integer(Bytes)
      /\ n \in Integer(Wide) /\ n \in Int
  BY DEF AnyCommand, IsCommand
<1>4. /\ Signed(c.forwardMove % Bytes, Bytes) = c.forwardMove
      /\ Signed(c.sideMove % Bytes, Bytes) = c.sideMove
      /\ Signed(n % Wide, Wide) = n
  BY <1>3, ByteSigns, WideSigns
<1>5. Little16(s, at + 2) = n % Wide
  <2>1. at + 2 + 1 = at + 3 /\ at + 2 + 2 = at + 4
    OBVIOUS
  <2>2. Put16(n)[1] + Put16(n)[2] * Bytes = n % Wide
    BY <1>3, TwoBytes
  <2>3. Little16(s, at + 2) = s[at + 3] + s[at + 4] * Bytes
    BY <2>1 DEF Little16
  <2>4. QED
    BY <1>1, <1>2, <2>2, <2>3
<1>6. ReadCommand(s, at) =
        [forwardMove |-> c.forwardMove, sideMove |-> c.sideMove, angleTurn |-> n,
         buttons |-> c.buttons]
  BY <1>1, <1>2, <1>4, <1>5 DEF ReadCommand
<1>7. c = [forwardMove |-> c.forwardMove, sideMove |-> c.sideMove, angleTurn |-> n,
           buttons |-> c.buttons]
  BY DEF AnyCommand
<1>8. QED
  BY <1>6, <1>7

LEMMA CommandForth ==
  ASSUME NEW s \in Seq(Byte), NEW at \in Nat, at + 5 <= Len(s)
  PROVE  /\ ReadCommand(s, at) \in AnyCommand /\ IsCommand(ReadCommand(s, at))
         /\ \A k \in 1..5 : CommandBytes(ReadCommand(s, at))[k] = s[at + k]
<1> DEFINE c == ReadCommand(s, at)
           n == s[at + 3] + s[at + 4] * Bytes
<1>1. /\ s[at + 1] \in Byte /\ s[at + 2] \in Byte /\ s[at + 3] \in Byte
      /\ s[at + 4] \in Byte /\ s[at + 5] \in Byte
  BY ElementOfSeq
<1>2. Little16(s, at + 2) = n
  <2>1. at + 2 + 1 = at + 3 /\ at + 2 + 2 = at + 4
    OBVIOUS
  <2>2. QED
    BY <2>1 DEF Little16
<1>3. n \in 0..Wide - 1
  <2>1. PICK a \in Byte, b \in Byte : a = s[at + 3] /\ b = s[at + 4]
    BY <1>1
  <2>2. Bytes * b \in Int /\ b * Bytes = Bytes * b /\ Bytes * b >= 0
    BY WideTyped
  <2>3. Bytes * (Bytes - 1 - b) >= 0
    BY WideTyped
  <2>4. Bytes * (Bytes - 1 - b) = Wide - Bytes - Bytes * b
    BY WideTyped DEF Wide
  <2>5. a + b * Bytes \in 0..Wide - 1
    BY <2>2, <2>3, <2>4, WideTyped
  <2>6. QED
    BY <2>1, <2>5
<1>4. c = [forwardMove |-> Signed(s[at + 1], Bytes), sideMove |-> Signed(s[at + 2], Bytes),
           angleTurn |-> Signed(n, Wide), buttons |-> s[at + 5]]
  BY <1>2 DEF ReadCommand
<1>5. /\ c.forwardMove = Signed(s[at + 1], Bytes) /\ c.sideMove = Signed(s[at + 2], Bytes)
      /\ c.angleTurn = Signed(n, Wide) /\ c.buttons = s[at + 5]
  BY <1>4
<1>6. /\ c.forwardMove \in Integer(Bytes) /\ c.forwardMove % Bytes = s[at + 1]
      /\ c.sideMove \in Integer(Bytes) /\ c.sideMove % Bytes = s[at + 2]
  BY <1>1, <1>5, ByteSigns
<1>7. /\ c.angleTurn \in Integer(Wide) /\ (c.angleTurn = n \/ c.angleTurn = n - Wide)
  BY <1>3, <1>5, WideSigns
<1>8. /\ \A m \in Integer(Bytes) : m \in Int
      /\ \A m \in Integer(Wide) : m \in Int
  BY ByteSigns, WideSigns
<1>9. Byte \subseteq Int
  BY WideTyped
<1>10. c \in AnyCommand
  BY <1>1, <1>4, <1>5, <1>6, <1>7, <1>8, <1>9 DEF AnyCommand
<1>11. IsCommand(c)
  BY <1>1, <1>5, <1>6, <1>7 DEF IsCommand
<1>12. Put16(c.angleTurn) = <<s[at + 3], s[at + 4]>>
  <2>1. PICK a \in Byte, b \in Byte : a = s[at + 3] /\ b = s[at + 4]
    BY <1>1
  <2>2. n = a + b * Bytes + 0 * Wide /\ n - Wide = a + b * Bytes + (-1) * Wide
    <3>1. n = a + b * Bytes
      BY <2>1
    <3>2. a \in Int /\ b \in Int /\ Bytes \in Int /\ Wide \in Int
      BY WideTyped
    <3> HIDE DEF n
    <3>3. QED
      BY <3>1, <3>2
  <2>3. /\ Put16(a + b * Bytes + 0 * Wide) = <<a, b>>
        /\ Put16(a + b * Bytes + (-1) * Wide) = <<a, b>>
    BY TwoBytesAre
  <2>4. QED
    BY <1>7, <2>1, <2>2, <2>3
<1>13. PICK e \in Seq(Byte) : e = CommandBytes(c)
  BY <1>10, <1>11, CommandParts
<1>14. /\ e[1] = s[at + 1] /\ e[2] = s[at + 2] /\ e[5] = s[at + 5]
       /\ e[3] = s[at + 3] /\ e[4] = s[at + 4]
  BY <1>5, <1>6, <1>10, <1>11, <1>12, <1>13, CommandParts
<1>15. \A k \in 1..5 : e[k] = s[at + k]
  BY <1>14
<1>16. QED
  BY <1>10, <1>11, <1>13, <1>15

\* What encodeDoomReplay accepts.
Encodable(r) ==
  /\ Len(r.ticcmds) \in 1..MaxTics
  /\ \A i \in DOMAIN r.ticcmds : IsCommand(r.ticcmds[i])

LEMMA CommandsParts ==
  ASSUME NEW t \in Seq(AnyCommand), Len(t) \in Nat \ {0}, \A i \in DOMAIN t : IsCommand(t[i])
  PROVE  LET s == [i \in 1..Len(t) * TicBytes |->
                     CommandBytes(t[((i - 1) \div TicBytes) + 1])[((i - 1) % TicBytes) + 1]]
         IN /\ s \in Seq(Byte) /\ Len(s) = Len(t) * 5
            /\ \A j \in 1..Len(t), k \in 1..5 : s[(j - 1) * 5 + k] = CommandBytes(t[j])[k]
<1> DEFINE n == Len(t) * 5
           At(i) == CommandBytes(t[((i - 1) \div 5) + 1])[((i - 1) % 5) + 1]
           s == [i \in 1..n |-> At(i)]
<1>1. n \in Nat /\ DOMAIN t = 1..Len(t) /\ Len(t) \in Nat
  OBVIOUS
<1>2. \A j \in 1..Len(t) : CommandBytes(t[j]) \in Seq(Byte) /\ Len(CommandBytes(t[j])) = 5
  <2>1. \A j \in 1..Len(t) : t[j] \in AnyCommand /\ IsCommand(t[j])
    BY <1>1, ElementOfSeq
  <2>2. QED
    BY <2>1, CommandParts
<1>3. ASSUME NEW i \in 1..n PROVE At(i) \in Byte
  <2>1. ((i - 1) \div 5) + 1 \in 1..Len(t) /\ ((i - 1) % 5) + 1 \in 1..5
    OBVIOUS
  <2>2. QED
    BY <1>2, <2>1, ElementOfSeq
<1>4. ASSUME NEW j \in 1..Len(t), NEW k \in 1..5
      PROVE  s[(j - 1) * 5 + k] = CommandBytes(t[j])[k]
  <2>1. /\ (j - 1) * 5 + k \in 1..n
        /\ (((j - 1) * 5 + k - 1) \div 5) + 1 = j /\ (((j - 1) * 5 + k - 1) % 5) + 1 = k
    OBVIOUS
  <2>2. QED
    BY <2>1
<1> HIDE DEF At
<1>5. s \in Seq(Byte) /\ Len(s) = n
  BY <1>1, <1>3
<1>6. QED
  BY <1>4, <1>5 DEF TicBytes, At

\* The bytes of a replay that is accepted.
LEMMA ReplayParts ==
  ASSUME NEW r \in Replay, Encodable(r)
  PROVE  LET e == EncodeReplay(r)
             n == Len(r.ticcmds)
         IN
         /\ e \in Seq(Byte) /\ Len(e) = ReplayHeader + n * 5
         /\ e[1] = ReplayMagic /\ e[2] = ReplayVersion
         /\ \A i \in 1..HashBytes : e[2 + i] = r.rulesetHash[i]
         /\ \A i \in 1..4 : e[2 + HashBytes + i] = Put32(n)[i]
         /\ \A j \in 1..n, k \in 1..5 :
              e[ReplayHeader + (j - 1) * 5 + k] = CommandBytes(r.ticcmds[j])[k]
<1> DEFINE t == r.ticcmds
           n == Len(t)
           a == <<ReplayMagic, ReplayVersion>>
           h == r.rulesetHash
           c == Put32(n)
           b == [i \in 1..Len(t) * TicBytes |->
                   CommandBytes(t[((i - 1) \div TicBytes) + 1])[((i - 1) % TicBytes) + 1]]
<1>1. /\ t \in Seq(AnyCommand) /\ h \in [1..HashBytes -> Byte]
      /\ n \in 1..MaxTics /\ n \in Nat \ {0} /\ HashBytes \in Nat
      /\ n \in 0..Wide * Wide - 1
  <2>1. r.ticcmds \in Seq(AnyCommand) /\ r.rulesetHash \in [1..HashBytes -> Byte]
    BY DEF Replay, Hash
  <2>2. MaxTics \in 0..Wide * Wide - 1 /\ HashBytes \in Nat
    BY WireAssumption
  <2>3. Wide * Wide \in Int
    BY WideTyped
  <2>4. n \in 1..MaxTics
    BY DEF Encodable
  <2>5. QED
    BY <2>1, <2>2, <2>3, <2>4
<1>2. EncodeReplay(r) = a \o h \o c \o b
  BY DEF EncodeReplay, Encodable
<1>3. a \in Seq(Byte) /\ Len(a) = 2 /\ a[1] = ReplayMagic /\ a[2] = ReplayVersion
  <2>1. ReplayMagic \in Byte /\ ReplayVersion \in Byte
    BY WideTyped DEF ReplayMagic, ReplayVersion
  <2>2. QED
    BY <2>1
<1>4. h \in Seq(Byte) /\ Len(h) = HashBytes
  BY <1>1
<1>5. c \in Seq(Byte) /\ Len(c) = 4
  BY <1>1, FourBytes
<1>6. /\ b \in Seq(Byte) /\ Len(b) = n * 5
      /\ \A j \in 1..n, k \in 1..5 : b[(j - 1) * 5 + k] = CommandBytes(t[j])[k]
  <2>1. \A i \in DOMAIN t : IsCommand(t[i])
    BY DEF Encodable
  <2>2. QED
    BY <1>1, <2>1, CommandsParts
<1> HIDE DEF a, c, b, t, h
<1>7. PICK m \in Seq(Byte) :
        /\ m = a \o h \o c /\ Len(m) = ReplayHeader
        /\ m[1] = a[1] /\ m[2] = a[2]
        /\ \A i \in 1..HashBytes : m[2 + i] = h[i]
        /\ \A i \in 1..4 : m[2 + HashBytes + i] = c[i]
  <2>1. a \in Seq(Byte) /\ h \in Seq(Byte) /\ c \in Seq(Byte)
    BY <1>3, <1>4, <1>5
  <2>2. /\ a \o h \o c \in Seq(Byte) /\ Len(a \o h \o c) = Len(a) + Len(h) + Len(c)
        /\ \A i \in 1..Len(a) : (a \o h \o c)[i] = a[i]
        /\ \A i \in 1..Len(h) : (a \o h \o c)[Len(a) + i] = h[i]
        /\ \A i \in 1..Len(c) : (a \o h \o c)[Len(a) + Len(h) + i] = c[i]
    BY <2>1, JoinedThree
  <2>3. PICK m \in Seq(Byte) : m = a \o h \o c
    BY <2>2
  <2>4. /\ Len(m) = 2 + HashBytes + 4
        /\ \A i \in 1..2 : m[i] = a[i]
        /\ \A i \in 1..HashBytes : m[2 + i] = h[i]
        /\ \A i \in 1..4 : m[2 + HashBytes + i] = c[i]
    BY <1>3, <1>4, <1>5, <2>2, <2>3
  <2>5. m[1] = a[1] /\ m[2] = a[2] /\ Len(m) = ReplayHeader
    BY <2>4 DEF ReplayHeader
  <2>6. QED
    BY <2>3, <2>4, <2>5
<1>8. /\ m \o b \in Seq(Byte) /\ Len(m \o b) = Len(m) + Len(b)
      /\ \A i \in 1..Len(m) : (m \o b)[i] = m[i]
      /\ \A i \in 1..Len(b) : (m \o b)[Len(m) + i] = b[i]
  <2>1. b \in Seq(Byte)
    BY <1>6
  <2>2. QED
    BY <2>1, Joined
<1>9. PICK e \in Seq(Byte) : e = EncodeReplay(r) /\ e = m \o b
  BY <1>2, <1>7, <1>8
<1>10. /\ Len(e) = ReplayHeader + n * 5 /\ ReplayHeader = 2 + HashBytes + 4
       /\ \A i \in 1..ReplayHeader : e[i] = m[i]
       /\ \A i \in 1..n * 5 : e[ReplayHeader + i] = b[i]
  BY <1>6, <1>7, <1>8, <1>9 DEF ReplayHeader
<1>11. e[1] = ReplayMagic /\ e[2] = ReplayVersion
  <2>1. 1 \in 1..ReplayHeader /\ 2 \in 1..ReplayHeader
    BY <1>1, <1>10
  <2>2. QED
    BY <1>3, <1>7, <1>10, <2>1
<1>12. ASSUME NEW i \in 1..HashBytes PROVE e[2 + i] = h[i]
  <2>1. 2 + i \in 1..ReplayHeader
    BY <1>1, <1>10
  <2>2. QED
    BY <1>7, <1>10, <2>1
<1>13. ASSUME NEW i \in 1..4 PROVE e[2 + HashBytes + i] = c[i]
  <2>1. 2 + HashBytes + i \in 1..ReplayHeader
    BY <1>1, <1>10
  <2>2. QED
    BY <1>7, <1>10, <2>1
<1>14. ASSUME NEW j \in 1..n, NEW k \in 1..5
       PROVE  e[ReplayHeader + (j - 1) * 5 + k] = CommandBytes(t[j])[k]
  <2>1. (j - 1) * 5 + k \in 1..n * 5
    BY <1>1
  <2>2. ReplayHeader + (j - 1) * 5 + k = ReplayHeader + ((j - 1) * 5 + k)
    BY <1>1, <1>10
  <2>3. QED
    BY <1>6, <1>10, <2>1, <2>2
<1>15. /\ e \in Seq(Byte) /\ Len(e) = ReplayHeader + n * 5
       /\ \A i \in 1..HashBytes : e[2 + i] = h[i]
       /\ \A i \in 1..4 : e[2 + HashBytes + i] = c[i]
       /\ \A j \in 1..n, k \in 1..5 :
            e[ReplayHeader + (j - 1) * 5 + k] = CommandBytes(t[j])[k]
  <2>1. e \in Seq(Byte) /\ Len(e) = ReplayHeader + n * 5
    BY <1>10
  <2>2. QED
    BY <2>1, <1>12, <1>13, <1>14, Zenon
<1>16. QED
  BY <1>9, <1>11, <1>15, Zenon DEF c, t, h, n

\* A hash in its place, and what the others are.
LEMMA PartIs ==
  ASSUME NEW s \in Seq(Byte), NEW skip \in Nat, NEW size \in Nat, skip + size <= Len(s)
  PROVE  /\ Part(s, skip, size) \in Seq(Byte) /\ Len(Part(s, skip, size)) = size
         /\ Part(s, skip, size) \in [1..size -> Byte]
         /\ \A i \in 1..size : Part(s, skip, size)[i] = s[skip + i]
<1>1. \A i \in skip + 1..skip + size : s[i] \in Byte
  BY ElementOfSeq
<1>2. /\ SubSeq(s, skip + 1, skip + size) \in Seq(Byte)
      /\ Len(SubSeq(s, skip + 1, skip + size)) =
           IF skip + 1 <= skip + size THEN skip + size - (skip + 1) + 1 ELSE 0
      /\ \A i \in 1..skip + size - (skip + 1) + 1 :
           SubSeq(s, skip + 1, skip + size)[i] = s[skip + 1 + i - 1]
  BY <1>1, SubSeqProperties
<1>3. PICK p \in Seq(Byte) : p = Part(s, skip, size) /\ p = SubSeq(s, skip + 1, skip + size)
  BY <1>2 DEF Part
<1>4. Len(p) = size
  BY <1>2, <1>3
<1>5. p \in [1..size -> Byte]
  BY <1>4
<1>6. \A i \in 1..size : p[i] = s[skip + i]
  <2> TAKE i \in 1..size
  <2>1. i \in 1..skip + size - (skip + 1) + 1 /\ skip + 1 + i - 1 = skip + i
    OBVIOUS
  <2>2. QED
    BY <1>2, <1>3, <2>1
<1>7. QED
  BY <1>3, <1>4, <1>5, <1>6

\* What decodeDoomReplay accepts but for the hash, and what it then reads.
Announced(s) == Little32(s, 2 + HashBytes)
Acceptable(s) ==
  /\ Len(s) >= ReplayHeader /\ s[1] = ReplayMagic /\ s[2] = ReplayVersion
  /\ Announced(s) \in 1..MaxTics /\ Len(s) = ReplayHeader + Announced(s) * TicBytes
ReplayRead(s) ==
  [rulesetHash |-> Part(s, 2, HashBytes),
   ticcmds |-> [i \in 1..Announced(s) |-> ReadCommand(s, ReplayHeader + (i - 1) * TicBytes)]]

LEMMA Decoded ==
  ASSUME NEW s \in Seq(Byte), NEW expected
  PROVE  DecodeReplay(s, expected) =
           IF Acceptable(s) /\ Part(s, 2, HashBytes) \in expected THEN ReplayRead(s) ELSE Refused
<1>1. Len(s) \in Int /\ ReplayHeader \in Int
  BY WireAssumption DEF ReplayHeader
<1>2. Len(s) < ReplayHeader <=> ~ Len(s) >= ReplayHeader
  BY <1>1
<1>3. CASE Acceptable(s) /\ Part(s, 2, HashBytes) \in expected
  BY <1>2, <1>3 DEF DecodeReplay, Acceptable, ReplayRead, Announced, LengthFits
<1>4. CASE ~(Acceptable(s) /\ Part(s, 2, HashBytes) \in expected)
  BY <1>2, <1>4 DEF DecodeReplay, Acceptable, Announced, LengthFits
<1>5. QED
  BY <1>3, <1>4

LEMMA Offsets ==
  ASSUME NEW s, NEW at \in Nat
  PROVE  Little32(s, at) =
           (s[at + 1] + s[at + 2] * Bytes) + (s[at + 3] + s[at + 4] * Bytes) * Wide
<1>1. at + 2 + 1 = at + 3 /\ at + 2 + 2 = at + 4
  OBVIOUS
<1>2. QED
  BY <1>1 DEF Little32, Little16

LEMMA ReplayBack ==
  ASSUME NEW r \in Replay, Encodable(r)
  PROVE  LET e == EncodeReplay(r) IN
         /\ e \in Seq(Byte) /\ Acceptable(e)
         /\ Part(e, 2, HashBytes) = r.rulesetHash /\ ReplayRead(e) = r
<1> DEFINE n == Len(r.ticcmds)
           t == r.ticcmds
<1>1. PICK e \in Seq(Byte) :
        /\ e = EncodeReplay(r) /\ Len(e) = ReplayHeader + n * 5
        /\ e[1] = ReplayMagic /\ e[2] = ReplayVersion
        /\ \A i \in 1..HashBytes : e[2 + i] = r.rulesetHash[i]
        /\ \A i \in 1..4 : e[2 + HashBytes + i] = Put32(n)[i]
        /\ \A j \in 1..n, k \in 1..5 :
             e[ReplayHeader + (j - 1) * 5 + k] = CommandBytes(t[j])[k]
  BY ReplayParts
<1>2. /\ t \in Seq(AnyCommand) /\ r.rulesetHash \in [1..HashBytes -> Byte]
      /\ r = [rulesetHash |-> r.rulesetHash, ticcmds |-> t]
      /\ HashBytes \in Nat /\ ReplayHeader \in Nat /\ ReplayHeader = 2 + HashBytes + 4
      /\ n \in 1..MaxTics /\ n \in Nat /\ n \in 0..Wide * Wide - 1
  <2>1. /\ t \in Seq(AnyCommand) /\ r.rulesetHash \in [1..HashBytes -> Byte]
        /\ r = [rulesetHash |-> r.rulesetHash, ticcmds |-> t]
    BY DEF Replay, Hash
  <2>2. /\ MaxTics \in 0..Wide * Wide - 1 /\ HashBytes \in Nat
        /\ ReplayHeader \in Nat /\ ReplayHeader = 2 + HashBytes + 4
    BY WireAssumption DEF ReplayHeader
  <2>3. Wide * Wide \in Int
    BY WideTyped
  <2>4. n \in 1..MaxTics
    BY DEF Encodable
  <2>5. QED
    BY <2>1, <2>2, <2>3, <2>4
<1>3. Announced(e) = n
  <2>1. PICK at \in Nat : at = 2 + HashBytes
    BY <1>2
  <2> DEFINE Says(a, b, c, d) == (a + b * Bytes) + (c + d * Bytes) * Wide
  <2>2. Announced(e) = Says(e[at + 1], e[at + 2], e[at + 3], e[at + 4])
    BY <2>1, Offsets DEF Announced
  <2>3. \A i \in 1..4 : e[at + i] = Put32(n)[i]
    BY <1>1, <2>1
  <2>4. /\ e[at + 1] = Put32(n)[1] /\ e[at + 2] = Put32(n)[2]
        /\ e[at + 3] = Put32(n)[3] /\ e[at + 4] = Put32(n)[4]
    BY <2>3
  <2>5. Says(Put32(n)[1], Put32(n)[2], Put32(n)[3], Put32(n)[4]) = n
    BY <1>2, FourBytes
  <2> HIDE DEF Says
  <2>6. QED
    BY <2>2, <2>4, <2>5, Zenon
<1>4. Part(e, 2, HashBytes) = r.rulesetHash
  <2>1. 2 + HashBytes <= Len(e) /\ 2 \in Nat
    BY <1>1, <1>2
  <2>2. PICK h \in [1..HashBytes -> Byte] :
          h = Part(e, 2, HashBytes) /\ \A i \in 1..HashBytes : h[i] = e[2 + i]
    <3>1. HashBytes \in Nat
      BY <1>2
    <3>2. /\ Part(e, 2, HashBytes) \in [1..HashBytes -> Byte]
          /\ \A i \in 1..HashBytes : Part(e, 2, HashBytes)[i] = e[2 + i]
      BY <2>1, <3>1, PartIs
    <3>3. QED
      BY <3>2, Zenon
  <2>3. PICK g \in [1..HashBytes -> Byte] : g = r.rulesetHash
    BY <1>2
  <2>4. \A i \in 1..HashBytes : h[i] = g[i]
    BY <1>1, <2>2, <2>3
  <2>5. h \in Seq(Byte) /\ g \in Seq(Byte) /\ Len(h) = HashBytes /\ Len(g) = HashBytes
    <3>1. HashBytes \in Nat
      BY <1>2
    <3>2. h \in Seq(Byte) /\ Len(h) = HashBytes
      BY <3>1
    <3>3. g \in Seq(Byte) /\ Len(g) = HashBytes
      BY <3>1
    <3>4. QED
      BY <3>2, <3>3
  <2>6. h = g
    BY <2>4, <2>5, SeqEqual
  <2>7. QED
    BY <2>2, <2>3, <2>6
<1>5. Acceptable(e)
  BY <1>1, <1>2, <1>3 DEF Acceptable, TicBytes
<1>6. [i \in 1..n |-> ReadCommand(e, ReplayHeader + (i - 1) * 5)] = t
  <2>1. ASSUME NEW i \in 1..n PROVE ReadCommand(e, ReplayHeader + (i - 1) * 5) = t[i]
    <3>1. t[i] \in AnyCommand /\ IsCommand(t[i])
      BY <1>2, ElementOfSeq DEF Encodable
    <3>2. PICK at \in Nat : at = ReplayHeader + (i - 1) * 5
      BY <1>2
    <3>3. \A k \in 1..5 : e[at + k] = CommandBytes(t[i])[k]
      BY <1>1, <3>2
    <3>4. ReadCommand(e, at) = t[i]
      BY <3>1, <3>3, CommandBack
    <3>5. QED
      BY <3>2, <3>4
  <2>2. t = [i \in 1..n |-> t[i]]
    BY <1>2
  <2>3. QED
    BY <2>1, <2>2
<1>7. ReplayRead(e) = r
  BY <1>2, <1>3, <1>4, <1>6 DEF ReplayRead, TicBytes
<1>8. QED
  BY <1>1, <1>4, <1>5, <1>7

LEMMA ReplayForth ==
  ASSUME NEW s \in Seq(Byte), Acceptable(s)
  PROVE  /\ Part(s, 2, HashBytes) \in Hash
         /\ EncodeReplay(ReplayRead(s)) = s
<1> DEFINE n == Announced(s)
           h == Part(s, 2, HashBytes)
           t == [i \in 1..n |-> ReadCommand(s, ReplayHeader + (i - 1) * 5)]
           r == [rulesetHash |-> h, ticcmds |-> t]
<1>1. /\ HashBytes \in Nat /\ ReplayHeader \in Nat /\ ReplayHeader = 2 + HashBytes + 4
      /\ n \in 1..MaxTics /\ n \in Nat /\ MaxTics \in Int
      /\ Len(s) = ReplayHeader + n * 5 /\ s[1] = ReplayMagic /\ s[2] = ReplayVersion
  <2>1. MaxTics \in 0..Wide * Wide - 1 /\ HashBytes \in Nat
    BY WireAssumption
  <2>2. Wide * Wide \in Int
    BY WideTyped
  <2>3. QED
    BY <2>1, <2>2 DEF Acceptable, ReplayHeader, TicBytes
<1>2. ReplayRead(s) = r
  BY DEF ReplayRead, TicBytes
<1>3. /\ h \in Hash /\ \A i \in 1..HashBytes : h[i] = s[2 + i]
  <2>1. 2 + HashBytes <= Len(s) /\ 2 \in Nat
    BY <1>1
  <2>2. /\ Part(s, 2, HashBytes) \in [1..HashBytes -> Byte]
        /\ \A i \in 1..HashBytes : Part(s, 2, HashBytes)[i] = s[2 + i]
    BY <1>1, <2>1, PartIs
  <2>3. QED
    BY <2>2 DEF Hash
<1>4. ASSUME NEW i \in 1..n
      PROVE  LET c == ReadCommand(s, ReplayHeader + (i - 1) * 5) IN
             /\ c \in AnyCommand /\ IsCommand(c)
             /\ \A k \in 1..5 : CommandBytes(c)[k] = s[ReplayHeader + (i - 1) * 5 + k]
  <2>1. PICK at \in Nat : at = ReplayHeader + (i - 1) * 5
    BY <1>1
  <2>2. at + 5 <= Len(s)
    BY <1>1, <2>1
  <2>3. /\ ReadCommand(s, at) \in AnyCommand /\ IsCommand(ReadCommand(s, at))
        /\ \A k \in 1..5 : CommandBytes(ReadCommand(s, at))[k] = s[at + k]
    BY <2>2, CommandForth
  <2>4. QED
    BY <2>1, <2>3
<1> HIDE DEF n, h
<1>5. t \in Seq(AnyCommand) /\ Len(t) = n
  BY <1>1, <1>4
<1>6. r \in Replay /\ Encodable(r) /\ r.ticcmds = t /\ r.rulesetHash = h
  BY <1>1, <1>3, <1>4, <1>5 DEF Replay, Encodable
<1> HIDE DEF r
<1>7. PICK e \in Seq(Byte) :
        /\ e = EncodeReplay(r) /\ Len(e) = ReplayHeader + n * 5
        /\ e[1] = ReplayMagic /\ e[2] = ReplayVersion
        /\ \A i \in 1..HashBytes : e[2 + i] = h[i]
        /\ \A i \in 1..4 : e[2 + HashBytes + i] = Put32(n)[i]
        /\ \A j \in 1..n, k \in 1..5 :
             e[ReplayHeader + (j - 1) * 5 + k] = CommandBytes(t[j])[k]
  <2>1. LET e == EncodeReplay(r)
            m == Len(r.ticcmds)
        IN
        /\ e \in Seq(Byte) /\ Len(e) = ReplayHeader + m * 5
        /\ e[1] = ReplayMagic /\ e[2] = ReplayVersion
        /\ \A i \in 1..HashBytes : e[2 + i] = r.rulesetHash[i]
        /\ \A i \in 1..4 : e[2 + HashBytes + i] = Put32(m)[i]
        /\ \A j \in 1..m, k \in 1..5 :
             e[ReplayHeader + (j - 1) * 5 + k] = CommandBytes(r.ticcmds[j])[k]
    BY <1>6, ReplayParts
  <2>2. r.ticcmds = t /\ Len(r.ticcmds) = n /\ r.rulesetHash = h
    BY <1>5, <1>6
  <2> HIDE DEF t
  <2>3. QED
    BY <2>1, <2>2
<1>8. \A i \in 1..4 : Put32(n)[i] = s[2 + HashBytes + i]
  <2>1. PICK at \in Nat : at = 2 + HashBytes
    BY <1>1
  <2>2. PICK a \in Byte, b \in Byte, c \in Byte, d \in Byte :
          a = s[at + 1] /\ b = s[at + 2] /\ c = s[at + 3] /\ d = s[at + 4]
    <3>1. at + 1 \in 1..Len(s) /\ at + 2 \in 1..Len(s) /\ at + 3 \in 1..Len(s)
          /\ at + 4 \in 1..Len(s)
      BY <1>1, <2>1
    <3>2. QED
      BY <3>1, ElementOfSeq
  <2>3. n = (a + b * Bytes) + (c + d * Bytes) * Wide
    BY <2>1, <2>2, Offsets DEF Announced, n
  <2>4. Put32(n) = <<a, b, c, d>>
    BY <2>3, FourBytesAre
  <2>5. ASSUME NEW i \in 1..4 PROVE <<a, b, c, d>>[i] = s[at + i]
    BY <2>2
  <2>6. QED
    BY <2>1, <2>4, <2>5
<1>9. ASSUME NEW i \in 1..Len(s) PROVE e[i] = s[i]
  <2>1. i = 1 \/ i = 2 \/ i \in 3..2 + HashBytes \/ i \in 3 + HashBytes..6 + HashBytes
        \/ i \in 7 + HashBytes..Len(s)
    BY <1>1
  <2>2. CASE i = 1 \/ i = 2
    BY <1>1, <1>7, <2>2
  <2>3. CASE i \in 3..2 + HashBytes
    <3>1. i - 2 \in 1..HashBytes /\ 2 + (i - 2) = i
      BY <1>1, <2>3
    <3>2. QED
      BY <1>3, <1>7, <3>1
  <2>4. CASE i \in 3 + HashBytes..6 + HashBytes
    <3>1. i - 2 - HashBytes \in 1..4 /\ 2 + HashBytes + (i - 2 - HashBytes) = i
      BY <1>1, <2>4
    <3>2. QED
      BY <1>7, <1>8, <3>1
  <2>5. CASE i \in 7 + HashBytes..Len(s)
    <3> DEFINE m == i - ReplayHeader - 1
               j == (m \div 5) + 1
               k == (m % 5) + 1
    <3>1. m \in 0..n * 5 - 1
      BY <1>1, <2>5
    <3>2. j \in 1..n /\ k \in 1..5 /\ m = (j - 1) * 5 + k - 1
      BY <1>1, <3>1
    <3> HIDE DEF j, k
    <3>3. ReplayHeader + (j - 1) * 5 + k = i
      BY <1>1, <3>1, <3>2
    <3>4. e[i] = CommandBytes(t[j])[k]
      BY <1>7, <3>2, <3>3
    <3>5. t[j] = ReadCommand(s, ReplayHeader + (j - 1) * 5)
      BY <3>2
    <3>6. CommandBytes(t[j])[k] = s[ReplayHeader + (j - 1) * 5 + k]
      BY <1>4, <3>2, <3>5
    <3>7. QED
      BY <3>3, <3>4, <3>6
  <2>6. QED
    BY <2>1, <2>2, <2>3, <2>4, <2>5
<1>10. e = s
  <2>1. Len(e) = Len(s)
    BY <1>1, <1>7
  <2>2. QED
    BY <1>9, <2>1, SeqEqual
<1>11. QED
  BY <1>2, <1>3, <1>7, <1>10 DEF h, r

\* What encodeDoomFrame accepts, and what decodeDoomFrame does.
FrameEncodable(f) ==
  /\ Len(f.sessionId) \in Size16 /\ Len(f.stateHash) \in Size16
  /\ f.width \in Size16 \ {0} /\ f.height \in Size16 \ {0}
  /\ Len(f.pixels) = f.width * f.height * 4

\* Two bytes, most significant first, and twice two.
Of(a, b) == a * Bytes + b
Four(a, b) == a * Wide + b

LEMMA ReverseTwo ==
  ASSUME NEW n \in Int
  PROVE  LET s == Reverse(Put16(n)) IN
         /\ s \in Seq(Byte) /\ Len(s) = 2
         /\ Of(s[1], s[2]) = n % Wide
<1>1. PICK p \in Seq(Byte) :
        /\ p = Put16(n) /\ Len(p) = 2 /\ p[1] \in Byte /\ p[2] \in Byte
        /\ p[1] + p[2] * Bytes = n % Wide
  BY TwoBytes
<1>2. Reverse(p) = [i \in 1..2 |-> p[2 - i + 1]]
  BY <1>1 DEF Reverse
<1>3. PICK s \in Seq(Byte) : s = Reverse(p) /\ Len(s) = 2 /\ s[1] = p[2] /\ s[2] = p[1]
  <2>1. \A i \in 1..2 : p[2 - i + 1] \in Byte
    BY <1>1
  <2>2. [i \in 1..2 |-> p[2 - i + 1]] \in Seq(Byte) /\ Len([i \in 1..2 |-> p[2 - i + 1]]) = 2
    BY <2>1
  <2>3. [i \in 1..2 |-> p[2 - i + 1]][1] = p[2] /\ [i \in 1..2 |-> p[2 - i + 1]][2] = p[1]
    OBVIOUS
  <2>4. QED
    BY <1>2, <2>2, <2>3
<1>4. p[2] * Bytes + p[1] = p[1] + p[2] * Bytes
  BY <1>1, WideTyped
<1>5. QED
  BY <1>1, <1>3, <1>4 DEF Of

LEMMA ReverseFour ==
  ASSUME NEW n \in 0..Wide * Wide - 1
  PROVE  LET s == Reverse(Put32(n)) IN
         /\ s \in Seq(Byte) /\ Len(s) = 4
         /\ Four(Of(s[1], s[2]), Of(s[3], s[4])) = n
<1>1. PICK p \in Seq(Byte) :
        /\ p = Put32(n) /\ Len(p) = 4
        /\ (p[1] + p[2] * Bytes) + (p[3] + p[4] * Bytes) * Wide = n
  BY FourBytes
<1>2. Reverse(p) = [i \in 1..4 |-> p[4 - i + 1]]
  BY <1>1 DEF Reverse
<1>3. p[1] \in Byte /\ p[2] \in Byte /\ p[3] \in Byte /\ p[4] \in Byte
  <2>1. \A i \in 1..Len(p) : p[i] \in Byte
    BY ElementOfSeq
  <2>2. Len(p) = 4
    BY <1>1
  <2>3. QED
    BY <2>1, <2>2
<1>4. PICK s \in Seq(Byte) : /\ s = Reverse(p) /\ Len(s) = 4
                             /\ s[1] = p[4] /\ s[2] = p[3] /\ s[3] = p[2] /\ s[4] = p[1]
  <2> DEFINE back == [i \in 1..4 |-> p[4 - i + 1]]
  <2>1. \A i \in 1..4 : p[4 - i + 1] \in Byte
    BY <1>3
  <2>2. back \in Seq(Byte) /\ Len(back) = 4
    BY <2>1
  <2>3. back[1] = p[4] /\ back[2] = p[3] /\ back[3] = p[2] /\ back[4] = p[1]
    OBVIOUS
  <2>4. back = Reverse(p)
    BY <1>2
  <2> HIDE DEF back
  <2>5. QED
    BY <2>2, <2>3, <2>4
<1>5. PICK a \in Int, b \in Int, c \in Int, d \in Int :
        a = p[1] /\ b = p[2] /\ c = p[3] /\ d = p[4]
  <2>1. Byte \subseteq Int
    BY WideTyped
  <2>2. p[1] \in Int /\ p[2] \in Int /\ p[3] \in Int /\ p[4] \in Int
    BY <1>3, <2>1
  <2>3. QED
    BY <2>2
<1>6. (d * Bytes + c) * Wide + (b * Bytes + a) = (a + b * Bytes) + (c + d * Bytes) * Wide
  <2>1. PICK x \in Int, y \in Int : x = a + b * Bytes /\ y = c + d * Bytes
    BY WideTyped
  <2>2. d * Bytes + c = y /\ b * Bytes + a = x
    BY <2>1, WideTyped
  <2>3. y * Wide + x = x + y * Wide
    BY WideTyped
  <2>4. QED
    BY <2>1, <2>2, <2>3
<1>7. QED
  BY <1>1, <1>4, <1>5, <1>6 DEF Of, Four

\* The bytes before those of the session.
Head13(f) ==
  <<FrameMagic>> \o Reverse(Put32(f.tick)) \o Reverse(Put16(f.width))
    \o Reverse(Put16(f.height)) \o Reverse(Put16(Len(f.sessionId)))
    \o Reverse(Put16(Len(f.stateHash)))

LEMMA JoinedTwo ==
  ASSUME NEW s \in Seq(Byte), NEW p \in Seq(Byte), Len(p) = 2
  PROVE  /\ s \o p \in Seq(Byte) /\ Len(s \o p) = Len(s) + 2
         /\ \A i \in 1..Len(s) : (s \o p)[i] = s[i]
         /\ (s \o p)[Len(s) + 1] = p[1] /\ (s \o p)[Len(s) + 2] = p[2]
<1>1. /\ s \o p \in Seq(Byte) /\ Len(s \o p) = Len(s) + Len(p)
      /\ \A i \in 1..Len(s) : (s \o p)[i] = s[i]
      /\ \A i \in 1..Len(p) : (s \o p)[Len(s) + i] = p[i]
  BY Joined
<1>2. QED
  BY <1>1

LEMMA AndTwo ==
  ASSUME NEW s \in Seq(Byte), NEW size \in Nat, Len(s) = size, NEW n \in Int, n % Wide = n
  PROVE  LET t == s \o Reverse(Put16(n)) IN
         /\ t \in Seq(Byte) /\ Len(t) = size + 2
         /\ \A i \in 1..size : t[i] = s[i]
         /\ Of(t[size + 1], t[size + 2]) = n
<1>1. PICK p \in Seq(Byte) :
        p = Reverse(Put16(n)) /\ Len(p) = 2 /\ Of(p[1], p[2]) = n
  BY ReverseTwo
<1>2. /\ s \o p \in Seq(Byte) /\ Len(s \o p) = Len(s) + 2
      /\ \A i \in 1..Len(s) : (s \o p)[i] = s[i]
      /\ (s \o p)[Len(s) + 1] = p[1] /\ (s \o p)[Len(s) + 2] = p[2]
  BY <1>1, JoinedTwo
<1>3. QED
  BY <1>1, <1>2

LEMMA NarrowModulus ==
  ASSUME NEW n \in Size16
  PROVE  n \in Int /\ n \in Nat /\ n % Wide = n
<1>1. n \in Int /\ n >= 0 /\ n < Wide /\ Wide \in Nat /\ Wide > 0
  BY WideTyped DEF Size16
<1>2. n % Wide = n
  BY <1>1, Modulus
<1>3. QED
  BY <1>1, <1>2

LEMMA FrameTyped ==
  ASSUME NEW f \in Frame, FrameEncodable(f)
  PROVE  /\ f.tick \in 0..Wide * Wide - 1
         /\ f.width \in Size16 /\ f.height \in Size16
         /\ Len(f.sessionId) \in Size16 /\ Len(f.stateHash) \in Size16
         /\ f.sessionId \in Seq(Character) /\ f.stateHash \in Seq(Character)
         /\ f.pixels \in Seq(Byte) /\ Len(f.pixels) = f.width * f.height * 4
BY DEF Frame, FrameEncodable

\* The numbers of a frame, in its first bytes.
LEMMA HeadParts ==
  ASSUME NEW f \in Frame, FrameEncodable(f)
  PROVE  LET s == Head13(f) IN
         /\ s \in Seq(Byte) /\ Len(s) = 13 /\ s[1] = FrameMagic
         /\ Four(Of(s[2], s[3]), Of(s[4], s[5])) = f.tick
         /\ Of(s[6], s[7]) = f.width /\ Of(s[8], s[9]) = f.height
         /\ Of(s[10], s[11]) = Len(f.sessionId)
         /\ Of(s[12], s[13]) = Len(f.stateHash)
<1>1. /\ f.width \in Int /\ f.width % Wide = f.width
      /\ f.height \in Int /\ f.height % Wide = f.height
      /\ Len(f.sessionId) \in Int /\ Len(f.sessionId) % Wide = Len(f.sessionId)
      /\ Len(f.stateHash) \in Int /\ Len(f.stateHash) % Wide = Len(f.stateHash)
  BY FrameTyped, NarrowModulus
<1>2. PICK a \in Seq(Byte) : a = <<FrameMagic>> /\ Len(a) = 1 /\ a[1] = FrameMagic
  <2>1. FrameMagic \in Byte
    BY WideTyped DEF FrameMagic
  <2>2. <<FrameMagic>> \in Seq(Byte) /\ Len(<<FrameMagic>>) = 1 /\ <<FrameMagic>>[1] = FrameMagic
    BY <2>1
  <2>3. QED
    BY <2>2
<1>3. PICK p \in Seq(Byte) :
        /\ p = Reverse(Put32(f.tick)) /\ Len(p) = 4
        /\ Four(Of(p[1], p[2]), Of(p[3], p[4])) = f.tick
  BY FrameTyped, ReverseFour
<1>4. PICK s \in Seq(Byte) :
        /\ s = a \o p /\ Len(s) = 5 /\ s[1] = FrameMagic
        /\ s[2] = p[1] /\ s[3] = p[2] /\ s[4] = p[3] /\ s[5] = p[4]
  <2>1. /\ a \o p \in Seq(Byte) /\ Len(a \o p) = Len(a) + Len(p)
        /\ \A i \in 1..Len(a) : (a \o p)[i] = a[i]
        /\ \A i \in 1..Len(p) : (a \o p)[Len(a) + i] = p[i]
    BY Joined
  <2>2. PICK s \in Seq(Byte) : s = a \o p
    BY <2>1
  <2>3. /\ Len(s) = 5 /\ \A i \in 1..1 : s[i] = a[i]
        /\ \A i \in 1..4 : s[1 + i] = p[i]
    BY <1>2, <1>3, <2>1, <2>2
  <2>4. /\ s[1] = a[1] /\ s[2] = p[1] /\ s[3] = p[2] /\ s[4] = p[3] /\ s[5] = p[4]
    BY <2>3
  <2>5. QED
    BY <1>2, <2>2, <2>3, <2>4
<1>5. PICK w \in Seq(Byte) :
        /\ w = s \o Reverse(Put16(f.width)) /\ Len(w) = 7
        /\ \A i \in 1..5 : w[i] = s[i]
        /\ Of(w[6], w[7]) = f.width
  <2>1. 5 \in Nat /\ 5 + 1 = 6 /\ 5 + 2 = 7 /\ Len(s) = 5
    BY <1>4
  <2>2. LET t == s \o Reverse(Put16(f.width)) IN
        /\ t \in Seq(Byte) /\ Len(t) = 5 + 2
        /\ \A i \in 1..5 : t[i] = s[i]
        /\ Of(t[5 + 1], t[5 + 2]) = f.width
    BY <1>1, <2>1, AndTwo
  <2>3. QED
    BY <2>1, <2>2
<1>6. PICK h \in Seq(Byte) :
        /\ h = w \o Reverse(Put16(f.height)) /\ Len(h) = 9
        /\ \A i \in 1..7 : h[i] = w[i]
        /\ Of(h[8], h[9]) = f.height
  <2>1. 7 \in Nat /\ 7 + 1 = 8 /\ 7 + 2 = 9 /\ Len(w) = 7
    BY <1>5
  <2>2. LET t == w \o Reverse(Put16(f.height)) IN
        /\ t \in Seq(Byte) /\ Len(t) = 7 + 2
        /\ \A i \in 1..7 : t[i] = w[i]
        /\ Of(t[7 + 1], t[7 + 2]) = f.height
    BY <1>1, <2>1, AndTwo
  <2>3. QED
    BY <2>1, <2>2
<1>7. PICK m \in Seq(Byte) :
        /\ m = h \o Reverse(Put16(Len(f.sessionId))) /\ Len(m) = 11
        /\ \A i \in 1..9 : m[i] = h[i]
        /\ Of(m[10], m[11]) = Len(f.sessionId)
  <2>1. 9 \in Nat /\ 9 + 1 = 10 /\ 9 + 2 = 11 /\ Len(h) = 9
    BY <1>6
  <2>2. LET t == h \o Reverse(Put16(Len(f.sessionId))) IN
        /\ t \in Seq(Byte) /\ Len(t) = 9 + 2
        /\ \A i \in 1..9 : t[i] = h[i]
        /\ Of(t[9 + 1], t[9 + 2]) = Len(f.sessionId)
    BY <1>1, <2>1, AndTwo
  <2>3. QED
    BY <2>1, <2>2
<1>8. PICK e \in Seq(Byte) :
        /\ e = m \o Reverse(Put16(Len(f.stateHash))) /\ Len(e) = 13
        /\ \A i \in 1..11 : e[i] = m[i]
        /\ Of(e[12], e[13]) = Len(f.stateHash)
  <2>1. 11 \in Nat /\ 11 + 1 = 12 /\ 11 + 2 = 13 /\ Len(m) = 11
    BY <1>7
  <2>2. LET t == m \o Reverse(Put16(Len(f.stateHash))) IN
        /\ t \in Seq(Byte) /\ Len(t) = 11 + 2
        /\ \A i \in 1..11 : t[i] = m[i]
        /\ Of(t[11 + 1], t[11 + 2]) = Len(f.stateHash)
    BY <1>1, <2>1, AndTwo
  <2>3. QED
    BY <2>1, <2>2
<1>9. e = Head13(f)
  BY <1>2, <1>3, <1>4, <1>5, <1>6, <1>7, <1>8 DEF Head13
<1>10. /\ e[10] = m[10] /\ e[11] = m[11]
       /\ e[8] = h[8] /\ e[9] = h[9] /\ e[6] = w[6] /\ e[7] = w[7]
       /\ e[1] = s[1] /\ e[2] = s[2] /\ e[3] = s[3] /\ e[4] = s[4] /\ e[5] = s[5]
  <2>1. /\ \A i \in 1..5 : w[i] = s[i]
        /\ \A i \in 1..7 : h[i] = w[i]
        /\ \A i \in 1..9 : m[i] = h[i]
        /\ \A i \in 1..11 : e[i] = m[i]
    BY <1>5, <1>6, <1>7, <1>8
  <2>2. ASSUME NEW i \in 1..9 PROVE e[i] = h[i]
    <3>1. i \in 1..11
      OBVIOUS
    <3>2. QED
      BY <2>1, <3>1
  <2>3. ASSUME NEW i \in 1..7 PROVE e[i] = w[i]
    <3>1. i \in 1..9
      OBVIOUS
    <3>2. QED
      BY <2>1, <2>2, <3>1
  <2>4. ASSUME NEW i \in 1..5 PROVE e[i] = s[i]
    <3>1. i \in 1..7
      OBVIOUS
    <3>2. QED
      BY <2>1, <2>3, <3>1
  <2>5. QED
    BY <2>1, <2>2, <2>3, <2>4
<1>11. /\ Four(Of(e[2], e[3]), Of(e[4], e[5])) = f.tick
       /\ Of(e[6], e[7]) = f.width /\ Of(e[8], e[9]) = f.height
       /\ Of(e[10], e[11]) = Len(f.sessionId) /\ Of(e[12], e[13]) = Len(f.stateHash)
  <2>1. Four(Of(e[2], e[3]), Of(e[4], e[5])) = f.tick
    BY <1>3, <1>4, <1>10, Zenon
  <2>2. Of(e[6], e[7]) = f.width
    BY <1>5, <1>10, Zenon
  <2>3. Of(e[8], e[9]) = f.height
    BY <1>6, <1>10, Zenon
  <2>4. Of(e[10], e[11]) = Len(f.sessionId)
    BY <1>7, <1>10, Zenon
  <2>5. Of(e[12], e[13]) = Len(f.stateHash)
    BY <1>8, Zenon
  <2>6. QED
    BY <2>1, <2>2, <2>3, <2>4, <2>5
<1>12. e \in Seq(Byte) /\ Len(e) = 13 /\ e[1] = FrameMagic
  BY <1>4, <1>8, <1>10
<1>13. QED
  BY <1>9, <1>11, <1>12, Zenon

LEMMA FrameParts ==
  ASSUME NEW f \in Frame, FrameEncodable(f)
  PROVE  LET e == EncodeFrame(f)
             s == Len(f.sessionId)
             h == Len(f.stateHash)
         IN
         /\ e \in Seq(Byte) /\ Len(e) = 13 + s + h + Len(f.pixels)
         /\ \A i \in 1..13 : e[i] = Head13(f)[i]
         /\ \A i \in 1..s : e[13 + i] = f.sessionId[i]
         /\ \A i \in 1..h : e[13 + s + i] = f.stateHash[i]
         /\ \A i \in 1..Len(f.pixels) : e[13 + s + h + i] = f.pixels[i]
<1>1. EncodeFrame(f) = Head13(f) \o f.sessionId \o f.stateHash \o f.pixels
  BY DEF EncodeFrame, FrameEncodable, Head13
<1>2. PICK a \in Seq(Byte) : a = Head13(f) /\ Len(a) = 13
  BY HeadParts
<1>3. PICK b \in Seq(Byte), c \in Seq(Byte), d \in Seq(Byte) :
        b = f.sessionId /\ c = f.stateHash /\ d = f.pixels
  <2>1. Character \subseteq Byte
    BY DEF Character
  <2>2. Seq(Character) \subseteq Seq(Byte)
    BY <2>1
  <2>3. QED
    BY <2>2, FrameTyped
<1>4. /\ a \o b \o c \in Seq(Byte) /\ Len(a \o b \o c) = Len(a) + Len(b) + Len(c)
      /\ \A i \in 1..Len(a) : (a \o b \o c)[i] = a[i]
      /\ \A i \in 1..Len(b) : (a \o b \o c)[Len(a) + i] = b[i]
      /\ \A i \in 1..Len(c) : (a \o b \o c)[Len(a) + Len(b) + i] = c[i]
  BY JoinedThree
<1>5. PICK m \in Seq(Byte) : m = a \o b \o c
  BY <1>4
<1>6. /\ m \o d \in Seq(Byte) /\ Len(m \o d) = Len(m) + Len(d)
      /\ \A i \in 1..Len(m) : (m \o d)[i] = m[i]
      /\ \A i \in 1..Len(d) : (m \o d)[Len(m) + i] = d[i]
  BY Joined
<1>7. PICK e \in Seq(Byte) : e = m \o d
  BY <1>6
<1>8. e = EncodeFrame(f)
  BY <1>1, <1>2, <1>3, <1>5, <1>7
<1>9. /\ Len(b) \in Nat /\ Len(c) \in Nat /\ Len(d) \in Nat
      /\ Len(m) = 13 + Len(b) + Len(c) /\ Len(e) = 13 + Len(b) + Len(c) + Len(d)
  <2>1. Len(b) \in Nat /\ Len(c) \in Nat /\ Len(d) \in Nat
    OBVIOUS
  <2>2. Len(m) = Len(a) + Len(b) + Len(c)
    BY <1>4, <1>5
  <2>3. Len(e) = Len(m) + Len(d)
    BY <1>6, <1>7
  <2>4. QED
    BY <1>2, <2>1, <2>2, <2>3
<1>10. ASSUME NEW i \in 1..13 PROVE e[i] = a[i]
  <2>1. i \in 1..Len(m) /\ i \in 1..Len(a)
    BY <1>2, <1>9
  <2>2. QED
    BY <1>4, <1>5, <1>6, <1>7, <2>1
<1>11. ASSUME NEW i \in 1..Len(b) PROVE e[13 + i] = b[i]
  <2>1. 13 + i \in 1..Len(m)
    BY <1>9
  <2>2. m[13 + i] = b[i]
    BY <1>2, <1>4, <1>5
  <2>3. QED
    BY <1>6, <1>7, <2>1, <2>2
<1>12. ASSUME NEW i \in 1..Len(c) PROVE e[13 + Len(b) + i] = c[i]
  <2>1. 13 + Len(b) + i \in 1..Len(m)
    BY <1>9
  <2>2. m[13 + Len(b) + i] = c[i]
    BY <1>2, <1>4, <1>5
  <2>3. QED
    BY <1>6, <1>7, <2>1, <2>2
<1>13. ASSUME NEW i \in 1..Len(d) PROVE e[13 + Len(b) + Len(c) + i] = d[i]
  <2>1. Len(m) + i = 13 + Len(b) + Len(c) + i
    BY <1>9
  <2>2. QED
    BY <1>6, <1>7, <2>1
<1>14. QED
  BY <1>2, <1>3, <1>8, <1>9, <1>10, <1>11, <1>12, <1>13

LEMMA BigOffsets ==
  ASSUME NEW s
  PROVE  /\ Big32(s, 1) = Four(Of(s[2], s[3]), Of(s[4], s[5]))
         /\ Big16(s, 5) = Of(s[6], s[7]) /\ Big16(s, 7) = Of(s[8], s[9])
         /\ Big16(s, 9) = Of(s[10], s[11]) /\ Big16(s, 11) = Of(s[12], s[13])
<1>1. 1 + 1 = 2 /\ 1 + 2 = 3 /\ 3 + 1 = 4 /\ 3 + 2 = 5 /\ 5 + 1 = 6 /\ 5 + 2 = 7
      /\ 7 + 1 = 8 /\ 7 + 2 = 9 /\ 9 + 1 = 10 /\ 9 + 2 = 11 /\ 11 + 1 = 12 /\ 11 + 2 = 13
  OBVIOUS
<1>2. QED
  BY <1>1 DEF Big32, Big16, Of, Four

LEMMA TextBack ==
  ASSUME NEW t \in Seq(Character)
  PROVE  ReadText(t) = t
<1>1. \A i \in DOMAIN t : 2 * t[i] < Bytes
  BY DEF Character
<1>2. ReadText(t) = [i \in DOMAIN t |-> t[i]]
  BY <1>1 DEF ReadText
<1>3. t = [i \in DOMAIN t |-> t[i]]
  OBVIOUS
<1>4. QED
  BY <1>2, <1>3

LEMMA OneByOne ==
  ASSUME NEW e, NEW s, \A i \in 1..13 : e[i] = s[i]
  PROVE  /\ e[1] = s[1] /\ e[2] = s[2] /\ e[3] = s[3] /\ e[4] = s[4] /\ e[5] = s[5]
         /\ e[6] = s[6] /\ e[7] = s[7] /\ e[8] = s[8] /\ e[9] = s[9]
         /\ e[10] = s[10] /\ e[11] = s[11] /\ e[12] = s[12] /\ e[13] = s[13]
OBVIOUS

LEMMA FrameBack ==
  ASSUME NEW f \in Frame, FrameEncodable(f)
  PROVE  EncodeFrame(f) \in Seq(Byte) /\ DecodeFrame(EncodeFrame(f)) = f
<1>1. PICK e \in Seq(Byte) :
        /\ e = EncodeFrame(f)
        /\ Len(e) = 13 + Len(f.sessionId) + Len(f.stateHash) + Len(f.pixels)
        /\ \A i \in 1..13 : e[i] = Head13(f)[i]
        /\ \A i \in 1..Len(f.sessionId) : e[13 + i] = f.sessionId[i]
        /\ \A i \in 1..Len(f.stateHash) : e[13 + Len(f.sessionId) + i] = f.stateHash[i]
        /\ \A i \in 1..Len(f.pixels) :
             e[13 + Len(f.sessionId) + Len(f.stateHash) + i] = f.pixels[i]
  BY FrameParts
<1>2. /\ e[1] = FrameMagic /\ Big32(e, 1) = f.tick /\ Big16(e, 5) = f.width
      /\ Big16(e, 7) = f.height /\ Big16(e, 9) = Len(f.sessionId)
      /\ Big16(e, 11) = Len(f.stateHash)
  <2>1. PICK s \in Seq(Byte) :
          /\ s = Head13(f) /\ s[1] = FrameMagic
          /\ Four(Of(s[2], s[3]), Of(s[4], s[5])) = f.tick
          /\ Of(s[6], s[7]) = f.width /\ Of(s[8], s[9]) = f.height
          /\ Of(s[10], s[11]) = Len(f.sessionId)
          /\ Of(s[12], s[13]) = Len(f.stateHash)
    BY HeadParts
  <2>2. \A i \in 1..13 : e[i] = s[i]
    BY <1>1, <2>1
  <2>3. /\ e[1] = s[1] /\ e[2] = s[2] /\ e[3] = s[3] /\ e[4] = s[4] /\ e[5] = s[5]
        /\ e[6] = s[6] /\ e[7] = s[7] /\ e[8] = s[8] /\ e[9] = s[9]
        /\ e[10] = s[10] /\ e[11] = s[11] /\ e[12] = s[12] /\ e[13] = s[13]
    BY <2>2, OneByOne
  <2>4. /\ Big32(e, 1) = Four(Of(e[2], e[3]), Of(e[4], e[5]))
        /\ Big16(e, 5) = Of(e[6], e[7]) /\ Big16(e, 7) = Of(e[8], e[9])
        /\ Big16(e, 9) = Of(e[10], e[11]) /\ Big16(e, 11) = Of(e[12], e[13])
    BY BigOffsets
  <2>5. QED
    BY <2>1, <2>3, <2>4, Zenon
<1>3. PICK b \in Seq(Byte), c \in Seq(Byte), d \in Seq(Byte) :
        b = f.sessionId /\ c = f.stateHash /\ d = f.pixels
  <2>1. Character \subseteq Byte
    BY DEF Character
  <2>2. Seq(Character) \subseteq Seq(Byte)
    BY <2>1
  <2>3. QED
    BY <2>2, FrameTyped
<1>4. PICK s \in Nat, h \in Nat, p \in Nat : s = Len(b) /\ h = Len(c) /\ p = Len(d)
  OBVIOUS
<1>5. /\ Len(e) = 13 + s + h + p
      /\ \A i \in 1..s : e[13 + i] = b[i]
      /\ \A i \in 1..h : e[13 + s + i] = c[i]
      /\ \A i \in 1..p : e[13 + s + h + i] = d[i]
  BY <1>1, <1>3, <1>4
<1>6. Part(e, 13, s) = b
  <2>1. /\ Part(e, 13, s) \in Seq(Byte) /\ Len(Part(e, 13, s)) = s
        /\ \A i \in 1..s : Part(e, 13, s)[i] = e[13 + i]
    <3>1. 13 \in Nat /\ 13 + s <= Len(e)
      BY <1>5
    <3>2. QED
      BY <3>1, PartIs
  <2>2. \A i \in 1..s : Part(e, 13, s)[i] = b[i]
    BY <1>5, <2>1
  <2>3. QED
    BY <1>4, <2>1, <2>2, SeqEqual
<1>7. Part(e, 13 + s, h) = c
  <2>1. /\ Part(e, 13 + s, h) \in Seq(Byte) /\ Len(Part(e, 13 + s, h)) = h
        /\ \A i \in 1..h : Part(e, 13 + s, h)[i] = e[13 + s + i]
    <3>1. 13 + s \in Nat /\ 13 + s + h <= Len(e)
      BY <1>5
    <3>2. QED
      BY <3>1, PartIs
  <2>2. \A i \in 1..h : Part(e, 13 + s, h)[i] = c[i]
    BY <1>5, <2>1
  <2>3. QED
    BY <1>4, <2>1, <2>2, SeqEqual
<1>8. Part(e, 13 + s + h, p) = d
  <2>1. /\ Part(e, 13 + s + h, p) \in Seq(Byte) /\ Len(Part(e, 13 + s + h, p)) = p
        /\ \A i \in 1..p : Part(e, 13 + s + h, p)[i] = e[13 + s + h + i]
    <3>1. 13 + s + h \in Nat /\ 13 + s + h + p <= Len(e)
      BY <1>5
    <3>2. QED
      BY <3>1, PartIs
  <2>2. \A i \in 1..p : Part(e, 13 + s + h, p)[i] = d[i]
    BY <1>5, <2>1
  <2>3. QED
    BY <1>4, <2>1, <2>2, SeqEqual
<1>9. ReadText(b) = b /\ ReadText(c) = c
  BY <1>3, FrameTyped, TextBack
<1>10. FrameHeader = 13
  BY DEF FrameHeader
<1>11. p = f.width * f.height * 4
  BY <1>3, <1>4, FrameTyped
<1>12. Len(e) - (13 + s + h) = p /\ ~ Len(e) < 13
  BY <1>5
<1>13. DecodeFrame(e) =
         [tick |-> f.tick, width |-> f.width, height |-> f.height,
          sessionId |-> b, stateHash |-> c, pixels |-> d]
  <2>1. Big16(e, 9) = s /\ Big16(e, 11) = h
    BY <1>2, <1>3, <1>4
  <2>2. QED
    BY <1>2, <1>6, <1>7, <1>8, <1>9, <1>10, <1>11, <1>12, <2>1 DEF DecodeFrame
<1>14. f = [tick |-> f.tick, width |-> f.width, height |-> f.height,
            sessionId |-> f.sessionId, stateHash |-> f.stateHash, pixels |-> f.pixels]
  BY DEF Frame
<1>15. QED
  BY <1>1, <1>3, <1>13, <1>14

\* A frame that is accepted has the pixels its size says.
LEMMA FramePixels ==
  ASSUME NEW s \in Seq(Byte), DecodeFrame(s) # Refused
  PROVE  LET f == DecodeFrame(s) IN Len(f.pixels) = f.width * f.height * 4
<1> DEFINE w == Big16(s, 5)
           h == Big16(s, 7)
           p == FrameHeader + Big16(s, 9) + Big16(s, 11)
<1>1. /\ ~ Len(s) < FrameHeader /\ Len(s) - p = w * h * 4
      /\ DecodeFrame(s).width = w /\ DecodeFrame(s).height = h
      /\ DecodeFrame(s).pixels = Part(s, p, Len(s) - p)
  BY DEF DecodeFrame
<1>2. Len(s) \in Nat /\ Len(s) >= 13 /\ FrameHeader = 13
  BY <1>1 DEF FrameHeader
<1>3. ASSUME NEW i \in 1..13 PROVE s[i] \in Nat
  <2>1. s[i] \in Byte
    BY <1>2, ElementOfSeq
  <2>2. QED
    BY <2>1, WideTyped
<1>4. \A a, b \in Nat : Of(a, b) \in Nat
  BY WideTyped DEF Of
<1>5. Big16(s, 5) \in Nat /\ Big16(s, 7) \in Nat /\ Big16(s, 9) \in Nat /\ Big16(s, 11) \in Nat
  <2>1. /\ s[6] \in Nat /\ s[7] \in Nat /\ s[8] \in Nat /\ s[9] \in Nat
        /\ s[10] \in Nat /\ s[11] \in Nat /\ s[12] \in Nat /\ s[13] \in Nat
    BY <1>3
  <2>2. QED
    BY <1>4, <2>1, BigOffsets
<1>6. p \in Nat
  BY <1>2, <1>5
<1>7. w * h * 4 \in Nat
  BY <1>5
<1> HIDE DEF w, h, p
<1>8. Len(s) - p \in Nat /\ p + (Len(s) - p) <= Len(s)
  BY <1>1, <1>2, <1>6, <1>7
<1>9. Len(Part(s, p, Len(s) - p)) = Len(s) - p
  BY <1>6, <1>8, PartIs
<1>10. QED
  BY <1>1, <1>9

\* A message under way is bytes, and undamaged those of what was sent.
WireHolds ==
  /\ wire \in Seq(Byte) /\ damage \in Nat
  /\ \/ sent = Unsent
     \/ /\ sent.kind = "replay" /\ sent.value \in Replay
        /\ damage = 0 => Encodable(sent.value) /\ wire = EncodeReplay(sent.value)
     \/ /\ sent.kind = "frame" /\ sent.value \in Frame
        /\ damage = 0 => FrameEncodable(sent.value) /\ wire = EncodeFrame(sent.value)

LEMMA WireHoldsInit == WireInit => WireHolds
BY DEF WireInit, WireHolds

LEMMA ReplaySent ==
  ASSUME WireHolds, NEW r \in Replays, Send("replay", r, EncodeReplay(r))
  PROVE  WireHolds'
<1>1. r \in Replay
  BY WireAssumption
<1>2. Encodable(r)
  BY DEF Send, EncodeReplay, Encodable
<1>3. EncodeReplay(r) \in Seq(Byte)
  BY <1>1, <1>2, ReplayBack
<1>4. /\ sent' = [kind |-> "replay", value |-> r] /\ wire' = EncodeReplay(r)
      /\ damage' = damage
  BY DEF Send
<1>5. sent'.kind = "replay" /\ sent'.value = r
  BY <1>4
<1>6. QED
  BY <1>1, <1>2, <1>3, <1>4, <1>5 DEF WireHolds

LEMMA FrameSent ==
  ASSUME WireHolds, NEW f \in Frames, Send("frame", f, EncodeFrame(f))
  PROVE  WireHolds'
<1>1. f \in Frame
  BY WireAssumption
<1>2. FrameEncodable(f)
  BY DEF Send, EncodeFrame, FrameEncodable
<1>3. EncodeFrame(f) \in Seq(Byte)
  BY <1>1, <1>2, FrameBack
<1>4. /\ sent' = [kind |-> "frame", value |-> f] /\ wire' = EncodeFrame(f)
      /\ damage' = damage
  BY DEF Send
<1>5. sent'.kind = "frame" /\ sent'.value = f
  BY <1>4
<1>6. QED
  BY <1>1, <1>2, <1>3, <1>4, <1>5 DEF WireHolds

LEMMA Damaged ==
  ASSUME WireHolds, Damage
  PROVE  WireHolds'
<1>1. sent' = sent /\ damage' = damage + 1 /\ damage' \in Nat /\ damage' # 0
  BY DEF WireHolds, Damage
<1>2. wire \in Seq(Byte)
  BY DEF WireHolds
<1>3. wire' \in Seq(Byte)
  <2>1. CASE \E i \in DOMAIN wire, b \in Byte : wire' = [wire EXCEPT ![i] = b]
    BY <1>2, <2>1, ExceptSeq
  <2>2. CASE \E n \in 0..Len(wire) - 1 : wire' = SubSeq(wire, 1, n)
    <3>1. PICK n \in 0..Len(wire) - 1 : wire' = SubSeq(wire, 1, n)
      BY <2>2
    <3>2. n \in Int /\ \A i \in 1..n : wire[i] \in Byte
      BY <1>2, ElementOfSeq
    <3>3. SubSeq(wire, 1, n) \in Seq(Byte)
      BY <3>2, SubSeqProperties
    <3>4. QED
      BY <3>1, <3>3
  <2>3. CASE \E b \in Byte : wire' = Append(wire, b)
    BY <1>2, <2>3
  <2>4. QED
    BY <2>1, <2>2, <2>3 DEF Damage
<1>4. QED
  BY <1>1, <1>3 DEF WireHolds

LEMMA WireHoldsNext == WireHolds /\ [WireNext]_wireVars => WireHolds'
<1> SUFFICES ASSUME WireHolds, [WireNext]_wireVars PROVE WireHolds'
  OBVIOUS
<1>1. CASE \E r \in Replays : Send("replay", r, EncodeReplay(r))
  BY <1>1, ReplaySent
<1>2. CASE \E f \in Frames : Send("frame", f, EncodeFrame(f))
  BY <1>2, FrameSent
<1>3. CASE Damage
  BY <1>3, Damaged
<1>4. CASE UNCHANGED wireVars
  BY <1>4 DEF wireVars, WireHolds
<1>5. QED
  BY <1>1, <1>2, <1>3, <1>4 DEF WireNext

LEMMA WireHoldsBytes == WireHolds => BytesAreTheMessage
<1> SUFFICES ASSUME WireHolds PROVE BytesAreTheMessage
  OBVIOUS
<1>1. wire \in Seq(Byte) /\ Unsent.kind = "none"
  BY DEF WireHolds, Unsent
<1>2. ASSUME sent.kind = "replay"
      PROVE  LET r == DecodeReplay(wire, Hash) IN
             /\ damage = 0 => r = sent.value
             /\ r # Refused => EncodeReplay(r) = wire
             /\ DecodeReplay(wire, {sent.value.rulesetHash}) =
                  IF r # Refused /\ r.rulesetHash = sent.value.rulesetHash THEN r ELSE Refused
  <2> DEFINE r == DecodeReplay(wire, Hash)
             h == sent.value.rulesetHash
             part == Part(wire, 2, HashBytes)
  <2>1. /\ sent.value \in Replay
        /\ damage = 0 => Encodable(sent.value) /\ wire = EncodeReplay(sent.value)
    BY <1>1, <1>2 DEF WireHolds
  <2>2. r = IF Acceptable(wire) /\ part \in Hash THEN ReplayRead(wire) ELSE Refused
    BY <1>1, Decoded
  <2>3. DecodeReplay(wire, {h}) =
          IF Acceptable(wire) /\ part \in {h} THEN ReplayRead(wire) ELSE Refused
    BY <1>1, Decoded
  <2>4. ASSUME damage = 0 PROVE r = sent.value
    <3>1. /\ Acceptable(wire) /\ part = h /\ ReplayRead(wire) = sent.value
      BY <2>1, <2>4, ReplayBack
    <3>2. h \in Hash
      BY <2>1 DEF Replay
    <3>3. QED
      BY <2>2, <3>1, <3>2
  <2>5. Acceptable(wire) => part \in Hash /\ EncodeReplay(ReplayRead(wire)) = wire
    BY <1>1, ReplayForth
  <2>6. ReplayRead(wire).rulesetHash = part
    BY DEF ReplayRead
  <2> HIDE DEF r, h, part
  <2>7. r # Refused => EncodeReplay(r) = wire
    BY <2>2, <2>5
  <2>8. DecodeReplay(wire, {h}) = IF r # Refused /\ r.rulesetHash = h THEN r ELSE Refused
    <3>1. CASE Acceptable(wire) /\ part = h
      <4>1. r = ReplayRead(wire) /\ r.rulesetHash = h
        BY <3>1, <2>2, <2>5, <2>6
      <4>2. DecodeReplay(wire, {h}) = r
        BY <3>1, <2>3, <4>1
      <4>3. QED
        BY <4>1, <4>2
    <3>2. CASE Acceptable(wire) /\ part # h
      <4>1. r.rulesetHash # h
        BY <3>2, <2>2, <2>5, <2>6
      <4>2. DecodeReplay(wire, {h}) = Refused
        BY <3>2, <2>3
      <4>3. QED
        BY <4>1, <4>2
    <3>3. CASE ~Acceptable(wire)
      BY <3>3, <2>2, <2>3
    <3>4. QED
      BY <3>1, <3>2, <3>3
  <2>9. QED
    BY <2>4, <2>7, <2>8 DEF r, h
<1>3. ASSUME sent.kind = "frame"
      PROVE  LET f == DecodeFrame(wire) IN
             /\ damage = 0 => f = sent.value
             /\ f # Refused => Len(f.pixels) = f.width * f.height * 4
  <2>1. /\ sent.value \in Frame
        /\ damage = 0 => FrameEncodable(sent.value) /\ wire = EncodeFrame(sent.value)
    BY <1>1, <1>3 DEF WireHolds
  <2>2. damage = 0 => DecodeFrame(wire) = sent.value
    BY <2>1, FrameBack
  <2>3. DecodeFrame(wire) # Refused =>
          LET f == DecodeFrame(wire) IN Len(f.pixels) = f.width * f.height * 4
    BY <1>1, FramePixels
  <2>4. QED
    BY <2>2, <2>3
<1>4. QED
  BY <1>2, <1>3 DEF BytesAreTheMessage

\* A replay or a frame that was not damaged is read as it was sent; bytes that
\* a replay is read from, damaged or not, are those that replay is encoded to;
\* and a frame that is read has the pixels its size says.
THEOREM MessagesAreTheirBytes == WireSpec => []BytesAreTheMessage
<1>1. WireSpec => []WireHolds
  BY WireHoldsInit, WireHoldsNext, PTL DEF WireSpec
<1>2. QED
  BY <1>1, WireHoldsBytes, PTL
=============================================================================
