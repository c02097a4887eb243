---------------------------- MODULE JnsRuntimeProofs ----------------------------
(***************************************************************************)
(* For any number of accounts, names and workers: what the deployed JNS    *)
(* Service does off chain and on chain is the service applying one action  *)
(* at a time, and no signature counts twice; the binary search of a sorted *)
(* view finds every key there is, so a worker that asks again asks for a   *)
(* record it did not have.                                                 *)
(***************************************************************************)
EXTENDS JnsRuntime, FiniteSetTheorems, WellFoundedInduction, TLAPS

USE RuntimeAssumption

-----------------------------------------------------------------------------
(* The overlay, which an action of JNS gives at most one entry.            *)

LEMMA FindInEmpty == ASSUME NEW key PROVE Find(<<>>, key) = 1
<1> DEFINE Body(window) == [turn \in 0..Len(<<>>) |->
             IF turn = 0 THEN [low |-> 1, high |-> Len(<<>>) + 1]
                         ELSE Turn(<<>>, key, window[turn - 1])]
           Window == CHOOSE window : window = Body(window)
           Witness == [turn \in 0..0 |-> [low |-> 1, high |-> 1]]
<1>1. Find(<<>>, key) = Window[Len(<<>>)].low
  BY Zenon DEF Find
<1>2. Witness = Body(Witness)
  OBVIOUS
<1>3. Window = Body(Window)
  <2> HIDE DEF Body, Witness
  <2> QED
    BY <1>2
<1>4. Window[0].low = 1
  <2> HIDE DEF Window
  <2> QED
    BY <1>3
<1> QED
  BY <1>1, <1>4

LEMMA FindInOne ==
  ASSUME NEW e, NEW key PROVE Find(<<e>>, key) = IF e.key < key THEN 2 ELSE 1
<1> DEFINE Body(window) == [turn \in 0..Len(<<e>>) |->
             IF turn = 0 THEN [low |-> 1, high |-> Len(<<e>>) + 1]
                         ELSE Turn(<<e>>, key, window[turn - 1])]
           Window == CHOOSE window : window = Body(window)
           Witness == [turn \in 0..1 |-> IF turn = 0 THEN [low |-> 1, high |-> 2]
                        ELSE Turn(<<e>>, key, [low |-> 1, high |-> 2])]
<1>1. Find(<<e>>, key) = Window[Len(<<e>>)].low
  BY Zenon DEF Find
<1>2. Witness = Body(Witness)
  OBVIOUS
<1>3. Window = Body(Window)
  <2> HIDE DEF Body, Witness
  <2> QED
    BY <1>2
<1>4. Window[0] = [low |-> 1, high |-> 2] /\ Window[1] = Turn(<<e>>, key, Window[0])
  <2> HIDE DEF Window
  <2> QED
    BY <1>3
<1>5. Turn(<<e>>, key, [low |-> 1, high |-> 2]).low = IF e.key < key THEN 2 ELSE 1
  BY DEF Turn
<1> QED
  BY <1>1, <1>4, <1>5

LEMMA FirstWrite ==
  ASSUME NEW key, NEW value
  PROVE  WriteOverlay(<<>>, key, value) = <<KeyAndValue(key, value)>>
<1> DEFINE e == KeyAndValue(key, value)
<1>1. ~Has(<<>>, key)
  BY DEF Has
<1>2. WriteOverlay(<<>>, key, value) = InsertAt(<<>>, 1, e)
  BY <1>1, FindInEmpty DEF WriteOverlay
<1>3. InsertAt(<<>>, 1, e) = SubSeq(<<>>, 1, 0) \o <<e>> \o SubSeq(<<>>, 1, 0)
  BY DEF InsertAt
<1>4. SubSeq(<<>>, 1, 0) = <<>>
  OBVIOUS
<1>5. <<>> \o <<e>> \o <<>> = <<e>>
  OBVIOUS
<1>6. QED
  BY <1>2, <1>3, <1>4, <1>5

LEMMA OneChange ==
  ASSUME NEW names \in [Names -> Entry \cup {None}], NEW key \in Names, NEW value
  PROVE  ApplyDiff(names, <<KeyAndValue(key, value)>>) = [names EXCEPT ![key] = value]
<1> DEFINE diff == <<KeyAndValue(key, value)>>
<1>1. ASSUME NEW n \in Names
      PROVE  (IF Has(diff, n) THEN diff[Find(diff, n)].value ELSE names[n])
               = IF n = key THEN value ELSE names[n]
  <2>1. Find(diff, n) = IF key < n THEN 2 ELSE 1
    BY FindInOne DEF KeyAndValue
  <2>2. CASE n = key
    BY <2>1, <2>2 DEF Has, KeyAndValue
  <2>3. CASE n # key
    BY <2>1, <2>3 DEF Has, KeyAndValue
  <2>4. QED
    BY <2>2, <2>3
<1>2. QED
  BY <1>1, Zenon DEF ApplyDiff

\* A key that the view has, it has with the value of the state.
LEMMA ViewSays ==
  ASSUME NEW s \in State, NEW known, NEW n, Known(View(s, known), <<>>, n)
  PROVE  Get(View(s, known), <<>>, n) = s.names[n]
<1>1. ~Has(<<>>, n)
  BY DEF Has
<1>2. Has(View(s, known), n)
  BY <1>1 DEF Known
<1>3. View(s, known)[Find(View(s, known), n)].value = s.names[n]
  BY <1>2 DEF Has, View, KeyAndValue
<1>4. QED
  BY <1>1, <1>3 DEF Get

-----------------------------------------------------------------------------
(* A run, and the report it ends in.                                       *)

\* What an action does to the names when it is applied to a state.
Effect(a, s) ==
  /\ a.name \in ValidNames
  /\ IF a.op = "claim" THEN s.names[a.name] = None
     ELSE s.names[a.name] # None /\ s.names[a.name].owner = a.sender

LEMMA Outcome ==
  ASSUME NEW s \in State, NEW known, NEW a \in Action
  PROVE  LET result == ScriptResult(a, View(s, known)) IN
         /\ result.kind \in {"applied", "abort", "need", "fatal"}
         /\ result.kind = "need" => result.key = a.name
         /\ result.kind = "applied" =>
              /\ Effect(a, s)
              /\ result.diff = <<KeyAndValue(a.name,
                    [owner |-> a.sender, serviceId |-> a.service])>>
<1> DEFINE base == View(s, known)
           held == Get(base, <<>>, a.name)
           result == ScriptResult(a, base)
           entry == [owner |-> a.sender, serviceId |-> a.service]
<1>1. Known(base, <<>>, a.name) => held = s.names[a.name]
  BY ViewSays
<1>2. Known(base, <<>>, a.name) =>
        Set(base, <<>>, a.name, entry) = Applied(<<KeyAndValue(a.name, entry)>>)
  BY FirstWrite DEF Set
<1>3. CASE ~Ascending(base)
  BY <1>3 DEF ScriptResult, Fatal
<1>4. CASE Ascending(base) /\ a.op = "claim"
  <2>1. result = ExecuteClaim(a, base)
    BY <1>4 DEF ScriptResult
  <2> HIDE DEF base, result
  <2>2. QED
    BY <2>1, <1>1, <1>2, <1>4 DEF ExecuteClaim, Abort, NeedState, Applied, Effect, base, result
<1>5. CASE Ascending(base) /\ a.op = "bind"
  <2>1. result = ExecuteBind(a, base)
    BY <1>5 DEF ScriptResult
  <2> HIDE DEF base, result
  <2>2. QED
    BY <2>1, <1>1, <1>2, <1>5 DEF ExecuteBind, Abort, NeedState, Applied, Effect, base, result
<1>6. QED
  BY <1>3, <1>4, <1>5 DEF Action

Used(r) ==
  /\ r.action.nonce = r.parent.nonce[r.action.sender]
  /\ r.new.nonce = [r.parent.nonce EXCEPT ![r.action.sender] = @ + 1]

\* What a report says of its two states.
Sound(r) ==
  /\ Used(r)
  /\ r.kind = "abort" => r.new.names = r.parent.names
  /\ r.kind = "applied" =>
       /\ Effect(r.action, r.parent)
       /\ r.new.names = [r.parent.names EXCEPT ![r.action.name] =
                           [owner |-> r.action.sender, serviceId |-> r.action.service]]

LEMMA ReportSound ==
  ASSUME NEW run \in Run, run.action.nonce = run.parent.nonce[run.action.sender],
         NEW result, result = ScriptResult(run.action, View(run.parent, run.known)),
         result.kind \notin {"need", "fatal"}
  PROVE  LET r == [action |-> run.action, parent |-> run.parent,
                   new |-> After(run, result), kind |-> result.kind]
         IN r \in Report /\ Sound(r)
<1> DEFINE a == run.action
           s == run.parent
           r == [action |-> a, parent |-> s, new |-> After(run, result), kind |-> result.kind]
           entry == [owner |-> a.sender, serviceId |-> a.service]
<1>1. a \in Action /\ s \in State /\ s.names \in [Names -> Entry \cup {None}]
        /\ s.nonce \in [Accounts -> Nat] /\ a.name \in Names /\ a.sender \in Accounts
        /\ entry \in Entry
  BY DEF Run, Action, State, Entry
<1>2. /\ result.kind \in {"applied", "abort"}
      /\ result.kind = "applied" => /\ Effect(a, s)
                                    /\ result.diff = <<KeyAndValue(a.name, entry)>>
  BY <1>1, Outcome
<1>3. result.kind = "applied" =>
        ApplyDiff(s.names, result.diff) = [s.names EXCEPT ![a.name] = entry]
  <2>1. ApplyDiff(s.names, <<KeyAndValue(a.name, entry)>>) = [s.names EXCEPT ![a.name] = entry]
    BY <1>1, OneChange
  <2> HIDE DEF entry, a, s
  <2>2. QED
    BY <1>2, <2>1, Zenon
<1>4. /\ After(run, result).nonce = [s.nonce EXCEPT ![a.sender] = @ + 1]
      /\ After(run, result).names = IF result.kind = "applied"
                                    THEN ApplyDiff(s.names, result.diff) ELSE s.names
      /\ After(run, result) = [names |-> After(run, result).names,
                               nonce |-> After(run, result).nonce]
  BY DEF After
<1>5. After(run, result) \in State
  BY <1>1, <1>2, <1>3, <1>4 DEF State
<1>6. r \in Report
  BY <1>1, <1>2, <1>5 DEF Report
<1>7. Sound(r)
  BY <1>1, <1>2, <1>3, <1>4 DEF Sound, Used
<1>8. QED
  BY <1>6, <1>7

-----------------------------------------------------------------------------
(* The invariant.                                                          *)

RunsFit == \A w \in Workers : runs[w] # None =>
  runs[w].action.nonce = runs[w].parent.nonce[runs[w].action.sender]

\* What was taken over is behind the nonces of the current state.
Behind == \A i \in DOMAIN taken :
  taken[i].action.nonce < current.nonce[taken[i].action.sender]

RuntimeInv ==
  /\ RuntimeTypeOK
  /\ RunsFit
  /\ \A r \in reports : Sound(r)
  /\ Behind
  /\ CountsOnce

LEMMA InvStart == RuntimeInit => RuntimeInv
BY DEF RuntimeInit, RuntimeInv, RuntimeTypeOK, State, RunsFit, Behind, CountsOnce

LEMMA AccumulateKeeps == ASSUME RuntimeInv, Accumulate PROVE RuntimeInv'
<1> DEFINE r == Head(block)
<1> USE DEF RuntimeInv
<1>1. /\ block \in Seq(reports) /\ block # <<>> /\ taken \in Seq(reports)
      /\ r \in reports /\ block' \in Seq(reports')
  BY DEF Accumulate, Idle, RuntimeTypeOK
<1>2. UNCHANGED <<tick, signed, runs, reports>>
  BY DEF Accumulate
<1>3. CASE UNCHANGED <<current, taken>>
  BY <1>1, <1>2, <1>3 DEF RuntimeTypeOK, RunsFit, Behind, CountsOnce
<1>4. CASE Fits(r) /\ current' = r.new /\ taken' = Append(taken, r)
  <2>1. r \in Report /\ Sound(r) /\ r.parent = current /\ current \in State
    BY <1>1, <1>4 DEF RuntimeTypeOK, Fits
  <2>2. r.action.sender \in Accounts /\ current.nonce \in [Accounts -> Nat]
        /\ r.action.nonce = current.nonce[r.action.sender]
        /\ current'.nonce = [current.nonce EXCEPT ![r.action.sender] = @ + 1]
    BY <1>4, <2>1 DEF Report, Action, State, Sound, Used
  <2>3. current' \in State /\ taken' \in Seq(reports')
    BY <1>1, <1>2, <1>4, <2>1 DEF Report
  <2>4. RuntimeTypeOK' /\ RunsFit' /\ \A x \in reports' : Sound(x)
    BY <1>1, <1>2, <2>3 DEF RuntimeTypeOK, RunsFit
  <2>5. ASSUME NEW i \in DOMAIN taken'
        PROVE  \/ i \in DOMAIN taken /\ taken'[i] = taken[i]
               \/ i = Len(taken) + 1 /\ taken'[i] = r
    BY <1>1, <1>4
  <2>6. ASSUME NEW i \in DOMAIN taken
        PROVE  taken[i].action.nonce \in Nat /\ taken[i].action.sender \in Accounts
    <3>1. taken[i] \in reports /\ reports \subseteq Report
      BY <1>1 DEF RuntimeTypeOK
    <3>2. QED
      BY <3>1 DEF Report, Action
  <2>7. Behind'
    BY <2>2, <2>5, <2>6 DEF Behind
  <2>8. CountsOnce'
    <3> SUFFICES ASSUME NEW i \in DOMAIN taken', NEW j \in DOMAIN taken', i # j,
                        taken'[i].action.sender = taken'[j].action.sender
                 PROVE  taken'[i].action.nonce # taken'[j].action.nonce
      BY DEF CountsOnce
    <3>1. ASSUME NEW k \in DOMAIN taken, taken[k].action.sender = r.action.sender
          PROVE  taken[k].action.nonce # r.action.nonce
      BY <2>2, <2>6, <3>1 DEF Behind
    <3>2. CASE /\ i \in DOMAIN taken /\ taken'[i] = taken[i]
               /\ j \in DOMAIN taken /\ taken'[j] = taken[j]
      BY <3>2 DEF CountsOnce
    <3>3. QED
      BY <2>5, <3>1, <3>2
  <2>9. QED
    BY <2>4, <2>7, <2>8
<1>5. QED
  BY <1>3, <1>4 DEF Accumulate

LEMMA AttemptKeeps == ASSUME RuntimeInv, NEW w \in Workers, Attempt(w) PROVE RuntimeInv'
<1> DEFINE run == runs[w]
           result == ScriptResult(run.action, View(run.parent, run.known))
<1> USE DEF RuntimeInv
<1>1. run \in Run /\ run.action.nonce = run.parent.nonce[run.action.sender]
      /\ run.parent \in State /\ run.action \in Action /\ run.action.name \in Names
      /\ block = <<>>
  BY DEF Attempt, Idle, RuntimeTypeOK, RunsFit, Run, Action
<1>2. UNCHANGED <<current, tick, signed, block, taken>>
  BY DEF Attempt
<1>3. /\ result.kind = "need" => result.key = run.action.name
      /\ result.kind \in {"applied", "abort", "need", "fatal"}
  BY <1>1, Outcome
<1>4. CASE result.kind = "need" /\ UNCHANGED reports
           /\ runs' = [runs EXCEPT ![w].known = @ \cup {result.key}]
  <2> HIDE DEF result
  <2> DEFINE next == [run EXCEPT !.known = @ \cup {result.key}]
  <2>1. next \in Run /\ next.action = run.action /\ next.parent = run.parent
    BY <1>1, <1>3, <1>4 DEF Run
  <2>2. runs' = [runs EXCEPT ![w] = next]
    BY <1>4
  <2> HIDE DEF next
  <2>3. runs' \in [Workers -> Run \cup {None}] /\ RunsFit'
    BY <1>1, <2>1, <2>2 DEF RuntimeTypeOK, RunsFit
  <2>4. QED
    BY <1>2, <1>4, <2>3 DEF RuntimeTypeOK, Behind, CountsOnce
<1>5. CASE result.kind # "need" /\ runs' = [runs EXCEPT ![w] = None]
           /\ reports' = reports \cup Refined(run, result)
  <2> DEFINE r == [action |-> run.action, parent |-> run.parent,
                   new |-> After(run, result), kind |-> result.kind]
  <2>1. result.kind # "fatal" => r \in Report /\ Sound(r)
    BY <1>1, <1>5, ReportSound
  <2> HIDE DEF r, result
  <2>2. reports' \subseteq Report /\ (\A x \in reports' : Sound(x)) /\ reports \subseteq reports'
    <3>1. Refined(run, result) = IF result.kind = "fatal" THEN {} ELSE {r}
      BY DEF Refined, r
    <3>2. QED
      BY <1>5, <2>1, <3>1 DEF RuntimeTypeOK
  <2>3. runs' \in [Workers -> Run \cup {None}] /\ RunsFit'
    BY <1>5 DEF RuntimeTypeOK, RunsFit
  <2>4. block' \in Seq(reports') /\ taken' \in Seq(reports')
    BY <1>2, <2>2 DEF RuntimeTypeOK
  <2>5. QED
    BY <1>2, <2>2, <2>3, <2>4 DEF RuntimeTypeOK, Behind, CountsOnce
<1>6. QED
  BY <1>4, <1>5 DEF Attempt, Executed

LEMMA InvKept == RuntimeInv /\ [RuntimeNext]_runtimeVars => RuntimeInv'
<1> SUFFICES ASSUME RuntimeInv, [RuntimeNext]_runtimeVars PROVE RuntimeInv'
  OBVIOUS
<1> USE DEF RuntimeInv
<1>1. CASE Sign
  <2>1. signed' \subseteq Action /\ UNCHANGED <<current, tick, runs, reports, block, taken>>
    BY <1>1 DEF Sign, Action, RuntimeTypeOK, State
  <2>2. QED
    BY <2>1 DEF RuntimeTypeOK, RunsFit, Behind, CountsOnce
<1>2. ASSUME NEW w \in Workers, NEW a \in signed, Start(w, a) PROVE RuntimeInv'
  <2>1. PICK known \in SUBSET Names :
          runs' = [runs EXCEPT ![w] = [action |-> a, parent |-> current, known |-> known]]
    BY <1>2 DEF Start
  <2>2. [action |-> a, parent |-> current, known |-> known] \in Run
    BY DEF Run, RuntimeTypeOK
  <2>3. runs' \in [Workers -> Run \cup {None}] /\ RunsFit'
    BY <1>2, <2>1, <2>2 DEF RuntimeTypeOK, RunsFit, Start
  <2>4. QED
    BY <1>2, <2>3 DEF Start, RuntimeTypeOK, Behind, CountsOnce
<1>3. ASSUME NEW w \in Workers, Attempt(w) PROVE RuntimeInv'
  BY <1>3, AttemptKeeps
<1>4. CASE NewBlock
  <2>1. PICK batch \in SeqOf(reports, MaxBatch) : block' = batch
    BY <1>4 DEF NewBlock
  <2>2. block' \in Seq(reports)
    BY <2>1 DEF SeqOf
  <2>3. QED
    BY <1>4, <2>2 DEF NewBlock, RuntimeTypeOK, RunsFit, Behind, CountsOnce
<1>5. CASE Accumulate
  BY <1>5, AccumulateKeeps
<1>6. CASE UNCHANGED runtimeVars
  BY <1>6 DEF runtimeVars, RuntimeTypeOK, RunsFit, Behind, CountsOnce
<1>7. QED
  BY <1>1, <1>2, <1>3, <1>4, <1>5, <1>6 DEF RuntimeNext

\* The state, what was signed and every report are of their types.
THEOREM RuntimeTypeCorrect == RuntimeSpec => []RuntimeTypeOK
<1>1. RuntimeInv => RuntimeTypeOK
  BY DEF RuntimeInv
<1>2. QED
  BY <1>1, InvStart, InvKept, PTL DEF RuntimeSpec

\* No signature counts twice, whatever is run again, reported again or late.
THEOREM SignaturesCountOnce == RuntimeSpec => []CountsOnce
<1>1. RuntimeInv => CountsOnce
  BY DEF RuntimeInv
<1>2. QED
  BY <1>1, InvStart, InvKept, PTL DEF RuntimeSpec

-----------------------------------------------------------------------------
(* The refinement.                                                         *)

LEMMA LastTaken ==
  ASSUME NEW r, taken \in Seq(reports), taken' = Append(taken, r)
  PROVE  LastSigner' = IF r.kind = "applied" THEN r.action.sender ELSE LastSigner
<1> DEFINE IsApplied(i) == taken[i].kind = "applied"
           last == {i \in DOMAIN taken :
                      IsApplied(i) /\ \A j \in DOMAIN taken : IsApplied(j) => j <= i}
           next == Len(taken) + 1
<1>1. DOMAIN taken = 1..Len(taken) /\ Len(taken) \in Nat
  OBVIOUS
<1>2. DOMAIN taken' = 1..next /\ taken'[next] = r
      /\ \A i \in DOMAIN taken : taken'[i] = taken[i]
  OBVIOUS
<1>3. CASE r.kind = "applied"
  <2>1. last' = {next}
    BY <1>1, <1>2, <1>3
  <2>2. (CHOOSE i \in last' : TRUE) = next
    BY <2>1
  <2> HIDE DEF next
  <2>3. QED
    BY <1>2, <1>3, <2>1, <2>2 DEF LastSigner
<1>4. CASE r.kind # "applied"
  <2>1. last' = last
    BY <1>1, <1>2, <1>4
  <2>2. last # {} => (CHOOSE i \in last : TRUE) \in DOMAIN taken
    OBVIOUS
  <2>3. LastSigner = IF last = {} THEN None
                     ELSE taken[CHOOSE i \in last : TRUE].action.sender
    BY DEF LastSigner
  <2>4. LastSigner' = IF last' = {} THEN None
                      ELSE taken'[CHOOSE i \in last' : TRUE].action.sender
    BY DEF LastSigner
  <2> HIDE DEF last
  <2>5. QED
    BY <1>2, <1>4, <2>1, <2>2, <2>3, <2>4
<1>5. QED
  BY <1>3, <1>4

LEMMA TakenUnmoved == UNCHANGED taken => UNCHANGED LastSigner
BY DEF LastSigner

LEMMA InitialService == RuntimeInit => Service!JnsInit
<1>1. RuntimeInit => LastSigner = None
  BY DEF RuntimeInit, LastSigner
<1>2. QED
  BY <1>1 DEF RuntimeInit, Service!JnsInit

LEMMA StepService ==
  RuntimeInv /\ [RuntimeNext]_runtimeVars => [Service!JnsNext]_<<current.names, LastSigner>>
<1> SUFFICES ASSUME RuntimeInv, [RuntimeNext]_runtimeVars
             PROVE  [Service!JnsNext]_<<current.names, LastSigner>>
  OBVIOUS
<1>1. CASE UNCHANGED <<current, taken>>
  BY <1>1, TakenUnmoved
<1>2. CASE Accumulate /\ ~UNCHANGED <<current, taken>>
  <2> DEFINE r == Head(block)
             a == r.action
  <2>1. Fits(r) /\ current' = r.new /\ taken' = Append(taken, r)
    BY <1>2 DEF Accumulate
  <2>2. r \in Report /\ Sound(r) /\ r.parent = current /\ taken \in Seq(reports)
    BY <1>2, <2>1 DEF RuntimeInv, RuntimeTypeOK, Accumulate, Idle, Fits
  <2>3. a \in Action /\ a.sender \in Accounts /\ a.name \in Names /\ a.service \in Services
        /\ a.op \in {"claim", "bind"} /\ r.kind \in {"applied", "abort"}
    BY <2>2 DEF Report, Action
  <2>4. LastSigner' = IF r.kind = "applied" THEN a.sender ELSE LastSigner
    BY <2>1, <2>2, LastTaken
  <2> HIDE DEF a, r
  <2>5. CASE r.kind = "abort"
    BY <2>1, <2>2, <2>4, <2>5 DEF Sound
  <2>6. CASE r.kind = "applied"
    <3>1. Effect(a, current)
          /\ current'.names = [current.names EXCEPT ![a.name] =
                                [owner |-> a.sender, serviceId |-> a.service]]
      BY <2>1, <2>2, <2>6 DEF Sound, a
    <3>2. CASE a.op = "claim"
      <4>1. Service!Claim(a.sender, a.name, a.service)
        BY <3>1, <3>2, <2>4, <2>6 DEF Effect, Service!Claim, Service!ClaimCode
      <4>2. QED
        BY <4>1, <2>3 DEF Service!JnsNext
    <3>3. CASE a.op = "bind"
      <4>1. Service!Bind(a.sender, a.name, a.service)
        BY <3>1, <3>3, <2>4, <2>6 DEF Effect, Service!Bind, Service!BindCode
      <4>2. QED
        BY <4>1, <2>3 DEF Service!JnsNext
    <3>4. QED
      BY <3>2, <3>3, <2>3
  <2>7. QED
    BY <2>3, <2>5, <2>6
<1>3. QED
  BY <1>1, <1>2 DEF RuntimeNext, runtimeVars, Sign, Start, Attempt, NewBlock

\* The deployed service is the service applying one signed action at a time.
THEOREM ServiceImplemented == RuntimeSpec => ImplementsService
<1>1. QED
  BY InvStart, InvKept, InitialService, StepService, PTL
     DEF RuntimeSpec, ImplementsService, Service!JnsSpec, Service!jnsVars

-----------------------------------------------------------------------------
(* Induction, over sets: a set of naturals has a least member, so one that *)
(* holds 0 and the successor of each of its members holds them all.        *)

Smaller == {p \in Nat \X Nat : p[1] < p[2]}

LEMMA SmallerWellFounded == IsWellFoundedOn(Smaller, Nat)
<1>1. Smaller = OpToRel(<, Nat)
  BY DEF OpToRel, Smaller
<1>2. QED
  BY <1>1, NatLessThanWellFounded

LEMMA LeastNatural ==
  ASSUME NEW S \in SUBSET Nat, S # {}
  PROVE  \E n \in S : \A m \in S : n <= m
<1>1. PICK n \in S : \A m \in S : <<m, n>> \notin Smaller
  BY SmallerWellFounded, WFMin
<1>2. ASSUME NEW m \in S PROVE n <= m
  <2>1. <<m, n>> \in Nat \X Nat /\ <<m, n>> \notin Smaller
    BY <1>1
  <2>2. QED
    BY <2>1 DEF Smaller
<1>3. QED
  BY <1>2

LEMMA AllNaturals ==
  ASSUME NEW S, 0 \in S, \A n \in Nat : n \in S => n + 1 \in S
  PROVE  \A n \in Nat : n \in S
<1>1. SUFFICES ASSUME Nat \ S # {} PROVE FALSE
  OBVIOUS
<1>2. PICK n \in Nat \ S : \A m \in Nat \ S : n <= m
  BY <1>1, LeastNatural
<1>3. n # 0 /\ n - 1 \in Nat /\ (n - 1) + 1 = n
  BY <1>2
<1>4. n - 1 \in S
  BY <1>2, <1>3
<1>5. QED
  BY <1>2, <1>3, <1>4

-----------------------------------------------------------------------------
(* The search of a view.                                                   *)

\* The turns of a search are those of a function that takes them in order.
LEMMA SearchRuns ==
  ASSUME NEW entries, Len(entries) \in Nat, NEW key
  PROVE  \E w : /\ w[0] = [low |-> 1, high |-> Len(entries) + 1]
                /\ \A turn \in 1..Len(entries) : w[turn] = Turn(entries, key, w[turn - 1])
                /\ Find(entries, key) = w[Len(entries)].low
<1> DEFINE First == [low |-> 1, high |-> Len(entries) + 1]
           Body(w, n) == [turn \in 0..n |->
             IF turn = 0 THEN First ELSE Turn(entries, key, w[turn - 1])]
           Runs == {n \in Nat : \E w : w = Body(w, n)}
           Window == CHOOSE w : w = Body(w, Len(entries))
<1>1. 0 \in Runs
  <2>1. [turn \in 0..0 |-> First] = Body([turn \in 0..0 |-> First], 0)
    OBVIOUS
  <2>2. QED
    BY <2>1
<1>2. ASSUME NEW n \in Nat, n \in Runs PROVE n + 1 \in Runs
  <2>1. PICK w : w = Body(w, n)
    BY <1>2
  <2> DEFINE longer == [turn \in 0..n + 1 |-> IF turn = n + 1 THEN Turn(entries, key, w[n]) ELSE w[turn]]
  <2>2. ASSUME NEW turn \in 0..n + 1
        PROVE  longer[turn] = IF turn = 0 THEN First ELSE Turn(entries, key, longer[turn - 1])
    <3> HIDE DEF First
    <3>1. CASE turn = n + 1
      BY <3>1
    <3>2. CASE turn \in 1..n
      <4>1. w[turn] = Turn(entries, key, w[turn - 1])
        BY <2>1, <3>2
      <4>2. QED
        BY <3>2, <4>1
    <3>3. CASE turn = 0
      BY <2>1, <3>3
    <3>4. QED
      BY <3>1, <3>2, <3>3
  <2>3. longer = Body(longer, n + 1)
    <3> DEFINE other == Body(longer, n + 1)
    <3>1. other = [turn \in 0..n + 1 |-> other[turn]] /\ longer = [turn \in 0..n + 1 |-> longer[turn]]
      OBVIOUS
    <3>2. \A turn \in 0..n + 1 : other[turn] = longer[turn]
      BY <2>2
    <3> HIDE DEF other, longer
    <3>3. longer = other
      BY <3>1, <3>2
    <3>4. QED
      BY <3>3 DEF other
  <2> HIDE DEF longer, Body
  <2>4. QED
    BY <2>3
<1>3. Len(entries) \in Runs
  <2> HIDE DEF Runs
  <2>1. QED
    BY <1>1, <1>2, AllNaturals
<1>4. Window = Body(Window, Len(entries))
  <2> HIDE DEF Body
  <2>1. QED
    BY <1>3
<1>5. Find(entries, key) = Window[Len(entries)].low
  BY Zenon DEF Find
<1>6. QED
  <2> HIDE DEF Window, First
  <2>1. Window[0] = First /\ \A turn \in 1..Len(entries) : Window[turn] = Turn(entries, key, Window[turn - 1])
    BY <1>4
  <2>2. QED
    BY <1>5, <2>1 DEF First

\* The entries of a view: a sequence of keys that are integers, in order.
IsView(entries) ==
  /\ Len(entries) \in Nat /\ DOMAIN entries = 1..Len(entries)
  /\ \A i \in DOMAIN entries : entries[i].key \in Int
  /\ Ascending(entries)

LEMMA KeysAscend ==
  ASSUME NEW entries, IsView(entries), NEW i \in DOMAIN entries, NEW j \in DOMAIN entries, i < j
  PROVE  entries[i].key < entries[j].key
<1> DEFINE n == Len(entries)
           Key(k) == entries[k].key
           Apart == {d \in Nat : \A k \in 1..n : k + d + 1 \in 1..n => Key(k) < Key(k + d + 1)}
<1>1. n \in Nat /\ DOMAIN entries = 1..n /\ (\A k \in 1..n : Key(k) \in Int)
      /\ \A k \in 1..n - 1 : Key(k) < Key(k + 1)
  BY DEF IsView, Ascending
<1> HIDE DEF n, Key
<1>2. 0 \in Apart
  BY <1>1
<1>3. ASSUME NEW d \in Nat, d \in Apart PROVE d + 1 \in Apart
  <2> SUFFICES ASSUME NEW k \in 1..n, k + (d + 1) + 1 \in 1..n PROVE Key(k) < Key(k + (d + 1) + 1)
    OBVIOUS
  <2>1. k + d + 1 \in 1..n - 1 /\ k + (d + 1) + 1 = (k + d + 1) + 1
    BY <1>1
  <2>2. k + d + 1 \in 1..n /\ (k + d + 1) + 1 \in 1..n
    BY <1>1, <2>1
  <2>3. Key(k) < Key(k + d + 1)
    BY <1>3, <2>2
  <2>4. Key(k + d + 1) < Key((k + d + 1) + 1)
    BY <1>1, <2>1
  <2>5. Key(k) \in Int /\ Key(k + d + 1) \in Int /\ Key((k + d + 1) + 1) \in Int
    BY <1>1, <2>2
  <2>6. QED
    BY <2>1, <2>3, <2>4, <2>5
<1>4. \A d \in Nat : d \in Apart
  <2> HIDE DEF Apart
  <2>1. QED
    BY <1>2, <1>3, AllNaturals
<1>5. (j - i) - 1 \in Nat /\ i \in 1..n /\ i + ((j - i) - 1) + 1 = j
  <2>1. n \in Nat /\ i \in 1..n /\ j \in 1..n
    BY <1>1
  <2>2. QED
    BY <2>1
<1>6. Key(i) < Key(j)
  BY <1>1, <1>4, <1>5
<1>7. QED
  BY <1>6 DEF Key

\* Where a search is: the key is not below low and not above high, and after
\* each turn less is left than there were turns to come.
Narrowed(entries, key, w, left) ==
  /\ w.low \in 1..Len(entries) + 1 /\ w.high \in 1..Len(entries) + 1
  /\ w.low <= w.high /\ w.high - w.low <= left
  /\ \A i \in DOMAIN entries : /\ i < w.low => entries[i].key < key
                               /\ i >= w.high => key <= entries[i].key

LEMMA MiddleIsBetween ==
  ASSUME NEW low \in Int, NEW high \in Int, low < high
  PROVE  /\ low + (high - low) \div 2 \in Int
         /\ low <= low + (high - low) \div 2 /\ low + (high - low) \div 2 < high
<1> DEFINE distance == high - low
           half == distance \div 2
<1>1. distance \in Nat /\ distance >= 1 /\ low + distance = high
  OBVIOUS
<1> HIDE DEF distance
<1>2. half \in Nat /\ half < distance
  BY <1>1
<1> HIDE DEF half
<1>3. low + half \in Int /\ low <= low + half /\ low + half < high
  BY <1>1, <1>2
<1>4. QED
  BY <1>3 DEF half, distance

LEMMA TurnNarrows ==
  ASSUME NEW entries, IsView(entries), NEW key \in Int, NEW w, NEW left \in Nat,
         w = [low |-> w.low, high |-> w.high], Narrowed(entries, key, w, left + 1)
  PROVE  LET after == Turn(entries, key, w) IN
         Narrowed(entries, key, after, left) /\ after = [low |-> after.low, high |-> after.high]
<1> DEFINE middle == w.low + (w.high - w.low) \div 2
           after == Turn(entries, key, w)
<1>1. /\ Len(entries) \in Nat /\ DOMAIN entries = 1..Len(entries)
      /\ \A i \in DOMAIN entries : entries[i].key \in Int
      /\ w.low \in 1..Len(entries) + 1 /\ w.high \in 1..Len(entries) + 1
      /\ w.low <= w.high /\ w.high - w.low <= left + 1
      /\ \A i \in DOMAIN entries : /\ i < w.low => entries[i].key < key
                                   /\ i >= w.high => key <= entries[i].key
  BY DEF IsView, Narrowed
<1>a. /\ \A low : [w EXCEPT !.low = low] = [low |-> low, high |-> w.high]
      /\ \A high : [w EXCEPT !.high = high] = [low |-> w.low, high |-> high]
  <2>1. PICK l, h : w = [low |-> l, high |-> h]
    OBVIOUS
  <2>2. QED
    BY <2>1
<1>2. CASE w.low >= w.high
  <2>1. after = w
    BY <1>2 DEF Turn
  <2>2. QED
    BY <1>1, <1>2, <2>1 DEF Narrowed
<1>3. CASE w.low < w.high
  <2>t. after = IF entries[middle].key < key THEN [w EXCEPT !.low = middle + 1]
                ELSE [w EXCEPT !.high = middle]
    <3>1. ~(w.low >= w.high)
      BY <1>1, <1>3
    <3>2. QED
      BY <3>1 DEF Turn
  <2>1. middle \in Int /\ w.low <= middle /\ middle < w.high /\ middle \in DOMAIN entries
    <3>1. w.low \in Int /\ w.high \in Int
      BY <1>1
    <3>2. middle \in Int /\ w.low <= middle /\ middle < w.high
      BY <1>3, <3>1, MiddleIsBetween
    <3>3. /\ 1 <= w.low /\ w.high <= Len(entries) + 1
          /\ DOMAIN entries = 1..Len(entries) /\ Len(entries) \in Nat
      BY <1>1
    <3> HIDE DEF middle
    <3>4. QED
      BY <3>1, <3>2, <3>3
  <2>k. entries[middle].key \in Int
    BY <1>1, <2>1
  <2>2. CASE entries[middle].key < key
    <3>1. after = [low |-> middle + 1, high |-> w.high]
      <4>1. after = [w EXCEPT !.low = middle + 1]
        BY <2>t, <2>2
      <4>2. QED
        BY <1>a, <4>1
    <3> HIDE DEF middle, after
    <3>2. ASSUME NEW i \in DOMAIN entries, i < middle + 1 PROVE entries[i].key < key
      <4>1. CASE i = middle
        BY <2>2, <4>1
      <4>2. CASE i < middle
        <5>1. entries[i].key < entries[middle].key
          BY <2>1, <4>2, KeysAscend
        <5>2. entries[i].key \in Int
          BY <1>1
        <5>3. QED
          BY <2>k, <2>2, <5>1, <5>2
      <4>3. i \in Int /\ middle \in Int
        BY <1>1, <2>1
      <4>4. QED
        BY <3>2, <4>1, <4>2, <4>3
    <3>3. after.low = middle + 1 /\ after.high = w.high
      BY <3>1
    <3>4. Narrowed(entries, key, after, left)
      BY <1>1, <2>1, <3>2, <3>3 DEF Narrowed
    <3>5. QED
      BY <3>1, <3>3, <3>4 DEF after
  <2>3. CASE ~(entries[middle].key < key)
    <3>1. after = [low |-> w.low, high |-> middle]
      <4>1. after = [w EXCEPT !.high = middle]
        BY <2>t, <2>3
      <4>2. QED
        BY <1>a, <4>1
    <3> HIDE DEF middle, after
    <3>2. ASSUME NEW i \in DOMAIN entries, i >= middle PROVE key <= entries[i].key
      <4>1. CASE i = middle
        BY <2>k, <2>3, <4>1
      <4>2. CASE middle < i
        <5>1. entries[middle].key < entries[i].key
          BY <2>1, <4>2, KeysAscend
        <5>2. entries[i].key \in Int
          BY <1>1
        <5>3. QED
          BY <2>k, <2>3, <5>1, <5>2
      <4>3. i \in Int /\ middle \in Int
        BY <1>1, <2>1
      <4>4. QED
        BY <3>2, <4>1, <4>2, <4>3
    <3>3. after.low = w.low /\ after.high = middle
      BY <3>1
    <3>4. Narrowed(entries, key, after, left)
      BY <1>1, <2>1, <3>2, <3>3 DEF Narrowed
    <3>5. QED
      BY <3>1, <3>3, <3>4 DEF after
  <2>4. QED
    BY <2>2, <2>3
<1>4. QED
  BY <1>1, <1>2, <1>3

\* Whatever key of the view is looked for, the search finds it.
LEMMA SearchFinds ==
  ASSUME NEW entries, IsView(entries), NEW j \in DOMAIN entries
  PROVE  Has(entries, entries[j].key)
<1> DEFINE key == entries[j].key
           n == Len(entries)
<1>1. /\ n \in Nat /\ DOMAIN entries = 1..n /\ key \in Int
      /\ \A i \in DOMAIN entries : entries[i].key \in Int
  BY DEF IsView
<1>2. PICK w : /\ w[0] = [low |-> 1, high |-> n + 1]
               /\ \A turn \in 1..n : w[turn] = Turn(entries, key, w[turn - 1])
               /\ Find(entries, key) = w[n].low
  BY <1>1, SearchRuns
<1> HIDE DEF key, n
<1> DEFINE At(turn) == /\ Narrowed(entries, key, w[turn], n - turn)
                       /\ w[turn] = [low |-> w[turn].low, high |-> w[turn].high]
           Turns == {turn \in Nat : turn <= n => At(turn)}
<1>3. 0 \in Turns
  BY <1>1, <1>2 DEF Narrowed, n
<1>4. ASSUME NEW turn \in Nat, turn \in Turns PROVE turn + 1 \in Turns
  <2> SUFFICES ASSUME turn + 1 <= n PROVE At(turn + 1)
    OBVIOUS
  <2>1. At(turn) /\ (n - (turn + 1)) \in Nat /\ (n - (turn + 1)) + 1 = n - turn
        /\ turn + 1 \in 1..n /\ (turn + 1) - 1 = turn
    BY <1>1, <1>4
  <2>2. w[turn + 1] = Turn(entries, key, w[turn])
    BY <1>2, <2>1
  <2>3. Narrowed(entries, key, w[turn], (n - (turn + 1)) + 1)
    BY <2>1
  <2> DEFINE left == n - (turn + 1)
  <2>4. /\ left \in Nat /\ Narrowed(entries, key, w[turn], left + 1) /\ key \in Int
        /\ w[turn] = [low |-> w[turn].low, high |-> w[turn].high]
    BY <1>1, <2>1, <2>3
  <2> HIDE DEF left, At, Turns
  <2>5. /\ Narrowed(entries, key, w[turn + 1], left)
        /\ w[turn + 1] = [low |-> w[turn + 1].low, high |-> w[turn + 1].high]
    <3>1. LET after == Turn(entries, key, w[turn]) IN
          Narrowed(entries, key, after, left) /\ after = [low |-> after.low, high |-> after.high]
      BY <2>4, TurnNarrows
    <3>2. QED
      BY <2>2, <3>1
  <2>6. QED
    BY <2>5 DEF left, At
<1>5. n \in Turns
  <2> HIDE DEF Turns
  <2>1. QED
    BY <1>1, <1>3, <1>4, AllNaturals
<1>6. Narrowed(entries, key, w[n], 0)
  BY <1>1, <1>5
<1> DEFINE low == w[n].low
<1>7. /\ low \in 1..n + 1
      /\ \A i \in DOMAIN entries : /\ i < low => entries[i].key < key
                                   /\ i >= low => key <= entries[i].key
  BY <1>1, <1>6 DEF Narrowed, n
<1> HIDE DEF low
<1>8. low <= j /\ low \in DOMAIN entries
  <2>1. ~(entries[j].key < key) /\ j \in Int
    BY <1>1 DEF key
  <2>2. ~(j < low)
    BY <1>7, <2>1
  <2>3. QED
    BY <1>1, <1>7, <2>1, <2>2
<1>9. entries[low].key = key
  <2>1. key <= entries[low].key
    <3>1. low >= low
      BY <1>7
    <3>2. QED
      BY <1>7, <1>8, <3>1
  <2>2. low # j => entries[low].key < entries[j].key
    BY <1>1, <1>7, <1>8, KeysAscend
  <2>3. QED
    BY <1>1, <1>8, <2>1, <2>2 DEF key
<1>10. QED
  BY <1>2, <1>8, <1>9 DEF Has, low, key

-----------------------------------------------------------------------------
(* A finite set of names can be put in order, and a view holds all of it.  *)

Ordered(keys) == \A i, j \in DOMAIN keys : i < j => keys[i] < keys[j]

LEMMA Greatest ==
  ASSUME NEW known \in SUBSET Names, known # {}
  PROVE  \E m \in known : \A n \in known : n <= m
<1> DEFINE Top(s) == \E m \in s : \A n \in s : n <= m
           Sizes == {k \in Nat : \A s \in SUBSET Names : Cardinality(s) = k + 1 => Top(s)}
<1>1. \A s \in SUBSET Names : IsFiniteSet(s) /\ Cardinality(s) \in Nat
  BY FS_Subset, FS_CardinalityType
<1>2. 0 \in Sizes
  <2>1. ASSUME NEW s \in SUBSET Names, Cardinality(s) = 1 PROVE Top(s)
    <3>1. PICK x : s = {x}
      BY <1>1, <2>1, FS_Singleton
    <3>2. QED
      BY <3>1
  <2>2. QED
    BY <2>1
<1>3. ASSUME NEW k \in Nat, k \in Sizes PROVE k + 1 \in Sizes
  <2> SUFFICES ASSUME NEW s \in SUBSET Names, Cardinality(s) = (k + 1) + 1 PROVE Top(s)
    OBVIOUS
  <2> s # {}
    <3>1. Cardinality({}) = 0
      BY FS_EmptySet
    <3>2. (k + 1) + 1 # 0
      OBVIOUS
    <3>3. QED
      BY <3>1, <3>2
  <2>1. PICK x \in s : TRUE
    OBVIOUS
  <2>2. Cardinality(s \ {x}) = k + 1
    BY <1>1, <2>1, FS_RemoveElement
  <2>3. PICK m \in s \ {x} : \A n \in s \ {x} : n <= m
    BY <1>3, <2>2
  <2>4. CASE x <= m
    BY <2>3, <2>4
  <2>5. CASE m < x
    <3>1. \A n \in s : n <= x
      BY <2>1, <2>3, <2>5
    <3>2. QED
      BY <2>1, <3>1
  <2>6. QED
    BY <2>3, <2>4, <2>5
<1>4. PICK k \in Nat : Cardinality(known) = k + 1
  <2>1. Cardinality(known) # 0
    BY <1>1, FS_EmptySet
  <2>2. Cardinality(known) - 1 \in Nat /\ Cardinality(known) = (Cardinality(known) - 1) + 1
    BY <1>1, <2>1
  <2>3. QED
    BY <2>2
<1>5. k \in Sizes
  <2> HIDE DEF Sizes
  <2>1. QED
    BY <1>2, <1>3, AllNaturals
<1>6. QED
  BY <1>4, <1>5

LEMMA OrderExists ==
  ASSUME NEW known \in SUBSET Names
  PROVE  \E keys \in [1..Cardinality(known) -> known] : Ordered(keys)
<1> DEFINE Can(s, k) == \E keys \in [1..k -> s] : Ordered(keys)
           Sizes == {k \in Nat : \A s \in SUBSET Names : Cardinality(s) = k => Can(s, k)}
<1>1. \A s \in SUBSET Names : IsFiniteSet(s) /\ Cardinality(s) \in Nat
  BY FS_Subset, FS_CardinalityType
<1>2. 0 \in Sizes
  <2>1. ASSUME NEW s \in SUBSET Names PROVE Can(s, 0)
    <3>1. << >> \in [1..0 -> s] /\ Ordered(<< >>)
      BY DEF Ordered
    <3>2. QED
      BY <3>1
  <2>2. QED
    BY <2>1
<1>3. ASSUME NEW k \in Nat, k \in Sizes PROVE k + 1 \in Sizes
  <2> SUFFICES ASSUME NEW s \in SUBSET Names, Cardinality(s) = k + 1 PROVE Can(s, k + 1)
    OBVIOUS
  <2>1. s # {}
    <3>1. Cardinality({}) = 0
      BY FS_EmptySet
    <3>2. k + 1 # 0
      OBVIOUS
    <3>3. QED
      BY <3>1, <3>2
  <2>2. PICK m \in s : \A n \in s : n <= m
    BY <2>1, Greatest
  <2>3. Cardinality(s \ {m}) = k
    <3>1. Cardinality(s \ {m}) = Cardinality(s) - 1
      BY <1>1, FS_RemoveElement
    <3>2. QED
      BY <3>1
  <2>4. PICK keys \in [1..k -> s \ {m}] : Ordered(keys)
    BY <1>3, <2>3
  <2> DEFINE longer == [i \in 1..k + 1 |-> IF i = k + 1 THEN m ELSE keys[i]]
  <2>5. \A i \in 1..k : i \in 1..k + 1 /\ i # k + 1
  OBVIOUS
  <2>6. \A i \in 1..k + 1 : i = k + 1 \/ i \in 1..k
    OBVIOUS
  <2>7. longer \in [1..k + 1 -> s]
    BY <2>4, <2>6
  <2>8. ASSUME NEW i \in 1..k PROVE keys[i] < m
    <3>1. keys[i] \in s /\ keys[i] # m
      BY <2>4
    <3>2. keys[i] <= m
      BY <2>2, <3>1
    <3>3. keys[i] \in Int /\ m \in Int
      BY <2>2, <3>1, RuntimeAssumption
    <3>4. QED
      BY <3>1, <3>2, <3>3
  <2>9. ASSUME NEW i \in 1..k + 1, NEW j \in 1..k + 1, i < j PROVE longer[i] < longer[j]
    <3>1. i \in 1..k /\ longer[i] = keys[i]
      BY <2>9
    <3>2. CASE j = k + 1
      BY <2>8, <3>1, <3>2
    <3>3. CASE j \in 1..k
      BY <2>4, <2>9, <3>1, <3>3 DEF Ordered
    <3>4. QED
      BY <2>6, <3>2, <3>3
  <2>10. Ordered(longer)
    BY <2>9 DEF Ordered
  <2>11. QED
    BY <2>7, <2>10
<1>4. Cardinality(known) \in Sizes
  <2> HIDE DEF Sizes
  <2>1. QED
    BY <1>1, <1>2, <1>3, AllNaturals
<1>5. QED
  BY <1>4

LEMMA OrderHoldsAll ==
  ASSUME NEW known \in SUBSET Names
  PROVE  /\ Cardinality(known) \in Nat /\ InOrder(known) \in [1..Cardinality(known) -> known]
         /\ \A n \in known : \E i \in 1..Cardinality(known) : InOrder(known)[i] = n
<1> DEFINE keys == InOrder(known)
           k == Cardinality(known)
<1>1. IsFiniteSet(known) /\ k \in Nat
  BY FS_Subset, FS_CardinalityType
<1>2. keys \in [1..k -> known] /\ Ordered(keys)
  BY OrderExists DEF InOrder, Ordered
<1>3. Cardinality(1..k) = k /\ IsFiniteSet(1..k)
  BY <1>1, FS_Interval
<1> HIDE DEF keys
<1>4. keys \in Injection(1..k, known)
  <2>1. ASSUME NEW i \in 1..k, NEW j \in 1..k, keys[i] = keys[j] PROVE i = j
    <3>1. keys[i] \in Int
      BY <1>2
    <3>2. ~(i < j) /\ ~(j < i)
      BY <1>2, <2>1, <3>1 DEF Ordered
    <3>3. QED
      BY <3>2
  <2>2. QED
    BY <1>2, <2>1 DEF Injection, IsInjective
<1>5. keys \in Surjection(1..k, known)
  BY <1>1, <1>3, <1>4, FS_Injection
<1>6. QED
  BY <1>1, <1>2, <1>5 DEF Surjection, keys

LEMMA ViewKnows ==
  ASSUME NEW s \in State, NEW known \in SUBSET Names, NEW n \in known,
         Ascending(View(s, known))
  PROVE  Known(View(s, known), <<>>, n)
<1> DEFINE v == View(s, known)
           k == Cardinality(known)
<1>1. /\ k \in Nat /\ InOrder(known) \in [1..k -> known]
      /\ \E i \in 1..k : InOrder(known)[i] = n
  BY OrderHoldsAll
<1>2. DOMAIN v = 1..k /\ Len(v) = k /\ \A i \in 1..k : v[i].key = InOrder(known)[i]
  BY <1>1 DEF View, KeyAndValue
<1> HIDE DEF v
<1>3. IsView(v)
  BY <1>1, <1>2 DEF IsView, v
<1>4. PICK i \in DOMAIN v : v[i].key = n
  BY <1>1, <1>2
<1>5. Has(v, n)
  BY <1>3, <1>4, SearchFinds
<1>6. QED
  BY <1>5 DEF Known, v

LEMMA AsksForUnknown ==
  ASSUME NEW a \in Action, NEW base, ScriptResult(a, base).kind = "need"
  PROVE  Ascending(base) /\ ~Known(base, <<>>, a.name)
<1>1. Ascending(base)
  BY DEF ScriptResult, Fatal
<1>2. CASE a.op = "claim"
  <2>1. ScriptResult(a, base) = ExecuteClaim(a, base)
    BY <1>1, <1>2 DEF ScriptResult
  <2>2. QED
    BY <1>1, <2>1 DEF ExecuteClaim, Set, Abort, Applied
<1>3. CASE a.op # "claim"
  <2>1. ScriptResult(a, base) = ExecuteBind(a, base)
    BY <1>1, <1>3 DEF ScriptResult
  <2>2. QED
    BY <1>1, <2>1 DEF ExecuteBind, Set, Abort, Applied
<1>4. QED
  BY <1>2, <1>3

\* A run never asks again for a name it was given: the binary search finds
\* every key of a view in order, and a view out of order ends the run.
THEOREM RunsAskForMore == RuntimeSpec => []AsksForMore
<1>1. ASSUME RuntimeTypeOK, NEW w \in Workers, runs[w] # None, Executed(runs[w]).kind = "need"
      PROVE  Executed(runs[w]).key \in Names \ runs[w].known
  <2>1. PICK r \in Run : r = runs[w]
    BY <1>1 DEF RuntimeTypeOK
  <2>2. r.action \in Action /\ r.parent \in State /\ r.known \in SUBSET Names /\ r.action.name \in Names
    BY DEF Run, Action
  <2> DEFINE result == ScriptResult(r.action, View(r.parent, r.known))
  <2>3. Executed(runs[w]) = result /\ result.kind = "need"
    BY <1>1, <2>1 DEF Executed
  <2>4. result.key = r.action.name
    BY <2>2, <2>3, Outcome
  <2>5. /\ Ascending(View(r.parent, r.known))
        /\ ~Known(View(r.parent, r.known), <<>>, r.action.name)
    BY <2>2, <2>3, AsksForUnknown
  <2>6. r.action.name \notin r.known
    BY <2>2, <2>5, ViewKnows
  <2> HIDE DEF result
  <2>7. QED
    BY <2>1, <2>2, <2>3, <2>4, <2>6
<1>2. RuntimeTypeOK => AsksForMore
  BY <1>1 DEF AsksForMore
<1>3. QED
  BY <1>2, RuntimeTypeCorrect, PTL
=============================================================================
