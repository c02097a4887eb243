------------------------------ MODULE JnsRuntime ------------------------------
(***************************************************************************)
(* The JNS Service as it is deployed, artifacts/jns/stage1: signed actions *)
(* run off chain against a state somebody read, and the chain takes over   *)
(* the resulting state if its own is still the one the run started from.   *)
(*                                                                         *)
(* A run sees part of the state and is repeated with more of it until it   *)
(* asks for nothing more.  A state stands for its root; names are integers *)
(* in the order of their keys.                                             *)
(***************************************************************************)
EXTENDS StateView, FiniteSets

CONSTANTS
  Accounts, Names, ValidNames, Services, None,
  Workers,      \* those who run signed actions off chain
  MaxSigned,    \* actions the wallets sign
  MaxTick,      \* blocks
  MaxBatch      \* reports dealt with in one block

VARIABLES
  current,      \* the state the chain has a commitment to
  tick,         \* the chain's clock
  signed,       \* what the wallets have signed
  runs,         \* what each worker is running
  reports,      \* the results of the runs, for the chain to take
  block,        \* reports the block being accumulated has still to deal with
  taken         \* the reports taken over so far, for the properties

runtimeVars == <<current, tick, signed, runs, reports, block, taken>>

Entry == [owner: Accounts, serviceId: Services]
State == [names: [Names -> Entry \cup {None}], nonce: [Accounts -> Nat]]
Action == [op: {"claim", "bind"}, sender: Accounts, nonce: Nat, name: Names,
           service: Services, validUntil: Nat]
Run == [action: Action, parent: State, known: SUBSET Names]
\* The chain reads the two roots and the deadline of the action.
Report == [action: Action, parent: State, new: State, kind: {"applied", "abort"}]

ASSUME RuntimeAssumption ==
  /\ Names \subseteq Int /\ IsFiniteSet(Names) /\ ValidNames \subseteq Names
  /\ None \notin Entry \cup Accounts \cup Run
  /\ MaxSigned \in Nat /\ MaxTick \in Nat /\ MaxBatch \in Nat

RuntimeTypeOK ==
  /\ current \in State
  /\ tick \in 0..MaxTick
  /\ signed \subseteq Action
  /\ runs \in [Workers -> Run \cup {None}]
  /\ reports \subseteq Report
  /\ block \in Seq(reports)
  /\ taken \in Seq(reports)

RuntimeInit ==
  /\ current = [names |-> [n \in Names |-> None], nonce |-> [a \in Accounts |-> 0]]
  /\ tick = 0
  /\ signed = {}
  /\ runs = [w \in Workers |-> None]
  /\ reports = {}
  /\ block = <<>>
  /\ taken = <<>>

-----------------------------------------------------------------------------
(* The two actions of the service, over the view they are given.           *)

InOrder(known) ==
  CHOOSE keys \in [1..Cardinality(known) -> known] :
    \A i, j \in DOMAIN keys : i < j => keys[i] < keys[j]

\* What the host hands over: the entries it knows, by key.
View(s, known) ==
  [i \in 1..Cardinality(known) |-> KeyAndValue(InOrder(known)[i], s.names[InOrder(known)[i]])]

ExecuteClaim(a, base) ==
  IF a.name \notin ValidNames THEN Abort(1)
  ELSE IF ~Known(base, <<>>, a.name) THEN NeedState(a.name)
  ELSE IF Get(base, <<>>, a.name) # None THEN Abort(2)
  ELSE Set(base, <<>>, a.name, [owner |-> a.sender, serviceId |-> a.service])

ExecuteBind(a, base) ==
  LET held == Get(base, <<>>, a.name) IN
  IF a.name \notin ValidNames THEN Abort(1)
  ELSE IF ~Known(base, <<>>, a.name) THEN NeedState(a.name)
  ELSE IF held = None THEN Abort(3)
  ELSE IF held.owner # a.sender THEN Abort(4)
  ELSE Set(base, <<>>, a.name, [owner |-> held.owner, serviceId |-> a.service])

ScriptResult(a, base) ==
  IF ~Ascending(base) THEN Fatal
  ELSE IF a.op = "claim" THEN ExecuteClaim(a, base) ELSE ExecuteBind(a, base)

-----------------------------------------------------------------------------
(* Off chain, between blocks. *)

Idle == block = <<>>

\* A wallet signs with the nonce its account has now.
Sign ==
  /\ Idle
  /\ Cardinality(signed) < MaxSigned
  /\ \E op \in {"claim", "bind"}, a \in Accounts, n \in Names, s \in Services,
        until \in tick + 1..MaxTick :
       signed' = signed \cup
         {[op |-> op, sender |-> a, nonce |-> current.nonce[a], name |-> n,
           service |-> s, validUntil |-> until]}
  /\ UNCHANGED <<current, tick, runs, reports, block, taken>>

\* A signed action is run, perhaps not for the first time, by one who knows
\* some of the state.  A nonce that is not the account's is rejected at once.
Start(w, a) ==
  /\ Idle
  /\ runs[w] = None
  /\ a.nonce = current.nonce[a.sender]
  /\ \E known \in SUBSET Names :
       runs' = [runs EXCEPT ![w] = [action |-> a, parent |-> current, known |-> known]]
  /\ UNCHANGED <<current, tick, signed, reports, block, taken>>

ApplyDiff(names, diff) ==
  [n \in Names |-> IF Has(diff, n) THEN diff[Find(diff, n)].value ELSE names[n]]

\* Mutant: the nonce is not written.
AfterForgettingNonce(r, result) ==
  [names |-> IF result.kind = "applied" THEN ApplyDiff(r.parent.names, result.diff)
                                        ELSE r.parent.names,
   nonce |-> r.parent.nonce]

\* The nonce is used up before the transaction that an abort rolls back.
After(r, result) ==
  [names |-> IF result.kind = "applied" THEN ApplyDiff(r.parent.names, result.diff)
                                        ELSE r.parent.names,
   nonce |-> [r.parent.nonce EXCEPT ![r.action.sender] = @ + 1]]

\* The action over the view, in a transaction of its own.
Executed(r) == ScriptResult(r.action, View(r.parent, r.known))

\* The report of a run, unless it ended in a native error.
Refined(r, result) ==
  {[action |-> r.action, parent |-> r.parent, new |-> After(r, result), kind |-> kind] :
     kind \in {result.kind} \ {"fatal"}}

\* One attempt: more state is asked for, or the run ends.
Attempt(w) ==
  LET r == runs[w]
      result == Executed(r)
  IN
  /\ Idle
  /\ r # None
  /\ \/ /\ result.kind = "need"
        /\ runs' = [runs EXCEPT ![w].known = @ \cup {result.key}]
        /\ UNCHANGED reports
     \/ /\ result.kind # "need"
        /\ runs' = [runs EXCEPT ![w] = None]
        /\ reports' = reports \cup Refined(r, result)
  /\ UNCHANGED <<current, tick, signed, block, taken>>

-----------------------------------------------------------------------------
(* On chain: minijam_accumulate. *)

\* A block brings some reports, in any order and not for the first time.
NewBlock ==
  /\ Idle
  /\ tick < MaxTick
  /\ \E batch \in SeqOf(reports, MaxBatch) \ {<<>>} : block' = batch
  /\ tick' = tick + 1
  /\ UNCHANGED <<current, signed, runs, reports, taken>>

\* Mutant: a report is taken whatever state it started from.
FitsAnyState(r) == tick <= r.action.validUntil

Fits(r) == r.parent = current /\ tick <= r.action.validUntil

\* One turn of the loop over the reports.
Accumulate ==
  /\ ~Idle
  /\ block' = Tail(block)
  /\ IF Fits(Head(block))
     THEN /\ current' = Head(block).new
          /\ taken' = Append(taken, Head(block))
     ELSE UNCHANGED <<current, taken>>
  /\ UNCHANGED <<tick, signed, runs, reports>>

-----------------------------------------------------------------------------
RuntimeNext ==
  \/ Sign
  \/ \E w \in Workers, a \in signed : Start(w, a)
  \/ \E w \in Workers : Attempt(w)
  \/ NewBlock
  \/ Accumulate

RuntimeSpec == RuntimeInit /\ [][RuntimeNext]_runtimeVars

-----------------------------------------------------------------------------
(* Properties. *)

\* A signature counts once: of everything taken over no two have the signer
\* and the nonce in common, however often they were run and reported
\* (generated_service.rs, the nonce in the state that parent_root commits to).
CountsOnce ==
  \A i, j \in DOMAIN taken :
    /\ taken[i].action.sender = taken[j].action.sender
    /\ taken[i].action.nonce = taken[j].action.nonce
    => i = j

\* The signer of the action applied last.
LastSigner ==
  LET IsApplied(i) == taken[i].kind = "applied"
      last == {i \in DOMAIN taken : IsApplied(i) /\ \A j \in DOMAIN taken : IsApplied(j) => j <= i}
  IN IF last = {} THEN None ELSE taken[CHOOSE i \in last : TRUE].action.sender

\* Runs on partial and outdated views, reports out of order and repeated,
\* come to the service applying one action at a time.
Service == INSTANCE JnsService WITH names <- current.names, sender <- LastSigner
ImplementsService == Service!JnsSpec

\* A run does not ask again for what it was given, and so is not repeated for
\* ever (needState, and the search of the view in stateGetRaw).
AsksForMore ==
  \A w \in Workers : runs[w] # None =>
    LET result == Executed(runs[w])
    IN result.kind = "need" => result.key \in Names \ runs[w].known

=============================================================================
