----------------------------- MODULE MiniJamDoom -----------------------------
(***************************************************************************)
(* The live DOOM runtime, MiniJamDoomRuntime.ts: calls that read the       *)
(* session from finalized storage, submit a Work to the DOOM service, wait *)
(* for it with LiveWorkRuntime.ts and read the session again.  Each await  *)
(* is a step, so calls of several tabs and accounts interleave.            *)
(*                                                                         *)
(* Outside src/ are the Work RPC and the node: a Work is carried out once, *)
(* fails or is never carried out, and what it did can be read as soon as   *)
(* its status says that it was imported.                                   *)
(***************************************************************************)
EXTENDS DoomService, Sequences

CONSTANTS
  Callers, AccountOf,     \* runtimes, and the account connected in each
  MaxWorks                \* Work items submitted

VARIABLES
  works,      \* operations of the Work RPC, in order of submission
  calls       \* the call each runtime is in

runtimeVars == <<works, calls>>
liveVars == <<serviceVars, runtimeVars>>

ASSUME MiniJamAssumption ==
  /\ AccountOf \in [Callers -> Principals] /\ MaxWorks \in Nat

Idle == [pc |-> "idle", q |-> None, work |-> 0, before |-> None, after |-> None]

LiveInit ==
  /\ DoomServiceInit
  /\ works = << >>
  /\ calls = [c \in Callers |-> Idle]

Become(c, call) == calls' = [calls EXCEPT ![c] = call]
Goto(c, pc) == Become(c, [calls[c] EXCEPT !.pc = pc])

\* mapError: the call rejects, with a code of errors.ts that no caller reads.
Fail(c) == Become(c, Idle)

\* The call resolves; of what it resolves with, executeTicks' is looked at.
Return(c, call) == Become(c, IF call.q.op = "execute" THEN [call EXCEPT !.pc = "returned"] ELSE Idle)

\* createSession, submitInput, executeTicks, finish; the middle two read the
\* state first.
Call(c, q) ==
  /\ calls[c].pc \in {"idle", "returned"}
  /\ q.account = AccountOf[c] /\ (q.op # "execute" <=> q.ticks = 0)
  /\ Become(c, [[Idle EXCEPT !.q = q] EXCEPT !.pc = IF q.op \in {"input", "execute"} THEN "before" ELSE "submit"])
  /\ UNCHANGED <<serviceVars, works>>

\* getState.
ReadBefore(c) ==
  LET state == states[calls[c].q.session] IN
  /\ calls[c].pc = "before"
  /\ \/ /\ state = None /\ Fail(c)
     \/ /\ state # None
        /\ Become(c, [[calls[c] EXCEPT !.pc = "submit"] EXCEPT !.before = state])
  /\ UNCHANGED <<serviceVars, works>>

\* LiveWorkRuntime.submit.
Submit(c) ==
  /\ calls[c].pc = "submit" /\ Len(works) < MaxWorks
  /\ works' = Append(works, [q |-> calls[c].q, status |-> "submitted"])
  /\ Become(c, [[calls[c] EXCEPT !.pc = "wait"] EXCEPT !.work = Len(works) + 1])
  /\ UNCHANGED serviceVars

\* statusOf.
StatusOfHasty(status) == IF status \in {"submitted", "failed"} THEN status ELSE "complete"

StatusOf(status) ==
  CASE status = "imported" -> "complete" [] status = "failed" -> "failed" [] OTHER -> "running"

\* LiveWorkRuntime.wait: the poll that finds the Work complete or failed; one
\* that finds it running only sleeps.
Wait(c) ==
  LET status == StatusOf(works[calls[c].work].status)  op == calls[c].q.op IN
  /\ calls[c].pc = "wait"
  /\ \/ /\ status = "failed" /\ Fail(c)
     \/ /\ status = "complete"
        /\ IF op = "input" THEN Return(c, calls[c]) ELSE Goto(c, "after")
  /\ UNCHANGED <<serviceVars, works>>

\* The wait times out; the Work goes on.
TimesOut(c) ==
  /\ calls[c].pc = "wait" /\ Fail(c)
  /\ UNCHANGED <<serviceVars, works>>

\* An RPC fails: of a poll too, which ends the wait.
RpcFails(c) ==
  /\ calls[c].pc \in {"before", "submit", "wait", "after", "result"}
  /\ Fail(c)
  /\ UNCHANGED <<serviceVars, works>>

\* The submission arrives and its answer does not.
AnswerLost(c) ==
  /\ calls[c].pc = "submit" /\ Len(works) < MaxWorks
  /\ works' = Append(works, [q |-> calls[c].q, status |-> "submitted"])
  /\ Fail(c)
  /\ UNCHANGED serviceVars

\* getState; the receipt that is recorded then is never read.
ReadAfter(c) ==
  LET call == calls[c]  state == states[call.q.session] IN
  /\ call.pc = "after"
  /\ \/ state = None /\ Fail(c)
     \/ /\ state # None
        /\ LET read == [call EXCEPT !.after = state] IN
           IF call.q.op = "finish" THEN Become(c, [read EXCEPT !.pc = "result"]) ELSE Return(c, read)
  /\ UNCHANGED <<serviceVars, works>>

\* finish reads the stored result and compares: another state, INVALID_RECEIPT.
ReadResult(c) ==
  LET stored == outcomes[calls[c].q.session] IN
  /\ calls[c].pc = "result"
  /\ IF stored # None /\ stored.final = calls[c].after THEN Return(c, calls[c]) ELSE Fail(c)
  /\ UNCHANGED <<serviceVars, works>>

\* The chain carries out a Work, or reports on its way.
SetStatus(i, status) == works' = [works EXCEPT ![i].status = status] /\ UNCHANGED calls
Import(i) == /\ works[i].status = "reported" /\ Dispatch(works[i].q) /\ SetStatus(i, "imported")
Report(i) == /\ works[i].status = "submitted" /\ SetStatus(i, "reported") /\ UNCHANGED serviceVars
WorkFails(i) == /\ works[i].status \in {"submitted", "reported"} /\ SetStatus(i, "failed") /\ UNCHANGED serviceVars

LiveNext ==
  \/ \E c \in Callers :
       \/ \E q \in Request : Call(c, q)
       \/ ReadBefore(c) \/ Submit(c) \/ Wait(c) \/ TimesOut(c) \/ RpcFails(c)
       \/ AnswerLost(c) \/ ReadAfter(c) \/ ReadResult(c)
  \/ \E i \in DOMAIN works : Report(i) \/ Import(i) \/ WorkFails(i)

LiveSpec == LiveInit /\ [][LiveNext]_liveVars

----------------------------------------------------------------------------
\* executeTicks tells the account a session is bound to no less than it has
\* done: the ticks between the two states it returns are at least those it
\* asked for, though other calls play the session meanwhile and the service
\* says nothing of a request it drops.  So it is for ticks that are a
\* uint32_t, in a session played for no more ticks than a uint32_t counts
\* and not called "ticks" or "tick": 2^32 ticks are read as none.
Counted(s) == Called[s] \notin {"ticks", "tick"} /\ played[s] < Word
Owed(q) == OwnerMatches(q) /\ q.ticks < Word /\ Counted(q.session)
ExecutionsCount ==
  \A c \in Callers :
    LET call == calls[c] IN
    call.pc = "returned" /\ call.q.op = "execute" /\ Owed(call.q)
      => call.after.tick >= call.before.tick + call.q.ticks
=============================================================================
