------------------------------- MODULE LiveNames -------------------------------
(***************************************************************************)
(* Names in live mode: JamNameService (src/jam/names.ts) over              *)
(* JamScriptJnsBackend (src/jam/jnsBackend.ts) and the JNS service.        *)
(*                                                                         *)
(* A call signs an action with the account connected at that moment, waits *)
(* for its receipt, and then resolves the name to have a record to return. *)
(* Between any two of these steps the user may switch accounts, and the    *)
(* chain may apply actions of other calls.  An action is applied or fails  *)
(* with a code; it may also be rejected, and the wait may end without a    *)
(* receipt while the action is still on its way.                           *)
(***************************************************************************)
EXTENDS JnsService, Naturals

CONSTANTS
  Calls,        \* strands of execution in which names are claimed and bound
  Foreign,      \* accounts that act without this client
  MaxIssued     \* bound on the number of calls made

VARIABLES
  connected,    \* the account adapter's current account, None when disconnected
  calls,        \* where each strand is
  inbox,        \* signed actions the chain has not dealt with
  issued        \* calls made so far

liveVars == <<names, sender, connected, calls, inbox, issued>>

ASSUME LiveAssumption == Foreign \subseteq Accounts /\ MaxIssued \in Nat

Outcomes == {"none", "recorded", "unauthorized", "taken", "not found", "not owner",
             "invalid", "rejected", "timeout"}
Item == [by: Calls, ticket: Nat, op: {"claim", "bind"}, account: Accounts,
         name: ValidNames, service: Services]
Call == [pc: {"idle", "signing", "waiting", "resolving", "done"}, ticket: Nat,
         op: {"claim", "bind"}, name: ValidNames \cup {None}, service: Services \cup {None},
         account: Accounts \cup {None}, outcome: Outcomes, record: Entry \cup {None}]

Fresh(pc, ticket, op, n, s) ==
  [pc |-> pc, ticket |-> ticket, op |-> op, name |-> n, service |-> s,
   account |-> None, outcome |-> "none", record |-> None]
Unused == Fresh("idle", 0, "claim", None, None)

LiveTypeOK ==
  /\ names \in [Names -> Entry \cup {None}]
  /\ sender \in Accounts \cup {None}
  /\ connected \in Accounts \cup {None}
  /\ calls \in [Calls -> Call]
  /\ inbox \subseteq Item
  /\ issued \in 0..MaxIssued

LiveInit ==
  /\ JnsInit
  /\ connected = None
  /\ calls = [c \in Calls |-> Unused]
  /\ inbox = {}
  /\ issued = 0

-----------------------------------------------------------------------------
(* The client. *)

\* The user connects, switches or disconnects the account.
Switch(a) ==
  /\ connected' = a
  /\ UNCHANGED <<names, sender, calls, inbox, issued>>

\* A name the client lets pass is one the service accepts.
Begin(c, op, n, s) ==
  /\ calls[c].pc \in {"idle", "done"}
  /\ issued < MaxIssued
  /\ issued' = issued + 1
  /\ calls' = [calls EXCEPT ![c] = Fresh("signing", issued + 1, op, n, s)]
  /\ UNCHANGED <<names, sender, connected, inbox>>

End(c, outcome) ==
  calls' = [calls EXCEPT ![c].pc = "done", ![c].outcome = outcome]

Sign(c) ==
  /\ calls[c].pc = "signing"
  /\ IF connected = None
       THEN End(c, "unauthorized") /\ UNCHANGED inbox
       ELSE /\ calls' = [calls EXCEPT ![c].pc = "waiting", ![c].account = connected]
            /\ inbox' = inbox \cup
                 {[by |-> c, ticket |-> calls[c].ticket, op |-> calls[c].op,
                   account |-> connected, name |-> calls[c].name,
                   service |-> calls[c].service]}
  /\ UNCHANGED <<names, sender, connected, issued>>

\* waitForAction gives up: the call fails, its action may still be applied.
GiveUp(c) ==
  /\ calls[c].pc = "waiting"
  /\ End(c, "timeout")
  /\ UNCHANGED <<names, sender, connected, inbox, issued>>

\* The record a call returns is a fresh query, made after the receipt.
Resolve(c) ==
  LET entry == names[calls[c].name] IN
  /\ calls[c].pc = "resolving"
  /\ IF entry = None
       THEN End(c, "not found")
       ELSE calls' = [calls EXCEPT ![c].pc = "done", ![c].outcome = "recorded",
                                   ![c].record = entry]
  /\ UNCHANGED <<names, sender, connected, inbox, issued>>

-----------------------------------------------------------------------------
(* The chain. *)

\* The call still waiting for item, if there is one, learns the outcome.
Awaited(item) ==
  calls[item.by].pc = "waiting" /\ calls[item.by].ticket = item.ticket

Settle(item, pc, outcome) ==
  /\ inbox' = inbox \ {item}
  /\ calls' = IF Awaited(item)
                THEN [calls EXCEPT ![item.by].pc = pc, ![item.by].outcome = outcome]
                ELSE calls
  /\ UNCHANGED <<connected, issued>>

Apply(item) ==
  /\ \/ item.op = "claim" /\ Claim(item.account, item.name, item.service)
     \/ item.op = "bind" /\ Bind(item.account, item.name, item.service)
  /\ Settle(item, "resolving", "none")

Code(item) ==
  IF item.op = "claim" THEN ClaimCode(item.name) ELSE BindCode(item.account, item.name)

\* Mutant: two error codes are mixed up.
OutcomeMixedUp(code) ==
  CASE code = 1 -> "invalid" [] code = 2 -> "taken"
    [] code = 3 -> "not owner" [] code = 4 -> "not found"

OutcomeOf(code) ==
  CASE code = 1 -> "invalid" [] code = 2 -> "taken"
    [] code = 3 -> "not found" [] code = 4 -> "not owner"

Abort(item) ==
  /\ Code(item) # 0
  /\ Settle(item, "done", OutcomeOf(Code(item)))
  /\ UNCHANGED <<names, sender>>

\* The action never runs: it is malformed, expired or out of gas.
RejectAction(item) ==
  /\ Settle(item, "done", "rejected")
  /\ UNCHANGED <<names, sender>>

\* Anyone may claim and bind without this client.
ForeignAction ==
  /\ \E a \in Foreign, n \in Names, s \in Services : Claim(a, n, s) \/ Bind(a, n, s)
  /\ UNCHANGED <<connected, calls, inbox, issued>>

CallStep(c) == Sign(c) \/ Resolve(c)
ChainStep(item) == Apply(item) \/ Abort(item)

LiveNext ==
  \/ \E a \in Accounts \cup {None} : Switch(a)
  \/ \E c \in Calls :
       \/ \E op \in {"claim", "bind"}, n \in ValidNames, s \in Services : Begin(c, op, n, s)
       \/ CallStep(c)
       \/ GiveUp(c)
  \/ \E item \in inbox : ChainStep(item) \/ RejectAction(item)
  \/ ForeignAction

LiveSpec == LiveInit /\ [][LiveNext]_liveVars

-----------------------------------------------------------------------------
(* Properties *)

\* The registry under all this is the promised one.
Registry == INSTANCE NameRegistry WITH registry <- names, actor <- sender, Free <- None
ImplementsRegistry == Registry!Spec

\* A call that returns a record returns one of the account that signed, not
\* of whoever is connected by then and not of whoever was faster.
RecordsAreTheSigners ==
  \A c \in Calls : calls[c].outcome = "recorded" =>
    /\ calls[c].account # None
    /\ calls[c].record.owner = calls[c].account

\* After a receipt of success the name is found: "not found" is told only to
\* a bind that came before any claim was applied.
AppliedNamesResolve ==
  \A c \in Calls : calls[c].pc = "resolving" =>
    names[calls[c].name] # None /\ names[calls[c].name].owner = calls[c].account

\* "Name is already claimed" and "Only the name owner can bind it"
\* (src/jam/errors.ts:9,11) stay true after they are shown: nothing frees a
\* name or passes it on, so an answer cannot go stale in the user's hands.
ErrorsStayTrue ==
  \A c \in Calls :
    /\ calls[c].outcome = "taken" => names[calls[c].name] # None
    /\ calls[c].outcome = "not owner" =>
         names[calls[c].name] # None /\ names[calls[c].name].owner # calls[c].account

=============================================================================
