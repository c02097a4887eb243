------------------------------ MODULE JnsService ------------------------------
(***************************************************************************)
(* The on-chain name registry, services/jns/src/service.ts: one map and    *)
(* two wallet-signed actions, applied one at a time.  A handler that       *)
(* aborts changes nothing; the code it aborts with is what the client is   *)
(* told.                                                                   *)
(***************************************************************************)

CONSTANTS
  Accounts,     \* wallets that may sign an action
  Names,        \* byte strings of at most 32 bytes
  ValidNames,   \* those validName accepts
  Services,     \* u32 service ids
  None          \* no entry under a name

VARIABLES
  names,        \* the map jns.names/v1
  sender        \* ctx.sender of the action applied last

jnsVars == <<names, sender>>

Entry == [owner: Accounts, serviceId: Services]

ASSUME NamesAssumption == ValidNames \subseteq Names
ASSUME NoEntryAssumption == None \notin Entry \cup Accounts

JnsInit ==
  /\ names = [n \in Names |-> None]
  /\ sender = None

\* Mutant: a taken name may be claimed again.
ClaimCodeRetaken(n) == IF n \notin ValidNames THEN 1 ELSE 0

\* Mutant: anyone may bind.
BindCodeOpen(a, n) ==
  IF n \notin ValidNames THEN 1 ELSE IF names[n] = None THEN 3 ELSE 0

\* What claim and bind abort with; 0 when they do not.
ClaimCode(n) ==
  IF n \notin ValidNames THEN 1 ELSE IF names[n] # None THEN 2 ELSE 0

BindCode(a, n) ==
  IF n \notin ValidNames THEN 1
  ELSE IF names[n] = None THEN 3
  ELSE IF names[n].owner # a THEN 4 ELSE 0

Claim(a, n, s) ==
  /\ ClaimCode(n) = 0
  /\ names' = [names EXCEPT ![n] = [owner |-> a, serviceId |-> s]]
  /\ sender' = a

Bind(a, n, s) ==
  /\ BindCode(a, n) = 0
  /\ names' = [names EXCEPT ![n] = [owner |-> names[n].owner, serviceId |-> s]]
  /\ sender' = a

JnsNext ==
  \E a \in Accounts, n \in Names, s \in Services : Claim(a, n, s) \/ Bind(a, n, s)

JnsSpec == JnsInit /\ [][JnsNext]_jnsVars

=============================================================================
