----------------------------- MODULE NameRegistry -----------------------------
(***************************************************************************)
(* What JNS promises (docs/PROTOCOL.md, "JNS"): a name has one owner, the  *)
(* first account that claimed it, for ever; only the owner says which      *)
(* service the name stands for.                                            *)
(***************************************************************************)

CONSTANTS Accounts, Names, Services,
          Free          \* no entry under a name

VARIABLES registry,     \* the entry of each name
          actor         \* the account that changed the registry last

vars == <<registry, actor>>

Entry == [owner: Accounts, serviceId: Services]

\* A registry may be found with names in it.
Init == registry \in [Names -> Entry \cup {Free}]

Claim(a, n, s) ==
  /\ registry[n] = Free
  /\ registry' = [registry EXCEPT ![n] = [owner |-> a, serviceId |-> s]]
  /\ actor' = a

Bind(a, n, s) ==
  /\ registry[n] # Free /\ registry[n].owner = a
  /\ registry' = [registry EXCEPT ![n].serviceId = s]
  /\ actor' = a

Next == \E a \in Accounts, n \in Names, s \in Services : Claim(a, n, s) \/ Bind(a, n, s)

Spec == Init /\ [][Next]_vars

=============================================================================
