---------------------------- MODULE OwnedComputer ----------------------------
(***************************************************************************)
(* What a Computer Service promises about its owner, and nothing else: the *)
(* first account to initialize it owns it for good, and from then on its   *)
(* content changes only by actions that account signed                     *)
(* (services/computer/README.md: "mutations are wallet-authorized and      *)
(* always compare ctx.sender with the immutable owner recorded by          *)
(* initialize").                                                           *)
(***************************************************************************)

CONSTANTS Accounts, None

VARIABLES
  owner,     \* the account that initialized the Computer, or None
  sender,    \* who signed the last action
  content    \* every record the service keeps

vars == <<owner, sender, content>>

Init == owner = None /\ sender = None

Claim(a) ==
  /\ owner = None
  /\ owner' = a
  /\ sender' = a

Update ==
  /\ owner # None
  /\ sender' = owner
  /\ UNCHANGED owner

Next == (\E a \in Accounts : Claim(a)) \/ Update

Spec == Init /\ [][Next]_vars

=============================================================================
