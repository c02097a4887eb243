---------------------------- MODULE LiveNamesProofs ----------------------------
(***************************************************************************)
(* What holds of names for any accounts, any names, any number of strands  *)
(* and any actors that do not use this client; of the bytes of a claim, for*)
(* any texts and ids; and of the shell, for any commands and paths.        *)
(***************************************************************************)
EXTENDS LiveNames, PreviewNames, NameWire, ShellSession,
        FiniteSetTheorems, SequenceTheorems, WellFoundedInduction, TLAPS

USE NamesAssumption, NoEntryAssumption, LiveAssumption

\* A step of the registry: by the service's own rules.
ServiceStep ==
  \E a \in Accounts, n \in Names, s \in Services : Claim(a, n, s) \/ Bind(a, n, s)

\* What a service step leaves of each entry: its owner, and the entry itself.
LEMMA EntriesStay ==
  ASSUME names \in [Names -> Entry \cup {None}],
         ServiceStep \/ UNCHANGED <<names, sender>>
  PROVE  /\ names' \in [Names -> Entry \cup {None}]
         /\ \A n \in Names : names[n] # None =>
              names'[n] # None /\ names'[n].owner = names[n].owner
<1>1. ASSUME NEW a \in Accounts, NEW n \in Names, NEW s \in Services, Claim(a, n, s)
      PROVE  /\ names' \in [Names -> Entry \cup {None}]
             /\ \A m \in Names : names[m] # None => names'[m] = names[m]
  <2>1. [owner |-> a, serviceId |-> s] \in Entry /\ names[n] = None
    BY <1>1 DEF Entry, Claim, ClaimCode
  <2>2. QED
    BY <1>1, <2>1 DEF Claim
<1>2. ASSUME NEW a \in Accounts, NEW n \in Names, NEW s \in Services, Bind(a, n, s)
      PROVE  /\ names' \in [Names -> Entry \cup {None}]
             /\ \A m \in Names : names[m] # None =>
                  names'[m] # None /\ names'[m].owner = names[m].owner
  <2> DEFINE bound == [owner |-> names[n].owner, serviceId |-> s]
  <2>1. names[n] \in Entry
    BY <1>2 DEF Bind, BindCode
  <2>2. bound \in Entry /\ bound # None /\ bound.owner = names[n].owner
    BY <2>1 DEF Entry
  <2>3. QED
    BY <1>2, <2>2 DEF Bind
<1>3. QED
  BY <1>1, <1>2 DEF ServiceStep

LEMMA AppliedIsServiceStep ==
  ASSUME LiveTypeOK, NEW item \in inbox, Apply(item)
  PROVE  ServiceStep
<1>1. item.account \in Accounts /\ item.name \in Names /\ item.service \in Services
  BY DEF LiveTypeOK, Item
<1>2. QED
  BY <1>1 DEF Apply, ServiceStep

\* The registry part of every step.
LEMMA StepOfRegistry ==
  ASSUME LiveTypeOK, [LiveNext]_liveVars
  PROVE  ServiceStep \/ UNCHANGED <<names, sender>>
<1>1. ASSUME NEW item \in inbox, ChainStep(item) \/ RejectAction(item)
      PROVE  ServiceStep \/ UNCHANGED <<names, sender>>
  BY <1>1, AppliedIsServiceStep DEF ChainStep, Abort, RejectAction
<1>2. CASE ForeignAction
  BY <1>2 DEF ForeignAction, ServiceStep
<1>3. QED
  BY <1>1, <1>2 DEF LiveNext, Switch, Begin, CallStep, Sign, Resolve, GiveUp, liveVars

-----------------------------------------------------------------------------
(* Types *)

\* A call that has begun is about a name the service accepts.
Begun ==
  \A c \in Calls : calls[c].pc # "idle" =>
    calls[c].name \in ValidNames /\ calls[c].service \in Services

Typed == LiveTypeOK /\ Begun

LEMMA FreshTyped ==
  /\ Unused \in Call
  /\ \A op \in {"claim", "bind"}, n \in ValidNames, s \in Services, t \in Nat :
       Fresh("signing", t, op, n, s) \in Call
BY DEF Unused, Fresh, Call, Outcomes

\* Calls change one at a time, each to a well-typed one.
LEMMA CallTyped ==
  ASSUME Typed, NEW c \in Calls, NEW new \in Call,
         new.pc # "idle" => new.name \in ValidNames /\ new.service \in Services,
         calls' = [calls EXCEPT ![c] = new]
  PROVE  calls' \in [Calls -> Call] /\ Begun'
BY DEF Typed, LiveTypeOK, Begun

LEMMA EndTyped ==
  ASSUME Typed, NEW c \in Calls, NEW outcome \in Outcomes,
         calls[c].pc # "idle", End(c, outcome)
  PROVE  calls' \in [Calls -> Call] /\ Begun'
<1> DEFINE new == [calls[c] EXCEPT !.pc = "done", !.outcome = outcome]
<1>1. new \in Call /\ new.name \in ValidNames /\ new.service \in Services
  BY DEF Typed, LiveTypeOK, Begun, Call
<1>2. calls' = [calls EXCEPT ![c] = new]
  BY DEF End, Typed, LiveTypeOK
<1>3. QED
  BY <1>1, <1>2, CallTyped

LEMMA SettleTyped ==
  ASSUME Typed, NEW item \in inbox, NEW pc \in {"resolving", "done"},
         NEW outcome \in Outcomes, Settle(item, pc, outcome)
  PROVE  calls' \in [Calls -> Call] /\ Begun' /\ inbox' \subseteq Item
<1> DEFINE c == item.by
           new == [calls[c] EXCEPT !.pc = pc, !.outcome = outcome]
<1>1. c \in Calls /\ inbox' \subseteq Item
  BY DEF Typed, LiveTypeOK, Item, Settle
<1>2. CASE Awaited(item)
  <2>1. new \in Call /\ new.name \in ValidNames /\ new.service \in Services
    <3>1. calls[c] \in Call /\ calls[c].name \in ValidNames /\ calls[c].service \in Services
      BY <1>1, <1>2 DEF Typed, LiveTypeOK, Begun, Awaited
    <3>2. QED
      BY <3>1 DEF Call
  <2>2. calls' = [calls EXCEPT ![c] = new]
    BY <1>1, <1>2 DEF Settle, Typed, LiveTypeOK
  <2>3. QED
    BY <1>1, <2>1, <2>2, CallTyped
<1>3. CASE ~Awaited(item)
  BY <1>1, <1>3 DEF Settle, Typed, LiveTypeOK, Begun
<1>4. QED
  BY <1>2, <1>3

LEMMA OutcomeTyped ==
  ASSUME NEW code \in {1, 2, 3, 4}
  PROVE  OutcomeOf(code) \in Outcomes
BY DEF OutcomeOf, Outcomes

LEMMA CodeTyped ==
  ASSUME NEW item \in Item
  PROVE  Code(item) \in 0..4
BY DEF Code, ClaimCode, BindCode

LEMMA StepTyped ==
  ASSUME Typed, LiveNext
  PROVE  Typed'
<1>n. names' \in [Names -> Entry \cup {None}] /\ sender' \in Accounts \cup {None}
  <2>1. ServiceStep \/ UNCHANGED <<names, sender>>
    BY StepOfRegistry DEF Typed
  <2>2. sender' \in Accounts \cup {None}
    BY <2>1 DEF ServiceStep, Claim, Bind, Typed, LiveTypeOK
  <2>3. QED
    BY <2>1, <2>2, EntriesStay DEF Typed, LiveTypeOK
<1>1. ASSUME NEW a \in Accounts \cup {None}, Switch(a)
      PROVE  Typed'
  BY <1>1, <1>n DEF Switch, Typed, LiveTypeOK, Begun
<1>2. ASSUME NEW c \in Calls, NEW op \in {"claim", "bind"}, NEW n \in ValidNames,
             NEW s \in Services, Begin(c, op, n, s)
      PROVE  Typed'
  <2> DEFINE new == Fresh("signing", issued + 1, op, n, s)
  <2>1. issued \in 0..MaxIssued /\ MaxIssued \in Nat /\ issued < MaxIssued
    BY <1>2 DEF Typed, LiveTypeOK, Begin
  <2>2. new \in Call /\ issued + 1 \in 0..MaxIssued
    BY <2>1, FreshTyped
  <2>3. new.name \in ValidNames /\ new.service \in Services
    BY DEF Fresh
  <2>4. calls' \in [Calls -> Call] /\ Begun'
    <3> HIDE DEF new
    <3>1. calls' = [calls EXCEPT ![c] = new]
      BY <1>2 DEF Begin, new
    <3>2. QED
      BY <2>2, <2>3, <3>1, CallTyped
  <2>5. QED
    BY <1>2, <1>n, <2>2, <2>4 DEF Typed, LiveTypeOK, Begin
<1>3. ASSUME NEW c \in Calls, Sign(c)
      PROVE  Typed'
  <2>1. CASE connected = None
    <3>1. calls' \in [Calls -> Call] /\ Begun'
      BY <1>3, <2>1, EndTyped DEF Sign, Outcomes
    <3>2. QED
      BY <1>3, <1>n, <2>1, <3>1 DEF Sign, Typed, LiveTypeOK
  <2>2. CASE connected # None
    <3> DEFINE new == [calls[c] EXCEPT !.pc = "waiting", !.account = connected]
               item == [by |-> c, ticket |-> calls[c].ticket, op |-> calls[c].op,
                        account |-> connected, name |-> calls[c].name,
                        service |-> calls[c].service]
    <3>0. /\ calls[c] \in Call /\ connected \in Accounts
          /\ calls[c].name \in ValidNames /\ calls[c].service \in Services
      BY <1>3, <2>2 DEF Sign, Typed, LiveTypeOK, Begun
    <3>1. new \in Call /\ new.name \in ValidNames /\ new.service \in Services
      BY <3>0 DEF Call
    <3>2. item \in Item
      BY <1>3, <2>2 DEF Sign, Typed, LiveTypeOK, Begun, Call, Item
    <3>3. calls' = [calls EXCEPT ![c] = new]
      BY <1>3, <2>2 DEF Sign, Typed, LiveTypeOK
    <3>4. calls' \in [Calls -> Call] /\ Begun'
      BY <3>1, <3>3, CallTyped
    <3>5. inbox' \subseteq Item
      BY <1>3, <2>2, <3>2 DEF Sign, Typed, LiveTypeOK
    <3>6. QED
      BY <1>3, <1>n, <3>4, <3>5 DEF Sign, Typed, LiveTypeOK
  <2>3. QED
    BY <2>1, <2>2
<1>4. ASSUME NEW c \in Calls, Resolve(c)
      PROVE  Typed'
  <2> DEFINE entry == names[calls[c].name]
  <2>0. entry \in Entry \cup {None}
    BY <1>4 DEF Resolve, Typed, LiveTypeOK, Begun
  <2>1. CASE entry = None
    <3>1. calls' \in [Calls -> Call] /\ Begun'
      BY <1>4, <2>1, EndTyped DEF Resolve, Outcomes
    <3>2. QED
      BY <1>4, <1>n, <3>1 DEF Resolve, Typed, LiveTypeOK
  <2>2. CASE entry # None
    <3> DEFINE new == [calls[c] EXCEPT !.pc = "done", !.outcome = "recorded", !.record = entry]
    <3>0. calls[c] \in Call /\ calls[c].name \in ValidNames /\ calls[c].service \in Services
      BY <1>4 DEF Resolve, Typed, LiveTypeOK, Begun
    <3>1. new \in Call /\ new.name \in ValidNames /\ new.service \in Services
      BY <3>0, <2>0 DEF Call, Outcomes
    <3>2. calls' = [calls EXCEPT ![c] = new]
      BY <1>4, <2>2 DEF Resolve, Typed, LiveTypeOK
    <3>3. calls' \in [Calls -> Call] /\ Begun'
      BY <3>1, <3>2, CallTyped
    <3>4. QED
      BY <1>4, <1>n, <3>3 DEF Resolve, Typed, LiveTypeOK
  <2>3. QED
    BY <2>1, <2>2
<1>5. ASSUME NEW c \in Calls, GiveUp(c)
      PROVE  Typed'
  <2>1. calls' \in [Calls -> Call] /\ Begun'
    BY <1>5, EndTyped DEF GiveUp, Outcomes
  <2>2. QED
    BY <1>5, <1>n, <2>1 DEF GiveUp, Typed, LiveTypeOK
<1>6. ASSUME NEW item \in inbox, ChainStep(item) \/ RejectAction(item)
      PROVE  Typed'
  <2>1. \E pc \in {"resolving", "done"}, outcome \in Outcomes : Settle(item, pc, outcome)
    <3>1. CASE Apply(item)
      BY <3>1 DEF Apply, Outcomes
    <3>2. CASE Abort(item)
      <4>1. Code(item) \in {1, 2, 3, 4}
        BY <3>2, CodeTyped DEF Abort, Typed, LiveTypeOK
      <4>2. QED
        BY <3>2, <4>1, OutcomeTyped DEF Abort
    <3>3. CASE RejectAction(item)
      BY <3>3 DEF RejectAction, Outcomes
    <3>4. QED
      BY <1>6, <3>1, <3>2, <3>3 DEF ChainStep
  <2>2. connected' = connected /\ issued' = issued
    BY <2>1 DEF Settle
  <2>3. calls' \in [Calls -> Call] /\ Begun' /\ inbox' \subseteq Item
    BY <2>1, SettleTyped
  <2>4. QED
    BY <1>n, <2>2, <2>3 DEF Typed, LiveTypeOK
<1>7. CASE ForeignAction
  BY <1>7, <1>n DEF ForeignAction, Typed, LiveTypeOK, Begun
<1>8. QED
  BY <1>1, <1>2, <1>3, <1>4, <1>5, <1>6, <1>7 DEF LiveNext, CallStep

LEMMA TypedHolds == LiveSpec => []Typed
<1>1. LiveInit => Typed
  BY FreshTyped DEF LiveInit, JnsInit, Typed, LiveTypeOK, Begun, Unused, Fresh
<1>2. Typed /\ [LiveNext]_liveVars => Typed'
  <2>1. ASSUME Typed, UNCHANGED liveVars PROVE Typed'
    BY <2>1 DEF Typed, LiveTypeOK, Begun, liveVars
  <2>2. QED
    BY <2>1, StepTyped
<1>3. QED
  BY <1>1, <1>2, PTL DEF LiveSpec

\* Type correctness of calls, actions in flight and the registry together.
THEOREM LiveTypeCorrect == LiveSpec => []LiveTypeOK
<1>1. Typed => LiveTypeOK
  BY DEF Typed
<1>2. QED
  BY <1>1, TypedHolds, PTL

-----------------------------------------------------------------------------
(* The registry *)

\* The registry of LiveNames is the promised one: a name is claimed once,
\* keeps its owner and is bound only by it, whatever clients do.
THEOREM RegistryHolds == LiveSpec => ImplementsRegistry
<1> USE DEF Registry!Init, Registry!Next, Registry!Claim, Registry!Bind, Registry!vars,
            Registry!Entry
<1>1. LiveInit => Registry!Init
  BY DEF LiveInit, JnsInit
<1>2. LiveInit => names \in [Names -> Entry \cup {None}]
  BY DEF LiveInit, JnsInit
<1>3. ASSUME names \in [Names -> Entry \cup {None}], ServiceStep
      PROVE  Registry!Next
  <2>1. ASSUME NEW a \in Accounts, NEW n \in Names, NEW s \in Services, Claim(a, n, s)
        PROVE  Registry!Next
    <3>1. names[n] = None
      BY <2>1 DEF Claim, ClaimCode
    <3>2. Registry!Claim(a, n, s)
      BY <2>1, <3>1 DEF Claim
    <3>3. QED
      BY <3>2
  <2>2. ASSUME NEW a \in Accounts, NEW n \in Names, NEW s \in Services, Bind(a, n, s)
        PROVE  Registry!Next
    <3>1. names[n] \in Entry /\ names[n].owner = a
      BY <1>3, <2>2 DEF Bind, BindCode
    <3>2. [owner |-> names[n].owner, serviceId |-> s] = [names[n] EXCEPT !.serviceId = s]
      BY <3>1 DEF Entry
    <3>3. QED
      BY <2>2, <3>1, <3>2 DEF Bind, BindCode
  <2>3. QED
    BY <1>3, <2>1, <2>2 DEF ServiceStep
<1>4. Typed /\ [LiveNext]_liveVars => [Registry!Next]_(Registry!vars)
  BY <1>3, StepOfRegistry DEF Typed, LiveTypeOK
<1>5. QED
  BY <1>1, <1>2, <1>4, TypedHolds, PTL DEF LiveSpec, ImplementsRegistry, Registry!Spec

-----------------------------------------------------------------------------
(* What calls are told *)

\* No answer before there is one; a call that signed knows with which account.
Said(c) ==
  LET call == calls[c] IN
  /\ call.pc # "done" => call.outcome = "none"
  /\ call.pc \in {"waiting", "resolving"} => call.account # None
  /\ call.outcome = "recorded" => call.account # None /\ call.record.owner = call.account
  /\ call.pc = "resolving" =>
       names[call.name] # None /\ names[call.name].owner = call.account
  /\ call.outcome = "taken" => names[call.name] # None
  /\ call.outcome = "not owner" =>
       names[call.name] # None /\ names[call.name].owner # call.account

\* An action in flight is the one its call waits for, if that call waits for
\* any: a ticket is used once.
InFlight ==
  /\ \A item \in inbox : item.ticket <= issued
  /\ \A c \in Calls : calls[c].ticket <= issued
  /\ \A item \in inbox :
       LET call == calls[item.by] IN
       call.ticket = item.ticket =>
         /\ call.pc # "signing"
         /\ call.pc = "waiting" => call.name = item.name /\ call.account = item.account

Told == Typed /\ InFlight /\ \A c \in Calls : Said(c)

LEMMA SaidStays ==
  ASSUME Typed, NEW c \in Calls, Said(c), calls'[c] = calls[c],
         ServiceStep \/ UNCHANGED <<names, sender>>
  PROVE  Said(c)'
<1>1. \A n \in Names : names[n] # None => names'[n] # None /\ names'[n].owner = names[n].owner
  BY EntriesStay DEF Typed, LiveTypeOK
<1>2. calls[c].pc # "idle" => calls[c].name \in Names
  BY DEF Typed, Begun
<1>3. QED
  BY <1>1, <1>2 DEF Said

\* A step that changes only call c keeps Told if it keeps what concerns c.
LEMMA OneCall ==
  ASSUME Told, [LiveNext]_liveVars, NEW c \in Calls,
         \A d \in Calls \ {c} : calls'[d] = calls[d],
         Said(c)', InFlight'
  PROVE  \A d \in Calls : Said(d)'
<1>1. ServiceStep \/ UNCHANGED <<names, sender>>
  BY StepOfRegistry DEF Told, Typed
<1>2. QED
  BY <1>1, SaidStays DEF Told

\* An action that is applied leaves the name with the account that signed it.
LEMMA AppliedToSigner ==
  ASSUME Typed, NEW item \in inbox, Apply(item)
  PROVE  names'[item.name] # None /\ names'[item.name].owner = item.account
<1>1. /\ item.account \in Accounts /\ item.name \in Names /\ item.service \in Services
      /\ names \in [Names -> Entry \cup {None}]
  BY DEF Typed, LiveTypeOK, Item
<1>2. CASE Claim(item.account, item.name, item.service)
  <2>1. [owner |-> item.account, serviceId |-> item.service] \in Entry
    BY <1>1 DEF Entry
  <2>2. QED
    BY <1>1, <1>2, <2>1 DEF Claim
<1>3. CASE Bind(item.account, item.name, item.service)
  <2>1. names[item.name] # None /\ names[item.name].owner = item.account
    BY <1>1, <1>3 DEF Bind, BindCode
  <2>2. QED
    BY <1>1, <1>3, <2>1, EntriesStay DEF ServiceStep
<1>4. QED
  BY <1>2, <1>3 DEF Apply

LEMMA ClientTold ==
  ASSUME Told, NEW c \in Calls, LiveNext,
         \/ \E op \in {"claim", "bind"}, n \in ValidNames, s \in Services : Begin(c, op, n, s)
         \/ CallStep(c) \/ GiveUp(c)
  PROVE  InFlight' /\ \A d \in Calls : Said(d)'
<1>t. /\ calls \in [Calls -> Call] /\ inbox \subseteq Item /\ issued \in Nat
      /\ names \in [Names -> Entry \cup {None}]
      /\ InFlight /\ Said(c)
      /\ calls[c].pc # "idle" => calls[c].name \in Names
  BY DEF Told, Typed, LiveTypeOK, Begun
<1>b. \A item \in inbox : item.by \in Calls /\ item.ticket \in Nat
  BY <1>t DEF Item
<1>0. ASSUME NEW outcome \in {"unauthorized", "timeout", "not found"},
             calls[c].pc # "idle", End(c, outcome), inbox' = inbox, issued' = issued,
             names' = names
      PROVE  InFlight' /\ Said(c)' /\ \A d \in Calls \ {c} : calls'[d] = calls[d]
  <2>1. /\ calls'[c].pc = "done" /\ calls'[c].outcome = outcome
        /\ calls'[c].ticket = calls[c].ticket
        /\ \A d \in Calls \ {c} : calls'[d] = calls[d]
    BY <1>0, <1>t DEF End, Call
  <2>2. InFlight'
    BY <1>0, <1>t, <1>b, <2>1 DEF InFlight
  <2>3. Said(c)'
    BY <2>1 DEF Said
  <2>4. QED
    BY <2>1, <2>2, <2>3
<1>1. ASSUME NEW op \in {"claim", "bind"}, NEW n \in ValidNames, NEW s \in Services,
             Begin(c, op, n, s)
      PROVE  InFlight' /\ Said(c)' /\ \A d \in Calls \ {c} : calls'[d] = calls[d]
  <2>1. /\ calls' = [calls EXCEPT ![c] = Fresh("signing", issued + 1, op, n, s)]
        /\ inbox' = inbox /\ issued' = issued + 1
    BY <1>1 DEF Begin
  <2>2. calls'[c].pc = "signing" /\ calls'[c].outcome = "none" /\ calls'[c].ticket = issued + 1
    BY <1>t, <2>1 DEF Fresh
  <2>3. InFlight'
    <3>1. \A d \in Calls : calls[d].ticket \in Nat
      BY <1>t DEF Call
    <3>2. QED
      BY <1>t, <1>b, <2>1, <2>2, <3>1 DEF InFlight
  <2>4. QED
    BY <1>t, <2>1, <2>2, <2>3 DEF Said
<1>2. ASSUME Sign(c)
      PROVE  InFlight' /\ Said(c)' /\ \A d \in Calls \ {c} : calls'[d] = calls[d]
  <2>1. CASE connected = None
    BY <1>2, <1>0, <2>1 DEF Sign
  <2>2. CASE connected # None
    <3> DEFINE item == [by |-> c, ticket |-> calls[c].ticket, op |-> calls[c].op,
                        account |-> connected, name |-> calls[c].name,
                        service |-> calls[c].service]
    <3>1. /\ calls' = [calls EXCEPT ![c].pc = "waiting", ![c].account = connected]
          /\ inbox' = inbox \cup {item} /\ issued' = issued /\ names' = names
          /\ calls[c].pc = "signing"
      BY <1>2, <2>2 DEF Sign
    <3>2. calls[c].ticket <= issued
      BY <1>t DEF InFlight
    <3>3. InFlight'
      BY <1>t, <1>b, <3>1, <3>2 DEF InFlight, Call
    <3>4. Said(c)'
      BY <1>t, <2>2, <3>1 DEF Said, Call
    <3>5. QED
      BY <1>t, <3>1, <3>3, <3>4
  <2>3. QED
    BY <2>1, <2>2
<1>3. ASSUME Resolve(c)
      PROVE  InFlight' /\ Said(c)' /\ \A d \in Calls \ {c} : calls'[d] = calls[d]
  <2> DEFINE entry == names[calls[c].name]
  <2>1. CASE entry = None
    BY <1>3, <1>0, <2>1 DEF Resolve
  <2>2. CASE entry # None
    <3>1. /\ calls' = [calls EXCEPT ![c].pc = "done", ![c].outcome = "recorded",
                                    ![c].record = entry]
          /\ inbox' = inbox /\ issued' = issued /\ names' = names
          /\ calls[c].pc = "resolving"
      BY <1>3, <2>2 DEF Resolve
    <3>2. InFlight'
      BY <1>t, <1>b, <3>1 DEF InFlight, Call
    <3>3. Said(c)'
      BY <1>t, <3>1 DEF Said, Call
    <3>4. QED
      BY <1>t, <3>1, <3>2, <3>3
  <2>3. QED
    BY <2>1, <2>2
<1>4. ASSUME GiveUp(c)
      PROVE  InFlight' /\ Said(c)' /\ \A d \in Calls \ {c} : calls'[d] = calls[d]
  BY <1>4, <1>0 DEF GiveUp
<1>5. QED
  BY <1>1, <1>2, <1>3, <1>4, OneCall DEF CallStep

LEMMA ChainTold ==
  ASSUME Told, LiveNext, NEW item \in inbox, ChainStep(item) \/ RejectAction(item)
  PROVE  InFlight' /\ \A d \in Calls : Said(d)'
<1> DEFINE c == item.by
<1>t. /\ calls \in [Calls -> Call] /\ inbox \subseteq Item /\ InFlight
      /\ names \in [Names -> Entry \cup {None}]
      /\ c \in Calls /\ Said(c) /\ item \in Item
      /\ calls[c].pc # "idle" => calls[c].name \in Names
  BY DEF Told, Typed, LiveTypeOK, Begun, Item
<1>s. ServiceStep \/ UNCHANGED <<names, sender>>
  BY StepOfRegistry DEF Told, Typed
<1>1. ASSUME NEW pc \in {"resolving", "done"}, NEW outcome \in Outcomes,
             Settle(item, pc, outcome)
      PROVE  /\ InFlight'
             /\ \A d \in Calls \ {c} : calls'[d] = calls[d]
             /\ ~Awaited(item) => calls' = calls
             /\ Awaited(item) =>
                  /\ calls'[c].pc = pc /\ calls'[c].outcome = outcome
                  /\ calls'[c].name = item.name /\ calls'[c].account = item.account
  <2>1. CASE ~Awaited(item)
    BY <1>1, <1>t, <2>1 DEF Settle, InFlight
  <2>2. CASE Awaited(item)
    <3>1. /\ calls' = [calls EXCEPT ![c].pc = pc, ![c].outcome = outcome]
          /\ inbox' = inbox \ {item} /\ issued' = issued
      BY <1>1, <2>2 DEF Settle
    <3>2. /\ calls'[c].pc = pc /\ calls'[c].outcome = outcome
          /\ calls'[c].name = calls[c].name /\ calls'[c].account = calls[c].account
          /\ calls'[c].ticket = calls[c].ticket
          /\ \A d \in Calls \ {c} : calls'[d] = calls[d]
      BY <1>t, <3>1 DEF Call
    <3>3. calls[c].name = item.name /\ calls[c].account = item.account
      BY <1>t, <2>2 DEF InFlight, Awaited
    <3>4. \A i \in inbox' : i \in inbox /\ i.by \in Calls
      BY <1>t, <3>1 DEF Item
    <3>5. InFlight'
      BY <1>t, <3>1, <3>2, <3>4 DEF InFlight
    <3>6. QED
      BY <2>2, <3>2, <3>3, <3>5
  <2>3. QED
    BY <2>1, <2>2
<1>2. ASSUME Apply(item)
      PROVE  InFlight' /\ Said(c)' /\ \A d \in Calls \ {c} : calls'[d] = calls[d]
  <2>1. Settle(item, "resolving", "none") /\ "none" \in Outcomes
    BY <1>2 DEF Apply, Outcomes
  <2>2. names'[item.name] # None /\ names'[item.name].owner = item.account
    BY <1>2, AppliedToSigner DEF Told
  <2>3. item.account # None
    BY <1>t DEF Item
  <2>4. CASE Awaited(item)
    <3>1. Said(c)'
      BY <1>1, <2>1, <2>2, <2>3, <2>4 DEF Said
    <3>2. QED
      BY <1>1, <2>1, <3>1
  <2>5. CASE ~Awaited(item)
    <3>1. calls'[c] = calls[c]
      BY <1>1, <2>1, <2>5
    <3>2. Said(c)'
      BY <1>s, <1>t, <3>1, SaidStays DEF Told
    <3>3. QED
      BY <1>1, <2>1, <3>2
  <2>6. QED
    BY <2>4, <2>5
<1>3. ASSUME Abort(item) \/ RejectAction(item)
      PROVE  InFlight' /\ Said(c)' /\ \A d \in Calls \ {c} : calls'[d] = calls[d]
  <2>1. PICK outcome \in Outcomes :
          /\ Settle(item, "done", outcome) /\ names' = names
          /\ outcome \notin {"none", "recorded"}
          /\ outcome = "taken" => names[item.name] # None
          /\ outcome = "not owner" =>
               names[item.name] # None /\ names[item.name].owner # item.account
    <3>1. CASE RejectAction(item)
      BY <3>1 DEF RejectAction, Outcomes
    <3>2. CASE Abort(item)
      <4>1. /\ Code(item) \in {1, 2, 3, 4}
            /\ Code(item) = 2 => names[item.name] # None
            /\ Code(item) = 4 => names[item.name] # None
                                 /\ names[item.name].owner # item.account
        BY <1>t, <3>2 DEF Abort, Code, ClaimCode, BindCode
      <4>2. /\ OutcomeOf(Code(item)) \notin {"none", "recorded"}
            /\ OutcomeOf(Code(item)) = "taken" => Code(item) = 2
            /\ OutcomeOf(Code(item)) = "not owner" => Code(item) = 4
            /\ OutcomeOf(Code(item)) \in Outcomes
        BY <4>1 DEF OutcomeOf, Outcomes
      <4>3. QED
        BY <3>2, <4>1, <4>2 DEF Abort
    <3>3. QED
      BY <1>3, <3>1, <3>2
  <2>2. CASE Awaited(item)
    <3>1. /\ calls'[c].pc = "done" /\ calls'[c].outcome = outcome
          /\ calls'[c].name = item.name /\ calls'[c].account = item.account
      BY <1>1, <2>1, <2>2
    <3>2. Said(c)'
      BY <2>1, <3>1 DEF Said
    <3>3. QED
      BY <1>1, <2>1, <3>2
  <2>3. CASE ~Awaited(item)
    <3>1. calls'[c] = calls[c]
      BY <1>1, <2>1, <2>3
    <3>2. Said(c)'
      BY <1>s, <1>t, <3>1, SaidStays DEF Told
    <3>3. QED
      BY <1>1, <2>1, <3>2
  <2>4. QED
    BY <2>2, <2>3
<1>4. InFlight' /\ Said(c)' /\ \A d \in Calls \ {c} : calls'[d] = calls[d]
  BY <1>2, <1>3 DEF ChainStep
<1>5. QED
  BY <1>t, <1>4, OneCall

LEMMA ToldHolds == LiveSpec => []Told
<1>1. LiveInit => Told
  <2> SUFFICES ASSUME LiveInit PROVE Told
    OBVIOUS
  <2>1. Typed
    BY FreshTyped DEF LiveInit, JnsInit, Typed, LiveTypeOK, Begun, Unused, Fresh
  <2>2. /\ \A c \in Calls : calls[c].pc = "idle" /\ calls[c].outcome = "none"
                            /\ calls[c].ticket = 0
        /\ inbox = {} /\ issued = 0
    BY DEF LiveInit, Unused, Fresh
  <2>3. InFlight /\ \A c \in Calls : Said(c)
    <3>1. InFlight
      BY <2>2 DEF InFlight
    <3>2. \A c \in Calls : Said(c)
      BY <2>2 DEF Said
    <3>3. QED
      BY <3>1, <3>2
  <2>4. QED
    BY <2>1, <2>3 DEF Told
<1>2. Told /\ [LiveNext]_liveVars => Told'
  <2>1. ASSUME Told, LiveNext PROVE Told'
    <3>1. Typed'
      BY <2>1, StepTyped DEF Told
    <3>2. CASE (\E a \in Accounts \cup {None} : Switch(a)) \/ ForeignAction
      <4>1. calls' = calls /\ inbox' = inbox /\ issued' = issued
        BY <3>2 DEF Switch, ForeignAction
      <4>2. InFlight'
        BY <2>1, <4>1 DEF Told, InFlight
      <4>3. ServiceStep \/ UNCHANGED <<names, sender>>
        BY <2>1, StepOfRegistry DEF Told, Typed
      <4>4. \A c \in Calls : Said(c)'
        BY <2>1, <4>1, <4>3, SaidStays DEF Told
      <4>5. QED
        BY <3>1, <4>2, <4>4 DEF Told
    <3>3. ASSUME NEW c \in Calls,
                 \/ \E op \in {"claim", "bind"}, n \in ValidNames, s \in Services :
                      Begin(c, op, n, s)
                 \/ CallStep(c) \/ GiveUp(c)
          PROVE  Told'
      BY <2>1, <3>1, <3>3, ClientTold DEF Told
    <3>4. ASSUME NEW item \in inbox, ChainStep(item) \/ RejectAction(item)
          PROVE  Told'
      BY <2>1, <3>1, <3>4, ChainTold DEF Told
    <3>5. QED
      BY <2>1, <3>2, <3>3, <3>4 DEF LiveNext
  <2>2. ASSUME Told, UNCHANGED liveVars PROVE Told'
    BY <2>2 DEF Told, Typed, LiveTypeOK, Begun, InFlight, Said, liveVars
  <2>3. QED
    BY <2>1, <2>2
<1>3. QED
  BY <1>1, <1>2, PTL DEF LiveSpec

\* A call that returns a record returns one the signer owns: nobody can slip
\* in between the receipt and the query that fetches the record.
THEOREM SignersGetTheirRecords == LiveSpec => []RecordsAreTheSigners
<1>1. Told => RecordsAreTheSigners
  BY DEF Told, Said, RecordsAreTheSigners
<1>2. QED
  BY <1>1, ToldHolds, PTL

\* From the receipt on, the name is found and belongs to the signer.
THEOREM AppliedNamesAreFound == LiveSpec => []AppliedNamesResolve
<1>1. Told => AppliedNamesResolve
  BY DEF Told, Said, AppliedNamesResolve
<1>2. QED
  BY <1>1, ToldHolds, PTL

\* "Taken" and "not owner" are true for ever once said.
THEOREM AnswersDoNotGoStale == LiveSpec => []ErrorsStayTrue
<1>1. Told => ErrorsStayTrue
  BY DEF Told, Said, ErrorsStayTrue
<1>2. QED
  BY <1>1, ToldHolds, PTL

-----------------------------------------------------------------------------
(* Names in preview. *)

\* A call that has not ended is made in a tab that is open, of a name that is
\* valid, and one that waits for the account knows what it will store.
CallsAreOfTheirTabs ==
  \A s \in PreviewTabs \X Strands :
    /\ strands[s].pc \in {"owner", "resolve"} =>
         registries[s[1]] # Missing /\ strands[s].name \in StoredNames
    /\ strands[s].pc = "owner" => strands[s].service \in MockServices

PreviewInv == PreviewNamesTypeOK /\ CallsAreOfTheirTabs

\* What a call that stores does to the map of its tab and to storage.
LEMMA StoreWrites ==
  ASSUME PreviewInv, NEW s \in PreviewTabs \X Strands, Store(s)
  PROVE  LET t == s[1]  c == strands[s] IN
         \/ UNCHANGED <<saved, registries>> /\ strands' = [strands EXCEPT ![s] = [c EXCEPT !.pc = "taken"]]
         \/ /\ c.op = "claim" => registries[t][c.name] = Missing
            /\ registries[t] \in Map /\ c.name \in StoredNames /\ c.service \in MockServices
            /\ registries' = [registries EXCEPT ![t] = [registries[t] EXCEPT ![c.name] = c.service]]
            /\ saved' \in {saved, registries'[t]}
            /\ strands' = [strands EXCEPT ![s] = [c EXCEPT !.pc = "resolve"]]
<1> DEFINE t == s[1]
<1>1. /\ strands[s].pc = "owner" /\ t \in PreviewTabs /\ strands[s].op \in {"claim", "bind"}
      /\ registries[t] \in Map /\ strands[s].name \in StoredNames
      /\ strands[s].service \in MockServices
  BY DEF PreviewInv, PreviewNamesTypeOK, CallsAreOfTheirTabs, Store, Strand
<1>2. CASE strands[s].op = "claim" /\ registries[t][strands[s].name] # Missing
  BY <1>2 DEF Store, Move
<1>3. CASE ~(strands[s].op = "claim" /\ registries[t][strands[s].name] # Missing)
  <2>1. /\ registries' = [registries EXCEPT ![t][strands[s].name] = strands[s].service]
        /\ saved' \in {saved, registries'[t]}
        /\ strands' = [strands EXCEPT ![s] = [strands[s] EXCEPT !.pc = "resolve"]]
    BY <1>3 DEF Store, Move, Saved
  <2>2. QED
    BY <1>1, <1>3, <2>1
<1>4. QED
  BY <1>2, <1>3

LEMMA PreviewInvHolds == PreviewNamesSpec => []PreviewInv
<1>1. PreviewNamesInit => PreviewInv
  BY PreviewNamesAssumption
     DEF PreviewNamesInit, PreviewInv, PreviewNamesTypeOK, CallsAreOfTheirTabs, Nothing, Map,
         Unmade, At, Strand
<1>2. PreviewInv /\ [PreviewNamesNext]_previewVars => PreviewInv'
  <2> SUFFICES ASSUME PreviewInv, [PreviewNamesNext]_previewVars PROVE PreviewInv'
    OBVIOUS
  <2>t. /\ saved \in Map /\ registries \in [PreviewTabs -> Map \cup {Missing}]
        /\ strands \in [PreviewTabs \X Strands -> Strand] /\ made \in 0..MaxCalls
    BY DEF PreviewInv, PreviewNamesTypeOK
  <2>1. ASSUME NEW t \in PreviewTabs, Load(t) PROVE PreviewInv'
    <3>1. PICK found \in {saved, Nothing} : registries' = [registries EXCEPT ![t] = found]
      BY <2>1 DEF Load
    <3>2. found \in Map
      BY <2>t, <3>1 DEF Nothing, Map
    <3>3. \A s \in PreviewTabs \X Strands : s[1] = t => strands[s].pc \notin {"owner", "resolve"}
      BY <2>1 DEF Load, PreviewInv, CallsAreOfTheirTabs
    <3>4. QED
      BY <2>1, <2>t, <3>1, <3>2, <3>3
         DEF Load, PreviewInv, PreviewNamesTypeOK, CallsAreOfTheirTabs
  <2>2. ASSUME NEW t \in PreviewTabs, Leave(t) PROVE PreviewInv'
    <3>1. Unmade \in Strand /\ Unmade.pc = "idle"
      BY DEF Unmade, At, Strand
    <3>2. \A s \in PreviewTabs \X Strands :
            strands'[s] = IF s[1] = t THEN Unmade ELSE strands[s]
      BY <2>2, <2>t DEF Leave
    <3>3. strands' \in [PreviewTabs \X Strands -> Strand]
      BY <2>2, <2>t, <3>1 DEF Leave
    <3>4. QED
      BY <2>2, <2>t, <3>1, <3>2, <3>3
         DEF Leave, PreviewInv, PreviewNamesTypeOK, CallsAreOfTheirTabs
  <2>3. ASSUME NEW s \in PreviewTabs \X Strands, Store(s) PROVE PreviewInv'
    <3> DEFINE t == s[1]
    <3>1. t \in PreviewTabs /\ strands[s] \in Strand /\ made' = made
      BY <2>3, <2>t DEF Store
    <3>2. CASE UNCHANGED <<saved, registries>>
               /\ strands' = [strands EXCEPT ![s] = [strands[s] EXCEPT !.pc = "taken"]]
      <4>1. [strands[s] EXCEPT !.pc = "taken"] \in Strand
        BY <3>1 DEF Strand
      <4>2. QED
        BY <2>t, <3>1, <3>2, <4>1 DEF PreviewInv, PreviewNamesTypeOK, CallsAreOfTheirTabs
    <3>3. CASE /\ registries[t] \in Map /\ strands[s].name \in StoredNames
               /\ strands[s].service \in MockServices
               /\ registries' = [registries EXCEPT
                    ![t] = [registries[t] EXCEPT ![strands[s].name] = strands[s].service]]
               /\ saved' \in {saved, registries'[t]}
               /\ strands' = [strands EXCEPT ![s] = [strands[s] EXCEPT !.pc = "resolve"]]
      <4>1. PICK map : map = [registries[t] EXCEPT ![strands[s].name] = strands[s].service]
        OBVIOUS
      <4>2. map \in Map
        BY <3>3, <4>1 DEF Map
      <4>3. map # Missing
        BY <4>2, MissingAssumption
      <4>4. PICK strand : strand = [strands[s] EXCEPT !.pc = "resolve"]
        OBVIOUS
      <4>5. strand \in Strand /\ strand.pc = "resolve" /\ strand.name = strands[s].name
        BY <3>1, <4>4 DEF Strand
      <4>6. registries' = [registries EXCEPT ![t] = map] /\ strands' = [strands EXCEPT ![s] = strand]
            /\ saved' \in {saved, map}
        BY <2>t, <3>1, <3>3, <4>1, <4>4
      <4>7. QED
        BY <2>t, <3>1, <3>3, <4>2, <4>3, <4>5, <4>6
           DEF PreviewInv, PreviewNamesTypeOK, CallsAreOfTheirTabs
    <3>4. QED
      BY <2>3, <3>2, <3>3, StoreWrites
  <2>4. ASSUME NEW s \in PreviewTabs \X Strands, Answer(s) PROVE PreviewInv'
    <3>1. PICK strand : strand = [strands[s] EXCEPT !.pc = "record",
                                    !.service = registries[s[1]][strands[s].name]]
      OBVIOUS
    <3>0. registries[s[1]][strands[s].name] \in MockServices \cup {Missing} /\ strands[s] \in Strand
      <4>1. s[1] \in PreviewTabs /\ registries[s[1]] # Missing /\ strands[s].name \in StoredNames
        BY <2>4 DEF Answer, PreviewInv, CallsAreOfTheirTabs
      <4>2. QED
        BY <2>t, <4>1 DEF Map
    <3>2. strand \in Strand /\ strand.pc = "record"
      BY <3>0, <3>1 DEF Strand
    <3>3. strands' = [strands EXCEPT ![s] = strand] /\ UNCHANGED <<saved, registries, made>>
      BY <2>4, <3>1 DEF Answer, Move
    <3>4. QED
      BY <2>t, <3>2, <3>3 DEF PreviewInv, PreviewNamesTypeOK, CallsAreOfTheirTabs
  <2>5. ASSUME NEW s \in PreviewTabs \X Strands, NEW op \in {"claim", "bind"},
               NEW typing \in TypedNames, NEW service \in MockServices, Ask(s, op, typing, service)
        PROVE  PreviewInv'
    <3>1. PICK strand : /\ strands' = [strands EXCEPT ![s] = strand]
                        /\ strand \in Strand
                        /\ strand.pc \in {"owner", "resolve"} =>
                             /\ strand.pc = "owner" /\ strand.name \in StoredNames
                             /\ strand.service \in MockServices
      <4>1. CASE typing \notin Valid
        <5>1. At("invalid", op, Missing, Missing) \in Strand
              /\ At("invalid", op, Missing, Missing).pc = "invalid"
          BY DEF At, Strand
        <5>2. strands' = [strands EXCEPT ![s] = At("invalid", op, Missing, Missing)]
          BY <2>5, <4>1 DEF Ask, Move
        <5>3. QED
          BY <5>1, <5>2
      <4>2. CASE typing \in Valid
        <5>1. Canonical[typing] \in StoredNames
          BY <4>2 DEF StoredNames
        <5>2. \A pc \in {"not found", "owner"}, kept \in {Missing, service} :
                /\ At(pc, op, Canonical[typing], kept) \in Strand
                /\ At(pc, op, Canonical[typing], kept).pc = pc
                /\ At(pc, op, Canonical[typing], kept).name = Canonical[typing]
                /\ At(pc, op, Canonical[typing], kept).service = kept
          BY <5>1 DEF At, Strand
        <5>3. \/ strands' = [strands EXCEPT ![s] = At("not found", op, Canonical[typing], Missing)]
              \/ strands' = [strands EXCEPT ![s] = At("owner", op, Canonical[typing], service)]
          BY <2>5, <4>2 DEF Ask, Move
        <5>4. QED
          BY <5>1, <5>2, <5>3
      <4>3. QED
        BY <4>1, <4>2
    <3>2. registries[s[1]] # Missing /\ UNCHANGED <<saved, registries>> /\ made' \in 0..MaxCalls
      <4>1. made < MaxCalls /\ made' = made + 1
        BY <2>5 DEF Ask
      <4>2. made' \in 0..MaxCalls
        BY <2>t, <4>1, PreviewNamesAssumption
      <4>3. QED
        BY <2>5, <4>2 DEF Ask
    <3>3. QED
      BY <2>t, <3>1, <3>2 DEF PreviewInv, PreviewNamesTypeOK, CallsAreOfTheirTabs
  <2>6. CASE UNCHANGED previewVars
    BY <2>6 DEF previewVars, PreviewInv, PreviewNamesTypeOK, CallsAreOfTheirTabs
  <2>7. QED
    BY <2>1, <2>2, <2>3, <2>4, <2>5, <2>6 DEF PreviewNamesNext
<1>3. QED
  BY <1>1, <1>2, PTL DEF PreviewNamesSpec

\* In preview no tab loses a name that is taken, only a bind changes its
\* entry, and storage loses one only to a tab with an outdated map, for any
\* number of tabs and of calls that alternate.
THEOREM PreviewKeepsNames == PreviewNamesSpec => NamesAreKept
<1>1. ASSUME PreviewInv, [PreviewNamesNext]_previewVars, NEW n \in StoredNames
      PROVE  (\A t \in PreviewTabs : KeptInTab(n, t)) /\ KeptInStorage(n)
  <2>t. /\ saved \in Map /\ registries \in [PreviewTabs -> Map \cup {Missing}]
        /\ strands \in [PreviewTabs \X Strands -> Strand]
    BY <1>1 DEF PreviewInv, PreviewNamesTypeOK
  <2>1. ASSUME NEW s \in PreviewTabs \X Strands, Store(s)
        PROVE  (\A t \in PreviewTabs : KeptInTab(n, t)) /\ KeptInStorage(n)
    <3> DEFINE tab == s[1]  c == strands[s]
    <3>1. tab \in PreviewTabs /\ s[2] \in Strands /\ s = <<tab, s[2]>>
          /\ c \in Strand /\ c.pc = "owner"
      BY <2>1, <2>t DEF Store
    <3>2. CASE UNCHANGED <<saved, registries>>
      BY <3>2 DEF KeptInTab, KeptInStorage
    <3>3. CASE /\ c.op = "claim" => registries[tab][c.name] = Missing
               /\ registries[tab] \in Map /\ c.name \in StoredNames
               /\ registries' = [registries EXCEPT ![tab] = [registries[tab] EXCEPT ![c.name] = c.service]]
               /\ saved' \in {saved, registries'[tab]}
               /\ strands' = [strands EXCEPT ![s] = [c EXCEPT !.pc = "resolve"]]
      <4>1. Stores(s)
        BY <2>t, <3>1, <3>3 DEF Stores, Strand
      <4>2. /\ \A t \in PreviewTabs \ {tab} : registries'[t] = registries[t]
            /\ registries'[tab] = [registries[tab] EXCEPT ![c.name] = c.service]
            /\ n # c.name => registries'[tab][n] = registries[tab][n]
        BY <2>t, <3>1, <3>3 DEF Map
      <4>3. ASSUME NEW t \in PreviewTabs PROVE KeptInTab(n, t)
        <5>1. CASE t # tab
          BY <4>2, <5>1 DEF KeptInTab
        <5>2. CASE t = tab /\ (n # c.name \/ c.op = "claim")
          BY <3>3, <4>2, <5>2 DEF KeptInTab
        <5>3. CASE t = tab /\ n = c.name /\ c.op = "bind"
          BY <3>1, <4>1, <5>3 DEF KeptInTab
        <5>4. QED
          BY <3>1, <5>1, <5>2, <5>3 DEF Strand
      <4>4. KeptInStorage(n)
        BY <3>1, <3>3, <4>1, <4>2 DEF KeptInStorage
      <4>5. QED
        BY <4>3, <4>4
    <3>4. QED
      BY <1>1, <2>1, <3>2, <3>3, StoreWrites
  <2>2. ASSUME NEW t \in PreviewTabs, Load(t) \/ Leave(t)
        PROVE  (\A u \in PreviewTabs : KeptInTab(n, u)) /\ KeptInStorage(n)
    <3>1. \A u \in PreviewTabs : registries'[u] = registries[u] \/ registries[u] = Missing
                                  \/ registries'[u] = Missing
      BY <2>t, <2>2 DEF Load, Leave
    <3>2. saved' = saved
      BY <2>2 DEF Load, Leave
    <3>3. QED
      BY <3>1, <3>2 DEF KeptInTab, KeptInStorage
  <2>3. CASE UNCHANGED <<saved, registries>>
    BY <2>3 DEF KeptInTab, KeptInStorage
  <2>4. QED
    BY <1>1, <2>1, <2>2, <2>3 DEF PreviewNamesNext, Answer, Ask, previewVars
<1>2. PreviewInv /\ [PreviewNamesNext]_previewVars =>
        [\A n \in StoredNames : (\A t \in PreviewTabs : KeptInTab(n, t)) /\ KeptInStorage(n)]_previewVars
  BY <1>1
<1>3. QED
  BY <1>2, PreviewInvHolds, PTL DEF PreviewNamesSpec, NamesAreKept

-----------------------------------------------------------------------------
(* Induction, over sets: a set of naturals has a least member, so one that *)
(* holds 0 and the successor of each of its members holds them all.        *)

HIDE NamesAssumption
HIDE NoEntryAssumption
HIDE LiveAssumption

Smaller == {p \in Nat \X Nat : p[1] < p[2]}

LEMMA SmallerWellFounded == IsWellFoundedOn(Smaller, Nat)
<1>1. Smaller = OpToRel(<, Nat)
  BY DEF OpToRel, Smaller
<1>2. QED
  BY <1>1, NatLessThanWellFounded

LEMMA LeastNatural ==
  ASSUME NEW S \in SUBSET Nat, S # {}
  PROVE  \E n \in S : \A m \in S : n <= m
<1>1. PICK n \in S : \A m \in S : <<m, n>> \notin Smaller
  BY SmallerWellFounded, WFMin
<1>2. ASSUME NEW m \in S PROVE n <= m
  <2>1. <<m, n>> \in Nat \X Nat /\ <<m, n>> \notin Smaller
    BY <1>1
  <2>2. QED
    BY <2>1 DEF Smaller
<1>3. QED
  BY <1>2

LEMMA AllNaturals ==
  ASSUME NEW S, 0 \in S, \A n \in Nat : n \in S => n + 1 \in S
  PROVE  \A n \in Nat : n \in S
<1>1. SUFFICES ASSUME Nat \ S # {} PROVE FALSE
  OBVIOUS
<1>2. PICK n \in Nat \ S : \A m \in Nat \ S : n <= m
  BY <1>1, LeastNatural
<1>3. n # 0 /\ n - 1 \in Nat /\ (n - 1) + 1 = n
  BY <1>2
<1>4. n - 1 \in S
  BY <1>2, <1>3
<1>5. QED
  BY <1>2, <1>3, <1>4

-----------------------------------------------------------------------------
(* A claim on its way to the service: the bytes of NameWire.               *)

LEMMA BytesAreNatural == \A b \in Byte : b \in Nat /\ 0 <= b /\ b <= 255
BY DEF Byte

\* What a name let pass is made of.
LEMMA CanonicalTyped ==
  ASSUME NEW name \in Seq(Nat), isCanonicalJnsName(name) \/ validName(name)
  PROVE  /\ name \in Seq(Byte) /\ Len(name) \in 3..32
         /\ \A i \in 1..Len(name) : name[i] \in Lower \cup Digit \cup {Hyphen}
<1>1. DOMAIN name = 1..Len(name) /\ Len(name) \in Nat
  BY LenProperties
<1>2. Len(name) \in 3..32 /\ Range(name) \subseteq Lower \cup Digit \cup {Hyphen}
  BY DEF isCanonicalJnsName, validName
<1>3. \A i \in 1..Len(name) : name[i] \in Lower \cup Digit \cup {Hyphen}
  BY <1>1, <1>2 DEF Range
<1>4. \A i \in 1..Len(name) : name[i] \in Byte
  BY <1>3 DEF Lower, Digit, Hyphen, Byte
<1>5. name \in Seq(Byte)
  <2>1. name = [i \in 1..Len(name) |-> name[i]]
    BY LenProperties
  <2>2. name \in [1..Len(name) -> Byte]
    BY <1>4, <2>1
  <2>3. QED
    BY <1>1, <2>2, SeqDef
<1>6. QED
  BY <1>2, <1>3, <1>5

\* The three checks of a name let the same names pass.
LEMMA ChecksAgree ==
  ASSUME NEW name
  PROVE  validName(name) <=> isCanonicalJnsName(name)
BY DEF validName, isCanonicalJnsName

\* A name in its normal form is what the client makes of it.
LEMMA CanonicalIsEncoded ==
  ASSUME NEW name \in Seq(Nat), isCanonicalJnsName(name)
  PROVE  encodeJnsName(name) = name
<1>1. /\ Len(name) \in 3..32 /\ DOMAIN name = 1..Len(name)
      /\ \A i \in 1..Len(name) : name[i] \in Lower \cup Digit \cup {Hyphen}
  BY CanonicalTyped, LenProperties
<1>2. \A i \in 1..Len(name) : LowerCase(name[i]) = name[i]
  <2>1. \A c \in Lower \cup Digit \cup {Hyphen} : c \in Int /\ (c < 65 \/ (90 < c /\ c < 128))
    BY DEF Lower, Digit, Hyphen
  <2>2. \A c \in Int : c < 65 \/ (90 < c /\ c < 128) => LowerCase(c) = c
    BY DEF LowerCase
  <2>3. \A c \in Lower \cup Digit \cup {Hyphen} : LowerCase(c) = c
    BY <2>1, <2>2
  <2>4. QED
    BY <1>1, <2>3
<1> DEFINE lowered == [i \in DOMAIN name |-> LowerCase(name[i])]
<1>3. lowered = name
  <2>1. name = [i \in 1..Len(name) |-> name[i]]
    BY LenProperties
  <2>2. QED
    BY <1>1, <1>2, <2>1
<1> HIDE DEF lowered
<1>4. Head(name) # Hyphen /\ Last(name) # Hyphen
  BY DEF isCanonicalJnsName
<1>5. validateName(name) =
        IF /\ Len(lowered) \in 3..32
           /\ \A i \in DOMAIN lowered : lowered[i] \in Lower \cup Digit \cup {Hyphen}
           /\ Head(lowered) # Hyphen /\ Last(lowered) # Hyphen
        THEN lowered ELSE Refused
  BY DEF validateName, lowered
<1>6. validateName(name) = name
  BY <1>1, <1>3, <1>4, <1>5
<1>7. name # Refused
  BY NameWireAssumption
<1>8. QED
  BY <1>6, <1>7 DEF encodeJnsName

\* What the client encodes, whatever was typed.
LEMMA EncodedTyped ==
  ASSUME NEW text \in Seq(Nat), encodeJnsName(text) # Refused
  PROVE  /\ encodeJnsName(text) \in Seq(Nat)
         /\ isCanonicalJnsName(encodeJnsName(text))
<1> DEFINE lowered == [i \in DOMAIN text |-> LowerCase(text[i])]
<1>1. lowered \in Seq(Nat)
  <2>1. Len(text) \in Nat /\ DOMAIN text = 1..Len(text) /\ \A i \in 1..Len(text) : text[i] \in Nat
    BY LenProperties
  <2>2. \A i \in 1..Len(text) : LowerCase(text[i]) \in Nat
    BY <2>1 DEF LowerCase
  <2>3. lowered \in [1..Len(text) -> Nat]
    BY <2>1, <2>2
  <2>4. QED
    BY <2>1, <2>3, SeqDef
<1>2. validateName(text) \in {lowered, Refused}
  BY DEF validateName
<1>3. QED
  BY <1>1, <1>2 DEF encodeJnsName

LEMMA LeadingOnesTyped ==
  ASSUME NEW b \in Byte
  PROVE  /\ LeadingOnes(b) \in 0..8
         /\ b < 128 => LeadingOnes(b) = 0
<1> DEFINE Fit(n) == \A k \in 1..8 : k <= n <=> b >= Ones[k]
<1>0. /\ Ones[1] = 128 /\ Ones[2] = 192 /\ Ones[3] = 224 /\ Ones[4] = 240
      /\ Ones[5] = 248 /\ Ones[6] = 252 /\ Ones[7] = 254 /\ Ones[8] = 255
  BY DEF Ones
<1>k. \A k \in 1..8 : k = 1 \/ k = 2 \/ k = 3 \/ k = 4 \/ k = 5 \/ k = 6 \/ k = 7 \/ k = 8
  OBVIOUS
<1>b. b \in Int /\ 0 <= b /\ b <= 255
  BY DEF Byte
<1>1. \E n \in 0..8 : Fit(n)
  <2>1. CASE b < 128
    <3>1. Fit(0)
      BY <1>0, <1>k, <1>b, <2>1
    <3>2. QED
      BY <3>1
  <2>2. CASE 128 <= b /\ b < 192
    <3>1. Fit(1)
      BY <1>0, <1>k, <1>b, <2>2
    <3>2. QED
      BY <3>1
  <2>3. CASE 192 <= b /\ b < 224
    <3>1. Fit(2)
      BY <1>0, <1>k, <1>b, <2>3
    <3>2. QED
      BY <3>1
  <2>4. CASE 224 <= b /\ b < 240
    <3>1. Fit(3)
      BY <1>0, <1>k, <1>b, <2>4
    <3>2. QED
      BY <3>1
  <2>5. CASE 240 <= b /\ b < 248
    <3>1. Fit(4)
      BY <1>0, <1>k, <1>b, <2>5
    <3>2. QED
      BY <3>1
  <2>6. CASE 248 <= b /\ b < 252
    <3>1. Fit(5)
      BY <1>0, <1>k, <1>b, <2>6
    <3>2. QED
      BY <3>1
  <2>7. CASE 252 <= b /\ b < 254
    <3>1. Fit(6)
      BY <1>0, <1>k, <1>b, <2>7
    <3>2. QED
      BY <3>1
  <2>8. CASE b = 254
    <3>1. Fit(7)
      BY <1>0, <1>k, <1>b, <2>8
    <3>2. QED
      BY <3>1
  <2>9. CASE b = 255
    <3>1. Fit(8)
      BY <1>0, <1>k, <1>b, <2>9
    <3>2. QED
      BY <3>1
  <2>10. QED
    BY <1>b, <2>1, <2>2, <2>3, <2>4, <2>5, <2>6, <2>7, <2>8, <2>9
<1>2. LeadingOnes(b) = CHOOSE n \in 0..8 : Fit(n)
  BY DEF LeadingOnes
<1> HIDE DEF Fit
<1>3. LeadingOnes(b) \in 0..8 /\ Fit(LeadingOnes(b))
  BY <1>1, <1>2
<1>4. b < 128 => LeadingOnes(b) = 0
  <2>1. 1 <= LeadingOnes(b) <=> b >= 128
    BY <1>0, <1>3 DEF Fit
  <2>2. QED
    BY <1>3, <1>b, <2>1
<1>5. QED
  BY <1>3, <1>4

\* The length at the start of an input.
LEMMA NaturalTyped ==
  ASSUME NEW raw \in Seq(Byte), NEW length, length = jamNatural(raw), length # Refused
  PROVE  /\ raw # << >> /\ length.value \in Nat /\ length.next \in 1..8
         /\ Len(raw) >= length.next
<1> DEFINE more == LeadingOnes(Head(raw))
           low == SubSeq(raw, 2, more + 1)
           high == Head(raw) % (256 - Ones[more + 1])
<1>1. jamNatural(raw) =
        IF raw = << >> \/ more > 7 \/ Len(raw) <= more THEN Refused
        ELSE IF more = 0 THEN [value |-> Head(raw), next |-> 1]
        ELSE [value |-> IF high = 0 /\ Range(Tail(low)) \subseteq {0} THEN Head(low) ELSE TooLong,
              next |-> more + 1]
  BY DEF jamNatural
<1> HIDE DEF high
<1>2. raw # << >> /\ ~(more > 7) /\ ~(Len(raw) <= more)
  BY <1>1
<1>3. Head(raw) \in Byte /\ Len(raw) \in Nat /\ \A i \in 1..Len(raw) : raw[i] \in Byte
  BY <1>2, HeadTailProperties, LenProperties, ElementOfSeq
<1>4. more \in 0..7 /\ Len(raw) >= more + 1
  BY <1>2, <1>3, LeadingOnesTyped
<1>5. CASE more = 0
  <2>1. length = [value |-> Head(raw), next |-> 1]
    BY <1>1, <1>2, <1>5
  <2>2. Head(raw) \in Nat
    BY <1>3, BytesAreNatural
  <2>3. length.value = Head(raw) /\ length.next = 1
    BY <2>1
  <2>4. QED
    BY <1>2, <1>4, <1>5, <2>2, <2>3
<1>6. CASE more # 0
  <2>1. low \in Seq(Byte) /\ Len(low) = more
    <3>1. 2 \in Int /\ more + 1 \in Int /\ \A i \in 2..more + 1 : raw[i] \in Byte
      BY <1>3, <1>4
    <3>2. QED
      BY <1>4, <1>6, <3>1, SubSeqProperties
  <2>2. low # << >>
    BY <1>4, <1>6, <2>1, EmptySeq
  <2>3. Head(low) \in Byte
    BY <2>1, <2>2, HeadTailProperties
  <2> HIDE DEF low
  <2> DEFINE v == IF high = 0 /\ Range(Tail(low)) \subseteq {0} THEN Head(low) ELSE TooLong
  <2>4. v \in Nat
    <3>1. v \in {Head(low), TooLong}
      OBVIOUS
    <3>2. Head(low) \in Nat /\ TooLong \in Nat
      BY <2>3, BytesAreNatural DEF TooLong
    <3>3. QED
      BY <3>1, <3>2
  <2>5. length = [value |-> v, next |-> more + 1]
    BY <1>1, <1>2, <1>6
  <2> HIDE DEF v
  <2>6. QED
    BY <1>2, <1>4, <2>4, <2>5
<1>7. QED
  BY <1>5, <1>6

\* The name a decoded input holds is a string of its bytes.
LEMMA DecodedTyped ==
  ASSUME NEW raw \in Seq(Byte), DecodeClaim(raw) # Refused
  PROVE  DecodeClaim(raw).name \in Seq(Byte)
<1> DEFINE length == jamNatural(raw)
<1>1. /\ length # Refused /\ Len(raw) = length.next + length.value + 4
      /\ DecodeClaim(raw).name = SubSeq(raw, length.next + 1, length.next + length.value)
  BY DEF DecodeClaim
<1>2. length.value \in Nat /\ length.next \in 1..8
  BY <1>1, NaturalTyped
<1>3. \A i \in length.next + 1..length.next + length.value : raw[i] \in Byte
  <2> DEFINE first == length.next
             size == length.value
  <2>1. first \in 1..8 /\ size \in Nat /\ Len(raw) = first + size + 4
    BY <1>1, <1>2
  <2> HIDE DEF first, size
  <2>2. \A i \in first + 1..first + size : i \in 1..Len(raw)
    BY <2>1
  <2>3. \A i \in first + 1..first + size : raw[i] \in Byte
    BY <2>2, ElementOfSeq
  <2>4. QED
    BY <2>3 DEF first, size
<1>4. length.next + 1 \in Int /\ length.next + length.value \in Int
  BY <1>2
<1> HIDE DEF length
<1>5. QED
  BY <1>1, <1>3, <1>4, SubSeqProperties


LEMMA HalfIsNat == Half \in Nat
BY DEF Half

LEMMA Divided ==
  ASSUME NEW h \in Nat
  PROVE  h \div 256 \in Nat /\ h % 256 \in Byte /\ (h % 256) + (h \div 256) * 256 = h
BY DEF Byte

\* The bytes of half a u32, and back.
LEMMA HalfReadBack ==
  ASSUME NEW h \in 0..Half - 1
  PROVE  h % 256 \in Byte /\ h \div 256 \in Byte /\ (h % 256) + (h \div 256) * 256 = h
<1> DEFINE low == h % 256
           high == h \div 256
<1>1. h \in Nat /\ h < Half
  BY HalfIsNat
<1>2. high \in Nat /\ low \in Byte /\ low + high * 256 = h
  BY <1>1, Divided
<1> HIDE DEF low, high
<1>3. high * 256 < Half
  BY <1>1, <1>2, BytesAreNatural, HalfIsNat
<1>4. high <= 255
  BY <1>2, <1>3 DEF Half
<1>5. high \in Byte
  BY <1>2, <1>4 DEF Byte
<1>6. QED
  BY <1>2, <1>5 DEF low, high

LEMMA ServiceIdTyped ==
  ASSUME NEW id \in ServiceIds, parseJnsServiceId(id) # Refused
  PROVE  /\ parseJnsServiceId(id) = id /\ id = <<id[1], id[2]>>
         /\ id[1] \in 0..Half - 1 /\ id[2] \in 0..Half - 1
<1>1. id # NotANumber /\ id[1] < Half /\ parseJnsServiceId(id) = id
  BY DEF parseJnsServiceId
<1>2. id \in Nat \X (0..Half - 1)
  BY <1>1, NameWireAssumption
<1>3. PICK a \in Nat, b \in 0..Half - 1 : id = <<a, b>>
  BY <1>2
<1>4. id[1] = a /\ id[2] = b
  BY <1>3
<1>5. a \in 0..Half - 1
  <2>1. a < Half
    BY <1>1, <1>4
  <2>2. \A x \in Nat : x < Half => x \in 0..Half - 1
    BY HalfIsNat
  <2>3. QED
    BY <1>3, <2>1, <2>2
<1>6. QED
  BY <1>1, <1>3, <1>4, <1>5

LEMMA FourBytes ==
  ASSUME NEW w \in Byte, NEW x \in Byte, NEW y \in Byte, NEW z \in Byte
  PROVE  <<w, x, y, z>> \in Seq(Byte) /\ Len(<<w, x, y, z>>) = 4
OBVIOUS

LEMMA U32Typed ==
  ASSUME NEW a \in 0..Half - 1, NEW b \in 0..Half - 1
  PROVE  /\ U32(<<a, b>>) \in Seq(Byte) /\ Len(U32(<<a, b>>)) = 4
         /\ ReadU32(U32(<<a, b>>)) = <<a, b>>
<1>1. U32(<<a, b>>) = <<b % 256, b \div 256, a % 256, a \div 256>>
  BY DEF U32
<1>2. a % 256 \in Byte /\ a \div 256 \in Byte /\ b % 256 \in Byte /\ b \div 256 \in Byte
  BY HalfReadBack
<1>3. U32(<<a, b>>) \in Seq(Byte) /\ Len(U32(<<a, b>>)) = 4
  <2>1. PICK w \in Byte, x \in Byte, y \in Byte, z \in Byte :
          w = b % 256 /\ x = b \div 256 /\ y = a % 256 /\ z = a \div 256
    BY <1>2
  <2>2. U32(<<a, b>>) = <<w, x, y, z>>
    BY <1>1, <2>1
  <2>3. QED
    BY <2>2, FourBytes
<1>4. ReadU32(U32(<<a, b>>)) =
        <<(a % 256) + (a \div 256) * 256, (b % 256) + (b \div 256) * 256>>
  BY <1>1 DEF ReadU32
<1>5. QED
  BY <1>3, <1>4, HalfReadBack

\* The service reads what the client wrote.
LEMMA ClaimReadBack ==
  ASSUME NEW name \in Seq(Byte), Len(name) \in 3..32,
         NEW a \in 0..Half - 1, NEW b \in 0..Half - 1
  PROVE  /\ EncodeClaim(name, <<a, b>>) \in Seq(Byte)
         /\ DecodeClaim(EncodeClaim(name, <<a, b>>)) = [name |-> name, serviceId |-> <<a, b>>]
<1>0. PICK n \in 3..32 : n = Len(name)
  OBVIOUS
<1> DEFINE u == U32(<<a, b>>)
           front == <<n>> \o name
           raw == front \o u
<1>1. u \in Seq(Byte) /\ Len(u) = 4 /\ ReadU32(u) = <<a, b>>
  BY U32Typed
<1>2. n \in Byte /\ n < 128 /\ n \in Nat
  BY DEF Byte
<1> HIDE DEF u
<1>3. <<n>> \in Seq(Byte) /\ Len(<<n>>) = 1 /\ <<n>>[1] = n
  BY <1>2
<1>4. /\ front \in Seq(Byte) /\ Len(front) = n + 1
      /\ \A i \in 1..n + 1 : front[i] = IF i <= 1 THEN <<n>>[i] ELSE name[i - 1]
  BY <1>2, <1>3, <1>0, ConcatProperties
<1>5. front[1] = n /\ \A i \in 1..n : front[i + 1] = name[i]
  BY <1>2, <1>3, <1>4
<1> HIDE DEF front
<1>6. /\ raw \in Seq(Byte) /\ Len(raw) = n + 5
      /\ \A i \in 1..n + 5 : raw[i] = IF i <= n + 1 THEN front[i] ELSE u[i - (n + 1)]
  <2>1. /\ raw \in Seq(Byte) /\ Len(raw) = Len(front) + Len(u)
        /\ \A i \in 1..Len(front) + Len(u) :
             raw[i] = IF i <= Len(front) THEN front[i] ELSE u[i - Len(front)]
    BY <1>1, <1>4, ConcatProperties
  <2>2. Len(front) + Len(u) = n + 5
    BY <1>1, <1>4
  <2>3. QED
    BY <1>4, <2>1, <2>2
<1>7. raw[1] = n /\ (\A i \in 1..n : raw[i + 1] = name[i]) /\ \A i \in 1..4 : raw[n + 1 + i] = u[i]
  <2>1. raw[1] = n /\ \A i \in 1..n : raw[i + 1] = name[i]
    <3>1. 1 \in 1..n + 5 /\ 1 <= n + 1 /\ \A i \in 1..n : i + 1 \in 1..n + 5 /\ i + 1 <= n + 1
      OBVIOUS
    <3>2. QED
      BY <1>5, <1>6, <3>1
  <2>2. \A i \in 1..4 : n + 1 + i \in 1..n + 5 /\ ~(n + 1 + i <= n + 1) /\ n + 1 + i - (n + 1) = i
    OBVIOUS
  <2>3. ASSUME NEW i \in 1..4 PROVE raw[n + 1 + i] = u[i]
    <3>1. PICK j \in 1..n + 5 : j = n + 1 + i /\ ~(j <= n + 1) /\ j - (n + 1) = i
      BY <2>2
    <3>2. raw[j] = u[j - (n + 1)]
      BY <1>6, <3>1
    <3>3. QED
      BY <3>1, <3>2
  <2>4. QED
    BY <2>1, <2>3
<1>8. EncodeClaim(name, <<a, b>>) = raw
  BY <1>0 DEF EncodeClaim, raw, front, u
<1> HIDE DEF raw
<1>9. raw # << >> /\ Head(raw) = n
  BY <1>2, <1>6, <1>7, EmptySeq
<1>10. LeadingOnes(Head(raw)) = 0
  BY <1>2, <1>9, LeadingOnesTyped
<1>11. jamNatural(raw) = [value |-> n, next |-> 1]
  BY <1>2, <1>6, <1>9, <1>10 DEF jamNatural
<1>12. jamNatural(raw) # Refused
  BY <1>2, <1>11, NameWireAssumption
<1>13. SubSeq(raw, 2, n + 1) = name
  <2>1. /\ SubSeq(raw, 2, n + 1) \in Seq(Byte) /\ Len(SubSeq(raw, 2, n + 1)) = n
        /\ \A i \in 1..n : SubSeq(raw, 2, n + 1)[i] = raw[i + 1]
    <3>1. \A i \in 2..n + 1 : raw[i] \in Byte
      BY <1>2, <1>6, ElementOfSeq
    <3>2. /\ SubSeq(raw, 2, n + 1) \in Seq(Byte)
          /\ Len(SubSeq(raw, 2, n + 1)) = IF 2 <= n + 1 THEN n + 1 - 2 + 1 ELSE 0
          /\ \A i \in 1..n + 1 - 2 + 1 : SubSeq(raw, 2, n + 1)[i] = raw[2 + i - 1]
      BY <1>2, <3>1, SubSeqProperties
    <3>3. n >= 1
      OBVIOUS
    <3>4. QED
      BY <1>2, <3>2, <3>3
  <2>2. QED
    BY <1>7, <1>0, <2>1, SeqEqual
<1>14. SubSeq(raw, n + 2, n + 5) = u
  <2>1. \A i \in n + 2..n + 5 : raw[i] \in Byte
    BY <1>2, <1>6, ElementOfSeq
  <2>2. /\ SubSeq(raw, n + 2, n + 5) \in Seq(Byte)
        /\ Len(SubSeq(raw, n + 2, n + 5)) = IF n + 2 <= n + 5 THEN n + 5 - (n + 2) + 1 ELSE 0
        /\ \A i \in 1..n + 5 - (n + 2) + 1 : SubSeq(raw, n + 2, n + 5)[i] = raw[n + 2 + i - 1]
    BY <1>2, <2>1, SubSeqProperties
  <2>3. \A i \in 1..4 : n + 2 + i - 1 = n + 1 + i
    BY <1>2
  <2>4. /\ Len(SubSeq(raw, n + 2, n + 5)) = 4
        /\ \A i \in 1..4 : SubSeq(raw, n + 2, n + 5)[i] = u[i]
    BY <1>2, <1>7, <2>2, <2>3
  <2>5. QED
    BY <1>1, <2>2, <2>4, SeqEqual
<1>15. Len(raw) - 3 = n + 2 /\ 1 + 1 = 2 /\ 1 + n = n + 1 /\ Len(raw) = 1 + n + 4 /\ ~(n > 32)
  BY <1>2, <1>6
<1>16. DecodeClaim(raw) = [name |-> name, serviceId |-> ReadU32(u)]
  <2>1. PICK length : length = jamNatural(raw)
    OBVIOUS
  <2>2. length # Refused /\ length.value = n /\ length.next = 1
    BY <1>11, <1>12, <2>1
  <2>3. DecodeClaim(raw) =
          IF length = Refused \/ length.value > 32 \/ Len(raw) # length.next + length.value + 4
          THEN Refused
          ELSE [name |-> SubSeq(raw, length.next + 1, length.next + length.value),
                serviceId |-> ReadU32(SubSeq(raw, Len(raw) - 3, Len(raw)))]
    BY <2>1 DEF DecodeClaim
  <2>4. DecodeClaim(raw) = [name |-> SubSeq(raw, 1 + 1, 1 + n),
                            serviceId |-> ReadU32(SubSeq(raw, Len(raw) - 3, Len(raw)))]
    BY <1>15, <2>2, <2>3
  <2>5. QED
    BY <1>6, <1>13, <1>14, <1>15, <2>4
<1>17. QED
  BY <1>1, <1>6, <1>8, <1>16

\* Two sequences have the same beginning when they agree on it.
LEMMA BeginningsAgree ==
  ASSUME NEW s \in Seq(Nat), NEW t \in Seq(Nat), NEW n \in Nat, n <= Len(s), n <= Len(t)
  PROVE  SubSeq(s, 1, n) = SubSeq(t, 1, n) <=> \A i \in 1..n : s[i] = t[i]
<1>1. Len(s) \in Nat /\ Len(t) \in Nat
  BY LenProperties
<1>2. ASSUME NEW r \in Seq(Nat), n <= Len(r)
      PROVE  /\ SubSeq(r, 1, n) \in Seq(Nat) /\ Len(SubSeq(r, 1, n)) = n
             /\ \A i \in 1..n : SubSeq(r, 1, n)[i] = r[i]
  <2>1. \A i \in 1..n : r[i] \in Nat
    <3>1. Len(r) \in Nat /\ \A i \in 1..n : i \in 1..Len(r)
      BY <1>2, LenProperties
    <3>2. QED
      BY <3>1, ElementOfSeq
  <2>2. /\ SubSeq(r, 1, n) \in Seq(Nat)
        /\ Len(SubSeq(r, 1, n)) = IF 1 <= n THEN n - 1 + 1 ELSE 0
        /\ \A i \in 1..n - 1 + 1 : SubSeq(r, 1, n)[i] = r[1 + i - 1]
    BY <2>1, SubSeqProperties
  <2>3. QED
    BY <2>2
<1>3. ASSUME \A i \in 1..n : s[i] = t[i] PROVE SubSeq(s, 1, n) = SubSeq(t, 1, n)
  BY <1>2, <1>3, SeqEqual
<1>4. ASSUME SubSeq(s, 1, n) = SubSeq(t, 1, n), NEW i \in 1..n PROVE s[i] = t[i]
  BY <1>2, <1>4
<1>5. QED
  BY <1>3, <1>4

\* The order of two sequences, without their subsequences.
LEMMA BeforeMeans ==
  ASSUME NEW s \in Seq(Nat), NEW t \in Seq(Nat)
  PROVE  Before(s, t) <=>
           \/ s # t /\ Len(s) <= Len(t) /\ \A i \in 1..Len(s) : s[i] = t[i]
           \/ \E i \in 1..Len(s) : /\ i <= Len(t) /\ s[i] < t[i]
                                   /\ \A j \in 1..i - 1 : s[j] = t[j]
<1>1. Len(s) \in Nat /\ Len(t) \in Nat /\ DOMAIN s = 1..Len(s) /\ DOMAIN t = 1..Len(t)
  BY LenProperties
<1>2. IsStrictPrefix(s, t) <=> s # t /\ Len(s) <= Len(t) /\ \A i \in 1..Len(s) : s[i] = t[i]
  <2>1. CASE Len(s) <= Len(t)
    <3>1. SubSeq(s, 1, Len(s)) = SubSeq(t, 1, Len(s)) <=> \A i \in 1..Len(s) : s[i] = t[i]
      BY <1>1, <2>1, BeginningsAgree
    <3>2. QED
      BY <2>1, <3>1 DEF IsStrictPrefix, IsPrefix
  <2>2. CASE ~(Len(s) <= Len(t))
    BY <2>2 DEF IsStrictPrefix, IsPrefix
  <2>3. QED
    BY <2>1, <2>2
<1>3. ASSUME NEW i
      PROVE  i \in DOMAIN s \cap DOMAIN t <=> i \in 1..Len(s) /\ i <= Len(t)
  BY <1>1
<1>4. ASSUME NEW i \in 1..Len(s), i <= Len(t)
      PROVE  SubSeq(s, 1, i - 1) = SubSeq(t, 1, i - 1) <=> \A j \in 1..i - 1 : s[j] = t[j]
  <2>1. i - 1 \in Nat /\ i - 1 <= Len(s) /\ i - 1 <= Len(t)
    BY <1>1, <1>4
  <2>2. QED
    BY <2>1, BeginningsAgree
<1>5. (\E i \in DOMAIN s \cap DOMAIN t :
         s[i] < t[i] /\ SubSeq(s, 1, i - 1) = SubSeq(t, 1, i - 1))
      <=> \E i \in 1..Len(s) : /\ i <= Len(t) /\ s[i] < t[i]
                               /\ \A j \in 1..i - 1 : s[j] = t[j]
  <2>1. ASSUME NEW i \in DOMAIN s \cap DOMAIN t, s[i] < t[i],
               SubSeq(s, 1, i - 1) = SubSeq(t, 1, i - 1)
        PROVE  i \in 1..Len(s) /\ i <= Len(t) /\ s[i] < t[i] /\ \A j \in 1..i - 1 : s[j] = t[j]
    <3>1. i \in 1..Len(s) /\ i <= Len(t)
      BY <1>3
    <3>2. QED
      BY <1>4, <2>1, <3>1
  <2>2. ASSUME NEW i \in 1..Len(s), i <= Len(t), s[i] < t[i], \A j \in 1..i - 1 : s[j] = t[j]
        PROVE  /\ i \in DOMAIN s \cap DOMAIN t /\ s[i] < t[i]
               /\ SubSeq(s, 1, i - 1) = SubSeq(t, 1, i - 1)
    <3>1. i \in DOMAIN s \cap DOMAIN t
      BY <1>3, <2>2
    <3>2. QED
      BY <1>4, <2>2, <3>1
  <2>3. QED
    BY <2>1, <2>2
<1>6. QED
  BY <1>2, <1>5 DEF Before

\* Of two different sequences exactly one is before the other.
LEMMA BytesOrdered ==
  ASSUME NEW s \in Seq(Nat), NEW t \in Seq(Nat), s # t
  PROVE  Before(s, t) <=> ~Before(t, s)
<1>1. /\ Len(s) \in Nat /\ Len(t) \in Nat
      /\ (\A i \in 1..Len(s) : s[i] \in Int) /\ \A i \in 1..Len(t) : t[i] \in Int
  <2>1. (\A i \in 1..Len(s) : s[i] \in Nat) /\ \A i \in 1..Len(t) : t[i] \in Nat
    BY ElementOfSeq
  <2>2. QED
    BY <2>1, LenProperties
<1> DEFINE Differ == {i \in Nat : i \in 1..Len(s) /\ i <= Len(t) /\ s[i] # t[i]}
<1>2. CASE Differ = {}
  <2>1. \A i \in 1..Len(s) : i <= Len(t) => s[i] = t[i]
    BY <1>1, <1>2
  <2>2. \A i \in 1..Len(t) : i <= Len(s) => s[i] = t[i]
    BY <1>1, <2>1
  <2>3. Len(s) # Len(t)
    <3>1. SUFFICES ASSUME Len(s) = Len(t) PROVE FALSE
      OBVIOUS
    <3>2. \A i \in 1..Len(s) : s[i] = t[i]
      BY <1>1, <2>1, <3>1
    <3>3. QED
      BY <3>1, <3>2, SeqEqual
  <2>4. Before(s, t) <=> Len(s) < Len(t)
    <3>1. ~\E i \in 1..Len(s) : i <= Len(t) /\ s[i] < t[i]
      BY <1>1, <2>1
    <3>2. Len(s) <= Len(t) => \A i \in 1..Len(s) : s[i] = t[i]
      BY <1>1, <2>1
    <3>3. Len(s) <= Len(t) <=> Len(s) < Len(t)
      BY <1>1, <2>3
    <3>4. QED
      BY <3>1, <3>2, <3>3, BeforeMeans
  <2>5. Before(t, s) <=> Len(t) < Len(s)
    <3>1. ~\E i \in 1..Len(t) : i <= Len(s) /\ t[i] < s[i]
      BY <1>1, <2>2
    <3>2. Len(t) <= Len(s) => \A i \in 1..Len(t) : t[i] = s[i]
      BY <1>1, <2>2
    <3>3. Len(t) <= Len(s) <=> Len(t) < Len(s)
      BY <1>1, <2>3
    <3>4. QED
      BY <3>1, <3>2, <3>3, BeforeMeans
  <2>6. QED
    BY <1>1, <2>3, <2>4, <2>5
<1>3. CASE Differ # {}
  <2>1. PICK k \in Differ : \A i \in Differ : k <= i
    BY <1>3, LeastNatural
  <2>2. /\ k \in 1..Len(s) /\ k \in 1..Len(t) /\ k <= Len(s) /\ k <= Len(t)
        /\ s[k] # t[k] /\ s[k] \in Int /\ t[k] \in Int
    BY <1>1, <2>1
  <2>3. \A i \in 1..k - 1 : s[i] = t[i]
    <3>1. ASSUME NEW i \in 1..k - 1, s[i] # t[i] PROVE FALSE
      <4>1. i \in Nat /\ i \in 1..Len(s) /\ i <= Len(t) /\ ~(k <= i)
        BY <1>1, <2>2
      <4>2. i \in Differ
        BY <3>1, <4>1
      <4>3. QED
        BY <2>1, <4>1, <4>2
    <3>2. QED
      BY <3>1
  <2> HIDE DEF Differ
  <2>4. ASSUME NEW r \in Seq(Nat), NEW u \in Seq(Nat), Len(r) \in Nat, Len(u) \in Nat,
               k \in 1..Len(r), k <= Len(u), r[k] # u[k], r[k] \in Int, u[k] \in Int,
               \A i \in 1..k - 1 : r[i] = u[i]
        PROVE  Before(r, u) <=> r[k] < u[k]
    <3>1. ~\A i \in 1..Len(r) : r[i] = u[i]
      BY <2>4
    <3>2. ASSUME NEW i \in 1..Len(r), i <= Len(u), r[i] < u[i], \A j \in 1..i - 1 : r[j] = u[j]
          PROVE  r[k] < u[k]
      <4>1. ~(k < i)
        <5>1. k < i => k \in 1..i - 1
          BY <2>4
        <5>2. QED
          BY <2>4, <3>2, <5>1
      <4>2. ~(i < k)
        <5>1. i < k => i \in 1..k - 1
          BY <2>4
        <5>2. SUFFICES ASSUME i < k PROVE FALSE
          OBVIOUS
        <5>3. r[i] = u[i] /\ u[i] \in Nat /\ r[i] < u[i]
          <6>1. i \in 1..Len(u)
            BY <3>2, <2>4
          <6>2. QED
            BY <2>4, <3>2, <5>1, <5>2, <6>1, ElementOfSeq
        <5>4. QED
          BY <5>3
      <4>3. i = k
        BY <2>4, <4>1, <4>2
      <4>4. QED
        BY <3>2, <4>3
    <3>3. r[k] < u[k] => \E i \in 1..Len(r) : /\ i <= Len(u) /\ r[i] < u[i]
                                               /\ \A j \in 1..i - 1 : r[j] = u[j]
      BY <2>4
    <3>4. QED
      BY <3>1, <3>2, <3>3, BeforeMeans
  <2>5. Before(s, t) <=> s[k] < t[k]
    BY <1>1, <2>2, <2>3, <2>4
  <2>6. Before(t, s) <=> t[k] < s[k]
    <3>1. \A i \in 1..k - 1 : t[i] = s[i]
      BY <2>3
    <3>2. QED
      BY <1>1, <2>2, <3>1, <2>4
  <2>7. QED
    BY <2>2, <2>5, <2>6
<1>4. QED
  BY <1>2, <1>3

\* Different names have different keys.
LEMMA KeysTellNamesApart ==
  ASSUME NEW a \in Seq(Nat), NEW b \in Seq(Nat)
  PROVE  /\ key_names(a) \in Seq(Nat) /\ key_names(b) \in Seq(Nat)
         /\ key_names(a) = key_names(b) => a = b
<1>1. PICK head \in Seq(Nat) :
        head = <<1, Len(namespace_names) % 256, Len(namespace_names) \div 256>> \o namespace_names
  <2>1. namespace_names \in Seq(Nat) /\ Len(namespace_names) = 12
    BY DEF namespace_names
  <2>2. <<1, 12 % 256, 12 \div 256>> \in Seq(Nat)
    OBVIOUS
  <2>3. <<1, Len(namespace_names) % 256, Len(namespace_names) \div 256>> \in Seq(Nat)
    BY <2>1, <2>2
  <2>4. <<1, Len(namespace_names) % 256, Len(namespace_names) \div 256>> \o namespace_names
          \in Seq(Nat)
    BY <2>1, <2>3, ConcatProperties
  <2>5. QED
    BY <2>4
<1>2. \A n \in Seq(Nat) : key_names(n) = head \o (<<Len(n)>> \o n)
  BY <1>1 DEF key_names, applicationKeyV1, jamBounded
<1>3. \A n \in Seq(Nat) : <<Len(n)>> \in Seq(Nat) /\ Len(<<Len(n)>>) = 1 /\ <<Len(n)>> \o n \in Seq(Nat)
  <2>1. \A n \in Seq(Nat) : Len(n) \in Nat
    BY LenProperties
  <2>2. \A k \in Nat : <<k>> \in Seq(Nat) /\ Len(<<k>>) = 1
    OBVIOUS
  <2>3. \A n \in Seq(Nat) : <<Len(n)>> \in Seq(Nat) /\ Len(<<Len(n)>>) = 1
    BY <2>1, <2>2
  <2>4. QED
    BY <2>3, ConcatProperties
<1>4. key_names(a) \in Seq(Nat) /\ key_names(b) \in Seq(Nat)
  <2>1. \A u \in Seq(Nat) : head \o u \in Seq(Nat)
    BY ConcatProperties
  <2>2. QED
    BY <1>2, <1>3, <2>1
<1>c. \A u \in Seq(Nat), v \in Seq(Nat), w \in Seq(Nat) : w \o u = w \o v => u = v
  BY ConcatSimplifications
<1>5. ASSUME key_names(a) = key_names(b) PROVE a = b
  <2>1. head \o (<<Len(a)>> \o a) = head \o (<<Len(b)>> \o b)
    BY <1>2, <1>5
  <2>2. <<Len(a)>> \o a = <<Len(b)>> \o b
    BY <1>c, <1>3, <2>1
  <2>3. ASSUME NEW n \in Seq(Nat)
        PROVE  (<<Len(n)>> \o n)[1] = Len(n)
    <3>1. \A i \in 1..Len(<<Len(n)>>) + Len(n) : (<<Len(n)>> \o n)[i] =
            IF i <= Len(<<Len(n)>>) THEN <<Len(n)>>[i] ELSE n[i - Len(<<Len(n)>>)]
      BY <1>3, ConcatProperties
    <3>2. Len(n) \in Nat
      BY LenProperties
    <3>3. QED
      BY <1>3, <3>1, <3>2
  <2>4. <<Len(a)>> = <<Len(b)>>
    BY <2>2, <2>3
  <2>5. QED
    BY <1>c, <1>3, <2>2, <2>4
<1>6. QED
  BY <1>4, <1>5

\* An input is bytes; one nobody changed is what the client made of the name
\* and the id that it let pass.
WireInv ==
  /\ input \in Seq(Byte)
  /\ asked # Unasked =>
       /\ asked.name \in Texts /\ asked.serviceId \in ServiceIds
       /\ encodeJnsName(asked.name) # Refused /\ parseJnsServiceId(asked.serviceId) # Refused
       /\ spoilt = 0 => input = EncodeClaim(encodeJnsName(asked.name), asked.serviceId)
  /\ spoilt \in Nat

LEMMA PartsAreBytes ==
  ASSUME NEW s \in Seq(Byte), NEW m \in Int, NEW n \in Int, 1 <= m, n <= Len(s)
  PROVE  SubSeq(s, m, n) \in Seq(Byte)
<1>1. \A i \in m..n : i \in 1..Len(s)
  BY LenProperties
<1>2. \A i \in m..n : s[i] \in Byte
  BY <1>1, ElementOfSeq
<1>3. QED
  BY <1>2, SubSeqProperties

\* What the client sends for a name and an id it let pass.
LEMMA ClaimSent ==
  ASSUME NEW text \in Texts, NEW id \in ServiceIds,
         encodeJnsName(text) # Refused, parseJnsServiceId(id) # Refused
  PROVE  /\ parseJnsServiceId(id) = id /\ EncodeClaim(encodeJnsName(text), id) \in Seq(Byte)
         /\ DecodeClaim(EncodeClaim(encodeJnsName(text), id)) =
              [name |-> encodeJnsName(text), serviceId |-> id]
         /\ validName(encodeJnsName(text))
<1>1. text \in Seq(Nat)
  BY NameWireAssumption
<1>2. encodeJnsName(text) \in Seq(Nat) /\ isCanonicalJnsName(encodeJnsName(text))
  BY <1>1, EncodedTyped
<1>3. encodeJnsName(text) \in Seq(Byte) /\ Len(encodeJnsName(text)) \in 3..32
  BY <1>2, CanonicalTyped
<1>4. /\ parseJnsServiceId(id) = id /\ id = <<id[1], id[2]>>
      /\ id[1] \in 0..Half - 1 /\ id[2] \in 0..Half - 1
  BY ServiceIdTyped
<1>5. /\ EncodeClaim(encodeJnsName(text), <<id[1], id[2]>>) \in Seq(Byte)
      /\ DecodeClaim(EncodeClaim(encodeJnsName(text), <<id[1], id[2]>>)) =
           [name |-> encodeJnsName(text), serviceId |-> <<id[1], id[2]>>]
  BY <1>3, <1>4, ClaimReadBack
<1>6. QED
  BY <1>2, <1>4, <1>5, ChecksAgree

LEMMA AskKeepsBytes ==
  ASSUME WireInv, NEW text \in Texts, NEW id \in ServiceIds, AskToClaim(text, id)
  PROVE  WireInv'
<1>1. /\ encodeJnsName(text) # Refused /\ parseJnsServiceId(id) # Refused
      /\ asked' = [name |-> text, serviceId |-> id] /\ spoilt' = spoilt
      /\ input' = EncodeClaim(encodeJnsName(text), parseJnsServiceId(id))
  BY DEF AskToClaim
<1>2. parseJnsServiceId(id) = id /\ EncodeClaim(encodeJnsName(text), id) \in Seq(Byte)
  BY <1>1, ClaimSent
<1>3. asked'.name = text /\ asked'.serviceId = id
  BY <1>1
<1>4. QED
  BY <1>1, <1>2, <1>3 DEF WireInv

LEMMA SpoilKeepsBytes ==
  ASSUME WireInv, Spoil
  PROVE  WireInv'
<1>1. input \in Seq(Byte) /\ spoilt \in Nat /\ asked' = asked /\ spoilt' = spoilt + 1
  BY DEF WireInv, Spoil
<1>2. Len(input) \in Nat /\ DOMAIN input = 1..Len(input)
  BY <1>1, LenProperties
<1>3. \A b \in Noise : b \in Byte /\ <<b>> \in Seq(Byte)
  BY NameWireAssumption
<1>4. ASSUME NEW i \in DOMAIN input, NEW b \in Noise PROVE ReplaceAt(input, i, b) \in Seq(Byte)
  <2>1. i \in 1..Len(input) /\ b \in Byte
    BY <1>2, <1>3
  <2>2. QED
    BY <1>1, <2>1, ExceptSeq DEF ReplaceAt
<1>5. ASSUME NEW i \in DOMAIN input PROVE RemoveAt(input, i) \in Seq(Byte)
  <2>1. i \in Int /\ i - 1 <= Len(input) /\ 1 <= i + 1 /\ Len(input) <= Len(input)
    BY <1>2
  <2>2. SubSeq(input, 1, i - 1) \in Seq(Byte) /\ SubSeq(input, i + 1, Len(input)) \in Seq(Byte)
    BY <1>1, <1>2, <2>1, PartsAreBytes
  <2>3. QED
    BY <2>2, ConcatProperties DEF RemoveAt
<1>6. ASSUME NEW i \in 1..Len(input) + 1, NEW b \in Noise PROVE InsertAt(input, i, b) \in Seq(Byte)
  <2>1. i \in Int /\ 1 <= i /\ i - 1 <= Len(input) /\ Len(input) <= Len(input)
    BY <1>2
  <2>2. SubSeq(input, 1, i - 1) \in Seq(Byte) /\ SubSeq(input, i, Len(input)) \in Seq(Byte)
    BY <1>1, <1>2, <2>1, PartsAreBytes
  <2>3. SubSeq(input, 1, i - 1) \o <<b>> \in Seq(Byte)
    BY <1>3, <2>2, ConcatProperties
  <2>4. QED
    BY <2>2, <2>3, ConcatProperties DEF InsertAt
<1>7. input' \in Seq(Byte)
  BY <1>4, <1>5, <1>6 DEF Spoil
<1>8. spoilt' \in Nat /\ spoilt' # 0
  BY <1>1
<1>9. QED
  BY <1>1, <1>7, <1>8 DEF WireInv

LEMMA WireInvHolds == NameWireSpec => []WireInv
<1>1. NameWireInit => WireInv
  BY EmptySeq DEF NameWireInit, WireInv
<1>2. WireInv /\ [NameWireNext]_nameWireVars => WireInv'
  <2>1. ASSUME WireInv, NameWireNext PROVE WireInv'
    <3>1. CASE Spoil
      BY <2>1, <3>1, SpoilKeepsBytes
    <3>2. CASE \E text \in Texts, id \in ServiceIds : AskToClaim(text, id)
      BY <2>1, <3>2, AskKeepsBytes
    <3>3. QED
      BY <2>1, <3>1, <3>2 DEF NameWireNext
  <2>2. ASSUME WireInv, UNCHANGED nameWireVars PROVE WireInv'
    BY <2>2 DEF WireInv, nameWireVars
  <2>3. QED
    BY <2>1, <2>2
<1>3. QED
  BY <1>1, <1>2, PTL DEF NameWireSpec

\* The service reads the name and the id the user typed, whatever they are;
\* and of any bytes whatever, a name the service takes is one the client can
\* read, look up and bind, with a key no other name has.
THEOREM ClaimsRead == NameWireSpec => []ClaimsAreRead
<1>1. ASSUME WireInv PROVE ClaimsAreRead
  <2> DEFINE read == DecodeClaim(input)
             Key(text) == key_names(encodeJnsName(text))
  <2>1. ASSUME asked # Unasked, spoilt = 0
        PROVE  /\ read = [name |-> encodeJnsName(asked.name), serviceId |-> asked.serviceId]
               /\ validName(read.name)
    <3>1. /\ asked.name \in Texts /\ asked.serviceId \in ServiceIds
          /\ encodeJnsName(asked.name) # Refused /\ parseJnsServiceId(asked.serviceId) # Refused
          /\ input = EncodeClaim(encodeJnsName(asked.name), asked.serviceId)
      BY <1>1, <2>1 DEF WireInv
    <3>2. /\ read = [name |-> encodeJnsName(asked.name), serviceId |-> asked.serviceId]
          /\ validName(encodeJnsName(asked.name))
      BY <3>1, ClaimSent
    <3> HIDE DEF read
    <3>3. read.name = encodeJnsName(asked.name)
      BY <3>2
    <3>4. QED
      BY <3>2, <3>3
  <2>2. ASSUME read # Refused, validName(read.name)
        PROVE  /\ decodeJnsName(read.name) # Refused
               /\ encodeJnsName(decodeJnsName(read.name)) = read.name
               /\ \A text \in Texts : encodeJnsName(text) # Refused =>
                    IF encodeJnsName(text) = read.name THEN Key(text) = key_names(read.name)
                    ELSE Before(Key(text), key_names(read.name)) # Before(key_names(read.name), Key(text))
    <3>1. PICK name : name = read.name
      OBVIOUS
    <3>2. name \in Seq(Nat) /\ isCanonicalJnsName(name)
      <4>1. read.name \in Seq(Byte)
        BY <1>1, <2>2, DecodedTyped DEF WireInv
      <4>2. Byte \subseteq Nat
        BY BytesAreNatural
      <4>3. name \in Seq(Nat)
        BY <3>1, <4>1, <4>2, SeqMonotonic
      <4>4. QED
        BY <2>2, <3>1, <4>3, ChecksAgree
    <3>3. decodeJnsName(name) = name /\ name # Refused /\ encodeJnsName(name) = name
      BY <3>2, CanonicalIsEncoded, NameWireAssumption DEF decodeJnsName
    <3>4. ASSUME NEW text \in Texts, encodeJnsName(text) # Refused
          PROVE  IF encodeJnsName(text) = name THEN Key(text) = key_names(name)
                 ELSE Before(Key(text), key_names(name)) # Before(key_names(name), Key(text))
      <4>1. encodeJnsName(text) \in Seq(Nat)
        BY <3>4, EncodedTyped, NameWireAssumption
      <4>2. CASE encodeJnsName(text) = name
        BY <4>2
      <4>3. CASE encodeJnsName(text) # name
        <5>1. Key(text) \in Seq(Nat) /\ key_names(name) \in Seq(Nat) /\ Key(text) # key_names(name)
          BY <3>2, <4>1, <4>3, KeysTellNamesApart
        <5>2. Before(Key(text), key_names(name)) <=> ~Before(key_names(name), Key(text))
          BY <5>1, BytesOrdered
        <5>3. \A s, t : Before(s, t) \in BOOLEAN
          BY DEF Before
        <5>4. Before(Key(text), key_names(name)) # Before(key_names(name), Key(text))
          BY <5>2, <5>3
        <5>5. QED
          BY <4>3, <5>4
      <4>4. QED
        BY <4>2, <4>3
    <3> HIDE DEF read, Key
    <3>5. QED
      BY <3>1, <3>3, <3>4
  <2>3. QED
    BY <2>1, <2>2 DEF ClaimsAreRead
<1>2. NameWireSpec => []WireInv
  BY WireInvHolds
<1>3. QED
  BY <1>1, <1>2, PTL

-----------------------------------------------------------------------------
(* The shell: where a path leads.                                          *)

\* The parts so far, taken one after the other.
Runs(w, path, raw) ==
  w[0] = path /\ \A n \in 1..Len(raw) : w[n] = Walk(w[n - 1], raw[n])

LEMMA RunsExist ==
  ASSUME NEW path, NEW raw, Len(raw) \in Nat
  PROVE  \E w : Runs(w, path, raw) /\ Follow(path, raw) = w[Len(raw)]
<1> DEFINE Body(w, n) == [i \in 0..n |-> IF i = 0 THEN path ELSE Walk(w[i - 1], raw[i])]
           Done == {n \in Nat : \E w : w = Body(w, n)}
           Parts == CHOOSE w : w = Body(w, Len(raw))
<1>1. 0 \in Done
  <2>1. [i \in 0..0 |-> path] = Body([i \in 0..0 |-> path], 0)
    OBVIOUS
  <2>2. QED
    BY <2>1
<1>2. ASSUME NEW n \in Nat, n \in Done PROVE n + 1 \in Done
  <2>1. PICK w : w = Body(w, n)
    BY <1>2
  <2> DEFINE longer == [i \in 0..n + 1 |-> IF i = n + 1 THEN Walk(w[n], raw[n + 1]) ELSE w[i]]
  <2>2. ASSUME NEW i \in 0..n + 1
        PROVE  longer[i] = IF i = 0 THEN path ELSE Walk(longer[i - 1], raw[i])
    <3>1. CASE i = n + 1
      BY <3>1
    <3>2. CASE i \in 1..n
      <4>1. w[i] = Walk(w[i - 1], raw[i])
        BY <2>1, <3>2
      <4>2. QED
        BY <3>2, <4>1
    <3>3. CASE i = 0
      BY <2>1, <3>3
    <3>4. QED
      BY <3>1, <3>2, <3>3
  <2>3. longer = Body(longer, n + 1)
    <3> DEFINE other == Body(longer, n + 1)
    <3>1. other = [i \in 0..n + 1 |-> other[i]] /\ longer = [i \in 0..n + 1 |-> longer[i]]
      OBVIOUS
    <3>2. \A i \in 0..n + 1 : other[i] = longer[i]
      BY <2>2
    <3> HIDE DEF other, longer
    <3>3. longer = other
      BY <3>1, <3>2
    <3>4. QED
      BY <3>3 DEF other
  <2> HIDE DEF longer, Body
  <2>4. \E l : l = Body(l, n + 1)
    BY <2>3
  <2>5. QED
    BY <2>4
<1>3. Len(raw) \in Done
  <2> HIDE DEF Done
  <2>1. \A n \in Nat : n \in Done
    BY <1>1, <1>2, AllNaturals
  <2>2. QED
    BY <2>1
<1>4. Parts = Body(Parts, Len(raw))
  <2> HIDE DEF Body
  <2>1. \E w : w = Body(w, Len(raw))
    BY <1>3
  <2>2. QED
    BY <2>1
<1>5. Follow(path, raw) = Parts[Len(raw)]
  BY Zenon DEF Follow
<1> HIDE DEF Parts
<1>6. Runs(Parts, path, raw)
  <2>1. Parts[0] = path /\ \A n \in 1..Len(raw) : Parts[n] = Walk(Parts[n - 1], raw[n])
    BY <1>4
  <2>2. QED
    BY <2>1 DEF Runs
<1>7. QED
  BY <1>5, <1>6

LEMMA RunsLead ==
  ASSUME NEW w, NEW path, NEW raw, Len(raw) \in Nat, Runs(w, path, raw)
  PROVE  Follow(path, raw) = w[Len(raw)]
<1>1. PICK v : Runs(v, path, raw) /\ Follow(path, raw) = v[Len(raw)]
  BY RunsExist
<1> DEFINE Same == {n \in Nat : n <= Len(raw) => v[n] = w[n]}
<1>2. 0 \in Same
  BY <1>1 DEF Runs
<1>3. ASSUME NEW n \in Nat, n \in Same PROVE n + 1 \in Same
  <2>1. SUFFICES ASSUME n + 1 <= Len(raw) PROVE v[n + 1] = w[n + 1]
    OBVIOUS
  <2>2. n + 1 \in 1..Len(raw) /\ (n + 1) - 1 = n /\ v[n] = w[n]
    BY <1>3, <2>1
  <2>3. QED
    BY <1>1, <2>2 DEF Runs
<1>4. Len(raw) \in Same
  <2> HIDE DEF Same
  <2>1. \A n \in Nat : n \in Same
    BY <1>2, <1>3, AllNaturals
  <2>2. QED
    BY <2>1
<1>5. QED
  BY <1>1, <1>4

\* What was typed in two pieces leads where it leads in one.
LEMMA FollowConcat ==
  ASSUME NEW path, NEW s \in Seq(STRING), NEW t \in Seq(STRING)
  PROVE  Follow(path, s \o t) = Follow(Follow(path, s), t)
<1>1. /\ Len(s) \in Nat /\ Len(t) \in Nat /\ Len(s \o t) = Len(s) + Len(t)
      /\ \A i \in 1..Len(s) + Len(t) : (s \o t)[i] = IF i <= Len(s) THEN s[i] ELSE t[i - Len(s)]
  BY LenProperties, ConcatProperties
<1>2. PICK w : Runs(w, path, s) /\ Follow(path, s) = w[Len(s)]
  BY <1>1, RunsExist
<1>3. PICK v : Runs(v, Follow(path, s), t) /\ Follow(Follow(path, s), t) = v[Len(t)]
  BY <1>1, RunsExist
<1> DEFINE both == [n \in 0..Len(s) + Len(t) |-> IF n <= Len(s) THEN w[n] ELSE v[n - Len(s)]]
<1>4. both[0] = path
  BY <1>1, <1>2 DEF Runs
<1>5. ASSUME NEW n \in 1..Len(s) + Len(t) PROVE both[n] = Walk(both[n - 1], (s \o t)[n])
  <2>1. CASE n <= Len(s)
    <3>1. both[n] = w[n] /\ both[n - 1] = w[n - 1] /\ (s \o t)[n] = s[n] /\ n \in 1..Len(s)
      BY <1>1, <2>1
    <3>2. QED
      BY <1>2, <3>1 DEF Runs
  <2>2. CASE ~(n <= Len(s))
    <3>1. PICK k \in 1..Len(t) : k = n - Len(s)
      BY <1>1, <2>2
    <3>2. both[n] = v[k] /\ (s \o t)[n] = t[k]
      BY <1>1, <2>2, <3>1
    <3>3. both[n - 1] = v[k - 1]
      <4>1. CASE k = 1
        <5>1. n - 1 = Len(s) /\ n - 1 \in 0..Len(s) + Len(t)
          BY <1>1, <3>1, <4>1
        <5>2. both[n - 1] = w[Len(s)]
          BY <1>1, <5>1
        <5>3. QED
          BY <1>2, <1>3, <4>1, <5>2 DEF Runs
      <4>2. CASE k # 1
        <5>1. n - 1 \in 0..Len(s) + Len(t) /\ ~(n - 1 <= Len(s)) /\ (n - 1) - Len(s) = k - 1
          BY <1>1, <3>1, <4>2
        <5>2. QED
          BY <5>1
      <4>3. QED
        BY <4>1, <4>2
    <3>4. v[k] = Walk(v[k - 1], t[k])
      BY <1>3, <3>1 DEF Runs
    <3>5. QED
      BY <3>2, <3>3, <3>4
  <2>3. QED
    BY <2>1, <2>2
<1>6. both[Len(s) + Len(t)] = v[Len(t)]
  <2>1. CASE Len(t) = 0
    BY <1>1, <1>2, <1>3, <2>1 DEF Runs
  <2>2. CASE Len(t) # 0
    BY <1>1, <2>2
  <2>3. QED
    BY <2>1, <2>2
<1> HIDE DEF both
<1>7. Runs(both, path, s \o t)
  BY <1>1, <1>4, <1>5 DEF Runs
<1>8. Follow(path, s \o t) = both[Len(s \o t)]
  <2>1. Len(s \o t) \in Nat
    BY <1>1
  <2>2. QED
    BY <1>7, <2>1, RunsLead
<1>9. QED
  BY <1>1, <1>3, <1>6, <1>8


\* A step of the walk from a clean path: nothing, a part more or a part less.
LEMMA WalkTyped ==
  ASSUME NEW path, Clean(path), NEW part \in STRING, Walk(path, part) # Invalid
  PROVE  /\ Clean(Walk(path, part)) /\ Len(path) \in Nat
         /\ \/ /\ part \in {Empty, Here}
               /\ Walk(path, part) = path
            \/ /\ Real(part) /\ part \notin Overlong
               /\ Walk(path, part) = Append(path, part)
               /\ Len(Walk(path, part)) = Len(path) + 1
               /\ Walk(path, part)[Len(path) + 1] = part
               /\ \A k \in 1..Len(path) : Walk(path, part)[k] = path[k]
            \/ /\ part = Up
               /\ Len(Walk(path, part)) = Len(path) - 1 /\ Len(path) > 0
               /\ \A k \in 1..Len(path) - 1 : Walk(path, part)[k] = path[k]
<1>1. /\ path \in Seq(STRING) /\ Len(path) \in Nat /\ DOMAIN path = 1..Len(path)
      /\ \A i \in 1..Len(path) : Real(path[i]) /\ path[i] \notin Overlong /\ path[i] \in STRING
  <2>1. path \in Seq(STRING)
    BY DEF Clean
  <2>2. DOMAIN path = 1..Len(path) /\ Len(path) \in Nat
    BY <2>1, LenProperties
  <2>3. \A i \in 1..Len(path) : path[i] \in STRING
    BY <2>1, ElementOfSeq
  <2>4. QED
    BY <2>1, <2>2, <2>3 DEF Clean
<1>2. path # Invalid
  BY <1>1, ShellAssumption
<1>3. CASE part \in {Empty, Here}
  <2>1. Walk(path, part) = path
    BY <1>2, <1>3 DEF Walk
  <2>2. QED
    BY <1>1, <1>3, <2>1
<1>4. CASE part \notin {Empty, Here} /\ part # Up
  <2>1. part \notin Overlong /\ Walk(path, part) = Append(path, part)
    BY <1>2, <1>4 DEF Walk
  <2> DEFINE longer == Append(path, part)
  <2>2. /\ longer \in Seq(STRING) /\ Len(longer) = Len(path) + 1
        /\ longer[Len(path) + 1] = part /\ \A k \in 1..Len(path) : longer[k] = path[k]
    <3>1. /\ longer \in Seq(STRING) /\ Len(longer) = Len(path) + 1
          /\ longer[Len(path) + 1] = part
      BY <1>1, AppendProperties
    <3>2. \A k \in 1..Len(path) : longer[k] = path[k]
      BY <1>1, AppendProperties
    <3>3. QED
      BY <3>1, <3>2
  <2>3. Real(part)
    BY <1>4 DEF Real
  <2> HIDE DEF longer
  <2>4. DOMAIN longer = 1..Len(path) + 1
    BY <2>2, LenProperties
  <2>5. \A k \in 1..Len(path) + 1 : k \in 1..Len(path) \/ k = Len(path) + 1
    BY <1>1
  <2>6. Clean(longer)
    BY <1>1, <2>1, <2>2, <2>3, <2>4, <2>5 DEF Clean
  <2>7. Walk(path, part) = longer
    BY <2>1 DEF longer
  <2>8. QED
    BY <1>1, <2>1, <2>2, <2>3, <2>6, <2>7
<1>5. CASE part = Up
  <2>1. part \notin {Empty, Here}
    BY <1>5 DEF Up, Empty, Here
  <2>2. path # << >> /\ Walk(path, part) = Front(path)
    BY <1>2, <1>5, <2>1 DEF Walk
  <2>3. Len(path) > 0
    BY <1>1, <2>2, EmptySeq
  <2> DEFINE shorter == SubSeq(path, 1, Len(path) - 1)
  <2>4. /\ shorter \in Seq(STRING) /\ Len(shorter) = Len(path) - 1
        /\ \A k \in 1..Len(path) - 1 : shorter[k] = path[k]
    <3>1. \A i \in 1..Len(path) - 1 : path[i] \in STRING
      BY <1>1
    <3>2. Len(path) - 1 \in Int
      BY <1>1
    <3>3. /\ shorter \in Seq(STRING)
          /\ Len(shorter) = IF 1 <= Len(path) - 1 THEN Len(path) - 1 - 1 + 1 ELSE 0
          /\ \A k \in 1..Len(path) - 1 - 1 + 1 : shorter[k] = path[1 + k - 1]
      BY <3>1, <3>2, SubSeqProperties
    <3> HIDE DEF shorter
    <3>4. /\ (IF 1 <= Len(path) - 1 THEN Len(path) - 1 - 1 + 1 ELSE 0) = Len(path) - 1
          /\ Len(path) - 1 - 1 + 1 = Len(path) - 1
      BY <1>1, <2>3
    <3>5. \A k \in 1..Len(path) - 1 : 1 + k - 1 = k
      OBVIOUS
    <3>6. QED
      BY <3>3, <3>4, <3>5
  <2>5. Front(path) = shorter
    BY DEF Front
  <2> HIDE DEF shorter
  <2>6. DOMAIN shorter = 1..Len(path) - 1
    BY <2>4, LenProperties
  <2>7. Clean(shorter)
    <3>1. \A k \in 1..Len(path) - 1 : k \in 1..Len(path)
      BY <1>1
    <3>2. QED
      BY <1>1, <2>4, <2>6, <3>1 DEF Clean
  <2>8. QED
    BY <1>1, <1>5, <2>2, <2>3, <2>4, <2>5, <2>7
<1>6. QED
  BY <1>3, <1>4, <1>5

\* What is not a path stays none.
LEMMA InvalidStays == \A part : Walk(Invalid, part) = Invalid
BY DEF Walk

\* One part more and how deep it leads.
LEMMA Deeper ==
  ASSUME NEW t, NEW n \in Nat
  PROVE  /\ Depth(t, 0) = 0 /\ Depth(t, n) \in Int
         /\ t[n + 1] \in {Empty, Here} => Depth(t, n + 1) = Depth(t, n)
         /\ Real(t[n + 1]) => Depth(t, n + 1) = Depth(t, n) + 1
         /\ t[n + 1] = Up => Depth(t, n + 1) = Depth(t, n) - 1
<1> DEFINE Down(k) == {i \in 1..k : Real(t[i])}
           Back(k) == {i \in 1..k : t[i] = Up}
<1>1. \A k \in Nat : IsFiniteSet(Down(k)) /\ IsFiniteSet(Back(k))
  <2>1. \A k \in Nat : IsFiniteSet(1..k)
    BY FS_Interval
  <2>2. \A k \in Nat : Down(k) \in SUBSET (1..k) /\ Back(k) \in SUBSET (1..k)
    OBVIOUS
  <2> HIDE DEF Down, Back
  <2>3. QED
    BY <2>1, <2>2, FS_Subset
<1>2. Cardinality(Down(n)) \in Nat /\ Cardinality(Back(n)) \in Nat
  <2> HIDE DEF Down, Back
  <2> QED
    BY <1>1, FS_CardinalityType
<1>3. Depth(t, n) = Cardinality(Down(n)) - Cardinality(Back(n))
  BY DEF Depth
<1>4. Depth(t, n + 1) = Cardinality(Down(n + 1)) - Cardinality(Back(n + 1))
  BY DEF Depth
<1>5. Depth(t, 0) = 0
  <2>1. Down(0) = {} /\ Back(0) = {}
    OBVIOUS
  <2>2. Depth(t, 0) = Cardinality(Down(0)) - Cardinality(Back(0))
    BY DEF Depth
  <2> HIDE DEF Down, Back
  <2>3. Cardinality(Down(0)) = 0 /\ Cardinality(Back(0)) = 0
    BY <2>1, FS_EmptySet
  <2>4. QED
    BY <2>2, <2>3
<1>6. /\ Down(n + 1) = IF Real(t[n + 1]) THEN Down(n) \cup {n + 1} ELSE Down(n)
      /\ Back(n + 1) = IF t[n + 1] = Up THEN Back(n) \cup {n + 1} ELSE Back(n)
      /\ n + 1 \notin Down(n) /\ n + 1 \notin Back(n)
  <2>1. \A i : i \in 1..n + 1 <=> i \in 1..n \/ i = n + 1
    OBVIOUS
  <2>2. n + 1 \notin 1..n
    OBVIOUS
  <2>3. QED
    BY <2>1, <2>2, Zenon
<1> HIDE DEF Down, Back
<1>7. /\ Real(t[n + 1]) => Cardinality(Down(n + 1)) = Cardinality(Down(n)) + 1
      /\ ~Real(t[n + 1]) => Cardinality(Down(n + 1)) = Cardinality(Down(n))
      /\ t[n + 1] = Up => Cardinality(Back(n + 1)) = Cardinality(Back(n)) + 1
      /\ t[n + 1] # Up => Cardinality(Back(n + 1)) = Cardinality(Back(n))
  <2>1. IsFiniteSet(Down(n)) /\ IsFiniteSet(Back(n))
    BY <1>1
  <2>2. Cardinality(Down(n) \cup {n + 1}) = Cardinality(Down(n)) + 1
    BY <1>6, <2>1, FS_AddElement
  <2>3. Cardinality(Back(n) \cup {n + 1}) = Cardinality(Back(n)) + 1
    BY <1>6, <2>1, FS_AddElement
  <2>4. QED
    BY <1>6, <2>2, <2>3
<1>8. /\ t[n + 1] \in {Empty, Here} => ~Real(t[n + 1]) /\ t[n + 1] # Up
      /\ Real(t[n + 1]) => t[n + 1] # Up
      /\ t[n + 1] = Up => ~Real(t[n + 1])
  BY DEF Real, Empty, Here, Up
<1>9. QED
  BY <1>2, <1>3, <1>4, <1>5, <1>7, <1>8


\* A path that needs no resolving leads to itself.
LEMMA FollowClean ==
  ASSUME NEW path, Clean(path)
  PROVE  Follow(<< >>, path) = path
<1>1. /\ path \in Seq(STRING) /\ Len(path) \in Nat /\ DOMAIN path = 1..Len(path)
      /\ \A i \in 1..Len(path) : Real(path[i]) /\ path[i] \notin Overlong /\ path[i] \in STRING
  <2>1. path \in Seq(STRING)
    BY DEF Clean
  <2>2. DOMAIN path = 1..Len(path) /\ Len(path) \in Nat
    BY <2>1, LenProperties
  <2>3. \A i \in 1..Len(path) : path[i] \in STRING
    BY <2>1, ElementOfSeq
  <2>4. QED
    BY <2>1, <2>2, <2>3 DEF Clean
<1>2. PICK w : Runs(w, << >>, path) /\ Follow(<< >>, path) = w[Len(path)]
  BY <1>1, RunsExist
<1> DEFINE Copies == {n \in Nat : n <= Len(path) =>
             /\ Clean(w[n]) /\ Len(w[n]) = n /\ \A k \in 1..n : w[n][k] = path[k]}
<1>3. 0 \in Copies
  <2>1. w[0] = << >>
    BY <1>2 DEF Runs
  <2>2. << >> \in Seq(STRING) /\ Len(<< >>) = 0 /\ DOMAIN << >> = 1..0
    BY EmptySeq, LenProperties
  <2>3. Clean(<< >>)
    BY <2>2 DEF Clean
  <2>4. QED
    BY <2>1, <2>2, <2>3
<1>4. ASSUME NEW n \in Nat, n \in Copies PROVE n + 1 \in Copies
  <2>1. SUFFICES ASSUME n + 1 <= Len(path)
                 PROVE  /\ Clean(w[n + 1]) /\ Len(w[n + 1]) = n + 1
                        /\ \A k \in 1..n + 1 : w[n + 1][k] = path[k]
    OBVIOUS
  <2>2. /\ n + 1 \in 1..Len(path) /\ (n + 1) - 1 = n
        /\ Clean(w[n]) /\ Len(w[n]) = n /\ \A k \in 1..n : w[n][k] = path[k]
    BY <1>1, <1>4, <2>1
  <2>3. PICK part \in STRING : part = path[n + 1] /\ Real(part) /\ part \notin Overlong
    BY <1>1, <2>2
  <2>4. w[n + 1] = Walk(w[n], part)
    BY <1>2, <2>2, <2>3 DEF Runs
  <2>5. w[n] \in Seq(STRING) /\ w[n] # Invalid
    BY <2>2, ShellAssumption DEF Clean
  <2>6. Walk(w[n], part) = Append(w[n], part)
    BY <2>3, <2>5 DEF Walk, Real
  <2>7. Walk(w[n], part) # Invalid
    <3>1. Append(w[n], part) \in Seq(STRING)
      BY <2>5, AppendProperties
    <3>2. QED
      BY <2>6, <3>1, ShellAssumption
  <2>8. ~(part \in {Empty, Here}) /\ part # Up
    BY <2>3 DEF Real
  <2>9. /\ Clean(w[n + 1]) /\ Len(w[n + 1]) = n + 1
        /\ w[n + 1][n + 1] = part /\ \A k \in 1..n : w[n + 1][k] = w[n][k]
    <3>1. PICK old : old = w[n]
      OBVIOUS
    <3>2. /\ Clean(Walk(old, part)) /\ Len(Walk(old, part)) = Len(old) + 1
          /\ Walk(old, part)[Len(old) + 1] = part
          /\ \A k \in 1..Len(old) : Walk(old, part)[k] = old[k]
      BY <2>2, <2>7, <2>8, <3>1, WalkTyped
    <3>3. QED
      BY <2>2, <2>4, <3>1, <3>2
  <2>10. \A k \in 1..n + 1 : k \in 1..n \/ k = n + 1
    OBVIOUS
  <2>11. QED
    BY <2>2, <2>3, <2>9, <2>10
<1>5. Len(path) \in Copies
  <2> HIDE DEF Copies
  <2>1. \A n \in Nat : n \in Copies
    BY <1>3, <1>4, AllNaturals
  <2>2. QED
    BY <1>1, <2>1
<1>6. w[Len(path)] \in Seq(STRING)
  BY <1>1, <1>5 DEF Clean
<1>7. w[Len(path)] = path
  BY <1>1, <1>5, <1>6, SeqEqual
<1>8. QED
  BY <1>2, <1>7

\* Where parts lead, if anywhere, is a clean path, the one Leads describes.
LEMMA FollowLeads ==
  ASSUME NEW t \in Seq(STRING), Follow(<< >>, t) # Invalid
  PROVE  Clean(Follow(<< >>, t)) /\ Leads(t, Follow(<< >>, t))
<1>1. Len(t) \in Nat /\ DOMAIN t = 1..Len(t) /\ \A i \in 1..Len(t) : t[i] \in STRING
  BY LenProperties, ElementOfSeq
<1>2. PICK w : Runs(w, << >>, t) /\ Follow(<< >>, t) = w[Len(t)]
  BY <1>1, RunsExist
<1> DEFINE Goes(k, n) == \E i \in 1..n : /\ w[n][k] = t[i] /\ Real(t[i]) /\ Depth(t, i) = k
                                          /\ \A m \in i..n : Depth(t, m) >= k
           Says(n) == /\ Clean(w[n]) /\ Len(w[n]) = Depth(t, n)
                      /\ \A m \in 0..n : Depth(t, m) >= 0
                      /\ \A k \in 1..Len(w[n]) : Goes(k, n)
           Reached == {n \in Nat : n <= Len(t) /\ w[n] # Invalid => Says(n)}
<1>3. 0 \in Reached
  <2>1. w[0] = << >>
    BY <1>2 DEF Runs
  <2>2. << >> \in Seq(STRING) /\ Len(<< >>) = 0 /\ DOMAIN << >> = 1..0
    BY EmptySeq, LenProperties
  <2>3. Clean(<< >>)
    BY <2>2 DEF Clean
  <2>4. Depth(t, 0) = 0
    BY Deeper
  <2>5. Says(0)
    BY <2>1, <2>2, <2>3, <2>4
  <2> HIDE DEF Says
  <2>6. QED
    BY <2>5
<1>4. ASSUME NEW n \in Nat, n \in Reached PROVE n + 1 \in Reached
  <2>1. SUFFICES ASSUME n + 1 <= Len(t), w[n + 1] # Invalid PROVE Says(n + 1)
    <3> HIDE DEF Says
    <3> QED
      OBVIOUS
  <2>2. n + 1 \in 1..Len(t) /\ (n + 1) - 1 = n /\ n <= Len(t)
    BY <1>1, <2>1
  <2>3. PICK part \in STRING : part = t[n + 1]
    BY <1>1, <2>2
  <2>4. w[n + 1] = Walk(w[n], part)
    BY <1>2, <2>2, <2>3 DEF Runs
  <2>5. w[n] # Invalid
    BY <2>1, <2>4, InvalidStays
  <2>6. Says(n)
    <3> HIDE DEF Says
    <3> QED
      BY <1>4, <2>2, <2>5
  <2>7. PICK l \in Nat : l = Len(w[n]) /\ l = Depth(t, n)
    BY <2>6 DEF Clean
  <2>8. \A m \in Nat : Depth(t, m) \in Int
    BY Deeper
  <2>9. \A m : m \in 0..n + 1 <=> m \in 0..n \/ m = n + 1
    OBVIOUS
  <2>k. ASSUME NEW k \in 1..l, w[n + 1][k] = w[n][k], Depth(t, n + 1) >= k
        PROVE  Goes(k, n + 1)
    <3>1. PICK i \in 1..n : /\ w[n][k] = t[i] /\ Real(t[i]) /\ Depth(t, i) = k
                            /\ \A m \in i..n : Depth(t, m) >= k
      BY <2>6, <2>7
    <3>2. i \in 1..n + 1 /\ \A m \in i..n + 1 : m \in i..n \/ m = n + 1
      OBVIOUS
    <3>3. QED
      BY <2>k, <3>1, <3>2
  <2>10. CASE part \in {Empty, Here} /\ w[n + 1] = w[n]
    <3>1. Depth(t, n + 1) = l
      BY <2>3, <2>7, <2>10, Deeper
    <3>2. \A k \in 1..l : Goes(k, n + 1)
      <4>1. \A k \in 1..l : Depth(t, n + 1) >= k
        BY <3>1
      <4> HIDE DEF Goes
      <4>2. QED
        BY <2>k, <2>10, <4>1
    <3> HIDE DEF Goes
    <3>3. Depth(t, n + 1) >= 0
      BY <3>1
    <3>4. QED
      BY <2>6, <2>7, <2>9, <2>10, <3>1, <3>2, <3>3
  <2>11. CASE /\ Real(part) /\ Clean(w[n + 1]) /\ Len(w[n + 1]) = l + 1 /\ w[n + 1][l + 1] = part
              /\ \A k \in 1..l : w[n + 1][k] = w[n][k]
    <3>1. Depth(t, n + 1) = l + 1
      BY <2>3, <2>7, <2>11, Deeper
    <3>2. \A k \in 1..l : Goes(k, n + 1)
      <4>1. \A k \in 1..l : Depth(t, n + 1) >= k
        BY <3>1
      <4> HIDE DEF Goes
      <4>2. QED
        BY <2>k, <2>11, <4>1
    <3>3. Goes(l + 1, n + 1)
      <4>1. \A m \in n + 1..n + 1 : m = n + 1
        OBVIOUS
      <4>2. n + 1 \in 1..n + 1 /\ Depth(t, n + 1) >= l + 1
        BY <3>1
      <4>3. QED
        BY <2>3, <2>11, <3>1, <4>1, <4>2
    <3> HIDE DEF Goes
    <3>4. \A k \in 1..l + 1 : k \in 1..l \/ k = l + 1
      OBVIOUS
    <3>5. Depth(t, n + 1) >= 0
      BY <3>1
    <3>6. QED
      BY <2>6, <2>9, <2>11, <3>1, <3>2, <3>3, <3>4, <3>5
  <2>12. CASE /\ part = Up /\ Clean(w[n + 1]) /\ Len(w[n + 1]) = l - 1 /\ l > 0
              /\ \A k \in 1..l - 1 : w[n + 1][k] = w[n][k]
    <3>1. Depth(t, n + 1) = l - 1
      BY <2>3, <2>7, <2>12, Deeper
    <3>2. \A k \in 1..l - 1 : Goes(k, n + 1)
      <4>1. \A k \in 1..l - 1 : Depth(t, n + 1) >= k /\ k \in 1..l
        BY <3>1
      <4> HIDE DEF Goes
      <4>2. QED
        BY <2>k, <2>12, <4>1
    <3> HIDE DEF Goes
    <3>3. Depth(t, n + 1) >= 0
      BY <2>12, <3>1
    <3>4. QED
      BY <2>6, <2>9, <2>12, <3>1, <3>2, <3>3
  <2>13. Clean(w[n])
    BY <2>6
  <2> HIDE DEF Says
  <2>14. QED
    <3>1. PICK old, new : old = w[n] /\ new = Walk(old, part) /\ new = w[n + 1]
      BY <2>4
    <3>2. /\ Clean(new) /\ Len(old) = l
          /\ \/ part \in {Empty, Here} /\ new = old
             \/ /\ Real(part) /\ Len(new) = Len(old) + 1 /\ new[Len(old) + 1] = part
                /\ \A k \in 1..Len(old) : new[k] = old[k]
             \/ /\ part = Up /\ Len(new) = Len(old) - 1 /\ Len(old) > 0
                /\ \A k \in 1..Len(old) - 1 : new[k] = old[k]
      <4>1. Clean(old) /\ new # Invalid
        BY <2>1, <2>13, <3>1
      <4>2. Len(old) = l
        BY <2>7, <3>1
      <4>3. Clean(old) /\ Walk(old, part) # Invalid
        BY <2>13, <3>1, <4>1
      <4>4. PICK next : next = Walk(old, part)
        OBVIOUS
      <4>5. /\ Clean(next)
            /\ \/ part \in {Empty, Here} /\ next = old
               \/ /\ Real(part) /\ Len(next) = Len(old) + 1 /\ next[Len(old) + 1] = part
                  /\ \A k \in 1..Len(old) : next[k] = old[k]
               \/ /\ part = Up /\ Len(next) = Len(old) - 1 /\ Len(old) > 0
                  /\ \A k \in 1..Len(old) - 1 : next[k] = old[k]
        BY <4>3, <4>4, WalkTyped
      <4>6. next = new
        BY <3>1, <4>4
      <4>7. QED
        BY <4>2, <4>5, <4>6
    <3>3. QED
      BY <2>10, <2>11, <2>12, <3>1, <3>2
<1>5. Len(t) \in Reached
  <2> HIDE DEF Reached
  <2>1. \A n \in Nat : n \in Reached
    BY <1>3, <1>4, AllNaturals
  <2>2. QED
    BY <1>1, <2>1
<1>6. Says(Len(t))
  <2> HIDE DEF Says
  <2> QED
    BY <1>1, <1>2, <1>5
<1> DEFINE path == w[Len(t)]
<1>7. DOMAIN path = 1..Len(path)
  BY <1>6, LenProperties DEF Clean
<1>8. QED
  BY <1>1, <1>2, <1>6, <1>7 DEF Leads


\* A path is clean and short, and as long as commands wait for each other it is
\* where all that was typed leads, as the target of the one command that is
\* under way would be.
ShellInv ==
  /\ Clean(cwd) /\ Len(cwd) <= MaxParts
  /\ trail \in Seq(STRING)
  /\ \A c \in flight : c.arg \in Arguments /\ Clean(c.target) /\ Len(c.target) <= MaxParts
  /\ calm => /\ cwd = Follow(<< >>, trail)
             /\ \A c, d \in flight : c = d
             /\ \A c \in flight : c.target = Follow(<< >>, Start(c.arg) \o c.arg.parts)

LEMMA HomeIsShort == Clean(Home) /\ Home \in Seq(STRING) /\ Len(Home) <= MaxParts /\ MaxParts \in Nat
BY ShellAssumption DEF Clean

LEMMA StartTyped ==
  ASSUME ShellInv, NEW arg \in Arguments
  PROVE  Start(arg) \in Seq(STRING) /\ arg.parts \in Seq(STRING)
<1>1. arg.parts \in Seq(STRING)
  BY ShellAssumption
<1>2. << >> \in Seq(STRING)
  BY EmptySeq
<1>3. cwd \in Seq(STRING)
  BY DEF ShellInv, Clean
<1>4. QED
  BY <1>1, <1>2, <1>3, HomeIsShort DEF Start

LEMMA NormalizedTyped ==
  ASSUME NEW raw \in Seq(STRING), normalizePath(raw) # Invalid
  PROVE  /\ normalizePath(raw) = Follow(<< >>, raw)
         /\ Clean(normalizePath(raw)) /\ Len(normalizePath(raw)) <= MaxParts
<1>1. /\ Follow(<< >>, raw) # Invalid /\ ~(Len(Follow(<< >>, raw)) > MaxParts)
      /\ normalizePath(raw) = Follow(<< >>, raw)
  BY DEF normalizePath
<1>2. Clean(Follow(<< >>, raw))
  BY <1>1, FollowLeads
<1>3. Len(Follow(<< >>, raw)) \in Nat
  BY <1>2, LenProperties DEF Clean
<1>4. Len(Follow(<< >>, raw)) <= MaxParts
  BY <1>1, <1>3, HomeIsShort
<1>5. QED
  BY <1>1, <1>2, <1>4

LEMMA EnterKeeps ==
  ASSUME ShellInv, NEW arg \in Arguments, Enter(arg)
  PROVE  ShellInv'
<1> DEFINE target == normalizePath(Start(arg) \o arg.parts)
           command == [number |-> typed, arg |-> arg, target |-> target]
<1>1. /\ cwd' = cwd /\ trail' = trail /\ calm' = (calm /\ flight = {})
      /\ flight' = IF target = Invalid THEN flight ELSE flight \cup {command}
  BY DEF Enter
<1>2. Start(arg) \o arg.parts \in Seq(STRING)
  BY StartTyped, ConcatProperties
<1>3. target # Invalid => /\ target = Follow(<< >>, Start(arg) \o arg.parts)
                          /\ Clean(target) /\ Len(target) <= MaxParts
  BY <1>2, NormalizedTyped
<1> HIDE DEF target
<1>4. command.arg = arg /\ command.target = target
  OBVIOUS
<1> HIDE DEF command
<1>5. \A c \in flight' : c \in flight \/ (c = command /\ target # Invalid)
  BY <1>1
<1>6. calm' => calm /\ flight = {}
  BY <1>1
<1>7. \A a : Start(a)' = Start(a)
  BY <1>1 DEF Start
<1>8. Clean(cwd)' /\ (Len(cwd) <= MaxParts)' /\ trail' \in Seq(STRING)
  BY <1>1 DEF ShellInv
<1>9. \A c \in flight' : c.arg \in Arguments /\ Clean(c.target) /\ Len(c.target) <= MaxParts
  BY <1>3, <1>4, <1>5 DEF ShellInv
<1>10. ASSUME calm'
       PROVE  /\ cwd' = Follow(<< >>, trail')
              /\ \A c, d \in flight' : c = d
              /\ \A c \in flight' : c.target = Follow(<< >>, Start(c.arg)' \o c.arg.parts)
  <2>1. cwd' = Follow(<< >>, trail')
    BY <1>1, <1>6, <1>10 DEF ShellInv
  <2>2. \A c \in flight' : c = command /\ target # Invalid
    BY <1>5, <1>6, <1>10
  <2>3. \A c, d \in flight' : c = d
    BY <2>2
  <2>4. \A c \in flight' : c.target = Follow(<< >>, Start(c.arg)' \o c.arg.parts)
    BY <1>3, <1>4, <1>7, <2>2
  <2>5. QED
    BY <2>1, <2>3, <2>4
<1>11. QED
  BY <1>8, <1>9, <1>10 DEF ShellInv

LEMMA ChangedKeeps ==
  ASSUME ShellInv, NEW c \in flight, Changed(c)
  PROVE  ShellInv'
<1>1. /\ flight' = flight \ {c} /\ cwd' = c.target /\ calm' = calm
      /\ trail' = CASE c.arg.from = "root" -> c.arg.parts
                    [] c.arg.from = "home" -> Home \o c.arg.parts
                    [] OTHER -> trail \o c.arg.parts
  BY DEF Changed
<1>2. /\ c.arg \in Arguments /\ Clean(c.target) /\ Len(c.target) <= MaxParts
      /\ trail \in Seq(STRING)
  BY DEF ShellInv
<1>3. PICK parts \in Seq(STRING) : parts = c.arg.parts
  BY <1>2, StartTyped
<1>4. c.arg.from \in {"root", "home", "cwd"}
  BY <1>2, ShellAssumption
<1>5. trail' \in Seq(STRING) /\ (calm => c.target = Follow(<< >>, trail'))
  <2>1. calm => /\ cwd = Follow(<< >>, trail)
                /\ c.target = Follow(<< >>, Start(c.arg) \o parts)
    BY <1>3 DEF ShellInv
  <2>2. CASE c.arg.from = "root"
    <3>1. trail' = parts /\ Start(c.arg) = << >>
      BY <1>1, <1>3, <2>2 DEF Start
    <3>2. << >> \o parts = parts
      BY ConcatEmptySeq
    <3>3. QED
      BY <2>1, <3>1, <3>2
  <2>3. CASE c.arg.from = "home"
    <3>1. trail' = Home \o parts /\ Start(c.arg) = Home
      BY <1>1, <1>3, <2>3 DEF Start
    <3>2. Home \o parts \in Seq(STRING)
      BY HomeIsShort, ConcatProperties
    <3>3. QED
      BY <2>1, <3>1, <3>2
  <2>4. CASE c.arg.from = "cwd"
    <3>1. trail' = trail \o parts /\ Start(c.arg) = cwd
      BY <1>1, <1>3, <2>4 DEF Start
    <3>2. trail \o parts \in Seq(STRING)
      BY <1>2, ConcatProperties
    <3>3. cwd \in Seq(STRING) /\ Clean(cwd)
      BY DEF ShellInv, Clean
    <3>4. calm => Follow(<< >>, trail \o parts) = Follow(cwd, parts)
      BY <1>2, <2>1, FollowConcat
    <3>5. Follow(<< >>, cwd \o parts) = Follow(Follow(<< >>, cwd), parts)
      BY <3>3, FollowConcat
    <3>6. Follow(<< >>, cwd) = cwd
      BY <3>3, FollowClean
    <3>7. QED
      BY <2>1, <3>1, <3>2, <3>4, <3>5, <3>6
  <2>5. QED
    BY <1>4, <2>2, <2>3, <2>4
<1>6. calm => flight' = {}
  <2>1. calm => \A d \in flight : d = c
    BY DEF ShellInv
  <2>2. QED
    BY <1>1, <2>1
<1>7. Clean(cwd)' /\ (Len(cwd) <= MaxParts)'
  BY <1>1, <1>2
<1>8. \A d \in flight' : d.arg \in Arguments /\ Clean(d.target) /\ Len(d.target) <= MaxParts
  BY <1>1 DEF ShellInv
<1>9. calm' => cwd' = Follow(<< >>, trail')
  BY <1>1, <1>5
<1>10. calm' => flight' = {}
  BY <1>1, <1>6
<1>11. QED
  BY <1>5, <1>7, <1>8, <1>9, <1>10 DEF ShellInv

LEMMA ShellInvHolds == ShellSpec => []ShellInv
<1>1. ShellInit => ShellInv
  <2>1. Follow(<< >>, Home) = Home
    BY HomeIsShort, FollowClean
  <2>2. QED
    BY <2>1, HomeIsShort DEF ShellInit, ShellInv
<1>2. ShellInv /\ [ShellNext]_shellVars => ShellInv'
  <2> SUFFICES ASSUME ShellInv, [ShellNext]_shellVars PROVE ShellInv'
    OBVIOUS
  <2>1. ASSUME NEW c \in flight, NotChanged(c) PROVE ShellInv'
    <3>1. cwd' = cwd /\ trail' = trail /\ calm' = calm /\ flight' \subseteq flight
      BY <2>1 DEF NotChanged
    <3>2. \A a : Start(a)' = Start(a)
      BY <3>1 DEF Start
    <3>3. QED
      BY <3>1, <3>2 DEF ShellInv
  <2>2. ASSUME Render PROVE ShellInv'
    BY <2>2, HomeIsShort DEF Render, ShellInv
  <2>3. ASSUME UNCHANGED shellVars PROVE ShellInv'
    <3>1. cwd' = cwd /\ trail' = trail /\ calm' = calm /\ flight' = flight
      BY <2>3 DEF shellVars
    <3>2. \A a : Start(a)' = Start(a)
      BY <3>1 DEF Start
    <3>3. QED
      BY <3>1, <3>2 DEF ShellInv
  <2>4. QED
    BY <2>1, <2>2, <2>3, EnterKeeps, ChangedKeeps DEF ShellNext
<1>3. QED
  BY <1>1, <1>2, PTL DEF ShellSpec

\* Commands given one after the other lead where all that was typed leads,
\* however long it is; and the shell is never in a path to be resolved.
THEOREM CwdIsFollowed == ShellSpec => []CwdIsWhereCommandsLed
<1>1. ASSUME ShellInv PROVE CwdIsWhereCommandsLed
  <2>1. Clean(cwd) /\ cwd \in Seq(STRING) /\ Len(cwd) <= MaxParts /\ trail \in Seq(STRING)
    BY <1>1 DEF ShellInv, Clean
  <2>2. cwd # Invalid
    BY <2>1, ShellAssumption
  <2>3. normalizePath(cwd) = cwd
    <3>1. Follow(<< >>, cwd) = cwd
      BY <2>1, FollowClean
    <3>2. ~(Len(cwd) > MaxParts)
      BY <2>1, HomeIsShort, LenProperties
    <3>3. QED
      BY <2>2, <3>1, <3>2 DEF normalizePath
  <2>4. calm => Leads(trail, cwd)
    <3>1. calm => Follow(<< >>, trail) = cwd
      BY <1>1 DEF ShellInv
    <3>2. QED
      BY <2>1, <2>2, <3>1, FollowLeads
  <2>5. QED
    BY <2>3, <2>4 DEF CwdIsWhereCommandsLed
<1>2. ShellSpec => []ShellInv
  BY ShellInvHolds
<1>3. QED
  BY <1>1, <1>2, PTL
=============================================================================
