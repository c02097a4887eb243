------------------------------- MODULE MCDoom -------------------------------
(***************************************************************************)
(* DOOM in six scopes, each behaviour taking one: a preview tab that is    *)
(* alone; one beside others, with nobody at the keys; the live service, on *)
(* any Works; the runtimes of two tabs that submit Works; the realtime     *)
(* session; and its frames and replays as bytes.                           *)
(***************************************************************************)
EXTENDS PreviewDoom, MiniJamDoom, DoomRealtime, DoomWire, TLC

CONSTANTS w1, w2, c1, c2, alice, bob, s1, s2

VARIABLE scope

TwoWindows == Permutations(Windows)
Accounts == c1 :> alice @@ c2 :> bob
Fields == s1 :> "" @@ s2 :> "score"

\* Commands and messages at the ends of their ranges, and some out of them.
Command(f, s, a, b) == [forwardMove |-> f, sideMove |-> s, angleTurn |-> a, buttons |-> b]
SomeReplays ==
  {[rulesetHash |-> <<h>>, ticcmds |-> t] : h \in {0, 3},
     t \in {<< >>, <<Command(1, -1, 4, 2), Command(-2, 0, -5, 0)>>, [i \in 1..3 |-> Command(0, 0, 0, 0)]}
           \cup {<<Command(f, s, a, 3)>> : f \in {-2, 0}, s \in {-1, 1}, a \in {-8, 7}}}
SomeFrames ==
  {[sessionId |-> s, stateHash |-> h, tick |-> t, width |-> w, height |-> 1,
    pixels |-> [i \in 1..n |-> i % 4]] :
     s \in {<<1>>, <<0, 1>>}, h \in {<< >>, <<1>>}, t \in {27, 255}, w \in {0, 1, 2}, n \in {0, 4, 8}}

\* The tabs' calls are all about one session.
InSession(s) == \A c \in Callers : calls'[c].q # None => calls'[c].q.session = s

\* No other tab writes the key; no key is pressed.
Alone == writer' = "here" \/ UNCHANGED <<active, writer>>
NoKeys == \A w \in Windows : windows'[w].keys = {}

MCInit ==
  /\ scope \in {"preview", "tabs", "service", "work", "realtime", "wire"}
  /\ DoomInit /\ LiveInit /\ RealtimeInit /\ WireInit
MCNext ==
  /\ UNCHANGED scope
  /\ \/ /\ scope \in {"preview", "tabs"} /\ DoomNext
        /\ IF scope = "preview" THEN Alone ELSE NoKeys
        /\ UNCHANGED <<liveVars, realtimeVars, wireVars>>
     \/ /\ scope = "service" /\ DoomServiceNext
        /\ UNCHANGED <<doomVars, runtimeVars, realtimeVars, wireVars>>
     \/ /\ scope = "work" /\ LiveNext /\ InSession(s1)
        /\ UNCHANGED <<doomVars, realtimeVars, wireVars>>
     \/ scope = "realtime" /\ RealtimeNext /\ UNCHANGED <<doomVars, liveVars, wireVars>>
     \/ scope = "wire" /\ WireNext /\ UNCHANGED <<doomVars, liveVars, realtimeVars>>
MCSpec == MCInit /\ [][MCNext]_<<scope, doomVars, liveVars, realtimeVars, wireVars>>
=============================================================================
