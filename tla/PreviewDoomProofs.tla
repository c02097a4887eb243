------------------------- MODULE PreviewDoomProofs -------------------------
(***************************************************************************)
(* DOOM in a preview tab: the inputs of a run are played, a result is the  *)
(* last word on its run, and the name this tab keeps in localStorage is    *)
(* that of a run which can be resumed, for any number of windows, runs and *)
(* reloads, and whatever other tabs write there.                           *)
(*                                                                         *)
(* What the windows share is the runtime's map of runs; what each has for  *)
(* itself is the tick its session saw last.  The invariant says that this  *)
(* copy is never ahead of the run, that a result leaves a run finished,    *)
(* and that the ids given are exactly 1..k, so that Start makes a new run. *)
(***************************************************************************)
EXTENDS PreviewDoom, FiniteSetTheorems, TLAPS

\* The runs are numbered from 1 in the order they were created.
Numbered == \E k \in 0..MaxRuns : runs \in [1..k -> Run]

Typed ==
  /\ Numbered
  /\ results \in Seq(Result)
  /\ windows \in [Windows -> Window] /\ links \in [Windows -> Link \cup {Nil}]

\* A window that shows a run shows one the runtime has, and a session it holds
\* has not seen more of the run than was played.
Holds(window, link) ==
  /\ window.view = "running" => window.run \in DOMAIN runs
  /\ link # Nil => window.view = "running" /\ link.tick <= runs[window.run].tick

\* A result is about a run that is finished, as it was left.
Recorded(result) ==
  /\ result.run \in DOMAIN runs /\ runs[result.run].finished
  /\ runs[result.run] = result.hash /\ runs[result.run].tick = result.ticks

\* The second half of KeyIsResumable; the first is in Holds.
KeyNamesOurs ==
  writer = "here" /\ ((\E w \in Windows : windows[w].view # "closed") \/ runs # << >>)
    => active \in Unfinished \cup {Nil}

PreviewInv ==
  /\ Typed /\ InputsArePlayed /\ KeyNamesOurs
  /\ \A w \in Windows : Holds(windows[w], links[w])
  /\ \A i \in DOMAIN results : Recorded(results[i])
  /\ \A i, j \in DOMAIN results : results[i].run = results[j].run => i = j

LEMMA Untouched ==
  ASSUME PreviewInv, UNCHANGED <<runs, results, active, writer>>,
         windows' \in [Windows -> Window], links' \in [Windows -> Link \cup {Nil}],
         \A w \in Windows : Holds(windows'[w], links'[w]),
         KeyNamesOurs'
  PROVE  PreviewInv'
BY DEF PreviewInv, Typed, Numbered, InputsArePlayed, Recorded, Holds

LEMMA RunTyped ==
  ASSUME Numbered
  PROVE  /\ runs \in [DOMAIN runs -> Run] /\ DOMAIN runs \subseteq Nat
         /\ \A r \in DOMAIN runs : /\ runs[r] \in Run /\ runs[r].tick \in Nat /\ r \in Ids
                                   /\ runs[r].finished \in BOOLEAN
BY DoomAssumption DEF Numbered, Run, Ids, Ticks

LEMMA LinkTyped ==
  ASSUME NEW l \in Link
  PROVE  /\ l.tick \in Nat /\ l.tick \in Ticks
         /\ \A status \in {"running", "paused", "closed", "error"} :
              At(l, status) \in Link /\ At(l, status).tick = l.tick
BY DoomAssumption DEF Link, At, Ticks

\* The next tick is played with the input queued for it and no other.
LEMMA Plays ==
  ASSUME NEW l \in Link, NEW run \in Run, l.tick <= run.tick,
         ~StepFails(l, run), run.tick < MaxTick, run.inputs = run.acted
  PROVE  /\ PlayedBy(l, run) \in Run /\ PlayedBy(l, run).tick = run.tick + 1
         /\ PlayedBy(l, run).inputs = PlayedBy(l, run).acted
         /\ PlayedBy(l, run).finished = FALSE
<1>1. /\ run.tick \in Ticks /\ l.tick \in Ticks /\ run.tick + 1 \in Ticks
      /\ run.tick \in Nat /\ l.tick \in Nat
      /\ run.inputs \subseteq 1..MaxTick + 1 /\ run.acted \subseteq Ticks
      /\ run.finished = FALSE
  BY DoomAssumption DEF Run, Link, Ticks, StepFails
<1>2. ASSUME NEW given \in Run, given.tick = run.tick, given.finished = FALSE,
             given.acted = run.acted,
             given.inputs = run.acted \/ given.inputs = run.acted \cup {run.tick + 1}
      PROVE  /\ Stepped(given) \in Run /\ Stepped(given).tick = run.tick + 1
             /\ Stepped(given).inputs = Stepped(given).acted
             /\ Stepped(given).finished = FALSE
  <2>1. /\ Stepped(given).tick = run.tick + 1
        /\ Stepped(given).inputs = given.inputs
        /\ Stepped(given).acted = run.acted \cup (given.inputs \cap {run.tick + 1})
        /\ Stepped(given).finished = FALSE
    BY <1>2 DEF Stepped, Run
  <2>2. Stepped(given).inputs = Stepped(given).acted
    BY <1>2, <2>1
  <2>3. [given EXCEPT !.tick = run.tick + 1] \in Run
    BY <1>1 DEF Run
  <2>4. Stepped(given) = [[given EXCEPT !.tick = run.tick + 1] EXCEPT !.acted = run.acted \cup (given.inputs \cap {run.tick + 1})]
    BY <1>2 DEF Stepped, Run
  <2>5. run.acted \cup (given.inputs \cap {run.tick + 1}) \in SUBSET Ticks
    BY <1>1
  <2>6. Stepped(given) \in Run
    BY <2>3, <2>4, <2>5 DEF Run
  <2>7. QED
    BY <2>1, <2>2, <2>6
<1>3. CASE l.tick + 1 \in l.queued
  <2>1. l.tick + 1 = run.tick + 1
    BY <1>1, <1>3 DEF StepFails, Late
  <2>2. run.tick + 1 \in 1..MaxTick + 1
    BY <1>1, DoomAssumption DEF Ticks
  <2>3. /\ Submitted(run, l.tick + 1) \in Run
        /\ Submitted(run, l.tick + 1).tick = run.tick
        /\ Submitted(run, l.tick + 1).finished = FALSE
        /\ Submitted(run, l.tick + 1).acted = run.acted
        /\ Submitted(run, l.tick + 1).inputs = run.acted \cup {run.tick + 1}
    BY <1>1, <2>1, <2>2 DEF Submitted, Run
  <2>4. QED
    BY <1>2, <1>3, <2>3 DEF PlayedBy
<1>4. CASE l.tick + 1 \notin l.queued
  BY <1>1, <1>2, <1>4 DEF PlayedBy
<1>5. QED
  BY <1>3, <1>4

LEMMA TickKeeps ==
  ASSUME PreviewInv, NEW w \in Windows, Tick(w)
  PROVE  PreviewInv'
<1> DEFINE r == windows[w].run
           l == links[w]
<1>1. /\ l \in Link /\ windows[w] \in Window /\ windows[w].view = "running" /\ r \in DOMAIN runs
      /\ l.tick <= runs[r].tick
  BY DEF PreviewInv, Typed, Holds, Tick
<1>2. Numbered /\ runs[r] \in Run
  BY <1>1, RunTyped DEF PreviewInv, Typed
<1>3. UNCHANGED <<results, active, writer>>
  BY DEF Tick
<1>4. CASE links' = [links EXCEPT ![w] = At(l, "error")] /\ UNCHANGED <<runs, windows>>
  <2>1. At(l, "error") \in Link /\ At(l, "error").tick = l.tick
    BY <1>1, LinkTyped
  <2>2. links' \in [Windows -> Link \cup {Nil}] /\ windows' \in [Windows -> Window]
    BY <1>4, <2>1 DEF PreviewInv, Typed
  <2>3. \A v \in Windows : Holds(windows'[v], links'[v])
    BY <1>1, <1>4, <2>1 DEF PreviewInv, Typed, Holds
  <2>4. KeyNamesOurs'
    BY <1>3, <1>4 DEF PreviewInv, KeyNamesOurs, Unfinished
  <2>5. QED
    BY <1>3, <1>4, <2>2, <2>3, <2>4, Untouched
<1>5. CASE ~StepFails(l, runs[r]) /\ runs[r].tick < MaxTick
           /\ LET run == PlayedBy(l, runs[r])
                  seen == [l EXCEPT !.tick = run.tick, !.queued = @ \ {l.tick + 1}]
              IN /\ runs' = [runs EXCEPT ![r] = run]
                 /\ links' = [links EXCEPT ![w] = SendInput(seen, windows[w].keys)]
                 /\ windows' = [windows EXCEPT ![w].keys = @ \ {"shot"}]
  <2>1. PICK run \in Run : /\ run = PlayedBy(l, runs[r]) /\ run.tick = runs[r].tick + 1
                           /\ run.inputs = run.acted /\ run.finished = FALSE
    <3>1. runs[r].inputs = runs[r].acted
      BY <1>1 DEF PreviewInv, InputsArePlayed
    <3>2. QED
      BY <1>1, <1>2, <1>5, <3>1, Plays
  <2>2. PICK seen \in Link : /\ seen = [l EXCEPT !.tick = run.tick, !.queued = @ \ {l.tick + 1}]
                             /\ seen.tick = run.tick
    <3> DEFINE other == [[l EXCEPT !.tick = run.tick] EXCEPT !.queued = l.queued \ {l.tick + 1}]
    <3>1. [l EXCEPT !.tick = run.tick] \in Link /\ [l EXCEPT !.tick = run.tick].tick = run.tick
      BY <1>1, <2>1 DEF Link, Run
    <3>2. other \in Link /\ other.tick = run.tick
      BY <1>1, <3>1 DEF Link
    <3>3. other = [l EXCEPT !.tick = run.tick, !.queued = @ \ {l.tick + 1}]
      BY <1>1 DEF Link
    <3>4. QED
      BY <3>2, <3>3
  <2>3. PICK sent \in Link : sent = SendInput(seen, windows[w].keys) /\ sent.tick = run.tick
    <3>1. seen.tick \in Ticks
      BY LinkTyped
    <3>2. seen.tick + 1 \in 1..MaxTick + 1
      BY <3>1, DoomAssumption DEF Ticks
    <3>3. /\ [seen EXCEPT !.queued = @ \cup {seen.tick + 1}] \in Link
          /\ [seen EXCEPT !.queued = @ \cup {seen.tick + 1}].tick = run.tick
      BY <2>2, <3>2 DEF Link
    <3>4. QED
      BY <2>2, <3>3 DEF SendInput
  <2>4. /\ runs' = [runs EXCEPT ![r] = run] /\ links' = [links EXCEPT ![w] = sent]
        /\ windows' = [windows EXCEPT ![w].keys = @ \ {"shot"}]
    BY <1>5, <2>1, <2>2, <2>3
  <2>5. /\ runs'[r] = run /\ DOMAIN runs' = DOMAIN runs /\ Numbered'
        /\ \A s \in DOMAIN runs : s # r => runs'[s] = runs[s]
    BY <1>1, <1>2, <2>4 DEF Numbered
  <2>6. runs[r].finished = FALSE
    BY <1>2, <1>5 DEF StepFails, Run
  <2>7. links' \in [Windows -> Link \cup {Nil}]
    BY <2>4 DEF PreviewInv, Typed
  <2>8. /\ windows' \in [Windows -> Window]
        /\ \A v \in Windows : windows'[v].view = windows[v].view /\ windows'[v].run = windows[v].run
    BY <2>4 DEF PreviewInv, Typed, Window
  <2>9. \A s \in DOMAIN runs : runs[s].tick \in Nat /\ (s # r => runs'[s] = runs[s])
                                /\ runs[s].tick <= runs'[s].tick /\ runs'[s].finished = runs[s].finished
    <3> SUFFICES ASSUME NEW s \in DOMAIN runs
                 PROVE  /\ runs[s].tick \in Nat /\ (s # r => runs'[s] = runs[s])
                        /\ runs[s].tick <= runs'[s].tick /\ runs'[s].finished = runs[s].finished
      OBVIOUS
    <3>1. runs[s].tick \in Nat
      BY <1>2, RunTyped
    <3>2. CASE s = r
      <4>1. runs'[s] = run /\ runs[s].finished = FALSE
        BY <2>5, <2>6, <3>2
      <4>2. run.tick = runs[s].tick + 1 /\ run.finished = FALSE
        BY <2>1, <3>2
      <4> HIDE DEF r
      <4>3. runs[s].tick <= runs'[s].tick
        BY <3>1, <4>1, <4>2
      <4>4. QED
        BY <3>1, <3>2, <4>1, <4>2, <4>3
    <3>3. CASE s # r
      <4>1. runs'[s] = runs[s]
        BY <2>5, <3>3
      <4>2. QED
        BY <3>1, <4>1
    <3>4. QED
      BY <3>2, <3>3
  <2>10. ASSUME NEW v \in Windows PROVE Holds(windows[v], links[v])'
    <3>1. windows'[v].view = "running" => windows'[v].run \in DOMAIN runs'
      BY <2>5, <2>8 DEF PreviewInv, Holds
    <3>2. CASE v = w
      <4>1. links'[v] = sent /\ windows'[v].view = "running" /\ windows'[v].run = r
        BY <1>1, <2>4, <2>8, <3>2 DEF PreviewInv, Typed
      <4>2. sent.tick <= runs'[r].tick
        BY <2>3, <2>5 DEF Run, Ticks
      <4>3. QED
        BY <3>1, <4>1, <4>2 DEF Holds
    <3>3. CASE v # w
      <4>1. links'[v] = links[v] /\ (links[v] # Nil => links[v].tick \in Nat)
        BY <2>4, <3>3, LinkTyped DEF PreviewInv, Typed
      <4>2. ASSUME links[v] # Nil
            PROVE  /\ windows[v].view = "running" /\ windows[v].run \in DOMAIN runs
                   /\ links[v].tick <= runs[windows[v].run].tick
        BY <4>2 DEF PreviewInv, Holds
      <4>3. ASSUME links[v] # Nil PROVE links[v].tick <= runs'[windows[v].run].tick
        <5>1. PICK s \in DOMAIN runs : s = windows[v].run
          BY <4>2, <4>3
        <5>2. links[v].tick \in Nat /\ runs[s].tick \in Nat /\ runs'[s].tick \in Nat
          <6>1. runs'[s] \in Run
            BY <2>5, RunTyped, <1>2
          <6>2. QED
            BY <4>1, <4>3, <6>1, <2>9, DoomAssumption DEF Run, Ticks
        <5>3. links[v].tick <= runs[s].tick /\ runs[s].tick <= runs'[s].tick
          BY <2>9, <4>2, <4>3, <5>1
        <5>4. QED
          BY <5>1, <5>2, <5>3
      <4>4. QED
        BY <2>5, <2>8, <3>1, <4>1, <4>2, <4>3 DEF Holds
    <3>4. QED
      BY <3>2, <3>3
  <2>11. \A i \in DOMAIN results : Recorded(results[i])'
    <3> SUFFICES ASSUME NEW i \in DOMAIN results PROVE Recorded(results[i])'
      OBVIOUS
    <3>1. Recorded(results[i])
      BY DEF PreviewInv
    <3>2. results[i].run # r
      BY <2>6, <3>1 DEF Recorded
    <3>3. QED
      BY <1>3, <2>5, <3>1, <3>2 DEF Recorded
  <2>12. InputsArePlayed'
    BY <2>1, <2>5 DEF PreviewInv, InputsArePlayed
  <2>13. KeyNamesOurs'
    <3>1. \E v \in Windows : windows[v].view # "closed"
      BY <1>1
    <3>2. writer = "here" => active \in Unfinished \cup {Nil}
      BY <3>1 DEF PreviewInv, KeyNamesOurs
    <3>3. Unfinished' = Unfinished
      BY <2>5, <2>9 DEF Unfinished
    <3>4. QED
      BY <1>3, <3>2, <3>3 DEF KeyNamesOurs
  <2>14. QED
    BY <1>3, <2>5, <2>7, <2>8, <2>10, <2>11, <2>12, <2>13 DEF PreviewInv, Typed
<1>6. QED
  BY <1>4, <1>5 DEF Tick

\* A step that only changes what windows show and the status of sessions.
LEMMA ScreensKeep ==
  ASSUME PreviewInv, UNCHANGED <<runs, results, active, writer>>,
         windows' \in [Windows -> Window], links' \in [Windows -> Link \cup {Nil}],
         \A w \in Windows : /\ Holds(windows'[w], links'[w])
                            /\ windows'[w].view # "closed" => windows[w].view # "closed"
  PROVE  PreviewInv'
<1>1. KeyNamesOurs'
  BY DEF PreviewInv, KeyNamesOurs, Unfinished
<1>2. QED
  BY <1>1, Untouched

LEMMA LinkTurned ==
  ASSUME NEW l \in Link \cup {Nil}, NEW from \in {"running", "paused"}, NEW to \in {"running", "paused"}
  PROVE  /\ Turned(l, from, to) \in Link \cup {Nil}
         /\ l = Nil => Turned(l, from, to) = Nil
         /\ l # Nil => Turned(l, from, to).tick = l.tick
<1>1. CASE l # Nil /\ l.status = from
  BY <1>1, LinkTyped DEF Turned
<1>2. CASE ~(l # Nil /\ l.status = from)
  BY <1>2 DEF Turned
<1>3. QED
  BY <1>1, <1>2

LEMMA PauseKeeps ==
  ASSUME PreviewInv, (\E w \in Windows : TogglePause(w)) \/ Visibility
  PROVE  PreviewInv'
<1>1. UNCHANGED <<runs, results, active, writer, windows>>
  BY DEF TogglePause, Visibility
<1>2. \A v \in Windows : /\ Paused(links[v]) \in Link \cup {Nil} /\ Resumed(links[v]) \in Link \cup {Nil}
                         /\ links[v] = Nil => Paused(links[v]) = Nil /\ Resumed(links[v]) = Nil
                         /\ links[v] # Nil => /\ Paused(links[v]).tick = links[v].tick
                                              /\ Resumed(links[v]).tick = links[v].tick
  BY LinkTurned DEF PreviewInv, Typed, Paused, Resumed
<1>3. /\ links' \in [Windows -> Link \cup {Nil}]
      /\ \A v \in Windows : links'[v] \in {links[v], Paused(links[v]), Resumed(links[v])}
  <2>1. CASE Visibility
    BY <1>2, <2>1 DEF Visibility
  <2>2. ASSUME NEW w \in Windows, TogglePause(w)
        PROVE  /\ links' \in [Windows -> Link \cup {Nil}]
               /\ \A v \in Windows : links'[v] \in {links[v], Paused(links[v]), Resumed(links[v])}
    <3>1. \/ links' = [links EXCEPT ![w] = Paused(links[w])]
          \/ links' = [links EXCEPT ![w] = Resumed(links[w])]
      BY <2>2 DEF TogglePause
    <3>2. QED
      BY <1>2, <3>1 DEF PreviewInv, Typed
  <2>3. QED
    BY <2>1, <2>2
<1>4. \A v \in Windows : Holds(windows'[v], links'[v])
  BY <1>1, <1>2, <1>3 DEF PreviewInv, Holds
<1>5. QED
  BY <1>1, <1>3, <1>4, ScreensKeep DEF PreviewInv, Typed

LEMMA ConnectKeeps ==
  ASSUME PreviewInv, NEW w \in Windows, Connect(w)
  PROVE  PreviewInv'
<1> DEFINE joined == Joined(runs[windows[w].run])
<1>1. UNCHANGED <<runs, results, active, writer, windows>> /\ links' = [links EXCEPT ![w] = joined]
  BY DEF Connect
<1>2. windows[w].view = "running" /\ windows[w].run \in DOMAIN runs
  BY DEF PreviewInv, Holds, Connect
<1>3. runs[windows[w].run] \in Run
  BY <1>2, RunTyped DEF PreviewInv, Typed
<1>4. joined \in Link /\ joined.tick = runs[windows[w].run].tick /\ joined.tick \in Nat
  BY <1>3, DoomAssumption DEF Joined, Link, Run, Ticks
<1> HIDE DEF joined
<1>5. links' \in [Windows -> Link \cup {Nil}]
  BY <1>1, <1>4 DEF PreviewInv, Typed
<1>6. \A v \in Windows : Holds(windows'[v], links'[v])
  BY <1>1, <1>2, <1>4 DEF PreviewInv, Typed, Holds
<1>7. QED
  BY <1>1, <1>5, <1>6, ScreensKeep DEF PreviewInv, Typed

LEMMA KeysKeep ==
  ASSUME PreviewInv, NEW w \in Windows,
         Release(w) \/ \E key \in {"held", "shot"} : Press(w, key)
  PROVE  PreviewInv'
<1>1. UNCHANGED <<runs, results, active, writer, links>>
  BY DEF Press, Release
<1>2. PICK keys \in SUBSET {"held", "shot"} : windows' = [windows EXCEPT ![w].keys = keys]
  <2>1. windows[w].keys \in SUBSET {"held", "shot"}
    BY DEF PreviewInv, Typed, Window
  <2>2. CASE Release(w)
    BY <2>1, <2>2 DEF Release
  <2>3. ASSUME NEW key \in {"held", "shot"}, Press(w, key)
        PROVE  \E keys \in SUBSET {"held", "shot"} : windows' = [windows EXCEPT ![w].keys = keys]
    BY <2>1, <2>3 DEF Press
  <2>4. QED
    BY <2>2, <2>3
<1>3. /\ windows' \in [Windows -> Window]
      /\ \A v \in Windows : windows'[v].view = windows[v].view /\ windows'[v].run = windows[v].run
  BY <1>2 DEF PreviewInv, Typed, Window
<1>4. \A v \in Windows : Holds(windows'[v], links'[v])
  BY <1>1, <1>3 DEF PreviewInv, Holds
<1>5. QED
  BY <1>1, <1>3, <1>4, ScreensKeep DEF PreviewInv, Typed

LEMMA ShowingTyped ==
  ASSUME NEW view \in {"closed", "home", "running", "result"}, NEW run \in Ids \cup {Nil}
  PROVE  /\ Showing(view, run) \in Window
         /\ Showing(view, run).view = view /\ Showing(view, run).run = run
BY DEF Showing, Window

LEMMA CloseKeeps ==
  ASSUME PreviewInv, NEW w \in Windows, CloseWindow(w)
  PROVE  PreviewInv'
<1>1. /\ UNCHANGED <<runs, results, active, writer>>
      /\ windows' = [windows EXCEPT ![w] = Closed] /\ links' = [links EXCEPT ![w] = Nil]
  BY DEF CloseWindow
<1>2. Closed \in Window /\ Closed.view = "closed"
  BY ShowingTyped DEF Closed
<1>3. windows' \in [Windows -> Window] /\ links' \in [Windows -> Link \cup {Nil}]
  BY <1>1, <1>2 DEF PreviewInv, Typed
<1>4. \A v \in Windows : Holds(windows'[v], links'[v])
                         /\ (windows'[v].view # "closed" => windows[v].view # "closed")
  BY <1>1, <1>2 DEF PreviewInv, Typed, Holds
<1>5. QED
  BY <1>1, <1>3, <1>4, ScreensKeep

\* A window takes up the run of localStorage only if this page has it.
LEMMA OpenKeeps ==
  ASSUME PreviewInv, NEW w \in Windows, Open(w)
  PROVE  PreviewInv'
<1> DEFINE opened == [view |-> IF Known THEN "running" ELSE "home", run |-> IF Known THEN active ELSE Nil,
                      ready |-> Unfinished = {}, keys |-> {}]
<1>1. /\ UNCHANGED <<runs, results, links>> /\ windows[w].view = "closed"
      /\ windows' = [windows EXCEPT ![w] = opened]
      /\ active' = IF Known THEN active ELSE Nil
      /\ writer' = IF Known THEN writer ELSE "here"
  BY DEF Open
<1>2. opened \in Window /\ (opened.view = "running" => opened.run \in DOMAIN runs)
  BY RunTyped DEF PreviewInv, Typed, Known, Window
<1> HIDE DEF opened
<1>3. windows' \in [Windows -> Window] /\ links' \in [Windows -> Link \cup {Nil}]
  BY <1>1, <1>2 DEF PreviewInv, Typed
<1>4. ASSUME NEW v \in Windows PROVE Holds(windows[v], links[v])'
  BY <1>1, <1>2 DEF PreviewInv, Typed, Holds
<1>5. KeyNamesOurs'
  <2>1. CASE Known
    <3>1. runs # << >>
      BY <2>1 DEF Known
    <3>2. QED
      BY <1>1, <2>1, <3>1 DEF PreviewInv, KeyNamesOurs, Unfinished
  <2>2. CASE ~Known
    BY <1>1, <2>2 DEF KeyNamesOurs
  <2>3. QED
    BY <2>1, <2>2
<1>6. QED
  BY <1>1, <1>3, <1>4, <1>5
     DEF PreviewInv, Typed, Numbered, InputsArePlayed, Recorded

\* The number of runs is that of the last one, so the id after it is new.
LEMMA NewId ==
  ASSUME NEW k \in Nat, runs \in [1..k -> Run], NEW r \in Ids, r = Cardinality(DOMAIN runs) + 1,
         runs' = [s \in DOMAIN runs \cup {r} |-> IF s = r THEN NewRun ELSE runs[s]]
  PROVE  /\ r = k + 1 /\ r \in 0..MaxRuns /\ r \notin DOMAIN runs
         /\ runs' \in [1..r -> Run]
         /\ DOMAIN runs' = DOMAIN runs \cup {r}
         /\ runs'[r] = NewRun /\ \A s \in DOMAIN runs : runs'[s] = runs[s]
<1>1. Cardinality(1..k) = k
  BY FS_Interval
<1>2. r = k + 1 /\ r \in 0..MaxRuns /\ DOMAIN runs = 1..k
  BY <1>1, DoomAssumption DEF Ids
<1>3. NewRun \in Run
  BY DoomAssumption DEF NewRun, Run, Ticks
<1>4. r \notin DOMAIN runs /\ DOMAIN runs \cup {r} = 1..r
  BY <1>2
<1>5. QED
  BY <1>2, <1>3, <1>4

LEMMA StartKeeps ==
  ASSUME PreviewInv, NEW w \in Windows, Start(w)
  PROVE  PreviewInv'
<1>1. PICK k \in Nat : runs \in [1..k -> Run]
  BY DEF PreviewInv, Typed, Numbered
<1>2. PICK r \in Ids : /\ r = Cardinality(DOMAIN runs) + 1
                       /\ runs' = [s \in DOMAIN runs \cup {r} |-> IF s = r THEN NewRun ELSE runs[s]]
                       /\ active' = r /\ windows' = [windows EXCEPT ![w] = Showing("running", r)]
  BY DEF Start
<1>3. /\ UNCHANGED <<results, links>>
      /\ windows[w].view \in {"home", "result"}
  BY DEF Start
<1>4. /\ r \in 0..MaxRuns /\ r \notin DOMAIN runs /\ runs' \in [1..r -> Run]
      /\ DOMAIN runs' = DOMAIN runs \cup {r}
      /\ runs'[r] = NewRun /\ \A s \in DOMAIN runs : runs'[s] = runs[s]
  BY <1>1, <1>2, NewId
<1>5. /\ Showing("running", r) \in Window
      /\ Showing("running", r).view = "running" /\ Showing("running", r).run = r
  BY ShowingTyped
<1>6. Numbered'
  BY <1>4 DEF Numbered
<1>7. windows' \in [Windows -> Window] /\ links' \in [Windows -> Link \cup {Nil}]
  BY <1>2, <1>3, <1>5 DEF PreviewInv, Typed
<1>8. NewRun.finished = FALSE /\ NewRun.inputs = NewRun.acted
  BY DEF NewRun
<1>9. ASSUME NEW v \in Windows PROVE Holds(windows[v], links[v])'
  <2>1. CASE v = w
    <3>1. links[w] = Nil
      BY <1>3 DEF PreviewInv, Holds
    <3>2. QED
      BY <1>2, <1>3, <1>4, <1>5, <2>1, <3>1 DEF PreviewInv, Typed, Holds
  <2>2. CASE v # w
    BY <1>2, <1>3, <1>4, <2>2 DEF PreviewInv, Typed, Holds
  <2>3. QED
    BY <2>1, <2>2
<1>10. ASSUME NEW i \in DOMAIN results PROVE Recorded(results[i])'
  BY <1>3, <1>4 DEF PreviewInv, Recorded
<1>11. InputsArePlayed'
  BY <1>4, <1>8 DEF PreviewInv, InputsArePlayed
<1>12. KeyNamesOurs'
  BY <1>2, <1>4, <1>8 DEF KeyNamesOurs, Unfinished
<1>13. QED
  BY <1>3, <1>6, <1>7, <1>9, <1>10, <1>11, <1>12 DEF PreviewInv, Typed

\* A run is finished once, by whichever window comes first.
LEMMA FinishKeeps ==
  ASSUME PreviewInv, NEW w \in Windows, Finish(w)
  PROVE  PreviewInv'
<1> DEFINE r == windows[w].run
<1>1. windows[w].view = "running" /\ links[w] \in Link /\ links[w] # Nil /\ r \in DOMAIN runs
  BY DEF PreviewInv, Typed, Holds, Finish
<1>2. CASE runs[r].finished
  <2>1. /\ UNCHANGED <<runs, results, active, writer, windows>>
        /\ links' = [links EXCEPT ![w] = At(links[w], "closed")]
    BY <1>2 DEF Finish
  <2>2. At(links[w], "closed") \in Link /\ At(links[w], "closed").tick = links[w].tick
    BY <1>1, LinkTyped
  <2>3. links' \in [Windows -> Link \cup {Nil}]
    BY <2>1, <2>2 DEF PreviewInv, Typed
  <2>4. \A v \in Windows : Holds(windows'[v], links'[v])
    BY <1>1, <2>1, <2>2 DEF PreviewInv, Typed, Holds
  <2>5. QED
    BY <2>1, <2>3, <2>4, ScreensKeep DEF PreviewInv, Typed
<1>3. CASE ~runs[r].finished
  <2>1. /\ runs' = [runs EXCEPT ![r].finished = TRUE]
        /\ results' = <<[run |-> r, ticks |-> runs[r].tick, hash |-> runs'[r]]>> \o results
        /\ links' = [links EXCEPT ![w] = Nil]
        /\ windows' = [windows EXCEPT ![w] = Showing("result", Nil)]
        /\ active' = Nil
    BY <1>3 DEF Finish
  <2>2. PICK run \in Run : run = runs'[r] /\ run.tick = runs[r].tick /\ run.finished
                           /\ run.inputs = runs[r].inputs /\ run.acted = runs[r].acted
    <3>1. runs[r] \in Run
      BY <1>1, RunTyped DEF PreviewInv, Typed
    <3>2. runs'[r] = [runs[r] EXCEPT !.finished = TRUE]
      BY <1>1, <2>1, RunTyped DEF PreviewInv, Typed
    <3>3. QED
      BY <3>1, <3>2 DEF Run
  <2>3. /\ DOMAIN runs' = DOMAIN runs /\ Numbered'
        /\ \A s \in DOMAIN runs : s # r => runs'[s] = runs[s]
    <3>1. runs' = [runs EXCEPT ![r] = run]
      BY <1>1, <2>1, <2>2, RunTyped DEF PreviewInv, Typed
    <3>2. QED
      BY <3>1 DEF PreviewInv, Typed, Numbered
  <2>4. PICK new \in Result : /\ new.run = r /\ new.ticks = run.tick /\ new.hash = run
                              /\ results' = <<new>> \o results
    <3>1. r \in Ids /\ runs[r].tick \in Ticks
      BY <1>1, RunTyped DEF PreviewInv, Typed, Run
    <3>2. QED
      BY <2>1, <2>2, <3>1 DEF Result
  <2>5. /\ results' \in Seq(Result) /\ 1 \in DOMAIN results' /\ results'[1] = new
        /\ \A i \in DOMAIN results' : i # 1 => i - 1 \in DOMAIN results /\ results'[i] = results[i - 1]
        /\ \A i \in DOMAIN results' : i \in Nat
    BY <2>4 DEF PreviewInv, Typed
  <2>6. /\ Showing("result", Nil) \in Window
        /\ Showing("result", Nil).view = "result" /\ Showing("result", Nil).run = Nil
    BY ShowingTyped
  <2>7. windows' \in [Windows -> Window] /\ links' \in [Windows -> Link \cup {Nil}]
    BY <2>1, <2>6 DEF PreviewInv, Typed
  <2>8. \A s \in DOMAIN runs : runs'[s].tick = runs[s].tick
                                /\ runs'[s].inputs = runs[s].inputs /\ runs'[s].acted = runs[s].acted
    BY <2>2, <2>3
  <2>9. ASSUME NEW v \in Windows PROVE Holds(windows[v], links[v])'
    <3>1. CASE v = w
      BY <2>1, <2>6, <3>1 DEF PreviewInv, Typed, Holds
    <3>2. CASE v # w
      BY <2>1, <2>3, <2>8, <3>2 DEF PreviewInv, Typed, Holds
    <3>3. QED
      BY <3>1, <3>2
  <2>10. \A i \in DOMAIN results : Recorded(results[i]) /\ results[i].run # r
    BY <1>3 DEF PreviewInv, Recorded
  <2>11. ASSUME NEW i \in DOMAIN results' PROVE Recorded(results[i])'
    <3>1. CASE i = 1
      BY <1>1, <2>2, <2>3, <2>4, <2>5, <3>1 DEF Recorded
    <3>2. CASE i # 1
      BY <2>3, <2>5, <2>10, <3>2 DEF Recorded
    <3>3. QED
      BY <3>1, <3>2
  <2>12. ASSUME NEW i \in DOMAIN results', NEW j \in DOMAIN results', results'[i].run = results'[j].run
         PROVE  i = j
    <3>1. CASE i = 1 \/ j = 1
      BY <2>4, <2>5, <2>10, <2>12, <3>1
    <3>2. CASE i # 1 /\ j # 1
      <4>1. i - 1 = j - 1
        BY <2>5, <2>12, <3>2 DEF PreviewInv
      <4>2. QED
        BY <2>5, <4>1
    <3>3. QED
      BY <3>1, <3>2
  <2>13. InputsArePlayed'
    BY <2>3, <2>8 DEF PreviewInv, InputsArePlayed
  <2>14. KeyNamesOurs'
    BY <2>1 DEF KeyNamesOurs
  <2>15. QED
    BY <2>3, <2>5, <2>7, <2>9, <2>11, <2>12, <2>13, <2>14 DEF PreviewInv, Typed
<1>4. QED
  BY <1>2, <1>3

LEMMA NothingRuns ==
  ASSUME runs = << >>, results = << >>, windows = [w \in Windows |-> Closed],
         links = [w \in Windows |-> Nil]
  PROVE  PreviewInv
<1>1. runs \in [1..0 -> Run] /\ DOMAIN runs = {} /\ DOMAIN results = {} /\ results \in Seq(Result)
  OBVIOUS
<1>2. Numbered
  <2>1. 0 \in 0..MaxRuns
    BY DoomAssumption
  <2>2. QED
    BY <1>1, <2>1 DEF Numbered
<1>3. Closed \in Window /\ Closed.view = "closed"
  BY ShowingTyped DEF Closed
<1>4. /\ windows \in [Windows -> Window] /\ links \in [Windows -> Link \cup {Nil}]
      /\ \A w \in Windows : windows[w].view = "closed" /\ links[w] = Nil
  BY <1>3
<1>5. \A w \in Windows : Holds(windows[w], links[w])
  BY <1>4 DEF Holds
<1>6. QED
  BY <1>1, <1>2, <1>4, <1>5 DEF PreviewInv, Typed, InputsArePlayed, KeyNamesOurs

\* The other tabs change the key and nothing else.
LEMMA OthersKeep ==
  ASSUME PreviewInv, OtherTabs
  PROVE  PreviewInv'
<1>1. UNCHANGED <<runs, results, windows, links>> /\ writer' # "here"
  BY DEF OtherTabs
<1>2. KeyNamesOurs'
  BY <1>1 DEF KeyNamesOurs
<1>3. QED
  BY <1>1, <1>2 DEF PreviewInv, Typed, Numbered, InputsArePlayed, Recorded, Holds

LEMMA PreviewInvHolds == DoomSpec => []PreviewInv
<1>1. DoomInit => PreviewInv
  BY NothingRuns DEF DoomInit
<1>2. PreviewInv /\ [DoomNext]_doomVars => PreviewInv'
  <2>1. ASSUME PreviewInv, DoomNext PROVE PreviewInv'
    <3>1. CASE Reload
      <4>1. (runs = << >> /\ results = << >> /\ windows = [w \in Windows |-> Closed]
             /\ links = [w \in Windows |-> Nil])'
        BY <3>1 DEF Reload
      <4>2. QED
        BY <4>1, NothingRuns, PTL
    <3>2. QED
      BY <2>1, <3>1, TickKeeps, OpenKeeps, StartKeeps, ConnectKeeps, KeysKeep, PauseKeeps, FinishKeeps,
         CloseKeeps, OthersKeep DEF DoomNext
  <2>2. ASSUME PreviewInv, UNCHANGED doomVars PROVE PreviewInv'
    BY <2>2 DEF doomVars, PreviewInv, Typed, Numbered, InputsArePlayed, KeyNamesOurs, Unfinished,
       Holds, Recorded
  <2>3. QED
    BY <2>1, <2>2
<1>3. QED
  BY <1>1, <1>2, PTL DEF DoomSpec

\* An input is played at the tick it was given for or it is refused: however
\* many windows step the same run, each with its own copy of the tick, none
\* leaves in the run an input that no tick played.
THEOREM InputsGetPlayed == DoomSpec => []InputsArePlayed
<1>1. PreviewInv => InputsArePlayed
  BY DEF PreviewInv
<1>2. QED
  BY <1>1, PreviewInvHolds, PTL

\* Once a run has its result, no window that still holds a session of it moves
\* it, and none finishes it again.
THEOREM ResultsStayFinal == DoomSpec => []ResultsAreFinal
<1>1. PreviewInv => ResultsAreFinal
  BY DEF PreviewInv, ResultsAreFinal, Recorded
<1>2. QED
  BY <1>1, PreviewInvHolds, PTL

\* A window shows a run of this page, and the id in localStorage, when this
\* tab wrote it last and has looked at it, is that of an unfinished run of this
\* page: across any number of reloads and whatever the other tabs write.
THEOREM KeyStaysResumable == DoomSpec => []KeyIsResumable
<1>1. PreviewInv => KeyIsResumable
  BY DEF PreviewInv, KeyIsResumable, KeyNamesOurs, Holds
<1>2. QED
  BY <1>1, PreviewInvHolds, PTL
=============================================================================
