----------------------------- MODULE PreviewDoom -----------------------------
(***************************************************************************)
(* DOOM in a preview tab: the in-memory runtime of MockDoomRuntime.ts, the *)
(* realtime sessions of realtime-local.ts on top of it, and the windows of *)
(* Doom.tsx and DoomGame.tsx that hold them.                               *)
(*                                                                         *)
(* Every call of the runtime settles in microtasks, so a timer tick, a     *)
(* click or the effect of a render is one step.  What interleaves is those *)
(* steps: several windows may hold a session of the same run, each with    *)
(* its own timer and its own copy of the tick the run has reached.  The    *)
(* other preview tabs of the origin share one thing with this one, the     *)
(* localStorage key, and number their runs from 1 as it does.              *)
(***************************************************************************)
EXTENDS Naturals, Sequences, FiniteSets

CONSTANTS
  Windows,    \* DOOM windows of the tab
  Nil,
  MaxRuns,    \* runs created by a page
  MaxTick,    \* ticks a run is played for
  MaxReloads

VARIABLES
  runs,       \* sessions of the runtime: run id -> record
  results,    \* results of the runtime, newest first
  active,     \* the localStorage key jam-os:doom:active-run: a run id or Nil
  writer,     \* history: "here" if this tab set or removed the key last
  windows,    \* what each window shows
  links,      \* the realtime session each window holds, or Nil
  hidden,     \* document.hidden
  reloads

doomVars == <<runs, results, active, writer, windows, links, hidden, reloads>>

ASSUME DoomAssumption ==
  /\ Nil \notin Nat
  /\ MaxRuns \in Nat /\ MaxTick \in Nat /\ MaxReloads \in Nat

Ids == 1..MaxRuns      \* mock-session-1, mock-session-2, ...
Ticks == 0..MaxTick

\* A run: its tick, the ticks it was given inputs for, those whose inputs
\* moved the player, and whether it is over.
Run == [tick: Ticks, inputs: SUBSET (1..MaxTick + 1), acted: SUBSET Ticks, finished: BOOLEAN]

\* A result: the run, the ticks it took and the state its hash was made of.
Result == [run: Ids, ticks: Ticks, hash: Run]

\* A window: its page, the run it shows, whether the runtime was ready when
\* the window opened, and the keys held or hit since the last frame.
Window == [view: {"closed", "home", "running", "result"}, run: Ids \cup {Nil},
           ready: BOOLEAN, keys: SUBSET {"held", "shot"}]

\* A realtime session: its status, the tick of the state it saw last and the
\* ticks it has queued inputs for.  Its timer runs while it is "running":
\* every assignment of the status comes with the timer's.
Link == [status: {"running", "paused", "closed", "error"}, tick: Ticks,
         queued: SUBSET (1..MaxTick + 1)]

\* Runs, results, windows and realtime sessions are of their types.
DoomTypeOK ==
  /\ DOMAIN runs \subseteq Ids /\ \A r \in DOMAIN runs : runs[r] \in Run
  /\ \A i \in DOMAIN results : results[i] \in Result
  /\ active \in Ids \cup {Nil} /\ writer \in {"here", "elsewhere"}
  /\ windows \in [Windows -> Window]
  /\ links \in [Windows -> Link \cup {Nil}]
  /\ hidden \in BOOLEAN /\ reloads \in 0..MaxReloads

Showing(view, run) == [view |-> view, run |-> run, ready |-> FALSE, keys |-> {}]
Closed == Showing("closed", Nil)

DoomInit ==
  /\ runs = << >> /\ results = << >>
  /\ active = Nil /\ writer = "elsewhere"
  /\ windows = [w \in Windows |-> Closed]
  /\ links = [w \in Windows |-> Nil]
  /\ hidden = FALSE /\ reloads = 0

----------------------------------------------------------------------------
\* The runtime.

NewRun == [tick |-> 0, inputs |-> {}, acted |-> {}, finished |-> FALSE]
Unfinished == {r \in DOMAIN runs : ~runs[r].finished}

\* submitInput with the input of one tick: refused when the run has passed it.
OnTime(run, tick) == FALSE

Late(run, tick) == tick <= run.tick

Submitted(run, tick) == [run EXCEPT !.inputs = @ \cup {tick}]

\* executeTicks with one tick.
Stepped(run) ==
  [run EXCEPT !.tick = @ + 1, !.acted = @ \cup (run.inputs \cap {run.tick + 1})]

----------------------------------------------------------------------------
\* The realtime session.

At(l, status) == [l EXCEPT !.status = status]

\* connectRealtime: initialize reads the state and starts the timer.  The
\* first frame is emitted before anybody has subscribed.
Joined(run) == [status |-> "running", tick |-> run.tick, queued |-> {}]

Turned(l, from, to) == IF l # Nil /\ l.status = from THEN At(l, to) ELSE l
Paused(l) == Turned(l, "running", "paused")
Resumed(l) == Turned(l, "paused", "running")

\* The frame listener of DoomGame: what is held or was hit becomes the input
\* of the tick after the frame.
SendInput(l, keys) == IF keys = {} THEN l ELSE [l EXCEPT !.queued = @ \cup {l.tick + 1}]

\* step: plays the next tick with its queued input, or ends in an error.
EndlessFails(l, run) == l.tick + 1 \in l.queued /\ Late(run, l.tick + 1)

StepFails(l, run) == run.finished \/ (l.tick + 1 \in l.queued /\ Late(run, l.tick + 1))

PlayedBy(l, run) == Stepped(IF l.tick + 1 \in l.queued THEN Submitted(run, l.tick + 1) ELSE run)

Tick(w) ==
  LET r == windows[w].run  l == links[w] IN
  /\ l # Nil /\ l.status = "running"
  /\ \/ /\ StepFails(l, runs[r])
        /\ links' = [links EXCEPT ![w] = At(l, "error")]
        /\ UNCHANGED <<runs, windows>>
     \/ /\ ~StepFails(l, runs[r]) /\ runs[r].tick < MaxTick
        /\ LET run == PlayedBy(l, runs[r])
               seen == [l EXCEPT !.tick = run.tick, !.queued = @ \ {l.tick + 1}]
           IN /\ runs' = [runs EXCEPT ![r] = run]
              /\ links' = [links EXCEPT ![w] = SendInput(seen, windows[w].keys)]
              /\ windows' = [windows EXCEPT ![w].keys = @ \ {"shot"}]
  /\ UNCHANGED <<results, active, writer, hidden, reloads>>

----------------------------------------------------------------------------
\* The windows.

\* Doom mounts: it takes up the run localStorage names if the runtime has it,
\* and forgets the name if not.
Known == active \in DOMAIN runs
Open(w) ==
  /\ windows[w].view = "closed"
  /\ windows' = [windows EXCEPT ![w] =
       [view |-> IF Known THEN "running" ELSE "home", run |-> IF Known THEN active ELSE Nil,
        ready |-> Unfinished = {}, keys |-> {}]]
  /\ active' = IF Known THEN active ELSE Nil
  /\ writer' = IF Known THEN writer ELSE "here"
  /\ UNCHANGED <<runs, results, links, hidden, reloads>>

\* START RUN, which the status of the mount enables, or Run again.
Start(w) ==
  LET r == Cardinality(DOMAIN runs) + 1 IN
  /\ (windows[w].view = "home" /\ windows[w].ready) \/ windows[w].view = "result"
  /\ r \in Ids
  /\ runs' = [s \in DOMAIN runs \cup {r} |-> IF s = r THEN NewRun ELSE runs[s]]
  /\ active' = r /\ writer' = "here"
  /\ windows' = [windows EXCEPT ![w] = Showing("running", r)]
  /\ UNCHANGED <<results, links, hidden, reloads>>

\* DoomGame mounts and connects.
Connect(w) ==
  /\ windows[w].view = "running" /\ links[w] = Nil
  /\ links' = [links EXCEPT ![w] = Joined(runs[windows[w].run])]
  /\ UNCHANGED <<runs, results, active, writer, windows, hidden, reloads>>

\* A key goes down and stays, a key is hit, the held key goes up.
Press(w, key) ==
  /\ windows[w].view = "running" /\ key \notin windows[w].keys
  /\ windows' = [windows EXCEPT ![w].keys = @ \cup {key}]
  /\ UNCHANGED <<runs, results, active, writer, links, hidden, reloads>>

Release(w) ==
  /\ windows[w].view = "running" /\ "held" \in windows[w].keys
  /\ windows' = [windows EXCEPT ![w].keys = @ \ {"held"}]
  /\ UNCHANGED <<runs, results, active, writer, links, hidden, reloads>>

\* togglePause.
TogglePause(w) ==
  /\ links[w] # Nil /\ links[w].status \in {"running", "paused"}
  /\ links' = [links EXCEPT ![w] = IF @.status = "paused" THEN Resumed(@) ELSE Paused(@)]
  /\ UNCHANGED <<runs, results, active, writer, windows, hidden, reloads>>

\* The tab is hidden or shown again: every game pauses, or resumes if paused,
\* by whom does not matter.
Visibility ==
  /\ hidden' = ~hidden
  /\ links' = [w \in Windows |-> IF hidden' THEN Paused(links[w]) ELSE Resumed(links[w])]
  /\ UNCHANGED <<runs, results, active, writer, windows, reloads>>

\* End run: the session closes, then the runtime finishes the run and Doom
\* shows the result; a run another window has finished is an error.
FinishLeaving(w) ==
  LET r == windows[w].run IN
  /\ windows[w].view = "running" /\ links[w] # Nil
  /\ \/ /\ runs[r].finished
        /\ links' = [links EXCEPT ![w] = At(@, "closed")]
        /\ UNCHANGED <<runs, results, active, writer, windows>>
     \/ /\ ~runs[r].finished
        /\ runs' = [runs EXCEPT ![r].finished = TRUE]
        /\ results' = <<[run |-> r, ticks |-> runs[r].tick, hash |-> runs'[r]]>> \o results
        /\ links' = [links EXCEPT ![w] = Nil]
        /\ windows' = [windows EXCEPT ![w] = Showing("result", Nil)]
        /\ UNCHANGED <<active, writer>>
  /\ UNCHANGED <<hidden, reloads>>

Finish(w) ==
  LET r == windows[w].run IN
  /\ windows[w].view = "running" /\ links[w] # Nil
  /\ \/ /\ runs[r].finished
        /\ links' = [links EXCEPT ![w] = At(@, "closed")]
        /\ UNCHANGED <<runs, results, active, writer, windows>>
     \/ /\ ~runs[r].finished
        /\ runs' = [runs EXCEPT ![r].finished = TRUE]
        /\ results' = <<[run |-> r, ticks |-> runs[r].tick, hash |-> runs'[r]]>> \o results
        /\ links' = [links EXCEPT ![w] = Nil]
        /\ windows' = [windows EXCEPT ![w] = Showing("result", Nil)]
        /\ active' = Nil /\ writer' = "here"
  /\ UNCHANGED <<hidden, reloads>>

\* The window closes; the effect's cleanup closes the session.
CloseWindow(w) ==
  /\ windows[w].view # "closed"
  /\ windows' = [windows EXCEPT ![w] = Closed]
  /\ links' = [links EXCEPT ![w] = Nil]
  /\ UNCHANGED <<runs, results, active, writer, hidden, reloads>>

\* The page is loaded again: what was in memory is gone, localStorage stays.
Reload ==
  /\ reloads < MaxReloads
  /\ reloads' = reloads + 1
  /\ runs' = << >> /\ results' = << >> /\ hidden' = FALSE
  /\ windows' = [w \in Windows |-> Closed]
  /\ links' = [w \in Windows |-> Nil]
  /\ UNCHANGED <<active, writer>>

\* Start, finish and the mount of a window in the other tabs set and remove
\* the key; the ids they write are theirs, and equal ids of this tab.
OtherTabs ==
  /\ active' \in Ids \cup {Nil} /\ writer' = "elsewhere"
  /\ UNCHANGED <<runs, results, windows, links, hidden, reloads>>

DoomNext ==
  \/ \E w \in Windows :
       \/ Tick(w) \/ Open(w) \/ Start(w) \/ Connect(w) \/ Release(w)
       \/ TogglePause(w) \/ Finish(w) \/ CloseWindow(w)
       \/ \E key \in {"held", "shot"} : Press(w, key)
  \/ Visibility \/ Reload \/ OtherTabs

DoomSpec == DoomInit /\ [][DoomNext]_doomVars

----------------------------------------------------------------------------
(***************************************************************************)
(* Properties.                                                             *)
(***************************************************************************)

\* What a run was given to play it has played: submitInput and executeTicks
\* of a step belong together, and an input for a tick that another window's
\* session has already executed is refused, never kept unplayed.
InputsArePlayed == \A r \in DOMAIN runs : runs[r].inputs = runs[r].acted

\* A result is the last word on its run: whichever windows still hold
\* sessions of the run, its tick and its state stay those of the result, and
\* it gets no second result.
ResultsAreFinal ==
  /\ \A i \in DOMAIN results :
       LET r == results[i].run IN
       r \in DOMAIN runs /\ runs[r] = results[i].hash /\ runs[r].tick = results[i].ticks
  /\ \A i, j \in DOMAIN results : results[i].run = results[j].run => i = j

\* Whatever the other tabs write, a window that shows a run shows one this
\* page has.  Once a window has looked at the key, and while it was this tab
\* that wrote it last, it names a run this page has not finished: not one of
\* the page before, whose ids start from 1 too.  A key that another tab wrote
\* may name that tab's run, and then finds the finished run of this page that
\* has the same id.
KeyIsResumable ==
  /\ \A w \in Windows : windows[w].view = "running" => windows[w].run \in DOMAIN runs
  /\ writer = "here" /\ ((\E w \in Windows : windows[w].view # "closed") \/ runs # << >>)
       => active \in Unfinished \cup {Nil}
=============================================================================
