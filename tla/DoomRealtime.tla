---------------------------- MODULE DoomRealtime ----------------------------
(***************************************************************************)
(* The realtime session of realtime.ts, WebSocketDoomRealtimeSession over  *)
(* WebSocketDoomTransport: one socket, control messages out, messages of   *)
(* the gateway in, and promises of checkpoints that are answered first in, *)
(* first out.                                                              *)
(*                                                                         *)
(* The gateway is outside src/.  It answers each checkpoint once, in order,*)
(* with a checkpoint, an error or a message the session cannot read; at any*)
(* time it may also send what no checkpoint asked for: an error about an   *)
(* input or a pause, a checkpoint of its own accord, a frame that cannot be*)
(* decoded or that a listener throws on, a status.  Nothing in a message   *)
(* says which request it is about.                                         *)
(***************************************************************************)
EXTENDS Integers, Sequences

CONSTANTS
  MaxCheckpoints,   \* checkpoints asked for
  MaxMessages,      \* messages on their way when one more is sent unasked
  MaxStrays,        \* messages to no checkpoint that settle one all the same
  Reported          \* statuses the gateway reports

VARIABLES
  socket,     \* the transport's socket
  status,     \* currentStatus
  pending,    \* pendingCheckpoints, as numbers of promises
  promises,   \* checkpoint number -> what became of its promise
  controls,   \* control messages the gateway has yet to read
  events,     \* messages of the gateway on their way
  strays      \* history: the messages received that settle a promise and answer none

realtimeVars == <<socket, status, pending, promises, controls, events, strays>>

\* DoomRealtimeStatus.
Statuses == {"connecting", "running", "paused", "checkpointing", "disconnected", "closed", "error"}

ASSUME RealtimeAssumption ==
  /\ MaxCheckpoints \in Nat /\ MaxMessages \in Nat /\ MaxStrays \in Nat
  /\ Reported \subseteq Statuses

Checkpoints == 1..MaxCheckpoints

\* The messages that settle a promise.
Kinds == {"checkpoint", "error", "unreadable"}

\* What a promise has come to: an event of the gateway, or one of these.
Fate(type) == [type |-> type, of |-> 0]
Unasked == Fate("unasked")
Waiting == Fate("waiting")
Made == {n \in Checkpoints : promises[n] # Unasked}

RealtimeInit ==
  /\ socket = "connecting" /\ status = "connecting"
  /\ pending = << >> /\ controls = << >> /\ events = << >>
  /\ promises = [n \in Checkpoints |-> Unasked]
  /\ strays = 0

----------------------------------------------------------------------------
\* The transport's connect, which sends the first message, and the session's.
Connects ==
  /\ socket = "connecting"
  /\ socket' = "open" /\ status' = "running"
  /\ UNCHANGED <<pending, promises, controls, events, strays>>

\* The socket cannot be opened, or closes from the other side: what was on
\* its way is lost, and the listener is told that the session disconnected.
Disconnects ==
  /\ socket \in {"connecting", "open"}
  /\ socket' = "closed" /\ status' = "disconnected"
  /\ controls' = << >> /\ events' = << >>
  /\ UNCHANGED <<pending, promises, strays>>

\* A message can be sent; if not, send throws.
Connected == socket = "open"

\* checkpoint, which only a session that was connected is asked for: the
\* promise is listed before the message is sent, and stays listed when send
\* throws and rejects it.
Checkpoint ==
  /\ socket # "connecting" /\ Made # Checkpoints
  /\ LET n == CHOOSE m \in Checkpoints \ Made : \A k \in Checkpoints \ Made : m <= k IN
     /\ pending' = Append(pending, n)
     /\ promises' = [promises EXCEPT ![n] = IF Connected THEN Waiting ELSE Fate("refused")]
     /\ controls' = IF Connected THEN Append(controls, [type |-> "checkpoint", of |-> n]) ELSE controls
  /\ UNCHANGED <<socket, status, events, strays>>

\* pause and resume.
Quiet == Len(controls) + Len(events) < MaxMessages
Turn(to) ==
  /\ Connected /\ Quiet
  /\ controls' = Append(controls, [type |-> "status", of |-> to])
  /\ status' = to
  /\ UNCHANGED <<socket, pending, promises, events, strays>>

\* The promise at the head of the list, if there is one, is settled.
SettleLast(outcome) ==
  IF pending = << >> THEN UNCHANGED <<pending, promises>>
  ELSE /\ promises' = [promises EXCEPT ![pending[Len(pending)]] = outcome]
       /\ pending' = SubSeq(pending, 1, Len(pending) - 1)

Settle(outcome) ==
  IF pending = << >> THEN UNCHANGED <<pending, promises>>
  ELSE /\ promises' = [promises EXCEPT ![Head(pending)] = outcome]
       /\ pending' = Tail(pending)

\* receive: a checkpoint resolves, an error or a message that cannot be read
\* rejects, a status takes the place of the session's; any other message, such
\* as a frame, changes nothing.
Receive ==
  LET event == Head(events) IN
  /\ events # << >>
  /\ CASE event.type \in {"checkpoint", "error"} -> Settle(event) /\ UNCHANGED status
       [] event.type = "unreadable" -> Settle(event) /\ status' = "error"
       [] event.type = "status" -> status' = event.of /\ UNCHANGED <<pending, promises>>
       [] event.type = "other" -> UNCHANGED <<status, pending, promises>>
  /\ events' = Tail(events)
  /\ strays' = IF event.type \in Kinds /\ event.of = 0 THEN strays + 1 ELSE strays
  /\ UNCHANGED <<socket, controls>>

\* close: send and the transport's close may find no socket; the listener is
\* taken off, and every promise still listed is rejected.
Close ==
  /\ socket # "connecting" /\ status # "closed"
  /\ socket' = "closed" /\ status' = "closed"
  /\ promises' = [n \in Checkpoints |->
       IF promises[n] = Waiting /\ \E i \in DOMAIN pending : pending[i] = n THEN Fate("closed") ELSE promises[n]]
  /\ pending' = << >> /\ controls' = << >> /\ events' = << >>
  /\ UNCHANGED strays

\* The gateway reads a message and answers.
Answers ==
  LET message == Head(controls) IN
  /\ controls # << >>
  /\ controls' = Tail(controls)
  /\ \/ /\ message.type = "checkpoint"
        /\ \E type \in Kinds : events' = Append(events, [message EXCEPT !.type = type])
     \/ message.type = "status" /\ events' \in {events, Append(events, message)}
  /\ UNCHANGED <<socket, status, pending, promises, strays>>

\* The gateway sends what no checkpoint has asked for.
Unprompted ==
  [type: Kinds \cup {"other"}, of: {0}] \cup [type: {"status"}, of: Reported]
Sends ==
  /\ Connected /\ Quiet /\ strays < MaxStrays
  /\ \E message \in Unprompted : events' = Append(events, message)
  /\ UNCHANGED <<socket, status, pending, promises, controls, strays>>

RealtimeNext ==
  \/ Connects \/ Disconnects \/ Checkpoint \/ Receive \/ Close \/ Answers \/ Sends
  \/ Turn("paused") \/ Turn("running")

RealtimeSpec == RealtimeInit /\ [][RealtimeNext]_realtimeVars

----------------------------------------------------------------------------
\* Answers carry no number and are matched by their place.  Whatever was asked
\* before failed, was refused or could not be read, a checkpoint is not settled
\* by the answer to a later one, and by that of an earlier one only as far back
\* as messages that answer none have come in: if none has, by its own.  No
\* promise is left waiting that the list has forgotten, and none by a session
\* that was closed.
CheckpointsSettle ==
  \A n \in Checkpoints :
    /\ promises[n].type \in Kinds /\ promises[n].of # 0 => n - promises[n].of \in 0..strays
    /\ promises[n] = Waiting =>
         /\ ~(status = "closed" /\ socket = "closed")
         /\ \E i \in DOMAIN pending : pending[i] = n
=============================================================================
