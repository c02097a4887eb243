------------------------------- MODULE DoomWire -------------------------------
(***************************************************************************)
(* What DOOM sends as bytes: the frames of the realtime session (frame.ts) *)
(* and replays, whose bytes name the run (replay.ts).  A message is        *)
(* encoded, may be damaged on its way, and is decoded.                     *)
(*                                                                         *)
(* The layout is the code's with a magic of one byte and shorter hashes;   *)
(* a byte has Bytes values, of which the lower half are characters.        *)
(***************************************************************************)
EXTENDS Integers, SequencesExt

CONSTANTS
  Bytes,              \* values of a byte
  HashBytes,          \* bytes of a ruleset hash
  MaxTics,            \* DOOM_REPLAY_MAX_TICS
  Replays, Frames,    \* messages to send, not all of them well formed
  Refused,            \* what a decoder or an encoder makes of the others
  MaxDamage           \* times a message is damaged

VARIABLES sent, wire, damage

wireVars == <<sent, wire, damage>>

\* Values of two bytes; four have Wide * Wide.
Wide == Bytes * Bytes

Byte == 0..Bytes - 1
Character == {b \in Byte : 2 * b < Bytes}
Hash == [1..HashBytes -> Byte]

\* What a message is before it is encoded: of commands, only that they are
\* numbers, and of ticks, that they fit their four bytes.
AnyCommand == [forwardMove: Int, sideMove: Int, angleTurn: Int, buttons: Int]
Replay == [rulesetHash: Hash, ticcmds: Seq(AnyCommand)]
Frame == [tick: 0..Wide * Wide - 1, width: Nat, height: Nat, sessionId: Seq(Character),
          stateHash: Seq(Character), pixels: Seq(Byte)]

ASSUME WireAssumption ==
  /\ Bytes \in Nat /\ Bytes > 3 /\ 2 * (Bytes \div 2) = Bytes
  /\ HashBytes \in Nat /\ MaxTics \in 0..Wide * Wide - 1 /\ MaxDamage \in Nat
  /\ Replays \subseteq Replay /\ Frames \subseteq Frame

Unsent == [kind |-> "none", value |-> Refused]

WireInit == sent = Unsent /\ wire = << >> /\ damage = 0

----------------------------------------------------------------------------
\* DataView: numbers of two and of four bytes, least or most significant byte
\* first, at an offset, and two's complement of numbers with so many values.
Put16(n) == <<n % Bytes, (n \div Bytes) % Bytes>>
Put32(n) == Put16(n) \o Put16(n \div Wide)
Little16(s, at) == s[at + 1] + s[at + 2] * Bytes
Little32(s, at) == Little16(s, at) + Little16(s, at + 2) * Wide
Big16(s, at) == s[at + 1] * Bytes + s[at + 2]
Big32(s, at) == Big16(s, at) * Wide + Big16(s, at + 2)
Signed(n, values) == IF 2 * n >= values THEN n - values ELSE n
Integer(values) == -(values \div 2)..(values \div 2) - 1

\* The next size bytes after the first skip.
Part(s, skip, size) == SubSeq(s, skip + 1, skip + size)

----------------------------------------------------------------------------
\* Replays.

ReplayMagic == 1
ReplayVersion == 1
ReplayHeader == 2 + HashBytes + 4
TicBytes == 5

CommandBytes(c) ==
  <<c.forwardMove % Bytes, c.sideMove % Bytes>> \o Put16(c.angleTurn) \o <<c.buttons>>

IsCommand(c) ==
  /\ c.forwardMove \in Integer(Bytes) /\ c.sideMove \in Integer(Bytes)
  /\ c.angleTurn \in Integer(Wide) /\ c.buttons \in Byte

EncodeReplay(r) ==
  IF \/ Len(r.ticcmds) \notin 1..MaxTics
     \/ \E i \in DOMAIN r.ticcmds : ~IsCommand(r.ticcmds[i])
  THEN Refused
  ELSE <<ReplayMagic, ReplayVersion>> \o r.rulesetHash \o Put32(Len(r.ticcmds))
         \o [i \in 1..Len(r.ticcmds) * TicBytes |->
               CommandBytes(r.ticcmds[((i - 1) \div TicBytes) + 1])[((i - 1) % TicBytes) + 1]]

ReadCommand(s, at) ==
  [forwardMove |-> Signed(s[at + 1], Bytes), sideMove |-> Signed(s[at + 2], Bytes),
   angleTurn |-> Signed(Little16(s, at + 2), Wide), buttons |-> s[at + 5]]

\* Mutant: bytes after the last command are left alone.
LengthReaches(s, count) == Len(s) >= ReplayHeader + count * TicBytes

LengthFits(s, count) == Len(s) = ReplayHeader + count * TicBytes

\* decodeDoomReplay, with the hashes it may find.
DecodeReplay(s, expected) ==
  LET count == Little32(s, 2 + HashBytes)
      hash == Part(s, 2, HashBytes)
  IN
  IF \/ Len(s) < ReplayHeader
     \/ s[1] # ReplayMagic \/ s[2] # ReplayVersion
     \/ hash \notin expected
     \/ count \notin 1..MaxTics
     \/ ~LengthFits(s, count)
  THEN Refused
  ELSE [rulesetHash |-> hash,
        ticcmds |-> [i \in 1..count |-> ReadCommand(s, ReplayHeader + (i - 1) * TicBytes)]]

----------------------------------------------------------------------------
\* Frames.

FrameMagic == 2
FrameHeader == 1 + 4 + 2 * 4
Size16 == 0..Wide - 1

EncodeFrame(f) ==
  IF \/ Len(f.sessionId) \notin Size16 \/ Len(f.stateHash) \notin Size16
     \/ f.width \notin Size16 \ {0} \/ f.height \notin Size16 \ {0}
     \/ Len(f.pixels) # f.width * f.height * 4
  THEN Refused
  ELSE <<FrameMagic>> \o Reverse(Put32(f.tick)) \o Reverse(Put16(f.width))
         \o Reverse(Put16(f.height)) \o Reverse(Put16(Len(f.sessionId)))
         \o Reverse(Put16(Len(f.stateHash))) \o f.sessionId \o f.stateHash \o f.pixels

\* TextDecoder puts a sign of its own for what is no character.
Strange == Bytes
ReadText(s) == [i \in DOMAIN s |-> IF 2 * s[i] < Bytes THEN s[i] ELSE Strange]

DecodeFrame(s) ==
  LET width == Big16(s, 5)
      height == Big16(s, 7)
      sessionLength == Big16(s, 9)
      hashLength == Big16(s, 11)
      pixels == FrameHeader + sessionLength + hashLength
  IN
  IF \/ Len(s) < FrameHeader \/ s[1] # FrameMagic
     \/ Len(s) - pixels # width * height * 4
  THEN Refused
  ELSE [tick |-> Big32(s, 1), width |-> width, height |-> height,
        sessionId |-> ReadText(Part(s, FrameHeader, sessionLength)),
        stateHash |-> ReadText(Part(s, FrameHeader + sessionLength, hashLength)),
        pixels |-> Part(s, pixels, Len(s) - pixels)]

----------------------------------------------------------------------------
Send(kind, value, bytes) ==
  /\ sent = Unsent /\ bytes # Refused
  /\ sent' = [kind |-> kind, value |-> value]
  /\ wire' = bytes
  /\ UNCHANGED damage

\* A byte is changed, the end is missing, or something follows.
Damage ==
  /\ sent # Unsent /\ damage < MaxDamage
  /\ damage' = damage + 1
  /\ \/ \E i \in DOMAIN wire, b \in Byte : wire' = [wire EXCEPT ![i] = b]
     \/ \E n \in 0..Len(wire) - 1 : wire' = SubSeq(wire, 1, n)
     \/ \E b \in Byte : wire' = Append(wire, b)
  /\ UNCHANGED sent

WireNext ==
  \/ \E r \in Replays : Send("replay", r, EncodeReplay(r))
  \/ \E f \in Frames : Send("frame", f, EncodeFrame(f))
  \/ Damage

WireSpec == WireInit /\ [][WireNext]_wireVars

----------------------------------------------------------------------------
\* A replay is its bytes: what is accepted, damaged or not, is what would be
\* encoded for the replay read, so that no run has two names ("The sole
\* replay identifier", replay.ts:91), and it is of the ruleset asked for.
\* A frame undamaged is the frame sent, and one accepted has the pixels its
\* size says.
BytesAreTheMessage ==
  /\ sent.kind = "replay" =>
       LET r == DecodeReplay(wire, Hash) IN
       /\ damage = 0 => r = sent.value
       /\ r # Refused => EncodeReplay(r) = wire
       /\ DecodeReplay(wire, {sent.value.rulesetHash}) =
            IF r # Refused /\ r.rulesetHash = sent.value.rulesetHash THEN r ELSE Refused
  /\ sent.kind = "frame" =>
       LET f == DecodeFrame(wire) IN
       /\ damage = 0 => f = sent.value
       /\ f # Refused => Len(f.pixels) = f.width * f.height * 4
=============================================================================
