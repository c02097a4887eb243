----------------------------- MODULE ServiceInfo -----------------------------
(***************************************************************************)
(* The ServiceInfo of a Computer as transport.ts reads it from a finalized *)
(* block: a SCALE compact length and that many bytes, of which the version,*)
(* the hash and the length of the code are taken.  The bytes after the     *)
(* prefix are counted, not listed.                                         *)
(***************************************************************************)
EXTENDS Integers, Sequences

CONSTANTS
  Lengths,     \* lengths of the values the node may store, below 2^30
  Refused,
  MaxReads     \* times the info is read

VARIABLES stored, answer, reads

infoVars == <<stored, answer, reads>>

\* The prefix the node writes: one, two or four bytes, the lowest two bits of
\* which say how many.
Compact(n) ==
  LET bytes(m, size) == [i \in 1..size |-> (m \div 256 ^ (i - 1)) % 256] IN
  IF n < 64 THEN <<4 * n>>
  ELSE IF n < 16384 THEN bytes(4 * n + 1, 2)
  ELSE <<4 * (n % 64) + 2>> \o bytes(n \div 64, 3)

\* readCompact: the number and the bytes it took, or Refused.
ReadCompact(raw, length) ==
  LET first == raw[1]  count == first \div 4 + 4 IN
  CASE length = 0 -> Refused
    [] length > 0 /\ first % 4 = 0 -> [value |-> first \div 4, next |-> 1]
    [] length > 0 /\ first % 4 = 1 ->
         IF length < 2 THEN Refused ELSE [value |-> (raw[2] * 256 + first) \div 4, next |-> 2]
    [] length > 0 /\ first % 4 = 2 ->
         IF length < 4 THEN Refused
         ELSE [value |-> (raw[2] + raw[3] * 256 + raw[4] * 65536) \div 4, next |-> 4]
    [] OTHER -> IF count > 6 \/ length < 1 + count THEN Refused
                ELSE [value |-> 2 ^ 30, next |-> 1 + count]

\* version, code hash, five numbers of eight bytes, three and one of four.
MinLength == 1 + 32 + 8 * 5 + 4 * 3 + 4

\* decodeFinalizedServiceInfo, of a prefix and the bytes after it.  The two
\* bytes of an older node are taken for an info without code.
Decode(prefix, rest) ==
  LET length == Len(prefix) + rest
      compact == ReadCompact(prefix, length)
  IN
  IF length \in 1..2 THEN "sentinel"
  ELSE IF \/ compact = Refused
          \/ compact # Refused /\ compact.next + compact.value # length
          \/ compact # Refused /\ compact.value < MinLength
       THEN Refused ELSE "info"

InfoInit == stored \in Lengths /\ answer = "none" /\ reads = 0

\* getService; in between the node may store another value.
Read ==
  /\ reads < MaxReads
  /\ reads' = reads + 1
  /\ answer' = Decode(Compact(stored), stored)
  /\ UNCHANGED stored

Store ==
  /\ \E n \in Lengths : stored' = n
  /\ answer' = "none"
  /\ UNCHANGED reads

InfoNext == Read \/ Store
InfoSpec == InfoInit /\ [][InfoNext]_infoVars

\* "Decode SCALE compact-encoded length prefixes used by StateValue"
\* (transport.ts:19): an info that is there and long enough is read.
InfoIsRead == stored >= MinLength => answer # Refused
=============================================================================
