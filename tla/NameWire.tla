------------------------------- MODULE NameWire -------------------------------
(***************************************************************************)
(* A claim on its way from what the user types to the key its record is    *)
(* stored under: names.ts checks and encodes the name and the service id,  *)
(* the deployed service (scriptc_service.transformed.ts) decodes its input *)
(* and checks the name again, scriptc_runtime.ts makes the key.  Clients   *)
(* other than this one may send any bytes.                                 *)
(*                                                                         *)
(* Characters are code points, bytes are 0..255, and a u32 is a pair       *)
(* <<high, low>> of 16 bits each.                                          *)
(***************************************************************************)
EXTENDS Integers, SequencesExt

CONSTANTS
  Texts,        \* names as the user types them
  ServiceIds,   \* ids as typed: pairs, not all of them below 2^32, and
  NotANumber,   \* what is not written in digits
  Noise,        \* bytes (0..255) that get into an input of another client
  Refused,      \* what an encoder or a decoder makes of the others
  MaxSpoilt     \* bytes of the input changed, missing or added

VARIABLES asked, input, spoilt

nameWireVars == <<asked, input, spoilt>>

Byte == 0..255

\* Half a u32 has 2^16 values.
Half == 65536

\* What is refused is told apart from all that a name, an id, a natural of
\* the input or a decoded input can be.
ASSUME NameWireAssumption ==
  /\ Texts \subseteq Seq(Nat)
  /\ ServiceIds \ {NotANumber} \subseteq Nat \X (0..Half - 1)
  /\ Noise \subseteq Byte /\ MaxSpoilt \in Nat
  /\ Refused \notin Seq(Nat) \cup (Nat \X Nat)
  /\ Refused \notin [value: Nat, next: Nat]
  /\ Refused \notin [name: Seq(Byte), serviceId: Nat \X Nat]

Unasked == [name |-> Refused, serviceId |-> Refused]

NameWireInit == asked = Unasked /\ input = << >> /\ spoilt = 0

----------------------------------------------------------------------------
\* The client.

Hyphen == 45
Lower == 97..122
Digit == 48..57

\* toLowerCase.  The Kelvin sign is the one character beyond ASCII that it
\* makes a letter of a name.
LowerCase(c) == IF c \in 65..90 THEN c + 32 ELSE IF c = 8490 THEN 107 ELSE c

validateName(text) ==
  LET name == [i \in DOMAIN text |-> LowerCase(text[i])] IN
  IF /\ Len(name) \in 3..32
     /\ \A i \in DOMAIN name : name[i] \in Lower \cup Digit \cup {Hyphen}
     /\ Head(name) # Hyphen /\ Last(name) # Hyphen
  THEN name ELSE Refused

isCanonicalJnsName(name) ==
  /\ Len(name) \in 3..32 /\ Head(name) # Hyphen /\ Last(name) # Hyphen
  /\ Range(name) \subseteq Lower \cup Digit \cup {Hyphen}

\* A name let pass is ASCII, whose UTF-8 bytes are its characters.
encodeJnsName(text) ==
  LET name == validateName(text) IN
  IF name # Refused /\ isCanonicalJnsName(name) THEN name ELSE Refused

decodeJnsName(name) == IF isCanonicalJnsName(name) THEN name ELSE Refused

parseJnsServiceId(id) == IF id # NotANumber /\ id[1] < Half THEN id ELSE Refused

\* Little-endian bytes of a u32, and back.
U32(n) == <<n[2] % 256, n[2] \div 256, n[1] % 256, n[1] \div 256>>
ReadU32(b) == <<b[3] + b[4] * 256, b[1] + b[2] * 256>>

\* The input of the action as the ABI describes it.
EncodeClaim(name, id) == <<Len(name)>> \o name \o U32(id)

----------------------------------------------------------------------------
\* The service.

\* Mutant: only the first byte may not be a hyphen.
ValidNameAtFirst(name) ==
  /\ Len(name) \in 3..32 /\ Head(name) # Hyphen
  /\ Range(name) \subseteq Lower \cup Digit \cup {Hyphen}

validName(name) ==
  /\ Len(name) \in 3..32 /\ Head(name) # Hyphen /\ Last(name) # Hyphen
  /\ Range(name) \subseteq Lower \cup Digit \cup {Hyphen}

\* The least bytes that begin with one one, with two, ..., with eight.
Ones == <<128, 192, 224, 240, 248, 252, 254, 255>>

\* Ones before the first zero of a byte: so many bytes follow it in a natural.
LeadingOnes(b) == CHOOSE n \in 0..8 : \A k \in 1..8 : k <= n <=> b >= Ones[k]

\* A length of 256 or more; those of names end at 32.
TooLong == 256

\* A natural at the start of s: its value and where it ends.  A short number
\* may be written long.
jamNatural(s) ==
  LET more == LeadingOnes(Head(s))
      low == SubSeq(s, 2, more + 1)
      high == Head(s) % (256 - Ones[more + 1])
  IN
  IF s = << >> \/ more > 7 \/ Len(s) <= more THEN Refused
  ELSE IF more = 0 THEN [value |-> Head(s), next |-> 1]
  ELSE [value |-> IF high = 0 /\ Range(Tail(low)) \subseteq {0} THEN Head(low) ELSE TooLong,
        next |-> more + 1]

\* decode_claim_input: nothing may be missing and nothing follow.
DecodeClaim(raw) ==
  LET length == jamNatural(raw) IN
  IF length = Refused \/ length.value > 32 \/ Len(raw) # length.next + length.value + 4
  THEN Refused
  ELSE [name |-> SubSeq(raw, length.next + 1, length.next + length.value),
        serviceId |-> ReadU32(SubSeq(raw, Len(raw) - 3, Len(raw)))]

\* "jns.names/v1"
namespace_names == <<106, 110, 115, 46, 110, 97, 109, 101, 115, 47, 118, 49>>

jamBounded(value) == <<Len(value)>> \o value

applicationKeyV1(namespace, key) ==
  <<1, Len(namespace) % 256, Len(namespace) \div 256>> \o namespace \o key

key_names(name) == applicationKeyV1(namespace_names, jamBounded(name))

\* compareBytes(left, right) < 0
Before(left, right) ==
  \/ IsStrictPrefix(left, right)
  \/ \E i \in DOMAIN left \cap DOMAIN right :
       left[i] < right[i] /\ SubSeq(left, 1, i - 1) = SubSeq(right, 1, i - 1)

----------------------------------------------------------------------------
AskToClaim(text, id) ==
  /\ asked = Unasked
  /\ encodeJnsName(text) # Refused /\ parseJnsServiceId(id) # Refused
  /\ asked' = [name |-> text, serviceId |-> id]
  /\ input' = EncodeClaim(encodeJnsName(text), parseJnsServiceId(id))
  /\ UNCHANGED spoilt

\* Another client's input is like this one's but for some bytes.
Spoil ==
  /\ asked # Unasked /\ spoilt < MaxSpoilt
  /\ spoilt' = spoilt + 1
  /\ \/ \E i \in DOMAIN input, b \in Noise : input' = ReplaceAt(input, i, b)
     \/ \E i \in DOMAIN input : input' = RemoveAt(input, i)
     \/ \E i \in 1..Len(input) + 1, b \in Noise : input' = InsertAt(input, i, b)
  /\ UNCHANGED asked

NameWireNext == Spoil \/ \E text \in Texts, id \in ServiceIds : AskToClaim(text, id)

NameWireSpec == NameWireInit /\ [][NameWireNext]_nameWireVars

----------------------------------------------------------------------------
\* The service reads the name and the id the user typed.  And a name it takes
\* from anyone is one that this client can read, look up and bind: three
\* checks in three files let the same names pass.  Its key is that of no other
\* name and has its place among their keys (StateView.tla orders keys).
ClaimsAreRead ==
  LET read == DecodeClaim(input)
      Key(text) == key_names(encodeJnsName(text))
  IN
  /\ asked # Unasked /\ spoilt = 0 =>
       /\ read = [name |-> encodeJnsName(asked.name), serviceId |-> asked.serviceId]
       /\ validName(read.name)
  /\ read # Refused =>
       (validName(read.name) =>
          /\ decodeJnsName(read.name) # Refused
          /\ encodeJnsName(decodeJnsName(read.name)) = read.name
          /\ \A text \in Texts : encodeJnsName(text) # Refused =>
               IF encodeJnsName(text) = read.name THEN Key(text) = key_names(read.name)
               ELSE Before(Key(text), key_names(read.name)) # Before(key_names(read.name), Key(text)))
=============================================================================
