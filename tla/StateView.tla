------------------------------- MODULE StateView -------------------------------
(***************************************************************************)
(* How a service compiled by JamScript sees its state, scriptc_runtime.ts:  *)
(* a view of some of the entries, sorted by key, under an overlay of the    *)
(* entries it has written.  An entry says what its key holds, or None.  To  *)
(* touch a key that is in neither ends the run with a request for the key.  *)
(*                                                                         *)
(* Keys are integers in the order of their bytes.                          *)
(***************************************************************************)
EXTENDS Integers, SequencesExt

KeyAndValue(key, value) == [key |-> key, value |-> value]

\* Mutant: the search goes past the entry it looks for.
TurnPast(entries, key, w) ==
  LET middle == w.low + (w.high - w.low) \div 2 IN
  IF w.low >= w.high THEN w
  ELSE IF entries[middle].key <= key THEN [w EXCEPT !.low = middle + 1]
  ELSE [w EXCEPT !.high = middle]

\* One turn of the binary search; a search that is over stays where it is.
Turn(entries, key, w) ==
  LET middle == w.low + (w.high - w.low) \div 2 IN
  IF w.low >= w.high THEN w
  ELSE IF entries[middle].key < key THEN [w EXCEPT !.low = middle + 1]
  ELSE [w EXCEPT !.high = middle]

\* Where the key is, or where it would be inserted.
Find(entries, key) ==
  LET window[turn \in 0..Len(entries)] ==
        IF turn = 0 THEN [low |-> 1, high |-> Len(entries) + 1]
                    ELSE Turn(entries, key, window[turn - 1])
  IN window[Len(entries)].low

Has(entries, key) ==
  Find(entries, key) \in DOMAIN entries /\ entries[Find(entries, key)].key = key

Known(base, overlay, key) == Has(overlay, key) \/ Has(base, key)

Get(base, overlay, key) ==
  IF Has(overlay, key) THEN overlay[Find(overlay, key)].value
                       ELSE base[Find(base, key)].value

WriteOverlay(overlay, key, value) ==
  IF Has(overlay, key)
  THEN ReplaceAt(overlay, Find(overlay, key), KeyAndValue(key, value))
  ELSE InsertAt(overlay, Find(overlay, key), KeyAndValue(key, value))

\* What initializeStateView accepts.
Ascending(base) == \A i \in 1..Len(base) - 1 : base[i].key < base[i + 1].key

Applied(overlay) == [kind |-> "applied", diff |-> overlay]
Abort(code) == [kind |-> "abort", code |-> code]
NeedState(key) == [kind |-> "need", key |-> key]
Fatal == [kind |-> "fatal"]

Set(base, overlay, key, value) ==
  IF Known(base, overlay, key) THEN Applied(WriteOverlay(overlay, key, value))
                               ELSE NeedState(key)

=============================================================================
