----------------------------- MODULE SegmentIndex -----------------------------
(***************************************************************************)
(* The entries of a SegmentWriter as a V1 .idx file stores them             *)
(* (internal/index/writer.go, index.go): archive index and offset share one *)
(* number of StoreBits bits, the low OffsBits of which are the offset.      *)
(***************************************************************************)
EXTENDS SegmentWriter

CONSTANTS OffsBits, StoreBits

(* Bitwise or, as arithmetic.                                               *)
OrBits[x \in Nat, y \in Nat] ==
  IF x = 0 \/ y = 0 THEN x + y
  ELSE 2 * OrBits[x \div 2, y \div 2] + (IF x % 2 = 1 \/ y % 2 = 1 THEN 1 ELSE 0)
Or(x, y) == IF y = 0 THEN x ELSE OrBits[x, y]

(* writeEntryV1 ors the index, shifted by OffsBits, with the offset, and    *)
(* writeBE cuts the number to its field.  The number is kept as its two     *)
(* digits to the base 2^OffsBits: what of the offset does not fit into the  *)
(* low digit falls on the high one, that of the index.                      *)
Stored(e) == [key |-> e.key, size |-> e.size,
              high |-> Or(e.index, e.offs \div 2^OffsBits) % 2^(StoreBits - OffsBits),
              low  |-> e.offs % 2^OffsBits]

(* decodeEntry.                                                             *)
Loaded(x) == [key |-> x.key, size |-> x.size, index |-> x.high, offs |-> x.low]
==============================================================================
