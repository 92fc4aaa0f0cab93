------------------------------- MODULE MCFlush -------------------------------
(* TLC instances of Flush: spans of two cells, and segments of a power of   *)
(* two cells, as the real ones of 2^30 bytes with offsets of 30 bits.  With *)
(* 16 cells the second of two Flushes rolls over; with 4 the first does.    *)
EXTENDS Flush, TLC
CONSTANTS a, b, d1, d2
Contents2 == Permutations({d1, d2})
==============================================================================
