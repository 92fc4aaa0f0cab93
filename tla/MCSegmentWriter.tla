--------------------------- MODULE MCSegmentWriter ---------------------------
(* TLC instances of SegmentWriter: segments of 4 cells and spans of 2 or 3, *)
(* so that spans fill a segment exactly, overflow it by one, and a writer   *)
(* can be reopened on a full or a nearly full segment.                      *)
EXTENDS SegmentWriter, TLC
CONSTANTS w1, w2, k1, k2
Spans == Permutations({k1, k2})
==============================================================================
