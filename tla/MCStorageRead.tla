---------------------------- MODULE MCStorageRead ----------------------------
(***************************************************************************)
(* Instances of StorageRead for TLC: a key that is in a local archive and   *)
(* in two archives of the CDN, a key that is in one of them only, and a     *)
(* third archive, so that there are more results than goroutines.  Either   *)
(* key is a blob of its own when the indexes that have it did not load.     *)
(***************************************************************************)
EXTENDS StorageRead, TLC

CONSTANTS k1, k2, data0, p1, p2, i1, i2, w1, w2

InData == k1 :> data0
ThreeArchives == <<{k1, k2}, {k1}, {}>>
FirstSpans == <<k2, k1, k1>>
Symmetry == Permutations(Proc) \cup Permutations(Worker) \cup Permutations(Pool)
==============================================================================
