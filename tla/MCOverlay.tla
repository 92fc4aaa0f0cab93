------------------------------ MODULE MCOverlay ------------------------------
(* TLC instances of Overlay.                                                *)
EXTENDS Overlay, TLC

CONSTANTS a, b, c, d1, d2, p1, p2

(* One goroutine changes and closes the storage, another opens and lists.   *)
WriterAndReader == (p1 :> Mutators \cup {"close"}) @@ (p2 :> {"open", "find"})
(* Two goroutines change the storage, and one of them reads it.             *)
TwoWriters == (p1 :> Mutators) @@ (p2 :> Mutators \cup {"open", "find"})
(* The smallest workloads for single findings.                              *)
OneRenamer      == (p1 :> Mutators) @@ (p2 :> {"open"})
RenamerAndAdder == (p1 :> {"rename"}) @@ (p2 :> {"add"})

Contents == Permutations({d1, d2})
==============================================================================
