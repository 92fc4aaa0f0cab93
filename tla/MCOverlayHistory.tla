--------------------------- MODULE MCOverlayHistory ---------------------------
(* TLC instances of OverlayHistory, with the workloads of MCOverlay.        *)
EXTENDS MCOverlay, OverlayHistory
==============================================================================
