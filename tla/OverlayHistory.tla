---------------------------- MODULE OverlayHistory ----------------------------
(***************************************************************************)
(* The overlay with two history variables, which observe what a call may    *)
(* have seen since it began and which no action of Overlay reads.           *)
(***************************************************************************)
EXTENDS Overlay

VARIABLES
  held,    \* held[p]: names that were readable ever since p's call began
  window   \* window[p]: the contents the file p opens has had since then

hvars == <<vars, held, window>>

(* A name a reader can open now.  Closing the storage takes the base away.  *)
Readable == {n \in Name : /\ Visible(n) # Absent
                          /\ n \notin InOverlay => inner = "open"}

HInit == /\ Init
         /\ held = [p \in Proc |-> {}]
         /\ window = [p \in Proc |-> {}]

(* held follows a FindFiles from its call on; window follows an OpenFile    *)
(* that goes on to the base storage, for as long as it reads there.         *)
HNext ==
  /\ Next
  /\ held' = [p \in Proc |-> IF pc'[p] = "idle" \/ op'[p] # "find" THEN {}
                             ELSE (IF pc[p] = "idle" THEN Readable ELSE held[p])
                                  \cap Readable']
  /\ window' = [p \in Proc |-> IF pc'[p] # "openRead" THEN {}
                               ELSE window[p] \cup {View'[loc'[p].name]}]

HSpec == HInit /\ [][HNext]_hvars
HFairSpec == HSpec /\ \A p \in Proc : SF_vars(Continue(p))

(* A FindFiles that was not stopped has listed every file that could be     *)
(* opened from the moment of the call to its end, whatever the other        *)
(* goroutines added, removed or renamed meanwhile (casc.go:613-686).        *)
ListsWhatStayed ==
  [][\A p \in Proc : pc[p] = "findYield" /\ pc'[p] = "idle" /\ ~loc[p].stop =>
       held[p] \subseteq loc[p].seen]_hvars

(* OpenFile returns a content that the name had at some moment of the call, *)
(* and reports no file only if there was such a moment (casc.go:296-315).   *)
OpensWhatWasThere ==
  [][\A p \in Proc : pc[p] = "openRead" /\ pc'[p] = "idle" =>
       /\ ret'[p] \in Data => ret'[p] \in window[p]
       /\ ret'[p] = "notfound" => Absent \in window[p]]_hvars
==============================================================================
