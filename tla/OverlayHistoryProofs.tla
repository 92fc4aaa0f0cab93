------------------------- MODULE OverlayHistoryProofs -------------------------
(***************************************************************************)
(* Proofs about OverlayHistory, for any names, contents, goroutines and     *)
(* workloads: a reader of the overlay never misses what was there for all   *)
(* of its call, and never finds what was there at no moment of it.          *)
(***************************************************************************)
EXTENDS OverlayHistory, OverlayProofs

(* A FindFiles accounts for every name that stayed readable: it has listed  *)
(* it, is going to, or will see it in the overlay, unless fn stopped it.    *)
Accounts(p, n) ==
  \/ loc[p].stop \/ n \in loc[p].seen
  \/ pc[p] \in {"findWalk", "findYield"} /\ n \in loc[p].todo
  \/ pc[p] \in {"findWalk", "findSnap"} /\ n \in InOverlay

HeldInv == \A p \in Proc :
  /\ pc[p] \in FindPCs => op[p] = "find" /\ held[p] \subseteq Readable
  /\ pc[p] \in FindPCs \ {"findEnter"} => \A n \in held[p] : Accounts(p, n)

(* An OpenFile that reads from the base storage found the name neither in   *)
(* the overlay nor removed, so that it had then what the base has.          *)
WindowInv == \A p \in Proc : pc[p] = "openRead" => base[loc[p].name] \in window[p]

HistoryInv == TypeOK /\ HeldInv /\ WindowInv

------------------------------------------------------------------------------
(* A step of one goroutine moves no other, and nothing changes the base.    *)
LEMMA OthersStay ==
  ASSUME TypeOK, NEW q \in Proc, Call(q) \/ Continue(q)
  PROVE  /\ base' = base
         /\ \A p \in Proc \ {q} : pc'[p] = pc[p] /\ op'[p] = op[p] /\ loc'[p] = loc[p]
<1>0. pc \in [Proc -> PCs] /\ op \in [Proc -> Op \cup {"none"}] /\ loc \in [Proc -> Locals]
  BY DEF TypeOK
<1> USE <1>0 DEF Calls, Goto, Return, store
<1>1. CASE Call(q)
  BY <1>1 DEF Call, AddFile, AddFileExists, RemoveFile, RenameLock, OpenFile, FindStart, Close
<1>2. CASE \/ RenameOverlay(q) \/ RenameUnlock(q) \/ RenameLookup(q) \/ RenameRead(q)
           \/ RenameCommit(q) \/ OpenRead(q) \/ ReadFails(q) \/ ReadPanics(q)
  BY <1>2 DEF RenameOverlay, RenameUnlock, RenameLookup, RenameRead, RenameCommit, OpenRead,
              ReadFails, ReadPanics
<1>3. CASE \/ FindEnter(q) \/ FindPanics(q) \/ (\E n \in Name : FindSkip(q, n))
           \/ (\E n \in Name, more \in BOOLEAN : FindVisit(q, n, more) \/ FindYield(q, n, more))
           \/ FindWalked(q) \/ FindSnapshot(q) \/ FindDone(q)
  BY <1>3 DEF FindEnter, FindPanics, FindSkip, FindVisit, FindYield, FindWalked, FindSnapshot,
              FindDone, Yield
<1> QED
  BY <1>1, <1>2, <1>3 DEF Continue

(* How a goroutine gets to where HeldInv and WindowInv say something.       *)
LEMMA HowItGotThere ==
  ASSUME TypeOK, NEW q \in Proc, Call(q) \/ Continue(q)
  PROVE  /\ pc'[q] \in FindPCs =>
              \/ FindStart(q) \/ FindEnter(q) \/ (\E n \in Name : FindSkip(q, n))
              \/ \E n \in Name, more \in BOOLEAN : FindVisit(q, n, more) \/ FindYield(q, n, more)
              \/ FindWalked(q) \/ FindSnapshot(q)
         /\ pc'[q] = "openRead" => \E n \in Name : OpenFile(q, n)
         /\ pc[q] = "findYield" /\ pc'[q] = "idle" => FindDone(q)
         /\ pc[q] = "openRead" /\ pc'[q] = "idle" => OpenRead(q) \/ ReadFails(q)
<1>0. pc \in [Proc -> PCs]
  BY DEF TypeOK
<1> USE <1>0 DEF Calls, Goto, Return, FindPCs
<1>1. CASE Call(q)
  <2>1. ASSUME NEW n \in Name, OpenFile(q, n), pc'[q] # "idle"
        PROVE  pc'[q] = "openRead"
    BY <2>1 DEF OpenFile
  <2>2. pc[q] = "idle"
    BY <1>1 DEF Call, AddFile, AddFileExists, RemoveFile, RenameLock, OpenFile, FindStart, Close
  <2> QED
    BY <1>1, <2>1, <2>2 DEF Call, AddFile, AddFileExists, RemoveFile, RenameLock, FindStart, Close
<1>2. CASE \/ RenameOverlay(q) \/ RenameUnlock(q) \/ RenameLookup(q) \/ RenameRead(q)
           \/ RenameCommit(q) \/ OpenRead(q) \/ ReadFails(q) \/ ReadPanics(q)
  BY <1>2 DEF RenameOverlay, RenameUnlock, RenameLookup, RenameRead, RenameCommit, OpenRead,
              ReadFails, ReadPanics, Reading
<1>3. CASE \/ FindEnter(q) \/ FindPanics(q) \/ (\E n \in Name : FindSkip(q, n))
           \/ (\E n \in Name, more \in BOOLEAN : FindVisit(q, n, more) \/ FindYield(q, n, more))
           \/ FindWalked(q) \/ FindSnapshot(q) \/ FindDone(q)
  BY <1>3 DEF FindEnter, FindPanics, FindSkip, FindVisit, FindYield, FindWalked, FindSnapshot,
              FindDone, Yield
<1> QED
  BY <1>1, <1>2, <1>3 DEF Continue

(* What has an entry and stays readable keeps its entry: an entry leaves    *)
(* the overlay only with a mark on its name.                                *)
LEMMA EntryStays ==
  ASSUME TypeOK, Next, NEW n \in InOverlay, n \in Readable'
  PROVE  n \in InOverlay'
<1>1. n \in Shadowed'
  BY NextShadow DEF Shadowed
<1>2. n \notin removed'
  BY DEF Readable, Visible
<1> QED
  BY <1>1, <1>2 DEF Shadowed

(* What held is after a step, for one that is within a FindFiles.           *)
LEMMA HeldNarrows ==
  ASSUME TypeOK, HNext, NEW p \in Proc
  PROVE  /\ held'[p] \subseteq Readable'
         /\ pc[p] = "idle" => held'[p] \subseteq Readable
         /\ pc[p] # "idle" => held'[p] \subseteq held[p]
  BY DEF HNext

LEMMA StepHeld ==
  ASSUME TypeOK, HeldInv, HNext
  PROVE  HeldInv'
<1>1. Next /\ base' = base
  BY OthersStay DEF HNext, Next
<1>2. PICK q \in Proc : Call(q) \/ Continue(q)
  BY <1>1 DEF Next
<1>3. loc[q] \in Locals /\ NoLocals \in Locals /\ pc \in [Proc -> PCs] /\ loc \in [Proc -> Locals]
  BY NoLocalsType DEF TypeOK
<1>4. ASSUME NEW p \in Proc, pc'[p] \in FindPCs
      PROVE  /\ op'[p] = "find" /\ held'[p] \subseteq Readable'
             /\ pc'[p] # "findEnter" => \A n \in held'[p] : Accounts(p, n)'
  <2>1. CASE p # q
    <3>1. pc'[p] = pc[p] /\ op'[p] = op[p] /\ loc'[p] = loc[p]
      BY <1>2, <2>1, OthersStay
    <3>2. pc[p] # "idle" /\ op[p] = "find"
      BY <1>4, <3>1 DEF HeldInv, FindPCs
    <3>3. ASSUME NEW n \in held'[p], pc[p] # "findEnter" PROVE Accounts(p, n)'
      <4>1. n \in held[p] /\ n \in Readable'
        BY <3>2, <3>3, HeldNarrows
      <4>2. Accounts(p, n)
        BY <1>4, <3>1, <3>3, <4>1 DEF HeldInv
      <4>3. n \in InOverlay => n \in InOverlay'
        BY <1>1, <4>1, EntryStays
      <4> QED
        BY <3>1, <4>2, <4>3 DEF Accounts
    <3> QED
      BY <3>1, <3>2, <3>3, HeldNarrows
  <2>2. CASE p = q
    <3> USE <2>2 DEF Goto, Calls, FindPCs
    <3>1. ASSUME FindStart(q)
          PROVE  /\ op'[q] = "find"
                 /\ pc'[q] # "findEnter" => \A n \in held'[q] : Accounts(q, n)'
      <4>1. op'[q] = "find" /\ pc[q] = "idle" /\ UNCHANGED store
        BY <3>1 DEF FindStart, TypeOK
      <4>2. CASE inner = "open"
        BY <1>3, <1>4, <3>1, <4>1, <4>2 DEF FindStart, Return
      <4>3. CASE inner # "open"
        <5>1. pc'[q] = "findSnap"
          BY <1>3, <1>4, <3>1, <4>3 DEF FindStart, Return
        <5>2. held'[q] \subseteq Readable /\ InOverlay' = InOverlay
          BY <4>1, HeldNarrows DEF store, InOverlay
        <5> QED
          BY <4>1, <4>3, <5>1, <5>2 DEF Accounts, Readable
      <4> QED
        BY <4>2, <4>3
    <3>2. ASSUME ~FindStart(q)
          PROVE  /\ pc[q] \in FindPCs /\ UNCHANGED <<store, op>> /\ InOverlay' = InOverlay
                 /\ held'[q] \subseteq held[q] /\ held[q] \subseteq Readable
      <4>1. pc[q] \in FindPCs /\ UNCHANGED <<store, op>>
        BY <1>2, <1>4, <3>2, HowItGotThere
           DEF FindEnter, FindSkip, FindVisit, FindYield, FindWalked, FindSnapshot
      <4> QED
        BY <4>1, HeldNarrows DEF HeldInv, store, InOverlay
    <3>3. CASE FindEnter(q)
      <4>1. /\ pc'[q] = "findWalk" /\ loc'[q].todo = {n \in Name : base[n] # Absent}
            /\ ~FindStart(q)
        BY <1>3, <3>3 DEF FindEnter, Locals, FindStart
      <4>2. \A n \in Readable : n \in InOverlay \/ base[n] # Absent
        BY DEF Readable, Visible, InOverlay
      <4> QED
        BY <3>2, <4>1, <4>2, HeldNarrows DEF Accounts, HeldInv, Readable
    <3>4. ASSUME NEW m \in Name, FindSkip(q, m)
          PROVE  \A n \in held'[q] : Accounts(q, n)'
      <4>1. /\ pc[q] = "findWalk" /\ pc'[q] = "findWalk" /\ ~FindStart(q)
            /\ loc'[q] = [loc[q] EXCEPT !.todo = @ \ {m}] /\ Lookup(m) # "none"
        BY <1>3, <3>4 DEF FindSkip, FindStart
      <4>2. m \in Readable => m \in InOverlay
        BY <3>4, <4>1 DEF Lookup, Readable, Visible, InOverlay
      <4>3. /\ loc'[q].todo = loc[q].todo \ {m} /\ loc'[q].seen = loc[q].seen
            /\ loc'[q].stop = loc[q].stop
        BY <1>3, <4>1 DEF Locals
      <4> QED
        BY <3>2, <4>1, <4>2, <4>3 DEF Accounts, HeldInv
    <3>5. ASSUME NEW m \in Name, NEW more \in BOOLEAN, FindVisit(q, m, more) \/ FindYield(q, m, more)
          PROVE  \A n \in held'[q] : Accounts(q, n)'
      <4>1. /\ pc[q] \in {"findWalk", "findYield"} /\ pc'[q] = pc[q] /\ ~FindStart(q)
            /\ loc'[q] = [loc[q] EXCEPT !.todo = IF more THEN @ \ {m} ELSE {},
                                        !.seen = @ \cup {m}, !.stop = @ \/ ~more]
        BY <1>3, <3>5 DEF FindVisit, FindYield, Yield, FindStart
      <4>2. /\ loc'[q].seen = loc[q].seen \cup {m} /\ loc'[q].stop = (loc[q].stop \/ ~more)
            /\ more => loc'[q].todo = loc[q].todo \ {m}
        BY <1>3, <4>1 DEF Locals
      <4> QED
        BY <3>2, <4>1, <4>2 DEF Accounts, HeldInv
    <3>6. ASSUME FindWalked(q) \/ FindSnapshot(q)
          PROVE  \A n \in held'[q] : Accounts(q, n)'
      <4>1. CASE FindWalked(q)
        <5>1. pc[q] = "findWalk" /\ pc'[q] = "findSnap" /\ loc'[q] = loc[q] /\ loc[q].todo = {}
          BY <1>3, <4>1 DEF FindWalked
        <5>2. ~FindStart(q)
          BY <5>1 DEF FindStart
        <5> QED
          BY <3>2, <5>1, <5>2 DEF Accounts, HeldInv
      <4>2. CASE FindSnapshot(q)
        <5>1. /\ pc[q] = "findSnap" /\ pc'[q] = "findYield" /\ loc'[q].todo = InOverlay
              /\ loc'[q].seen = loc[q].seen /\ loc'[q].stop = loc[q].stop
          BY <1>3, <4>2 DEF FindSnapshot, Locals
        <5>2. ~FindStart(q)
          BY <5>1 DEF FindStart
        <5> QED
          BY <3>2, <5>1, <5>2 DEF Accounts, HeldInv
      <4> QED
        BY <3>6, <4>1, <4>2
    <3>7. op'[q] = "find"
      BY <3>1, <3>2 DEF HeldInv
    <3> QED
      BY <1>2, <1>4, <3>1, <3>3, <3>4, <3>5, <3>6, <3>7, HowItGotThere, HeldNarrows
  <2> QED
    BY <2>1, <2>2
<1> QED
  BY <1>4 DEF HeldInv

LEMMA StepWindow ==
  ASSUME TypeOK, WindowInv, HNext
  PROVE  WindowInv'
<1>1. PICK q \in Proc : Call(q) \/ Continue(q)
  BY DEF HNext, Next
<1>2. base' = base
  BY <1>1, OthersStay
<1>3. ASSUME NEW p \in Proc, pc'[p] = "openRead"
      PROVE  base'[loc'[p].name] \in window'[p]
  <2>1. window'[p] = window[p] \cup {View'[loc'[p].name]}
    BY <1>3 DEF HNext
  <2>2. CASE p # q
    <3>1. pc'[p] = pc[p] /\ loc'[p] = loc[p]
      BY <1>1, <2>2, OthersStay
    <3> QED
      BY <1>2, <1>3, <2>1, <3>1 DEF WindowInv
  <2>3. CASE p = q
    <3>1. PICK n \in Name : OpenFile(q, n)
      BY <1>1, <1>3, <2>3, HowItGotThere
    <3>2. /\ Lookup(n) = "none" /\ UNCHANGED store
          /\ loc'[q].name = n
      BY <1>3, <2>3, <3>1, NoLocalsType DEF OpenFile, Goto, Return, TypeOK, Locals
    <3>3. n \notin removed /\ overlay[n] = Absent
      BY <3>2 DEF Lookup
    <3>4. View'[n] = base[n]
      BY <3>2, <3>3 DEF View, Visible, store
    <3> QED
      BY <1>2, <2>1, <2>3, <3>2, <3>4
  <2> QED
    BY <2>2, <2>3
<1> QED
  BY <1>3 DEF WindowInv

LEMMA HistoryInit == HInit => HistoryInv
  BY InitType DEF HInit, Init, HistoryInv, HeldInv, WindowInv, FindPCs

LEMMA StepHistory ==
  ASSUME HistoryInv, [HNext]_hvars
  PROVE  HistoryInv'
<1>1. CASE HNext
  BY <1>1, NextType, StepHeld, StepWindow DEF HistoryInv, HNext
<1>2. CASE UNCHANGED hvars
  <2>1. UNCHANGED <<overlay, removed, base, inner, pc, op, loc, held, window>> /\ TypeOK'
    BY <1>2 DEF hvars, vars, store, HistoryInv, TypeOK
  <2>2. HeldInv'
    BY <2>1 DEF HistoryInv, HeldInv, Accounts, Readable, Visible, InOverlay
  <2> QED
    BY <2>1, <2>2 DEF HistoryInv, WindowInv
<1> QED
  BY <1>1, <1>2

(* What the two theorems below rest on: a name that a FindFiles has not yet *)
(* given to fn is still to be walked, or is in the overlay or its copy; an  *)
(* OpenFile on its way to the base has seen what the base holds there       *)
(* (casc.go:296-315, :626-686).                                             *)
THEOREM HistoryInvariant == HSpec => []HistoryInv
<1>1. HistoryInv /\ [HNext]_hvars => HistoryInv'
  BY StepHistory
<1> QED
  BY <1>1, HistoryInit, PTL DEF HSpec

(* However many goroutines add, remove, rename and close meanwhile, a       *)
(* FindFiles that fn does not stop lists every name that could be opened    *)
(* from its call to its end (casc.go:613-686): a name that leaves the walk  *)
(* over the root because the overlay has it is still there for the copy.    *)
THEOREM FindsAllThatStays == HSpec => ListsWhatStayed
<1>1. ASSUME HistoryInv, [HNext]_hvars
      PROVE  [\A p \in Proc : pc[p] = "findYield" /\ pc'[p] = "idle" /\ ~loc[p].stop =>
                held[p] \subseteq loc[p].seen]_hvars
  <2> SUFFICES ASSUME HNext, NEW p \in Proc, pc[p] = "findYield", pc'[p] = "idle", ~loc[p].stop
               PROVE  held[p] \subseteq loc[p].seen
    BY <1>1
  <2>1. PICK q \in Proc : Call(q) \/ Continue(q)
    BY DEF HNext, Next
  <2>2. p = q
    BY <1>1, <2>1, OthersStay DEF HistoryInv
  <2>3. loc[p].todo = {}
    BY <1>1, <2>1, <2>2, HowItGotThere DEF HistoryInv, FindDone
  <2> QED
    BY <1>1, <2>3 DEF HistoryInv, HeldInv, Accounts, FindPCs
<1> QED
  BY <1>1, HistoryInvariant, PTL DEF HSpec, ListsWhatStayed

(* An OpenFile that went on to the base storage returns a content that the  *)
(* name had at a moment of the call, and reports no file only if there was  *)
(* none at such a moment (casc.go:296-315), whatever the others do.         *)
THEOREM OpensWhatItSaw == HSpec => OpensWhatWasThere
<1>1. ASSUME HistoryInv, [HNext]_hvars
      PROVE  [\A p \in Proc : pc[p] = "openRead" /\ pc'[p] = "idle" =>
                /\ ret'[p] \in Data => ret'[p] \in window[p]
                /\ ret'[p] = "notfound" => Absent \in window[p]]_hvars
  <2> SUFFICES ASSUME HNext, NEW p \in Proc, pc[p] = "openRead", pc'[p] = "idle"
               PROVE  /\ ret'[p] \in Data => ret'[p] \in window[p]
                      /\ ret'[p] = "notfound" => Absent \in window[p]
    BY <1>1
  <2>1. PICK q \in Proc : Call(q) \/ Continue(q)
    BY DEF HNext, Next
  <2>2. p = q
    BY <1>1, <2>1, OthersStay DEF HistoryInv
  <2>3. OpenRead(p) \/ ReadFails(p)
    BY <1>1, <2>1, <2>2, HowItGotThere DEF HistoryInv
  <2>4. base[loc[p].name] \in window[p]
    BY <1>1 DEF HistoryInv, WindowInv
  <2>5. ret \in [Proc -> Data \cup Errors \cup {"none", "ok"}] /\ base[loc[p].name] \in Data \cup {Absent}
    BY <1>1 DEF HistoryInv, TypeOK, Locals, Content
  <2>6. CASE OpenRead(p)
    <3>1. ret'[p] = base[loc[p].name] /\ base[loc[p].name] # Absent
      BY <2>5, <2>6 DEF OpenRead, Return
    <3>2. "notfound" \notin Data
      BY SentinelAssumption
    <3> QED
      BY <2>4, <2>5, <3>1, <3>2
  <2>7. CASE ReadFails(p)
    <3>1. \/ ret'[p] \in {"unsupported", "failed"}
          \/ ret'[p] = "notfound" /\ base[loc[p].name] = Absent
      BY <2>5, <2>7 DEF ReadFails, Return
    <3>2. ret'[p] \notin Data
      BY <3>1, SentinelAssumption
    <3> QED
      BY <2>4, <3>1, <3>2
  <2> QED
    BY <2>3, <2>6, <2>7
<1> QED
  BY <1>1, HistoryInvariant, PTL DEF HSpec, OpensWhatWasThere
==============================================================================
