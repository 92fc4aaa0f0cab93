----------------------------- MODULE OverlayProofs -----------------------------
(***************************************************************************)
(* Proofs about Overlay, for any names, contents and goroutines.            *)
(***************************************************************************)
EXTENDS Overlay, TLAPS

------------------------------------------------------------------------------
(* Type correctness.  Every action ends a call (Return) or goes on with it  *)
(* (Goto), so the parts of TypeOK about the goroutines follow from two      *)
(* lemmas, and those about the storage from the assignments of the action.  *)

StoreOK == /\ overlay \in [Name -> Content] /\ base \in [Name -> Content]
           /\ removed \in SUBSET Name /\ made \in BOOLEAN
           /\ inner \in {"none", "open", "closed"} /\ mu \in Proc \cup {NoProc}
CallsOK == /\ pc \in [Proc -> PCs] /\ ret \in [Proc -> Data \cup Errors \cup {"none", "ok"}]
           /\ loc \in [Proc -> Locals]
OpsOK   == op \in [Proc -> Op \cup {"none"}]

LEMMA TypeParts == TypeOK <=> StoreOK /\ CallsOK /\ OpsOK
  BY DEF TypeOK, StoreOK, CallsOK, OpsOK

LEMMA NoLocalsType == NoLocals \in Locals
<1> DEFINE n == CHOOSE n \in Name : TRUE
<1>1. n \in Name
  BY SentinelAssumption
<1>2. NoLocals = [name |-> n, dst |-> n, data |-> Absent,
                  todo |-> {}, seen |-> {}, stop |-> FALSE]
  BY DEF NoLocals
<1> QED
  BY <1>1, <1>2 DEF Locals, Content

LEMMA GotoType ==
  ASSUME CallsOK, NEW p \in Proc, NEW l \in PCs, NEW locals \in Locals,
         Goto(p, l, locals)
  PROVE  CallsOK'
  BY DEF CallsOK, Goto

LEMMA ReturnType ==
  ASSUME CallsOK, NEW p \in Proc, NEW r \in Data \cup Errors \cup {"none", "ok"},
         Return(p, r)
  PROVE  CallsOK'
  BY NoLocalsType DEF CallsOK, Return, PCs

LEMMA CallsType ==
  ASSUME OpsOK, NEW p \in Proc, NEW o \in Op, Calls(p, o)
  PROVE  OpsOK'
  BY DEF OpsOK, Calls

(* The first state is well-typed.                                           *)
LEMMA InitType == Init => TypeOK
<1> SUFFICES ASSUME Init PROVE TypeOK
  OBVIOUS
<1>1. StoreOK
  BY CreatedAssumption DEF Init, StoreOK, Content
<1>2. CallsOK
  BY NoLocalsType DEF Init, CallsOK, PCs
<1>3. OpsOK
  BY DEF Init, OpsOK
<1> QED
  BY <1>1, <1>2, <1>3, TypeParts

(* FindFiles changes its locals only by narrowing todo and adding to seen.  *)
LEMMA LocalsType ==
  ASSUME CallsOK, NEW p \in Proc
  PROVE  /\ loc[p] \in Locals
         /\ \A t \in SUBSET Name : [loc[p] EXCEPT !.todo = t] \in Locals
         /\ \A d \in Content : [loc[p] EXCEPT !.data = d] \in Locals
         /\ \A n, m \in Name : [NoLocals EXCEPT !.name = n] \in Locals
                            /\ [NoLocals EXCEPT !.name = n, !.dst = m] \in Locals
         /\ \A t \in SUBSET Name : [NoLocals EXCEPT !.todo = t] \in Locals
<1>1. loc[p] \in Locals
  BY DEF CallsOK
<1> QED
  BY <1>1, NoLocalsType DEF Locals

LEMMA YieldType ==
  ASSUME CallsOK, NEW p \in Proc, NEW n \in Name, NEW more \in BOOLEAN,
         Yield(p, n, more)
  PROVE  CallsOK'
<1> DEFINE todo == IF more THEN loc[p].todo \ {n} ELSE {}
           seen == loc[p].seen \cup {n}
           stop == loc[p].stop \/ ~more
           new  == [loc[p] EXCEPT !.todo = todo, !.seen = seen, !.stop = stop]
<1>1. /\ loc[p].todo \in SUBSET Name /\ loc[p].seen \in SUBSET Name
      /\ loc[p].stop \in BOOLEAN /\ loc[p] \in Locals
  BY DEF CallsOK, Locals
<1>2. new \in Locals
  BY <1>1 DEF Locals
<1>3. Goto(p, pc[p], new)
  BY <1>1 DEF Yield, Goto, Locals
<1>4. pc[p] \in PCs
  BY DEF CallsOK
<1> QED
  BY <1>2, <1>3, <1>4, GotoType

(* One step per action; each by its assignments and one of the lemmas.      *)
LEMMA NextType ==
  ASSUME TypeOK, Next
  PROVE  TypeOK'
<1> USE DEF Op, Mutators, PCs, Errors
<1>a. StoreOK /\ CallsOK /\ OpsOK
  BY TypeParts
<1>t. StoreOK' /\ CallsOK' /\ OpsOK' => TypeOK'
  BY DEF TypeOK, StoreOK, CallsOK, OpsOK
<1>b. PICK p \in Proc : Call(p) \/ Continue(p)
  BY DEF Next
<1>c. ASSUME UNCHANGED store PROVE StoreOK'
  BY <1>a, <1>c DEF StoreOK, store
<1>d. ASSUME UNCHANGED op PROVE OpsOK'
  BY <1>a, <1>d DEF OpsOK
<1>e. /\ overlay \in [Name -> Content] /\ base \in [Name -> Content]
      /\ loc[p] \in Locals /\ loc[p].name \in Name /\ loc[p].dst \in Name
      /\ loc[p].data \in Content /\ loc[p].todo \in SUBSET Name
  BY <1>a, LocalsType DEF StoreOK, Locals
<1>f. \A n \in Name : overlay[n] \in Content /\ base[n] \in Content
  BY <1>e
<1>1. ASSUME NEW n \in AddNames, NEW d \in Data, AddFile(p, n, d) PROVE TypeOK'
  <2>1. StoreOK'
    BY <1>a, <1>1, NamesAssumption DEF AddFile, StoreOK, Content
  <2>2. CallsOK' /\ OpsOK'
    BY <1>a, <1>1, ReturnType, CallsType DEF AddFile
  <2> QED
    BY <2>1, <2>2, <1>t
<1>2. ASSUME NEW n \in AddNames, AddFileExists(p, n) PROVE TypeOK'
  <2>1. StoreOK'
    BY <1>a, <1>2 DEF AddFileExists, StoreOK
  <2>2. CallsOK' /\ OpsOK'
    BY <1>a, <1>2, ReturnType, CallsType DEF AddFileExists
  <2> QED
    BY <2>1, <2>2, <1>t
<1>3. ASSUME NEW n \in RemoveNames, RemoveFile(p, n) PROVE TypeOK'
  <2>1. StoreOK'
    BY <1>a, <1>3, NamesAssumption DEF RemoveFile, StoreOK, Content
  <2>2. CallsOK' /\ OpsOK'
    BY <1>a, <1>3, ReturnType, CallsType DEF RemoveFile
  <2> QED
    BY <2>1, <2>2, <1>t
<1>4. ASSUME NEW o \in RenameFrom, NEW n \in RenameTo, RenameLock(p, o, n) PROVE TypeOK'
  <2>1. StoreOK'
    BY <1>a, <1>4 DEF RenameLock, StoreOK
  <2>2. [NoLocals EXCEPT !.name = o, !.dst = n] \in Locals
    BY <1>a, LocalsType, NamesAssumption
  <2>3. CallsOK' /\ OpsOK'
    BY <1>a, <1>4, <2>2, GotoType, CallsType DEF RenameLock
  <2> QED
    BY <2>1, <2>3, <1>t
<1>5. ASSUME NEW n \in Name, OpenFile(p, n) PROVE TypeOK'
  <2>1. [NoLocals EXCEPT !.name = n] \in Locals
    BY <1>a, LocalsType
  <2>2. CASE Return(p, "notfound")
    BY <1>a, <1>5, <2>2, <1>c, ReturnType, CallsType, <1>t DEF OpenFile
  <2>3. CASE overlay[n] # Absent /\ Return(p, overlay[n])
    <3>1. overlay[n] \in Data
      BY <1>f, <2>3 DEF Content
    <3> QED
      BY <1>a, <1>5, <2>3, <3>1, <1>c, ReturnType, CallsType, <1>t DEF OpenFile
  <2>4. CASE Goto(p, "openRead", [NoLocals EXCEPT !.name = n])
    BY <1>a, <1>5, <2>1, <2>4, <1>c, GotoType, CallsType, <1>t DEF OpenFile
  <2> QED
    BY <1>5, <2>2, <2>3, <2>4 DEF OpenFile, Lookup
<1>6. ASSUME FindStart(p) PROVE TypeOK'
  <2>1. CallsOK'
    BY <1>a, <1>6, NoLocalsType, GotoType, ReturnType DEF FindStart
  <2> QED
    BY <1>a, <1>6, <2>1, <1>c, CallsType, <1>t DEF FindStart
<1>7. ASSUME Close(p) PROVE TypeOK'
  <2>1. StoreOK'
    BY <1>a, <1>7 DEF Close, StoreOK
  <2>2. CallsOK' /\ OpsOK'
    BY <1>a, <1>7, ReturnType, CallsType DEF Close
  <2> QED
    BY <2>1, <2>2, <1>t
<1>8. ASSUME RenameOverlay(p) PROVE TypeOK'
  <2>1. StoreOK'
    BY <1>a, <1>e, <1>f, <1>8 DEF RenameOverlay, StoreOK, Content
  <2>2. CallsOK' /\ OpsOK'
    BY <1>a, <1>8, <1>d, ReturnType DEF RenameOverlay
  <2> QED
    BY <2>1, <2>2, <1>t
<1>9. ASSUME RenameUnlock(p) PROVE TypeOK'
  <2>1. StoreOK'
    BY <1>a, <1>9 DEF RenameUnlock, StoreOK
  <2>2. CallsOK' /\ OpsOK'
    BY <1>a, <1>e, <1>9, <1>d, GotoType DEF RenameUnlock
  <2> QED
    BY <2>1, <2>2, <1>t
<1>10. ASSUME RenameLookup(p) PROVE TypeOK'
  <2>1. [loc[p] EXCEPT !.data = overlay[loc[p].name]] \in Locals
    BY <1>a, <1>e, <1>f, LocalsType
  <2>2. CallsOK'
    BY <1>a, <1>e, <1>10, <2>1, GotoType, ReturnType DEF RenameLookup, Lookup
  <2> QED
    BY <1>a, <1>10, <2>2, <1>c, <1>d, <1>t DEF RenameLookup
<1>11. ASSUME RenameRead(p) PROVE TypeOK'
  <2>1. [loc[p] EXCEPT !.data = base[loc[p].name]] \in Locals
    BY <1>a, <1>e, <1>f, LocalsType
  <2>2. CallsOK'
    BY <1>a, <1>11, <2>1, GotoType DEF RenameRead
  <2> QED
    BY <1>a, <1>11, <2>2, <1>c, <1>d, <1>t DEF RenameRead
<1>12. ASSUME RenameCommit(p) PROVE TypeOK'
  <2>1. StoreOK'
    BY <1>a, <1>e, <1>12 DEF RenameCommit, StoreOK
  <2>2. CallsOK' /\ OpsOK'
    BY <1>a, <1>12, <1>d, ReturnType DEF RenameCommit
  <2> QED
    BY <2>1, <2>2, <1>t
<1>13. ASSUME OpenRead(p) PROVE TypeOK'
  <2>1. base[loc[p].name] \in Data
    BY <1>e, <1>f, <1>13 DEF OpenRead, Content
  <2>2. CallsOK'
    BY <1>a, <1>13, <2>1, ReturnType DEF OpenRead
  <2> QED
    BY <1>a, <1>13, <2>2, <1>c, <1>d, <1>t DEF OpenRead
<1>14. ASSUME ReadFails(p) PROVE TypeOK'
  <2>1. CallsOK'
    BY <1>a, <1>14, ReturnType DEF ReadFails
  <2> QED
    BY <1>a, <1>14, <2>1, <1>c, <1>d, <1>t DEF ReadFails
<1>15. ASSUME ReadPanics(p) \/ FindPanics(p) PROVE TypeOK'
  <2>1. CallsOK'
    BY <1>a, <1>e, <1>15, GotoType DEF ReadPanics, FindPanics
  <2> QED
    BY <1>a, <1>15, <2>1, <1>c, <1>d, <1>t DEF ReadPanics, FindPanics
<1>16. ASSUME FindEnter(p) PROVE TypeOK'
  <2>1. CallsOK'
    BY <1>a, <1>16, LocalsType, GotoType DEF FindEnter
  <2> QED
    BY <1>a, <1>16, <2>1, <1>c, <1>d, <1>t DEF FindEnter
<1>17. ASSUME NEW n \in Name, FindSkip(p, n) PROVE TypeOK'
  <2>1. [loc[p] EXCEPT !.todo = @ \ {n}] \in Locals
    BY <1>a, <1>e, LocalsType
  <2>2. CallsOK'
    BY <1>a, <1>17, <2>1, GotoType DEF FindSkip
  <2> QED
    BY <1>a, <1>17, <2>2, <1>c, <1>d, <1>t DEF FindSkip
<1>18. ASSUME NEW n \in Name, NEW more \in BOOLEAN,
              FindVisit(p, n, more) \/ FindYield(p, n, more)
       PROVE  TypeOK'
  BY <1>a, <1>18, <1>c, <1>d, YieldType, <1>t DEF FindVisit, FindYield
<1>19. ASSUME FindWalked(p) PROVE TypeOK'
  <2>1. CallsOK'
    BY <1>a, <1>e, <1>19, GotoType DEF FindWalked
  <2> QED
    BY <1>a, <1>19, <2>1, <1>c, <1>d, <1>t DEF FindWalked
<1>20. ASSUME FindSnapshot(p) PROVE TypeOK'
  <2>1. InOverlay \in SUBSET Name
    BY DEF InOverlay
  <2>2. CallsOK'
    BY <1>a, <1>20, <2>1, LocalsType, GotoType DEF FindSnapshot
  <2> QED
    BY <1>a, <1>20, <2>2, <1>c, <1>d, <1>t DEF FindSnapshot
<1>21. ASSUME FindDone(p) PROVE TypeOK'
  BY <1>a, <1>21, <1>c, <1>d, ReturnType, <1>t DEF FindDone
<1> QED
  BY <1>b, <1>1, <1>2, <1>3, <1>4, <1>5, <1>6, <1>7, <1>8, <1>9, <1>10, <1>11, <1>12,
     <1>13, <1>14, <1>15, <1>16, <1>17, <1>18, <1>19, <1>20, <1>21 DEF Call, Continue

(* Every variable keeps its type: in particular no call returns anything    *)
(* but a content or one of the errors (write.go, casc.go:296-329).          *)
THEOREM TypeCorrect == Spec => []TypeOK
<1>1. TypeOK /\ UNCHANGED vars => TypeOK'
  BY DEF TypeOK, vars, store
<1> QED
  BY <1>1, InitType, NextType, PTL DEF Spec

------------------------------------------------------------------------------
(* The overlay under one writer.                                            *)

(* What the base has under a name never comes back (write.go:94-95,         *)
(* :112-118, :154-157, :182-183): every assignment to overlay or removed    *)
(* moves a shadowed name from one of the two to the other, at most.         *)
LEMMA NextShadow ==
  ASSUME TypeOK, Next
  PROVE  Shadowed \subseteq Shadowed'
<1> USE DEF Shadowed, InOverlay
<1>1. PICK p \in Proc : Call(p) \/ Continue(p)
  BY DEF Next
<1>2. ASSUME UNCHANGED <<overlay, removed>> PROVE Shadowed \subseteq Shadowed'
  BY <1>2
<1>3. overlay \in [Name -> Content] /\ loc[p].name \in Name /\ loc[p].dst \in Name
  BY DEF TypeOK, Locals
<1>4. ASSUME NEW n \in AddNames, NEW d \in Data, AddFile(p, n, d)
      PROVE  Shadowed \subseteq Shadowed'
  BY <1>3, <1>4, SentinelAssumption, NamesAssumption DEF AddFile
<1>5. ASSUME NEW n \in RemoveNames, RemoveFile(p, n) PROVE Shadowed \subseteq Shadowed'
  BY <1>3, <1>5 DEF RemoveFile
<1>6. ASSUME RenameOverlay(p) PROVE Shadowed \subseteq Shadowed'
  BY <1>2, <1>3, <1>6 DEF RenameOverlay
<1>7. ASSUME RenameCommit(p) PROVE Shadowed \subseteq Shadowed'
  BY <1>2, <1>3, <1>7 DEF RenameCommit
<1> QED
  BY <1>1, <1>2, <1>4, <1>5, <1>6, <1>7
     DEF Call, Continue, AddFileExists, RenameLock, OpenFile, FindStart, Close,
         RenameUnlock, RenameLookup, RenameRead, OpenRead, ReadFails, ReadPanics,
         FindEnter, FindPanics, FindSkip, FindVisit, FindYield, FindWalked,
         FindSnapshot, FindDone, store

(* No sequence of calls of any number of goroutines uncovers what the base  *)
(* storage has under a name that was added, removed or renamed.             *)
THEOREM ShadowsForever == Spec => ShadowStable
<1>1. ASSUME TypeOK, [Next]_vars PROVE [Shadowed \subseteq Shadowed']_vars
  <2>1. CASE Next
    BY <1>1, <2>1, NextShadow
  <2>2. CASE UNCHANGED vars
    BY <2>2 DEF vars
  <2> QED
    BY <1>1, <2>1, <2>2
<1> QED
  BY <1>1, TypeCorrect, PTL DEF Spec, ShadowStable

(* The inductive step for Disjoint.  A rename in flight belongs to the one  *)
(* writer, so nobody else changes its source; and its destination is a name *)
(* that is never marked removed.                                            *)
LEMMA SerialNext ==
  ASSUME OneWriter, FreshTargets, SerialInv, Next
  PROVE  SerialInv'
<1> DEFINE Marks == removed \subseteq RemoveNames \cup RenameFrom
           RemainingInv == CallInv /\ SourceInv /\ Disjoint /\ Marks
<1>a. TypeOK /\ TypeOK' /\ CallInv /\ SourceInv /\ Disjoint /\ Marks
  BY NextType DEF SerialInv
<1>b. PICK p \in Proc : Call(p) \/ Continue(p)
  BY DEF Next
<1>c. /\ overlay \in [Name -> Content] /\ removed \subseteq Name
      /\ pc \in [Proc -> PCs] /\ loc \in [Proc -> Locals] /\ op \in [Proc -> Op \cup {"none"}]
      /\ \A q \in Proc : loc[q].name \in Name /\ loc[q].dst \in Name
  BY <1>a DEF TypeOK, Locals
<1>d. ASSUME "rename" \in Workload[p] \/ "add" \in Workload[p] \/ "remove" \in Workload[p],
             NEW q \in Proc, q # p
      PROVE  pc[q] \notin RenamePCs
  <2>1. pc[q] \in RenamePCs => "rename" \in Workload[q]
    BY <1>a, WorkloadAssumption DEF CallInv
  <2> QED
    BY <2>1, <1>d DEF OneWriter, Writers, Mutators
(* The other goroutines keep what they know of their source when p writes.  *)
<1>e. ASSUME "rename" \in Workload[p] \/ "add" \in Workload[p] \/ "remove" \in Workload[p],
             pc'[p] = "idle", op'[p] \in Workload[p],
             \A q \in Proc : q # p => pc'[q] = pc[q] /\ loc'[q] = loc[q] /\ op'[q] = op[q]
      PROVE  CallInv' /\ SourceInv'
  <2>1. SourceInv'
    BY <1>d, <1>e DEF SourceInv, RenamePCs
  <2>2. CallInv'
    BY <1>a, <1>e DEF CallInv, RenamePCs, FindPCs
  <2> QED
    BY <2>1, <2>2
<1>1. ASSUME NEW n \in AddNames, NEW d \in Data, AddFile(p, n, d) PROVE RemainingInv'
  <2>1. CallInv' /\ SourceInv'
    BY <1>1, <1>c, <1>e DEF AddFile, Calls, Return
  <2>2. Disjoint' /\ Marks'
    BY <1>1, <1>a, <1>c DEF AddFile, Disjoint, InOverlay
  <2> QED
    BY <2>1, <2>2
<1>2. ASSUME NEW n \in RemoveNames, RemoveFile(p, n) PROVE RemainingInv'
  <2>1. CallInv' /\ SourceInv'
    BY <1>2, <1>c, <1>e DEF RemoveFile, Calls, Return
  <2>2. Disjoint' /\ Marks'
    BY <1>2, <1>a, <1>c DEF RemoveFile, Disjoint, InOverlay
  <2> QED
    BY <2>1, <2>2
<1>3. ASSUME RenameOverlay(p) \/ RenameCommit(p) PROVE RemainingInv'
  <2> DEFINE o == loc[p].name
             n == loc[p].dst
  <2>1. /\ "rename" \in Workload[p] /\ op[p] = "rename"
        /\ o \in RenameFrom /\ n \in RenameTo /\ o # n /\ n \notin removed
    <3>1. pc[p] \in RenamePCs
      BY <1>3 DEF RenameOverlay, RenameCommit, RenamePCs
    <3>2. op[p] = "rename" /\ o \in RenameFrom /\ n \in RenameTo
      BY <3>1, <1>a DEF CallInv
    <3>3. "rename" \in Workload[p]
      BY <3>2, <1>a DEF CallInv
    <3> QED
      BY <3>2, <3>3, <1>a DEF FreshTargets
  <2>2. CallInv' /\ SourceInv'
    BY <1>3, <2>1, <1>c, <1>e DEF RenameOverlay, RenameCommit, Return
  <2>3. ASSUME RenameOverlay(p) PROVE Disjoint' /\ Marks'
    BY <2>3, <2>1, <1>a, <1>c DEF RenameOverlay, Disjoint, InOverlay
  <2>4. ASSUME RenameCommit(p) PROVE Disjoint' /\ Marks'
    <3>1. overlay[o] = Absent
      BY <2>4, <1>a DEF RenameCommit, SourceInv, RenamePCs
    <3> QED
      BY <3>1, <2>4, <2>1, <1>a, <1>c DEF RenameCommit, Disjoint, InOverlay
  <2> QED
    BY <1>3, <2>2, <2>3, <2>4
(* Every other step leaves the maps alone, and only one of RenameFile moves *)
(* p to a place where SourceInv says something about p.                     *)
<1>f. ASSUME UNCHANGED <<overlay, removed, base>> PROVE Disjoint' /\ Marks'
  BY <1>a, <1>f DEF Disjoint, InOverlay
<1>g. ASSUME UNCHANGED <<overlay, removed, base>>,
             \A q \in Proc : q # p => pc'[q] = pc[q] /\ loc'[q] = loc[q] /\ op'[q] = op[q],
             op'[p] \in Workload[p] \cup {"none"},
             pc'[p] \notin RenamePCs,
             pc'[p] = "openRead" => op'[p] = "open",
             pc'[p] \in FindPCs => op'[p] = "find"
      PROVE  CallInv' /\ SourceInv'
  BY <1>a, <1>g DEF CallInv, SourceInv, RenamePCs
<1>4. ASSUME NEW o \in RenameFrom, NEW n \in RenameTo, RenameLock(p, o, n) PROVE RemainingInv'
  <2>1. loc'[p].name = o /\ loc'[p].dst = n /\ pc'[p] = "renSource" /\ op'[p] = "rename"
    BY <1>4, <1>c, NoLocalsType DEF RenameLock, Calls, Goto, Locals
  <2>2. \A q \in Proc : q # p => pc'[q] = pc[q] /\ loc'[q] = loc[q] /\ op'[q] = op[q]
    BY <1>4, <1>c DEF RenameLock, Calls, Goto
  <2>3. CallInv' /\ SourceInv'
    BY <2>1, <2>2, <1>4, <1>a DEF RenameLock, Calls, CallInv, SourceInv, RenamePCs, FindPCs
  <2> QED
    BY <2>3, <1>4, <1>f DEF RenameLock
<1>5. ASSUME RenameUnlock(p) \/ RenameLookup(p) \/ RenameRead(p) PROVE RemainingInv'
  <2> DEFINE o == loc[p].name
  <2>1. UNCHANGED <<overlay, removed, base, op>> /\ pc[p] \in RenamePCs
    BY <1>5 DEF RenameUnlock, RenameLookup, RenameRead, store, RenamePCs
  <2>2. \A q \in Proc : q # p => pc'[q] = pc[q] /\ loc'[q] = loc[q]
    BY <1>5, <1>c DEF RenameUnlock, RenameLookup, RenameRead, Goto, Return
  <2>3. \/ pc'[p] = "idle"
        \/ /\ loc'[p].name = o /\ loc'[p].dst = loc[p].dst
           /\ pc'[p] \in RenamePCs
    BY <1>5, <1>c DEF RenameUnlock, RenameLookup, RenameRead, Goto, Return, RenamePCs, Locals
  <2>4. CallInv'
    BY <1>a, <2>1, <2>2, <2>3 DEF CallInv, RenamePCs, FindPCs
  <2>5. pc'[p] \in RenamePCs \ {"renSource"} => overlay[o] = Absent
    BY <1>5, <1>a, <1>c DEF RenameUnlock, RenameLookup, RenameRead, SourceInv, RenamePCs
  <2>6. pc'[p] \in {"renRead", "renCommit"} => o \notin removed
    BY <1>5, <1>a, <1>c DEF RenameUnlock, RenameLookup, RenameRead, SourceInv, Lookup, Goto, Return
  <2>7. pc'[p] = "renCommit" => loc'[p].data = base[o] /\ base[o] # Absent
    BY <1>5, <1>a, <1>c DEF RenameUnlock, RenameLookup, RenameRead, SourceInv, RenamePCs,
                            Lookup, Goto, Return, Locals
  <2>8. SourceInv'
    BY <1>a, <2>1, <2>2, <2>3, <2>5, <2>6, <2>7 DEF SourceInv, RenamePCs
  <2> QED
    BY <2>1, <2>4, <2>8, <1>f
<1>6. ASSUME NEW n \in AddNames, AddFileExists(p, n) PROVE RemainingInv'
  BY <1>6, <1>c, <1>f, <1>g DEF AddFileExists, Calls, Return, RenamePCs, FindPCs
<1>7. ASSUME NEW n \in Name, OpenFile(p, n) PROVE RemainingInv'
  BY <1>7, <1>c, <1>f, <1>g DEF OpenFile, store, Calls, Return, Goto, RenamePCs, FindPCs
<1>8. ASSUME FindStart(p) PROVE RemainingInv'
  BY <1>8, <1>c, <1>f, <1>g DEF FindStart, store, Calls, Return, Goto, RenamePCs, FindPCs
<1>9. ASSUME Close(p) PROVE RemainingInv'
  BY <1>9, <1>c, <1>f, <1>g DEF Close, Calls, Return, RenamePCs, FindPCs
<1>10. ASSUME OpenRead(p) \/ ReadFails(p) \/ ReadPanics(p) \/ FindPanics(p) \/ FindDone(p)
       PROVE  RemainingInv'
  <2>1. /\ UNCHANGED <<overlay, removed, base, op>> /\ pc'[p] \in {"idle", "panic"}
        /\ \A q \in Proc : q # p => pc'[q] = pc[q] /\ loc'[q] = loc[q]
    BY <1>10, <1>c DEF OpenRead, ReadFails, ReadPanics, FindPanics, FindDone, store, Return, Goto
  <2> QED
    BY <2>1, <1>a, <1>f, <1>g DEF CallInv, RenamePCs, FindPCs
<1>11. ASSUME \/ FindEnter(p) \/ FindWalked(p) \/ FindSnapshot(p)
              \/ \E n \in Name : FindSkip(p, n)
              \/ \E n \in Name, more \in BOOLEAN : FindVisit(p, n, more) \/ FindYield(p, n, more)
       PROVE  RemainingInv'
  <2>1. /\ UNCHANGED <<overlay, removed, base, op>> /\ pc[p] \in FindPCs /\ pc'[p] \in FindPCs
        /\ \A q \in Proc : q # p => pc'[q] = pc[q] /\ loc'[q] = loc[q]
    BY <1>11, <1>c DEF FindEnter, FindWalked, FindSnapshot, FindSkip, FindVisit, FindYield,
                       Yield, store, Goto, FindPCs
  <2> QED
    BY <2>1, <1>a, <1>f, <1>g DEF CallInv, RenamePCs, FindPCs
<1>12. RemainingInv'
  BY <1>b, <1>1, <1>2, <1>3, <1>4, <1>5, <1>6, <1>7, <1>8, <1>9, <1>10, <1>11
     DEF Call, Continue
<1> QED
  BY <1>a, <1>12 DEF SerialInv

LEMMA SerialInit == Init => SerialInv
  BY InitType DEF Init, SerialInv, Disjoint, CallInv, SourceInv, RenamePCs, FindPCs

(* With one goroutine that changes the storage, a RenameFile that runs can  *)
(* rely at each of its positions on what it found (write.go:109-186).       *)
THEOREM SerialInductive == OneWriter /\ FreshTargets /\ Spec => []SerialInv
<1> SUFFICES ASSUME OneWriter, FreshTargets PROVE Spec => []SerialInv
  OBVIOUS
<1>1. SerialInv /\ UNCHANGED vars => SerialInv'
  BY DEF SerialInv, TypeOK, Disjoint, InOverlay, CallInv, SourceInv, vars, store
<1>2. SerialInv /\ [Next]_vars => SerialInv'
  BY <1>1, SerialNext
<1> QED
  BY <1>2, SerialInit, PTL DEF Spec

(* While one goroutine changes the storage and never renames onto a name it *)
(* removed or renamed away, a file FindFiles lists and Flush writes is one  *)
(* OpenFile finds (write.go:203, :231, flush.go:80).                        *)
THEOREM SerialDisjoint == OneWriter /\ FreshTargets /\ Spec => []Disjoint
<1>1. SerialInv => Disjoint
  BY DEF SerialInv
<1> QED
  BY <1>1, SerialInductive, PTL

------------------------------------------------------------------------------
(* The overlay implements Namespace: for the one goroutine that changes the *)
(* storage, AddFile, RemoveFile and RenameFile act on one map of names, a   *)
(* rename of a file of the base included, although that one reads the base  *)
(* without the lock.                                                        *)

Files == [n \in Name |-> Visible(n)]
Asked(p) == [op |-> op[p], name |-> loc[p].name, dst |-> loc[p].dst,
             ret |-> IF pc[p] = "idle" THEN ret[p] ELSE "pending"]

(* A step of one goroutine leaves the calls of the others alone.            *)
LEMMA OthersKeep ==
  ASSUME TypeOK, NEW p \in Proc, Call(p) \/ Continue(p)
  PROVE  \A q \in Proc : q # p => /\ pc'[q] = pc[q] /\ op'[q] = op[q]
                                  /\ ret'[q] = ret[q] /\ loc'[q] = loc[q]
<1>1. pc \in [Proc -> PCs] /\ op \in [Proc -> Op \cup {"none"}]
      /\ loc \in [Proc -> Locals] /\ ret \in [Proc -> Data \cup Errors \cup {"none", "ok"}]
  BY DEF TypeOK
<1>2. ASSUME NEW l, NEW locals, Goto(p, l, locals)
      PROVE  \A q \in Proc : q # p => pc'[q] = pc[q] /\ ret'[q] = ret[q] /\ loc'[q] = loc[q]
  BY <1>1, <1>2 DEF Goto
<1>3. ASSUME NEW r, Return(p, r)
      PROVE  \A q \in Proc : q # p => pc'[q] = pc[q] /\ ret'[q] = ret[q] /\ loc'[q] = loc[q]
  BY <1>1, <1>3 DEF Return
<1>4. ASSUME NEW o, Calls(p, o) PROVE \A q \in Proc : q # p => op'[q] = op[q]
  BY <1>1, <1>4 DEF Calls
<1>5. CASE Call(p)
  BY <1>5, <1>2, <1>3, <1>4 DEF Call, AddFile, AddFileExists, RemoveFile, RenameLock,
                                OpenFile, FindStart, Close
<1>6. CASE Continue(p)
  BY <1>6, <1>2, <1>3 DEF Continue, RenameOverlay, RenameUnlock, RenameLookup, RenameRead,
       RenameCommit, OpenRead, ReadFails, ReadPanics, FindEnter, FindPanics, FindSkip,
       FindVisit, FindYield, Yield, FindWalked, FindSnapshot, FindDone
<1> QED
  BY <1>5, <1>6

(* A call that is not in progress has an answer, and none that is mistaken  *)
(* for "pending".                                                           *)
LEMMA IdleAnswered ==
  ASSUME TypeOK, NEW p \in Writers
  PROVE  /\ p \in Proc
         /\ pc[p] = "idle" => NS!Idle(p)
         /\ pc[p] # "idle" => ~NS!Idle(p)
<1>1. p \in Proc
  BY DEF Writers
<1>2. ret[p] # "pending"
  BY <1>1, SentinelAssumption DEF TypeOK, Errors
<1> QED
  BY <1>1, <1>2 DEF NS!Idle

(* A call that reads, or a step of one: Observe, or no step.                *)
LEMMA Observes ==
  ASSUME TypeOK, NEW p \in Writers, Call(p) \/ Continue(p),
         UNCHANGED <<overlay, removed, base>>,
         pc[p] = "idle" \/ op[p] \notin Mutators, op'[p] \notin Mutators
  PROVE  NS!Next
<1>1. NS!Idle(p) \/ op[p] \notin Mutators
  BY IdleAnswered
<1>2. p \in Proc /\ UNCHANGED Files
  BY DEF Files, Visible, Writers
<1>3. NS!OthersWait(p)
  BY <1>2, OthersKeep DEF NS!OthersWait, Writers
<1>4. NS!Observe(p)
  BY <1>1, <1>2 DEF NS!Observe, NS!Mutators, Mutators, Files
<1> QED
  BY <1>3, <1>4 DEF NS!Next

(* AddFile and RemoveFile take effect in one step.                          *)
LEMMA AddsAndRemoves ==
  ASSUME SerialInv, NEW p \in Writers, Call(p),
         \/ \E n \in AddNames, d \in Data : AddFile(p, n, d)
         \/ \E n \in AddNames : AddFileExists(p, n)
         \/ \E n \in RemoveNames : RemoveFile(p, n)
  PROVE  NS!Next
<1>1. /\ TypeOK /\ p \in Proc /\ NS!OthersWait(p) /\ Disjoint
      /\ overlay \in [Name -> Content] /\ removed \subseteq Name
      /\ pc \in [Proc -> PCs] /\ op \in [Proc -> Op \cup {"none"}]
      /\ ret \in [Proc -> Data \cup Errors \cup {"none", "ok"}]
  BY OthersKeep DEF SerialInv, TypeOK, Writers, NS!OthersWait
<1>2. pc[p] = "idle" /\ NS!Idle(p)
  BY <1>1, IdleAnswered DEF AddFile, AddFileExists, RemoveFile, Calls
<1>3. ASSUME NEW n \in AddNames, NEW d \in Data, AddFile(p, n, d) PROVE NS!Next
  <2>1. NS!Finish(p, "add", "ok")
    BY <1>1, <1>3 DEF NS!Finish, AddFile, Calls, Return
  <2>2. Files' = [Files EXCEPT ![n] = d] /\ n \in Name
    BY <1>1, <1>3, NamesAssumption, SentinelAssumption DEF AddFile, Files, Visible
  <2> QED
    BY <1>1, <1>2, <2>1, <2>2 DEF NS!Next, NS!Add, Files
<1>4. ASSUME NEW n \in AddNames, AddFileExists(p, n) PROVE NS!Next
  <2>1. NS!Finish(p, "add", "exists")
    BY <1>1, <1>4 DEF NS!Finish, AddFileExists, Calls, Return
  <2>2. n \in Name /\ Files[n] # Absent /\ UNCHANGED Files
    BY <1>1, <1>4, NamesAssumption DEF AddFileExists, Files, Visible, Disjoint, InOverlay
  <2> QED
    BY <1>1, <1>2, <2>1, <2>2 DEF NS!Next, NS!AddExists, Files
<1>5. ASSUME NEW n \in RemoveNames, RemoveFile(p, n) PROVE NS!Next
  <2>1. NS!Finish(p, "remove", "ok")
    BY <1>1, <1>5 DEF NS!Finish, RemoveFile, Calls, Return
  <2>2. Files' = [Files EXCEPT ![n] = Absent] /\ n \in Name
    BY <1>1, <1>5, NamesAssumption DEF RemoveFile, Files, Visible
  <2> QED
    BY <1>1, <1>2, <2>1, <2>2 DEF NS!Next, NS!Remove, Files
<1> QED
  BY <1>3, <1>4, <1>5

(* RenameFile takes effect at its second lock, or at its first for a file   *)
(* of the overlay; the steps in between are no steps of Namespace.          *)
LEMMA RenameBegins ==
  ASSUME OneWriter, FreshTargets, TypeOK, NEW p \in Writers, Call(p),
         NEW o \in RenameFrom, NEW n \in RenameTo, RenameLock(p, o, n)
  PROVE  NS!Next
<1>1. /\ p \in Proc /\ NS!OthersWait(p)
      /\ pc \in [Proc -> PCs] /\ op \in [Proc -> Op \cup {"none"}] /\ loc \in [Proc -> Locals]
  BY OthersKeep DEF TypeOK, Writers, NS!OthersWait
<1>2. NS!Idle(p)
  BY <1>1, IdleAnswered DEF RenameLock, Calls
<1>3. UNCHANGED Files
  BY DEF RenameLock, Files, Visible
<1>4. /\ pc'[p] = "renSource" /\ op'[p] = "rename"
      /\ loc'[p].name = o /\ loc'[p].dst = n /\ o # n
  BY <1>1, NoLocalsType DEF RenameLock, Calls, Goto, Locals
<1>5. NS!RenameBegin(p)
  BY <1>1, <1>2, <1>3, <1>4 DEF NS!RenameBegin, NS!Finish, Files
<1> QED
  BY <1>1, <1>5 DEF NS!Next

(* The end of a rename, with the map it saw: of SerialInv, its source is as *)
(* it was when OpenFile read it.                                            *)
LEMMA RenameEnds ==
  ASSUME OneWriter, FreshTargets, SerialInv, NEW p \in Writers, Continue(p),
         pc[p] \in RenamePCs, pc'[p] = "idle"
  PROVE  NS!Next
<1> DEFINE o == loc[p].name
           n == loc[p].dst
<1>1. /\ TypeOK /\ Disjoint /\ CallInv /\ SourceInv
      /\ removed \subseteq RemoveNames \cup RenameFrom
      /\ p \in Proc /\ NS!OthersWait(p) /\ o \in Name /\ n \in Name
      /\ overlay \in [Name -> Content] /\ base \in [Name -> Content]
      /\ pc \in [Proc -> PCs] /\ ret \in [Proc -> Data \cup Errors \cup {"none", "ok"}]
  BY OthersKeep DEF SerialInv, TypeOK, Writers, NS!OthersWait, Locals
<1>2. /\ op[p] = "rename" /\ o # n /\ n \notin removed /\ ~NS!Idle(p)
  BY <1>1, IdleAnswered DEF CallInv, FreshTargets, RenamePCs
<1>3. ASSUME NEW r, Return(p, r), UNCHANGED op PROVE NS!Finish(p, "rename", r)
  BY <1>1, <1>2, <1>3 DEF Return, NS!Finish
<1>4. ASSUME UNCHANGED <<overlay, removed, base>> PROVE UNCHANGED Files
  BY <1>4 DEF Files, Visible
<1>5. CASE RenameOverlay(p)
  <2>1. CASE overlay[n] # Absent
    <3>1. NS!Finish(p, "rename", "exists") /\ UNCHANGED Files
      BY <1>3, <1>4, <1>5, <2>1 DEF RenameOverlay
    <3>2. Files[n] # Absent
      BY <1>1, <1>2, <2>1 DEF Files, Visible
    <3> QED
      BY <1>1, <1>2, <3>1, <3>2 DEF NS!Next, NS!Rename, Files
  <2>2. CASE overlay[n] = Absent
    <3>1. NS!Finish(p, "rename", "ok")
      BY <1>3, <1>5, <2>2 DEF RenameOverlay
    <3>2. Files[o] = overlay[o] /\ overlay[o] # Absent
      BY <1>1, <1>5 DEF RenameOverlay, Files, Visible, Disjoint, InOverlay
    <3>3. Files' = [Files EXCEPT ![n] = overlay[o], ![o] = Absent]
      BY <1>1, <1>2, <1>5, <2>2, <3>2 DEF RenameOverlay, Files, Visible
    <3> QED
      BY <1>1, <1>2, <3>1, <3>2, <3>3 DEF NS!Next, NS!Rename, Files
  <2> QED
    BY <2>1, <2>2
<1>6. CASE RenameLookup(p)
  <2>1. o \in removed /\ Return(p, "notfound") /\ UNCHANGED <<overlay, removed, base, op>>
    BY <1>1, <1>6 DEF RenameLookup, Lookup, Goto, store
  <2>2. Files[o] = Absent /\ UNCHANGED Files
    BY <1>1, <1>4, <2>1 DEF Files, Visible
  <2>3. NS!Finish(p, "rename", "notfound")
    BY <1>3, <2>1
  <2> QED
    BY <1>1, <1>2, <2>2, <2>3 DEF NS!Next, NS!Rename, Files
<1>7. CASE ReadFails(p)
  <2>1. UNCHANGED <<overlay, removed, base, op>> /\ pc[p] = "renRead"
    BY <1>7 DEF ReadFails, Reading, store, RenamePCs
  <2>2. CASE base[o] = Absent /\ Return(p, "notfound")
    <3>1. Files[o] = Absent /\ UNCHANGED Files
      BY <1>1, <1>4, <2>1, <2>2 DEF Files, Visible, SourceInv, RenamePCs
    <3>2. NS!Finish(p, "rename", "notfound")
      BY <1>3, <2>1, <2>2
    <3> QED
      BY <1>1, <1>2, <3>1, <3>2 DEF NS!Next, NS!Rename, Files
  <2>3. ASSUME NEW r \in {"failed", "unsupported"}, Return(p, r) PROVE NS!Next
    <3>1. NS!Finish(p, "rename", r) /\ UNCHANGED Files
      BY <1>3, <1>4, <2>1, <2>3
    <3> QED
      BY <1>1, <1>2, <3>1 DEF NS!Next, NS!Rename, NS!Finish, Files
  <2> QED
    BY <1>7, <2>2, <2>3 DEF ReadFails
<1>8. CASE RenameCommit(p)
  <2>1. overlay[o] = Absent /\ o \notin removed /\ loc[p].data = base[o] /\ base[o] # Absent
    BY <1>1, <1>8 DEF RenameCommit, SourceInv, RenamePCs
  <2>2. CASE overlay[n] # Absent
    <3>1. NS!Finish(p, "rename", "exists") /\ UNCHANGED Files
      BY <1>3, <1>4, <1>8, <2>2 DEF RenameCommit
    <3>2. Files[n] # Absent
      BY <1>1, <1>2, <2>2 DEF Files, Visible
    <3> QED
      BY <1>1, <1>2, <3>1, <3>2 DEF NS!Next, NS!Rename, Files
  <2>3. CASE overlay[n] = Absent
    <3>1. NS!Finish(p, "rename", "ok")
      BY <1>3, <1>8, <2>3 DEF RenameCommit
    <3>2. Files[o] = base[o]
      BY <1>1, <2>1 DEF Files, Visible
    <3>3. Files' = [Files EXCEPT ![n] = base[o], ![o] = Absent]
      BY <1>1, <1>2, <1>8, <2>1, <2>3 DEF RenameCommit, Files, Visible
    <3> QED
      BY <1>1, <1>2, <2>1, <3>1, <3>2, <3>3 DEF NS!Next, NS!Rename, Files
  <2> QED
    BY <2>2, <2>3
<1> QED
  BY <1>1, <1>5, <1>6, <1>7, <1>8
     DEF Continue, RenamePCs, RenameUnlock, RenameRead, OpenRead, ReadPanics, Goto,
         FindEnter, FindPanics, FindSkip, FindVisit, FindYield, FindWalked, FindSnapshot, FindDone

(* Every step of the overlay is a step of Namespace, or none.               *)
LEMMA NextRefines ==
  ASSUME OneWriter, FreshTargets, SerialInv, SerialInv', Next
  PROVE  NS!Next \/ UNCHANGED <<Files, [q \in Writers |-> Asked(q)]>>
<1>1. PICK p \in Proc : Call(p) \/ Continue(p)
  BY DEF Next
<1>2. /\ TypeOK /\ CallInv /\ CallInv' /\ p \in Proc
      /\ pc \in [Proc -> PCs] /\ op \in [Proc -> Op \cup {"none"}] /\ loc \in [Proc -> Locals]
      /\ op'[p] \in Workload[p] \cup {"none"} /\ loc[p] \in Locals
  BY DEF SerialInv, TypeOK, CallInv
<1>3. ASSUME UNCHANGED <<overlay, removed, base>> PROVE UNCHANGED Files
  BY <1>3 DEF Files, Visible
<1>4. CASE p \notin Writers
  <2>1. UNCHANGED [q \in Writers |-> Asked(q)]
    BY <1>1, <1>2, <1>4, OthersKeep DEF Asked, Writers
  <2>2. Workload[p] \cap Mutators = {} /\ op[p] \notin Mutators
    BY <1>2, <1>4 DEF Writers, CallInv, Mutators
  <2>3. pc[p] \notin RenamePCs
    BY <1>2, <2>2 DEF CallInv, Mutators
  <2>4. UNCHANGED <<overlay, removed, base>>
    BY <1>1, <1>2, <2>2, <2>3 DEF Call, Continue, Calls, AddFile, AddFileExists, RemoveFile,
         RenameLock, OpenFile, FindStart, Close, RenameOverlay, RenameUnlock, RenameLookup,
         RenameRead, RenameCommit, OpenRead, ReadFails, ReadPanics, FindEnter, FindPanics,
         FindSkip, FindVisit, FindYield, FindWalked, FindSnapshot, FindDone, store,
         RenamePCs, Mutators
  <2> QED
    BY <1>3, <2>1, <2>4
<1>5. CASE p \in Writers /\ Call(p)
  <2>1. ASSUME NEW n \in Name, OpenFile(p, n) PROVE NS!Next
    BY <1>2, <1>5, <2>1, Observes DEF OpenFile, Calls, store, Mutators, Op
  <2>2. ASSUME FindStart(p) \/ Close(p) PROVE NS!Next
    BY <1>2, <1>5, <2>2, Observes DEF FindStart, Close, Calls, store, Mutators, Op
  <2> QED
    BY <1>2, <1>5, <2>1, <2>2, AddsAndRemoves, RenameBegins DEF Call
<1>6. CASE p \in Writers /\ Continue(p) /\ pc[p] \in RenamePCs
  <2>1. CASE pc'[p] = "idle"
    BY <1>6, <2>1, RenameEnds
  <2>2. CASE pc'[p] # "idle"
    <3>1. UNCHANGED <<overlay, removed, base, op>>
      BY <1>2, <1>6, <2>2 DEF Continue, RenameOverlay, RenameUnlock, RenameLookup,
           RenameRead, RenameCommit, OpenRead, ReadFails, ReadPanics, FindEnter, FindPanics,
           FindSkip, FindVisit, FindYield, FindWalked, FindSnapshot, FindDone, store, Return,
           RenamePCs
    <3>2. loc'[p].name = loc[p].name /\ loc'[p].dst = loc[p].dst
      BY <1>2, <1>6, <2>2 DEF Continue, RenameOverlay, RenameUnlock, RenameLookup,
           RenameRead, RenameCommit, OpenRead, ReadFails, ReadPanics, FindEnter, FindPanics,
           FindSkip, FindVisit, FindYield, FindWalked, FindSnapshot, FindDone, Return, Goto,
           RenamePCs, Locals
    <3>3. Asked(p)' = Asked(p)
      BY <1>2, <1>6, <2>2, <3>1, <3>2 DEF Asked, RenamePCs
    <3>4. UNCHANGED [q \in Writers |-> Asked(q)]
      BY <1>2, <1>6, <3>3, OthersKeep DEF Asked, Writers
    <3> QED
      BY <1>3, <3>1, <3>4
  <2> QED
    BY <2>1, <2>2
<1>7. CASE p \in Writers /\ Continue(p) /\ pc[p] \notin RenamePCs
  <2>1. op[p] \notin Mutators
    BY <1>2, <1>7 DEF Continue, CallInv, RenameOverlay, RenameUnlock, RenameLookup,
         RenameRead, RenameCommit, OpenRead, ReadFails, ReadPanics, Reading, FindEnter,
         FindPanics, FindSkip, FindVisit, FindYield, FindWalked, FindSnapshot, FindDone,
         RenamePCs, FindPCs, Mutators
  <2>2. UNCHANGED <<overlay, removed, base, op>>
    BY <1>7 DEF Continue, RenameOverlay, RenameUnlock, RenameLookup, RenameRead,
         RenameCommit, OpenRead, ReadFails, ReadPanics, FindEnter, FindPanics, FindSkip,
         FindVisit, FindYield, FindWalked, FindSnapshot, FindDone, store, RenamePCs
  <2> QED
    BY <1>7, <2>1, <2>2, <1>2, Observes
<1> QED
  BY <1>1, <1>4, <1>5, <1>6, <1>7

LEMMA InitRefines == Init => NS!Init
<1> SUFFICES ASSUME Init PROVE NS!Init
  OBVIOUS
<1>1. Files \in [Name -> Data \cup {Absent}]
  BY InitType DEF Init, Files, Visible, TypeOK, Content
<1>2. ASSUME NEW p \in Writers
      PROVE  Asked(p) \in [op : {"none"}, name : Name, dst : Name, ret : {"none"}]
  BY NoLocalsType DEF Init, Asked, Locals, Writers
<1> QED
  BY <1>1, <1>2 DEF NS!Init, Files, Asked

(* With one writer and fresh rename targets, the overlay implements one map *)
(* of names on which AddFile, RemoveFile and RenameFile are atomic, however *)
(* many goroutines open, list and close (write.go:71-186).                  *)
THEOREM SerialAtomic == OneWriter /\ FreshTargets /\ Spec => Atomic
<1> SUFFICES ASSUME OneWriter, FreshTargets PROVE Spec => NS!Spec
  BY DEF Atomic
<1>1. SerialInv /\ SerialInv' /\ [Next]_vars
        => [NS!Next]_<<Files, [q \in Writers |-> Asked(q)]>>
  <2>1. UNCHANGED vars => UNCHANGED <<Files, [q \in Writers |-> Asked(q)]>>
    BY DEF vars, store, Files, Visible, Asked
  <2> QED
    BY <2>1, NextRefines
<1>2. SerialInv /\ SerialInv' /\ [Next]_vars
        => [NS!Next]_<<[n \in Name |-> Visible(n)],
                       [p \in Writers |->
                          [op |-> op[p], name |-> loc[p].name, dst |-> loc[p].dst,
                           ret |-> IF pc[p] = "idle" THEN ret[p] ELSE "pending"]]>>
  BY <1>1 DEF Files, Asked
<1> QED
  BY <1>2, InitRefines, SerialInductive, PTL DEF Spec, NS!Spec
==============================================================================
