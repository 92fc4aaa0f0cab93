------------------------------- MODULE Overlay -------------------------------
(***************************************************************************)
(* The write overlay of a Storage (pkg/casc/write.go, casc.go): the maps    *)
(* `overlay` and `removed`, guarded by the RWMutex `overlayMu`, in front of *)
(* a root handler that nothing mutates.  Every goroutine of the caller runs *)
(* AddFile, RemoveFile, RenameFile, OpenFile, FindFiles and Close.  A step  *)
(* is one critical section of overlayMu, one access to the inner storage,   *)
(* or one call of the FindFiles callback: that is where goroutines can      *)
(* interleave.                                                              *)
(*                                                                          *)
(* A Name is a key after normalizeOverlayName, so two spellings of a file   *)
(* that fold together are one Name; the empty key, which every method       *)
(* rejects before it takes the lock, is left out.                           *)
(***************************************************************************)
EXTENDS Naturals, FiniteSets

CONSTANTS
  Name,         \* normalised file names
  Data,         \* file contents
  Absent,       \* "not in the map"; also the content a call has not read
  Proc,         \* goroutines
  NoProc,       \* holder of the free mutex
  Workload,     \* Workload[p]: the methods goroutine p calls
  AddNames, RemoveNames,   \* the names the caller adds, and removes
  RenameFrom, RenameTo,    \* the names the caller renames, and renames to
  Created       \* how it is made: CreateStorage (TRUE), OpenStorage (FALSE), or either

Mutators == {"add", "remove", "rename"}
Op == Mutators \cup {"open", "find", "close"}

ASSUME WorkloadAssumption == Workload \in [Proc -> SUBSET Op]
ASSUME NamesAssumption ==
  /\ AddNames \subseteq Name /\ RemoveNames \subseteq Name
  /\ RenameFrom \subseteq Name /\ RenameTo \subseteq Name
ASSUME SentinelAssumption ==
  /\ Absent \notin Data /\ NoProc \notin Proc
  /\ Name # {}
  /\ Data \cap {"exists", "notfound", "unsupported", "failed", "none", "ok", "pending"} = {}
ASSUME CreatedAssumption == Created \subseteq BOOLEAN

VARIABLES
  overlay,   \* overlay[n]: content of the overlay entry, or Absent
  removed,   \* names marked removed
  made,      \* the overlay map is allocated (not nil)
  base,      \* base[n]: content the root handler serves under n, or Absent
  inner,     \* "none" (nil), "open", "closed" (Root and Encoding are nil)
  mu,        \* goroutine that keeps overlayMu across two steps
  pc, op,    \* what each goroutine is doing, and in which method
  ret,       \* result of its last call: a content, "ok" or an error
  loc        \* locals of its call: see Locals

store == <<overlay, removed, made, base, inner, mu>>
vars  == <<store, pc, op, ret, loc>>

Content == Data \cup {Absent}
Errors  == {"exists", "notfound", "unsupported", "failed"}

PCs == {"idle", "renSource", "renLookup", "renRead", "renCommit", "openRead",
        "findEnter", "findWalk", "findSnap", "findYield", "panic"}

(* The names a call works on and the content it has read; of FindFiles, the *)
(* entries still to visit, the names fn was given, and whether fn has       *)
(* returned false.                                                          *)
Locals == [name : Name, dst : Name, data : Content,
           todo : SUBSET Name, seen : SUBSET Name, stop : BOOLEAN]
NoLocals == LET n == CHOOSE n \in Name : TRUE
            IN  [name |-> n, dst |-> n, data |-> Absent,
                 todo |-> {}, seen |-> {}, stop |-> FALSE]

TypeOK ==
  /\ overlay \in [Name -> Content] /\ base \in [Name -> Content]
  /\ removed \in SUBSET Name /\ made \in BOOLEAN
  /\ inner \in {"none", "open", "closed"} /\ mu \in Proc \cup {NoProc}
  /\ pc \in [Proc -> PCs] /\ op \in [Proc -> Op \cup {"none"}]
  /\ ret \in [Proc -> Data \cup Errors \cup {"none", "ok"}]
  /\ loc \in [Proc -> Locals]

(* A storage that was just created or opened: nothing in the overlay.  An   *)
(* opened storage serves any set of files and has no overlay map yet.       *)
Init ==
  /\ overlay = [n \in Name |-> Absent] /\ removed = {} /\ made \in Created
  /\ base \in IF made THEN {overlay} ELSE [Name -> Content]
  /\ inner = IF made THEN "none" ELSE "open"
  /\ mu = NoProc
  /\ pc = [p \in Proc |-> "idle"]
  /\ op = [p \in Proc |-> "none"] /\ ret = op
  /\ loc = [p \in Proc |-> NoLocals]

------------------------------------------------------------------------------
(* What overlayLookup answers for a name, and what a reader sees under it.  *)
Lookup(n) ==
  CASE n \in removed -> "removed"
    [] n \notin removed /\ overlay[n] # Absent -> "overlay"
    [] OTHER -> "none"

InOverlay == {n \in Name : overlay[n] # Absent}

Visible(n) == IF n \in removed THEN Absent
              ELSE IF overlay[n] # Absent THEN overlay[n] ELSE base[n]

Calls(p, o) == /\ pc[p] = "idle" /\ o \in Workload[p]
               /\ op' = [op EXCEPT ![p] = o]
Free == mu = NoProc

(* A call goes on with new locals, or returns: then its locals are gone.    *)
Goto(p, l, locals) == /\ pc' = [pc EXCEPT ![p] = l]
                      /\ loc' = [loc EXCEPT ![p] = locals]
                      /\ UNCHANGED ret
Return(p, r) == /\ pc' = [pc EXCEPT ![p] = "idle"]
                /\ ret' = [ret EXCEPT ![p] = r]
                /\ loc' = [loc EXCEPT ![p] = NoLocals]

(* Mutant: AddFile forgets to unmark the name.                              *)
AddFileKeepsRemoved(p, n, d) ==
  /\ Calls(p, "add") /\ Free
  /\ overlay[n] = Absent
  /\ overlay' = [overlay EXCEPT ![n] = d] /\ made' = TRUE
  /\ Return(p, "ok")
  /\ UNCHANGED <<removed, base, inner, mu>>

(* AddFile: one critical section.  The root handler is not consulted, so a  *)
(* base file may be replaced; only an overlay entry makes the call fail.    *)
AddFile(p, n, d) ==
  /\ Calls(p, "add") /\ Free
  /\ overlay[n] = Absent
  /\ overlay' = [overlay EXCEPT ![n] = d] /\ removed' = removed \ {n}
  /\ made' = TRUE
  /\ Return(p, "ok")
  /\ UNCHANGED <<base, inner, mu>>

AddFileExists(p, n) ==
  /\ Calls(p, "add") /\ Free
  /\ overlay[n] # Absent
  /\ made' = TRUE
  /\ Return(p, "exists")
  /\ UNCHANGED <<overlay, removed, base, inner, mu>>

RemoveFile(p, n) ==
  /\ Calls(p, "remove") /\ Free
  /\ overlay' = [overlay EXCEPT ![n] = Absent]
  /\ removed' = removed \cup {n}
  /\ Return(p, "ok")
  /\ UNCHANGED <<made, base, inner, mu>>

(* RenameFile takes the lock and looks for the source in the overlay ...    *)
RenameLock(p, o, n) ==
  /\ Calls(p, "rename") /\ Free /\ o # n
  /\ mu' = p /\ made' = TRUE
  /\ Goto(p, "renSource", [NoLocals EXCEPT !.name = o, !.dst = n])
  /\ UNCHANGED <<overlay, removed, base, inner>>

(* Mutant: RenameFile does not mark the source of an overlay entry.         *)
RenameOverlayUnmarked(p) ==
  LET o == loc[p].name  n == loc[p].dst IN
  /\ pc[p] = "renSource" /\ overlay[o] # Absent /\ overlay[n] = Absent
  /\ overlay' = [overlay EXCEPT ![n] = overlay[o], ![o] = Absent]
  /\ removed' = removed \ {n}
  /\ Return(p, "ok")
  /\ mu' = NoProc
  /\ UNCHANGED <<made, base, inner, op>>

(* ... where it moves the entry under the same lock, unless the destination *)
(* is an overlay entry too ...                                              *)
RenameOverlay(p) ==
  LET o == loc[p].name  n == loc[p].dst IN
  /\ pc[p] = "renSource" /\ overlay[o] # Absent
  /\ IF overlay[n] # Absent
     THEN UNCHANGED <<overlay, removed>> /\ Return(p, "exists")
     ELSE /\ overlay' = [overlay EXCEPT ![n] = overlay[o], ![o] = Absent]
          /\ removed' = (removed \ {n}) \cup {o}
          /\ Return(p, "ok")
  /\ mu' = NoProc
  /\ UNCHANGED <<made, base, inner, op>>

(* Mutant: RenameFile keeps the lock while it calls OpenFile.               *)
RenameKeepsLock(p) ==
  /\ pc[p] = "renSource" /\ overlay[loc[p].name] = Absent
  /\ Goto(p, "renLookup", loc[p])
  /\ UNCHANGED <<store, op>>

(* ... or releases the lock, because OpenFile takes a read lock on it.      *)
RenameUnlock(p) ==
  /\ pc[p] = "renSource" /\ overlay[loc[p].name] = Absent
  /\ mu' = NoProc
  /\ Goto(p, "renLookup", loc[p])
  /\ UNCHANGED <<overlay, removed, made, base, inner, op>>

(* Mutant: RenameFile reads its source from the base, marked or not.        *)
RenameLookupBase(p) ==
  /\ pc[p] = "renLookup" /\ Free
  /\ Goto(p, "renRead", loc[p])
  /\ UNCHANGED <<store, op>>

(* OpenFile(oldName) inside RenameFile: the overlay first, under a read     *)
(* lock, then the inner storage, under none.                                *)
RenameLookup(p) ==
  LET o == loc[p].name IN
  /\ pc[p] = "renLookup" /\ Free
  /\ \/ Lookup(o) = "removed" /\ Return(p, "notfound")
     \/ Lookup(o) = "overlay" /\ Goto(p, "renCommit", [loc[p] EXCEPT !.data = overlay[o]])
     \/ Lookup(o) = "none"    /\ Goto(p, "renRead", loc[p])
  /\ UNCHANGED <<store, op>>

RenameRead(p) ==
  LET o == loc[p].name IN
  /\ pc[p] = "renRead" /\ inner = "open" /\ base[o] # Absent
  /\ Goto(p, "renCommit", [loc[p] EXCEPT !.data = base[o]])
  /\ UNCHANGED <<store, op>>

(* Mutant: RenameFile does not shadow a source that lives in the base.      *)
RenameCommitCopies(p) ==
  LET n == loc[p].dst IN
  /\ pc[p] = "renCommit" /\ Free
  /\ IF overlay[n] # Absent
     THEN UNCHANGED overlay /\ Return(p, "exists")
     ELSE overlay' = [overlay EXCEPT ![n] = loc[p].data] /\ Return(p, "ok")
  /\ UNCHANGED <<removed, made, base, inner, mu, op>>

(* The second critical section of RenameFile.  It checks the destination    *)
(* again, and neither re-checks the source nor unmarks the destination.     *)
RenameCommit(p) ==
  LET o == loc[p].name  n == loc[p].dst IN
  /\ pc[p] = "renCommit" /\ Free
  /\ IF overlay[n] # Absent
     THEN UNCHANGED <<overlay, removed>> /\ Return(p, "exists")
     ELSE /\ overlay' = [overlay EXCEPT ![n] = loc[p].data]
          /\ removed' = removed \cup {o}
          /\ Return(p, "ok")
  /\ UNCHANGED <<made, base, inner, mu, op>>

(* Mutant: OpenFile looks for an overlay entry, not for the mark.           *)
OpenFileUnmarked(p, n) ==
  /\ Calls(p, "open") /\ Free
  /\ IF overlay[n] # Absent THEN Return(p, overlay[n])
     ELSE Goto(p, "openRead", [NoLocals EXCEPT !.name = n])
  /\ UNCHANGED store

(* OpenFile: overlayLookup under a read lock ...                            *)
OpenFile(p, n) ==
  /\ Calls(p, "open") /\ Free
  /\ \/ Lookup(n) = "removed" /\ Return(p, "notfound")
     \/ Lookup(n) = "overlay" /\ Return(p, overlay[n])
     \/ Lookup(n) = "none"    /\ Goto(p, "openRead", [NoLocals EXCEPT !.name = n])
  /\ UNCHANGED store

(* Mutant: OpenFile returns whatever the lookup gave, found or not.         *)
OpenReadUnchecked(p) ==
  /\ pc[p] = "openRead" /\ inner = "open"
  /\ Return(p, base[loc[p].name])
  /\ UNCHANGED <<store, op>>

(* ... then FindByName and ReadByEKey on the inner storage.                 *)
OpenRead(p) ==
  LET n == loc[p].name IN
  /\ pc[p] = "openRead" /\ inner = "open" /\ base[n] # Absent
  /\ Return(p, base[n])
  /\ UNCHANGED <<store, op>>

Reading(p) == pc[p] \in {"openRead", "renRead"}

(* The root handler does not have the name, the storage has been closed, or *)
(* ReadByEKey fails, with whatever error: a partial install, a missing      *)
(* decryption key, a Close between FindByName and ReadByEKey.               *)
ReadFails(p) ==
  /\ Reading(p) /\ inner # "none"
  /\ \/ inner = "closed" /\ Return(p, "unsupported")
     \/ inner = "open" /\ base[loc[p].name] = Absent /\ Return(p, "notfound")
     \/ base[loc[p].name] # Absent /\ Return(p, "failed")
  /\ UNCHANGED <<store, op>>

(* A created storage has no inner storage: FindByName is called on a nil    *)
(* pointer and the goroutine panics.                                        *)
ReadPanics(p) ==
  /\ Reading(p) /\ inner = "none"
  /\ Goto(p, "panic", loc[p])
  /\ UNCHANGED <<store, op>>

------------------------------------------------------------------------------
(* FindFiles: without a root handler only the overlay is listed, and a nil  *)
(* overlay map is an error.                                                 *)
FindStart(p) ==
  /\ Calls(p, "find")
  /\ \/ inner = "open"           /\ Goto(p, "findEnter", NoLocals)
     \/ inner # "open" /\ made   /\ Goto(p, "findSnap", NoLocals)
     \/ inner # "open" /\ ~made  /\ Return(p, "unsupported")
  /\ UNCHANGED store

(* Root.All: s.inner.Root is read a second time, with no lock.              *)
FindEnter(p) ==
  /\ pc[p] = "findEnter" /\ inner = "open"
  /\ Goto(p, "findWalk", [NoLocals EXCEPT !.todo = {n \in Name : base[n] # Absent}])
  /\ UNCHANGED <<store, op>>

FindPanics(p) ==
  /\ pc[p] = "findEnter" /\ inner = "closed"
  /\ Goto(p, "panic", loc[p])
  /\ UNCHANGED <<store, op>>

(* One entry of the root handler: skipped when the overlay has or removes   *)
(* the name, else given to fn, whose FALSE ends the walk over the root.     *)
FindSkip(p, n) ==
  /\ pc[p] = "findWalk" /\ Free /\ n \in loc[p].todo /\ Lookup(n) # "none"
  /\ Goto(p, "findWalk", [loc[p] EXCEPT !.todo = @ \ {n}])
  /\ UNCHANGED <<store, op>>

(* fn is called with n and returns `more`.                                  *)
Yield(p, n, more) ==
  Goto(p, pc[p], [loc[p] EXCEPT !.todo = IF more THEN @ \ {n} ELSE {},
                                !.seen = @ \cup {n},
                                !.stop = @ \/ ~more])

FindVisit(p, n, more) ==
  /\ pc[p] = "findWalk" /\ Free /\ n \in loc[p].todo /\ Lookup(n) = "none"
  /\ Yield(p, n, more)
  /\ UNCHANGED <<store, op>>

FindWalked(p) ==
  /\ pc[p] = "findWalk" /\ loc[p].todo = {}
  /\ Goto(p, "findSnap", loc[p])
  /\ UNCHANGED <<store, op>>

(* Mutant: entries that replace a base file are taken for listed already.   *)
FindSnapshotNew(p) ==
  /\ pc[p] = "findSnap" /\ Free
  /\ Goto(p, "findYield", [loc[p] EXCEPT !.todo = {n \in InOverlay : base[n] = Absent}])
  /\ UNCHANGED <<store, op>>

(* iterOverlay copies the overlay entries under a read lock and gives them  *)
(* to fn after releasing it.                                                *)
FindSnapshot(p) ==
  /\ pc[p] = "findSnap" /\ Free
  /\ Goto(p, "findYield", [loc[p] EXCEPT !.todo = InOverlay])
  /\ UNCHANGED <<store, op>>

FindYield(p, n, more) ==
  /\ pc[p] = "findYield" /\ n \in loc[p].todo
  /\ Yield(p, n, more)
  /\ UNCHANGED <<store, op>>

FindDone(p) ==
  /\ pc[p] = "findYield" /\ loc[p].todo = {}
  /\ Return(p, "ok")
  /\ UNCHANGED <<store, op>>

(* Close drops the root handler; the overlay stays.  Without an inner       *)
(* storage it does nothing.                                                 *)
Close(p) ==
  /\ Calls(p, "close")
  /\ inner' = IF inner = "open" THEN "closed" ELSE inner
  /\ Return(p, "ok")
  /\ UNCHANGED <<overlay, removed, made, base, mu>>

------------------------------------------------------------------------------
Call(p) ==
  \/ \E n \in AddNames, d \in Data : AddFile(p, n, d)
  \/ \E n \in AddNames : AddFileExists(p, n)
  \/ \E n \in RemoveNames : RemoveFile(p, n)
  \/ \E o \in RenameFrom, n \in RenameTo : RenameLock(p, o, n)
  \/ \E n \in Name : OpenFile(p, n)
  \/ FindStart(p)
  \/ Close(p)

Continue(p) ==
  \/ RenameOverlay(p) \/ RenameUnlock(p) \/ RenameLookup(p)
  \/ RenameRead(p) \/ RenameCommit(p)
  \/ OpenRead(p) \/ ReadFails(p) \/ ReadPanics(p)
  \/ FindEnter(p) \/ FindPanics(p)
  \/ \E n \in Name : FindSkip(p, n)
  \/ \E n \in Name, more \in BOOLEAN : FindVisit(p, n, more) \/ FindYield(p, n, more)
  \/ FindWalked(p) \/ FindSnapshot(p) \/ FindDone(p)

(* A panic that nobody recovers ends the program, so no goroutine steps     *)
(* after one.                                                               *)
Running == \A p \in Proc : pc[p] # "panic"

Next == Running /\ \E p \in Proc : Call(p) \/ Continue(p)

Spec == Init /\ [][Next]_vars

(* The Go scheduler runs every goroutine again and again and RWMutex does   *)
(* not starve a waiter, so a call that can go on whenever the lock is free  *)
(* goes on; nothing makes the caller issue another call.                    *)
FairSpec == Spec /\ \A p \in Proc : SF_vars(Continue(p))

------------------------------------------------------------------------------
(* No name is in the overlay and marked removed at the same time: OpenFile  *)
(* would not find such a file, while FindFiles would list it and Flush      *)
(* would write it (write.go:203 and :231, flush.go:80).                     *)
Disjoint == InOverlay \cap removed = {}

(* What the base storage has under a name never comes back once the caller  *)
(* has added, removed or renamed that name: no sequence of calls of any     *)
(* number of goroutines uncovers it (write.go:94-95, :112-118, :154-157,    *)
(* :182-183).                                                               *)
Shadowed == InOverlay \cup removed
ShadowStable == [][Shadowed \subseteq Shadowed']_vars

(* What a reader finds under each name.                                     *)
View == [n \in Name |-> Visible(n)]

(* Every call comes back.  RenameFile calls OpenFile, which locks overlayMu *)
(* again (write.go:163-167), and FindFiles calls back into code that may    *)
(* take the lock (write.go:235-257).                                        *)
CallsReturn == \A p \in Proc : pc[p] # "idle" ~> pc[p] = "idle"

(* The overlay over the base storage implements one map of names, for the   *)
(* callers that change it.                                                  *)
Writers == {p \in Proc : Workload[p] \cap Mutators # {}}

NS == INSTANCE Namespace WITH
        files <- [n \in Name |-> Visible(n)],
        call  <- [p \in Writers |->
                    [op |-> op[p], name |-> loc[p].name, dst |-> loc[p].dst,
                     ret |-> IF pc[p] = "idle" THEN ret[p] ELSE "pending"]],
        Proc  <- Writers
Atomic == NS!Spec

(* What the callers of a storage must observe for Disjoint and Atomic to    *)
(* hold of this code: at most one goroutine changes the storage, and no     *)
(* name that was removed or renamed away is the target of a rename.         *)
OneWriter    == \A p, q \in Writers : p = q
FreshTargets == RenameTo \cap (RemoveNames \cup RenameFrom) = {}

(* Why they hold then: what a call is at tells its method and, of a rename, *)
(* what it knows about its source, which nobody else changes.               *)
RenamePCs == {"renSource", "renLookup", "renRead", "renCommit"}
FindPCs   == {"findEnter", "findWalk", "findSnap", "findYield"}
CallInv == \A p \in Proc :
  /\ op[p] \in Workload[p] \cup {"none"}
  /\ pc[p] \in RenamePCs => op[p] = "rename" /\ loc[p].name \in RenameFrom
                                           /\ loc[p].dst \in RenameTo
  /\ pc[p] = "openRead" => op[p] = "open"
  /\ pc[p] \in FindPCs => op[p] = "find"
SourceInv == \A p \in Proc : LET o == loc[p].name IN
  /\ pc[p] \in RenamePCs \ {"renSource"} => overlay[o] = Absent
  /\ pc[p] \in {"renRead", "renCommit"} => o \notin removed
  /\ pc[p] = "renCommit" => loc[p].data = base[o] /\ base[o] # Absent
SerialInv == /\ TypeOK /\ Disjoint /\ CallInv /\ SourceInv
             /\ removed \subseteq RemoveNames \cup RenameFrom
==============================================================================
