----------------------------- MODULE ArchivePool -----------------------------
(***************************************************************************)
(* The local read path of a mounted storage (internal/storage/lookup.go,    *)
(* storage.go) and the pool of open data.NNN files it reads from            *)
(* (internal/archive/archive.go).  Storage.mu guards `ekeys` and `pool`,    *)
(* the mutex of a pool its files; a read takes one after the other and      *)
(* reads the file under neither, so a Close can come between any two.  One  *)
(* step is one critical section, or the read of the file.                   *)
(***************************************************************************)
EXTENDS Naturals, FiniteSets

CONSTANTS
  Proc,        \* goroutines
  EKey,        \* trimmed encoded keys
  Archive,     \* data.NNN files
  LocalIndex,  \* archive of each key of the local indexes
  Pool, NoPool \* identities of pools, of which a storage makes one at a time

VARIABLES
  ekeys,    \* the merged index is there: Close sets it to nil
  pool,     \* the pool of the storage, or NoPool
  files,    \* files[i]: archives pool i has a handle of
  state,    \* state[i]: "new", "live", or "closed" (its file map is nil)
  handles,  \* open file handles: pairs of a pool and an archive
  span      \* each goroutine's read: its step, key and pool

poolVars == <<ekeys, pool, files, state, handles, span>>

Idle == [pc |-> "idle", key |-> NoPool, pool |-> NoPool]
Reads == [pc : {"idle", "pool", "open", "read"}, key : EKey \cup {NoPool},
          pool : Pool \cup {NoPool}]

PoolType ==
  /\ ekeys \in BOOLEAN /\ pool \in Pool \cup {NoPool}
  /\ files \in [Pool -> SUBSET Archive] /\ state \in [Pool -> {"new", "live", "closed"}]
  /\ handles \in SUBSET (Pool \X Archive) /\ span \in [Proc -> Reads]

PoolInit ==
  /\ ekeys = TRUE /\ pool = NoPool /\ handles = {}
  /\ files = [i \in Pool |-> {}] /\ state = [i \in Pool |-> "new"]
  /\ span = [p \in Proc |-> Idle]

Ends(p) == span' = [span EXCEPT ![p] = Idle]

(* FindByEKey.  A key the indexes do not have, and any key after Close, is  *)
(* a miss, which goes on to the CDN.                                        *)
FindByEKey(p, k) ==
  /\ span[p].pc = "idle" /\ ekeys /\ k \in DOMAIN LocalIndex
  /\ span' = [span EXCEPT ![p] = [Idle EXCEPT !.pc = "pool", !.key = k]]
  /\ UNCHANGED <<ekeys, pool, files, state, handles>>

FindMisses(p, k) ==
  /\ span[p].pc = "idle" /\ ~(ekeys /\ k \in DOMAIN LocalIndex)
  /\ UNCHANGED poolVars

(* archivePool makes the pool when there is none; whether the storage has   *)
(* been closed meanwhile it does not ask.  Without a data directory the     *)
(* read goes on to the CDN as well.                                         *)
TakePool(p) ==
  /\ span[p].pc = "pool" /\ pool # NoPool
  /\ span' = [span EXCEPT ![p].pc = "open", ![p].pool = pool]
  /\ UNCHANGED <<ekeys, pool, files, state, handles>>

MakePool(p) ==
  /\ span[p].pc = "pool" /\ pool = NoPool
  /\ \E i \in Pool :
       /\ state[i] = "new"
       /\ state' = [state EXCEPT ![i] = "live"] /\ pool' = i
       /\ span' = [span EXCEPT ![p].pc = "open", ![p].pool = i]
  /\ UNCHANGED <<ekeys, files, handles>>

NoDataDir(p) ==
  /\ span[p].pc = "pool" /\ pool = NoPool
  /\ Ends(p)
  /\ UNCHANGED <<ekeys, pool, files, state, handles>>

(* Pool.open: the cached handle, or a new one.                              *)
OpenCached(p) ==
  /\ span[p].pc = "open" /\ state[span[p].pool] = "live"
  /\ LocalIndex[span[p].key] \in files[span[p].pool]
  /\ span' = [span EXCEPT ![p].pc = "read"]
  /\ UNCHANGED <<ekeys, pool, files, state, handles>>

(* Mutant: a pool that was closed is used again.                            *)
OpenClosedFile(p) ==
  LET i == span[p].pool  a == LocalIndex[span[p].key] IN
  /\ span[p].pc = "open" /\ a \notin files[i]
  /\ files' = [files EXCEPT ![i] = @ \cup {a}] /\ handles' = handles \cup {<<i, a>>}
  /\ span' = [span EXCEPT ![p].pc = "read"]
  /\ UNCHANGED <<ekeys, pool, state>>

OpenFile(p) ==
  LET i == span[p].pool  a == LocalIndex[span[p].key] IN
  /\ span[p].pc = "open" /\ state[i] = "live" /\ a \notin files[i]
  /\ files' = [files EXCEPT ![i] = @ \cup {a}] /\ handles' = handles \cup {<<i, a>>}
  /\ span' = [span EXCEPT ![p].pc = "read"]
  /\ UNCHANGED <<ekeys, pool, state>>

(* The pool has been closed, or the file cannot be opened.  The error goes  *)
(* to the caller, and not to the CDN.                                       *)
OpenFails(p) ==
  /\ span[p].pc = "open"
  /\ state[span[p].pool] = "closed" \/ LocalIndex[span[p].key] \notin files[span[p].pool]
  /\ Ends(p)
  /\ UNCHANGED <<ekeys, pool, files, state, handles>>

(* ReadAt and the decoding, under no lock.                                  *)
HandleOf(p) == <<span[p].pool, LocalIndex[span[p].key]>>

ReadAt(p) ==
  /\ span[p].pc = "read" /\ HandleOf(p) \in handles
  /\ Ends(p)
  /\ UNCHANGED <<ekeys, pool, files, state, handles>>

(* The handle has been closed, or the span does not decode.                 *)
ReadFails(p) ==
  /\ span[p].pc = "read"
  /\ Ends(p)
  /\ UNCHANGED <<ekeys, pool, files, state, handles>>

(* Mutant: the pool closes its files and keeps them in the map.             *)
CloseKeepsFiles ==
  /\ pool' = NoPool /\ ekeys' = FALSE
  /\ handles' = handles \ ({pool} \X Archive)
  /\ UNCHANGED <<state, files, span>>

(* Storage.Close closes the pool and its files and drops the index.         *)
Close ==
  /\ pool' = NoPool /\ ekeys' = FALSE
  /\ handles' = handles \ ({pool} \X Archive)
  /\ state' = [i \in Pool |-> IF i = pool THEN "closed" ELSE state[i]]
  /\ files' = [i \in Pool |-> IF i = pool THEN {} ELSE files[i]]
  /\ UNCHANGED span

Local(p) == \/ TakePool(p) \/ MakePool(p) \/ OpenCached(p) \/ OpenFile(p) \/ OpenFails(p)
            \/ ReadAt(p) \/ ReadFails(p)

(* The program ends and the next one opens the storage again.               *)
Reopen ==
  /\ ekeys' = TRUE /\ pool' = NoPool /\ handles' = {}
  /\ files' = [i \in Pool |-> {}] /\ state' = [i \in Pool |-> "new"]
  /\ span' = [p \in Proc |-> Idle]

------------------------------------------------------------------------------
(* Every open file belongs to the pool the storage has, so that one more    *)
(* Close always releases everything, whatever reads were in flight at the   *)
(* last one and however many pools they made (storage.go:280-301,           *)
(* archive.go:67-107).                                                      *)
NoOrphan == handles = UNION {{<<i, a>> : a \in files[i]} : i \in {pool} \cap Pool}

(* A handle that a read is about to use is that of its archive, and is open *)
(* unless the pool it came from has been closed since (archive.go:124-138). *)
ReadsOpenFile ==
  \A p \in Proc : span[p].pc = "read" =>
    \/ HandleOf(p) \in handles
    \/ state[span[p].pool] = "closed"
==============================================================================
