----------------------------- MODULE StorageRead -----------------------------
(***************************************************************************)
(* Storage.ReadByEKey (internal/storage/lookup.go): the local indexes and   *)
(* the archive pool first, the CDN for what they miss.  Open loads the      *)
(* archive indexes of the CDN before it returns; from then on any number of *)
(* goroutines read and close.  The program may end at any time, and the     *)
(* next one opens the storage again over the same cache directory.          *)
(***************************************************************************)
EXTENDS Naturals, Sequences, FiniteSets

CONSTANTS Proc, EKey, Archive, LocalIndex, Pool, NoPool,
          Worker, CdnArchives, NoArchive,
          NHosts, Behaviour, FirstOf, Garbage, Nothing, Torn,
          Online      \* Options.Online, and hosts in .build.info: a set of Booleans

ASSUME LocalIndexAssumption == /\ DOMAIN LocalIndex \subseteq EKey
                               /\ \A k \in DOMAIN LocalIndex : LocalIndex[k] \in Archive
ASSUME NoPoolAssumption == NoPool \notin Pool \cup EKey
ASSUME CdnAssumption == /\ NHosts \in Nat \ {0} /\ Online \subseteq BOOLEAN
                        /\ Behaviour \subseteq {"good", "down", "garbage", "norange"}
                        /\ CdnArchives \in Seq(SUBSET EKey)
                        /\ FirstOf \in [DOMAIN CdnArchives -> EKey]
                        /\ NoArchive \notin DOMAIN CdnArchives
ASSUME BodyAssumption == /\ Cardinality({Garbage, Nothing, Torn}) = 3
                         /\ {Garbage, Nothing, Torn} \cap EKey = {}
                         /\ {"unreachable", "corrupt", "none"} \cap EKey = {}

VARIABLES ekeys, pool, files, state, handles, span,
          next, job, step, good, results, failed, byEKey,
          host, cache, call,
          online,     \* s.CDN # nil
          loading     \* Open has not returned

Local == INSTANCE ArchivePool
Index == INSTANCE ArchiveIndexLoad
Cdn   == INSTANCE CdnFetch

poolVars == <<ekeys, pool, files, state, handles, span>>
loadVars == <<next, job, step, good, results, failed, byEKey>>
cdnVars  == <<host, cache, call>>
vars == <<poolVars, loadVars, cdnVars, online, loading>>

TypeOK == /\ Local!PoolType /\ Index!LoadType /\ Cdn!CdnType
          /\ online \in BOOLEAN /\ loading \in BOOLEAN

(* A CDN config there is not, or one without archives, is not waited for.   *)
Init == /\ Local!PoolInit /\ Index!LoadInit /\ Cdn!CdnInit
        /\ online \in Online /\ loading \in {FALSE, online}

(* Open: loadCDNArchiveIndexes.                                             *)
LoadArchiveIndexes ==
  /\ loading /\ (\E w \in Worker : Index!Work(w))
  /\ UNCHANGED <<poolVars, cdnVars, online, loading>>

Opened ==
  /\ loading /\ Index!Merge
  /\ loading' = FALSE
  /\ UNCHANGED <<poolVars, cdnVars, online>>

Free(p) == ~loading /\ span[p].pc = "idle" /\ call[p].pc = "idle"

(* ReadByEKeyContext: a key of the local indexes.  What the last call       *)
(* returned is forgotten.                                                   *)
ReadLocal(p, k) ==
  /\ Free(p) /\ Local!FindByEKey(p, k)
  /\ call' = [call EXCEPT ![p] = Cdn!NoCall]
  /\ UNCHANGED <<loadVars, host, cache, online, loading>>

(* A key that they do not have, or any key once the storage is closed.      *)
(* Offline the read ends there, and nothing has changed.                    *)
ReadCdn(p, k) ==
  /\ Free(p) /\ online /\ Local!FindMisses(p, k)
  /\ Cdn!Ask(p, k, byEKey[k])
  /\ UNCHANGED <<loadVars, online, loading>>

(* A key that they have, and no archive in the data directory.              *)
ReadCdnInstead(p) ==
  /\ Local!NoDataDir(p)
  /\ IF online THEN Cdn!Ask(p, span[p].key, byEKey[span[p].key]) ELSE UNCHANGED cdnVars
  /\ UNCHANGED <<loadVars, online, loading>>

ReadSpan(p) ==
  /\ Local!Local(p)
  /\ UNCHANGED <<loadVars, cdnVars, online, loading>>

Fetch(p) ==
  /\ Cdn!Remote(p)
  /\ UNCHANGED <<poolVars, loadVars, online, loading>>

Close ==
  /\ ~loading /\ Local!Close
  /\ UNCHANGED <<loadVars, cdnVars, online, loading>>

HostChanges ==
  /\ \E h \in Cdn!Host, b \in Behaviour : Cdn!HostChanges(h, b)
  /\ UNCHANGED <<poolVars, loadVars, online, loading>>

Restart ==
  /\ Local!Reopen /\ Index!Reload /\ Cdn!Stop
  /\ online' \in Online /\ loading' \in {FALSE, online'}

Next ==
  \/ LoadArchiveIndexes \/ Opened
  \/ \E p \in Proc : \/ \E k \in EKey : ReadLocal(p, k) \/ ReadCdn(p, k)
                     \/ ReadCdnInstead(p) \/ ReadSpan(p) \/ Fetch(p)
  \/ Close \/ HostChanges \/ Restart

Spec == Init /\ [][Next]_vars

------------------------------------------------------------------------------
(* The properties of the parts, under the names the runs check.             *)

(* ArchivePool: every open file belongs to the pool the storage has, so     *)
(* that Close always releases everything (storage.go:280-301).              *)
NoOrphan == Local!NoOrphan

(* ArchivePool: no read uses a handle that was closed under it, unless its  *)
(* pool was (archive.go:124-138).                                           *)
ReadsOpenFile == Local!ReadsOpenFile

(* ArchiveIndexLoad: loading the archive indexes cannot hang in a send      *)
(* (cdn_archives.go:79-110).                                                *)
NeverBlocksOnSend == Index!NeverBlocksOnSend

(* ArchiveIndexLoad: every archive arrives once (cdn_archives.go:81-125).   *)
EachOnce == Index!EachOnce

(* CdnFetch: no part of a blob, nor another key's, is ever in the cache     *)
(* (cache.go:51-81).                                                        *)
CacheComplete == Cdn!CacheComplete

(* CdnFetch: a read returns the content of another key only when a host     *)
(* answers a request for a range with the whole archive                     *)
(* (cdn_archives.go:140-184, client.go:137).                                *)
RightContent == Cdn!RightContent

(* CdnFetch: a fetch gives up only when no host stayed reachable during the *)
(* call (client.go:110-147).                                                *)
TriesEveryHost == Cdn!TriesEveryHost
==============================================================================
