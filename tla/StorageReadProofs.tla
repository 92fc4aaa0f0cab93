-------------------------- MODULE StorageReadProofs --------------------------
(***************************************************************************)
(* Proofs about StorageRead, for any number of goroutines, pools, archives, *)
(* loaders and hosts: the pool of open files, the loading of the archive    *)
(* indexes and the fetch from the CDN each keep an invariant of their own,  *)
(* and every step of the storage is a step of each of them or leaves it     *)
(* alone.                                                                   *)
(***************************************************************************)
EXTENDS StorageRead, FiniteSetTheorems, WellFoundedInduction, TLAPS

------------------------------------------------------------------------------
(* The pool: at most one is live, it is the one the storage has, and only   *)
(* it has files and handles.                                                *)
OneLivePool ==
  /\ \A i \in Pool : state[i] = "live" <=> i = pool
  /\ \A i \in Pool : i # pool => files[i] = {}
  /\ \A i \in Pool, a \in Archive : <<i, a>> \in handles <=> a \in files[i]

(* A read has a key of the local indexes, and past archivePool a pool that  *)
(* was made; one that has a file has it until its pool is closed.           *)
SpanOK(r) ==
  /\ r.pc # "idle" => r.key \in DOMAIN LocalIndex
  /\ r.pc \in {"open", "read"} => r.pool \in Pool /\ state[r.pool] # "new"
  /\ r.pc = "read" => \/ state[r.pool] = "closed"
                      \/ LocalIndex[r.key] \in files[r.pool]

PoolInv == Local!PoolType /\ OneLivePool /\ \A p \in Proc : SpanOK(span[p])

(* What a step of the storage may do to the pool.                           *)
PoolNext ==
  \/ \E p \in Proc, k \in EKey : Local!FindByEKey(p, k)
  \/ \E p \in Proc : Local!NoDataDir(p) \/ Local!Local(p)
  \/ Local!Close \/ Local!Reopen
  \/ UNCHANGED poolVars

LEMMA PoolSteps == Next => PoolNext
  BY DEF Next, PoolNext, LoadArchiveIndexes, Opened, ReadLocal, ReadCdn, ReadCdnInstead,
         ReadSpan, Fetch, Close, HostChanges, Restart, Local!FindMisses,
         poolVars, Local!poolVars

LEMMA PoolStart == Init => PoolInv
  BY NoPoolAssumption
  DEF Init, Local!PoolInit, PoolInv, Local!PoolType, Local!Reads, Local!Idle, OneLivePool, SpanOK

(* A read that goes on, under any invariant pool.                           *)
LEMMA SpanGoesOn ==
  ASSUME PoolInv, NEW p \in Proc, NEW r \in Local!Reads, SpanOK(r),
         span' = [span EXCEPT ![p] = r], UNCHANGED <<ekeys, pool, files, state, handles>>
  PROVE  PoolInv'
<1>1. Local!PoolType'
  BY DEF PoolInv, Local!PoolType
<1>2. OneLivePool'
  BY DEF PoolInv, OneLivePool
<1>3. \A q \in Proc : SpanOK(span[q])'
  BY DEF PoolInv, Local!PoolType, SpanOK
<1> QED
  BY <1>1, <1>2, <1>3 DEF PoolInv

LEMMA SpanEnds ==
  ASSUME PoolInv, NEW p \in Proc, Local!Ends(p),
         UNCHANGED <<ekeys, pool, files, state, handles>>
  PROVE  PoolInv'
<1>1. Local!Idle \in Local!Reads /\ SpanOK(Local!Idle)
  BY DEF Local!Idle, Local!Reads, SpanOK
<1> QED
  BY <1>1, SpanGoesOn DEF Local!Ends

LEMMA MakePoolStep ==
  ASSUME PoolInv, NEW p \in Proc, Local!MakePool(p)
  PROVE  PoolInv'
<1>1. PICK i \in Pool :
        /\ state[i] = "new"
        /\ state' = [state EXCEPT ![i] = "live"] /\ pool' = i
        /\ span' = [span EXCEPT ![p].pc = "open", ![p].pool = i]
  BY DEF Local!MakePool
<1>2. span[p].pc = "pool" /\ pool = NoPool /\ UNCHANGED <<ekeys, files, handles>>
  BY DEF Local!MakePool
<1>3. Local!PoolType'
  BY <1>1, <1>2, ZenonT(60) DEF PoolInv, Local!PoolType, Local!Reads
<1>4. OneLivePool'
  BY <1>1, <1>2, NoPoolAssumption DEF PoolInv, Local!PoolType, OneLivePool
<1>5. ASSUME NEW q \in Proc PROVE SpanOK(span[q])'
  BY <1>1, <1>2 DEF PoolInv, Local!PoolType, Local!Reads, SpanOK
<1> QED
  BY <1>3, <1>4, <1>5 DEF PoolInv

LEMMA OpenFileStep ==
  ASSUME PoolInv, NEW p \in Proc, Local!OpenFile(p)
  PROVE  PoolInv'
<1> DEFINE i == span[p].pool
           a == LocalIndex[span[p].key]
<1>1. i \in Pool /\ a \in Archive /\ i = pool
  BY LocalIndexAssumption DEF PoolInv, SpanOK, OneLivePool, Local!OpenFile
<1>2. /\ files' = [files EXCEPT ![i] = @ \cup {a}] /\ handles' = handles \cup {<<i, a>>}
      /\ span' = [span EXCEPT ![p].pc = "read"]
      /\ span[p].pc = "open" /\ UNCHANGED <<ekeys, pool, state>>
  BY DEF Local!OpenFile
<1> HIDE DEF a
<1>3. Local!PoolType'
  BY <1>1, <1>2 DEF PoolInv, Local!PoolType, Local!Reads
<1>4. OneLivePool'
  BY <1>1, <1>2 DEF PoolInv, Local!PoolType, OneLivePool
<1>5. ASSUME NEW q \in Proc PROVE SpanOK(span[q])'
  BY <1>1, <1>2 DEF PoolInv, Local!PoolType, Local!Reads, SpanOK, a
<1> QED
  BY <1>3, <1>4, <1>5 DEF PoolInv

LEMMA CloseStep == ASSUME PoolInv, Local!Close PROVE PoolInv'
<1>1. Local!PoolType'
  BY DEF PoolInv, Local!PoolType, Local!Close
<1>2. OneLivePool'
  BY NoPoolAssumption DEF PoolInv, Local!PoolType, OneLivePool, Local!Close
<1>3. ASSUME NEW q \in Proc PROVE SpanOK(span[q])'
  BY DEF PoolInv, Local!PoolType, OneLivePool, SpanOK, Local!Close
<1> QED
  BY <1>1, <1>2, <1>3 DEF PoolInv

LEMMA LocalStep ==
  ASSUME PoolInv, NEW p \in Proc, Local!Local(p)
  PROVE  PoolInv'
<1>1. CASE Local!TakePool(p)
  <2> DEFINE r == [span[p] EXCEPT !.pc = "open", !.pool = pool]
  <2>1. span[p] \in Local!Reads /\ span[p].pc = "pool" /\ pool \in Pool /\ state[pool] = "live"
    BY <1>1 DEF PoolInv, Local!PoolType, OneLivePool, Local!TakePool
  <2>2. r \in Local!Reads /\ r.pc = "open" /\ r.pool = pool /\ r.key = span[p].key
    BY <2>1 DEF Local!Reads
  <2>3. span[p].key \in DOMAIN LocalIndex
    BY <2>1 DEF PoolInv, SpanOK
  <2>4. r \in Local!Reads /\ SpanOK(r)
    BY <2>1, <2>2, <2>3 DEF SpanOK
  <2>5. span' = [span EXCEPT ![p] = r]
    BY <1>1 DEF Local!TakePool, PoolInv, Local!PoolType
  <2> QED
    BY <1>1, <2>4, <2>5, SpanGoesOn DEF Local!TakePool
<1>2. CASE Local!MakePool(p)
  BY <1>2, MakePoolStep
<1>3. CASE Local!OpenCached(p)
  <2> DEFINE r == [span[p] EXCEPT !.pc = "read"]
  <2>1. r \in Local!Reads /\ SpanOK(r)
    BY <1>3 DEF PoolInv, Local!PoolType, Local!Reads, SpanOK, Local!OpenCached
  <2>2. span' = [span EXCEPT ![p] = r]
    BY <1>3 DEF Local!OpenCached, PoolInv, Local!PoolType
  <2> QED
    BY <1>3, <2>1, <2>2, SpanGoesOn DEF Local!OpenCached
<1>4. CASE Local!OpenFile(p)
  BY <1>4, OpenFileStep
<1>5. CASE Local!OpenFails(p) \/ Local!ReadAt(p) \/ Local!ReadFails(p)
  BY <1>5, SpanEnds DEF Local!OpenFails, Local!ReadAt, Local!ReadFails
<1> QED
  BY <1>1, <1>2, <1>3, <1>4, <1>5 DEF Local!Local

LEMMA PoolKept == ASSUME PoolInv, PoolNext PROVE PoolInv'
<1>1. ASSUME NEW p \in Proc, NEW k \in EKey, Local!FindByEKey(p, k) PROVE PoolInv'
  <2> DEFINE r == [Local!Idle EXCEPT !.pc = "pool", !.key = k]
  <2>1. r \in Local!Reads /\ SpanOK(r)
    BY <1>1 DEF Local!Idle, Local!Reads, SpanOK, Local!FindByEKey
  <2> QED
    BY <1>1, <2>1, SpanGoesOn DEF Local!FindByEKey
<1>2. ASSUME NEW p \in Proc, Local!NoDataDir(p) PROVE PoolInv'
  BY <1>2, SpanEnds DEF Local!NoDataDir
<1>3. ASSUME NEW p \in Proc, Local!Local(p) PROVE PoolInv'
  BY <1>3, LocalStep
<1>4. CASE Local!Close
  BY <1>4, CloseStep
<1>5. CASE Local!Reopen
  BY <1>5, NoPoolAssumption
  DEF Local!Reopen, PoolInv, Local!PoolType, Local!Reads, Local!Idle, OneLivePool, SpanOK
<1>6. CASE UNCHANGED poolVars
  BY <1>6 DEF poolVars, PoolInv, Local!PoolType, OneLivePool, SpanOK
<1> QED
  BY <1>1, <1>2, <1>3, <1>4, <1>5, <1>6 DEF PoolNext

------------------------------------------------------------------------------
(* The CDN: a fetch knows its key and has no result yet; what it caches is  *)
(* that key or does not decode; a host that stayed reachable is one that it *)
(* has still to try.                                                        *)
CallOK(c) ==
  /\ c.pc # "idle" => c.key \in EKey /\ c.ret = "none"
  /\ c.pc = "range" => c.arch \in DOMAIN FirstOf
  /\ c.pc \in {"temp", "write", "rename"} => c.body \in {c.key, Garbage}
  /\ c.pc = "rename" => c.tmp \in {c.key, Garbage}
  /\ \A h \in c.up : h >= c.try /\ host[h] # "down"

FetchInv == Cdn!CdnType /\ Cdn!CacheComplete /\ \A p \in Proc : CallOK(call[p])

Forgets(p) == /\ call[p].pc = "idle" /\ call' = [call EXCEPT ![p] = Cdn!NoCall]
              /\ UNCHANGED <<host, cache>>

(* What a step of the storage may do to the fetches.                        *)
FetchNext ==
  \/ \E p \in Proc, k \in EKey, a \in DOMAIN FirstOf \cup {NoArchive} : Cdn!Ask(p, k, a)
  \/ \E p \in Proc : Forgets(p) \/ Cdn!Remote(p)
  \/ \E h \in Cdn!Host, b \in Behaviour : Cdn!HostChanges(h, b)
  \/ Cdn!Stop
  \/ UNCHANGED cdnVars

LEMMA Hosts == NHosts \in Nat \ {0} /\ 1 \in Cdn!Host
  BY CdnAssumption DEF Cdn!Host

LEMMA NoCallOK == Cdn!NoCall \in Cdn!CdnCalls /\ CallOK(Cdn!NoCall)
  BY CdnAssumption DEF Cdn!NoCall, Cdn!CdnCalls, Cdn!Host, Cdn!Body, CallOK

LEMMA FetchStart == Init => FetchInv
<1> SUFFICES ASSUME Init PROVE FetchInv
  OBVIOUS
<1>1. /\ host \in [Cdn!Host -> Behaviour] /\ cache = [k \in EKey |-> Nothing]
      /\ call = [p \in Proc |-> Cdn!NoCall]
  BY DEF Init, Cdn!CdnInit
<1>2. Cdn!CdnType /\ Cdn!CacheComplete
  BY <1>1, NoCallOK DEF Cdn!CdnType, Cdn!CacheComplete
<1> QED
  BY <1>1, <1>2, NoCallOK DEF FetchInv

(* One call changes, the hosts and the cache do not.                        *)
LEMMA CallChanges ==
  ASSUME FetchInv, NEW p \in Proc, NEW c \in Cdn!CdnCalls, CallOK(c),
         call' = [call EXCEPT ![p] = c], UNCHANGED <<host, cache>>
  PROVE  FetchInv'
<1>1. Cdn!CdnType' /\ Cdn!CacheComplete'
  BY DEF FetchInv, Cdn!CdnType, Cdn!CacheComplete
<1>2. \A q \in Proc : CallOK(call[q])'
  BY DEF FetchInv, Cdn!CdnType, CallOK
<1> QED
  BY <1>1, <1>2 DEF FetchInv

LEMMA ResultOK ==
  ASSUME NEW r \in EKey \cup {"unreachable", "corrupt"}
  PROVE  LET c == [Cdn!NoCall EXCEPT !.ret = r] IN c \in Cdn!CdnCalls /\ CallOK(c)
  BY NoCallOK DEF Cdn!NoCall, Cdn!CdnCalls, Cdn!Failures, CallOK

LEMMA DecodedIs ==
  ASSUME NEW body PROVE /\ Cdn!Decoded(body) \in EKey \cup {"corrupt"}
                        /\ Cdn!Decoded(body) \in EKey => Cdn!Decoded(body) = body
  BY BodyAssumption DEF Cdn!Decoded

LEMMA GivesKept ==
  ASSUME FetchInv, NEW p \in Proc, NEW r \in EKey \cup {"unreachable", "corrupt"},
         Cdn!Gives(p, r), UNCHANGED <<host, cache>>
  PROVE  FetchInv'
  BY ResultOK, CallChanges DEF Cdn!Gives

LEMMA AnswersIs ==
  ASSUME FetchInv, NEW p \in Proc, NEW h \in Cdn!Host, Cdn!Fetching(p)
  PROVE  /\ Cdn!Answers(h, p) \in EKey \cup {Garbage}
         /\ call[p].pc = "flat" \/ host[h] # "norange" =>
              Cdn!Answers(h, p) \in {call[p].key, Garbage}
<1>1. host[h] \in Behaviour /\ CallOK(call[p])
  BY DEF FetchInv, Cdn!CdnType
<1>2. CASE call[p].pc = "range"
  BY <1>1, <1>2, CdnAssumption DEF CallOK, Cdn!Answers
<1>3. CASE call[p].pc = "flat"
  BY <1>1, <1>3 DEF CallOK, Cdn!Answers
<1> QED
  BY <1>2, <1>3 DEF Cdn!Fetching

LEMMA AskStep ==
  ASSUME FetchInv, NEW p \in Proc, NEW k \in EKey, NEW a \in DOMAIN FirstOf \cup {NoArchive},
         Cdn!Ask(p, k, a)
  PROVE  FetchInv'
<1> DEFINE c == [Cdn!NoCall EXCEPT !.pc = IF a = NoArchive THEN "cache" ELSE "range",
                                   !.key = k, !.arch = a,
                                   !.up = {h \in Cdn!Host : host[h] # "down"}]
<1>1. c \in Cdn!CdnCalls
  BY NoCallOK DEF Cdn!NoCall, Cdn!CdnCalls
<1>2. CallOK(c)
  BY CdnAssumption DEF Cdn!NoCall, Cdn!Host, CallOK
<1> QED
  BY <1>1, <1>2, CallChanges DEF Cdn!Ask

LEMMA NextHostStep == ASSUME FetchInv, NEW p \in Proc, Cdn!NextHost(p) PROVE FetchInv'
<1>1. CASE call[p].try = NHosts
  BY <1>1, GivesKept DEF Cdn!NextHost
<1>2. CASE call[p].try # NHosts
  <2> DEFINE c == [call[p] EXCEPT !.try = @ + 1]
  <2>1. call[p] \in Cdn!CdnCalls /\ CallOK(call[p])
    BY DEF FetchInv, Cdn!CdnType
  <2>2. c \in Cdn!CdnCalls
    <3>1. call[p].try \in Cdn!Host
      BY <2>1 DEF Cdn!CdnCalls
    <3>2. call[p].try + 1 \in Cdn!Host
      BY <1>2, <3>1, Hosts DEF Cdn!Host
    <3> QED
      BY <2>1, <3>2 DEF Cdn!CdnCalls
  <2>3. \A h \in c.up : h >= c.try /\ host[h] # "down"
    BY <2>1 DEF CallOK, Cdn!NextHost, Cdn!CdnCalls, Cdn!Host
  <2>4. CallOK(c)
    BY <2>1, <2>3 DEF CallOK, Cdn!CdnCalls
  <2> QED
    BY <1>2, <2>1, <2>2, <2>4, CallChanges DEF Cdn!NextHost, FetchInv, Cdn!CdnType
<1> QED
  BY <1>1, <1>2

LEMMA RenameStep == ASSUME FetchInv, NEW p \in Proc, Cdn!Rename(p) PROVE FetchInv'
<1> DEFINE r == Cdn!Decoded(call[p].body)
           c == [Cdn!NoCall EXCEPT !.ret = r]
<1>1. c \in Cdn!CdnCalls /\ CallOK(c)
  BY DecodedIs, ResultOK
<1>2. call[p].key \in EKey /\ call[p].tmp \in {call[p].key, Garbage}
  BY DEF FetchInv, CallOK, Cdn!Rename
<1>3. /\ call' = [call EXCEPT ![p] = c] /\ host' = host
      /\ cache' = [cache EXCEPT ![call[p].key] = call[p].tmp]
  BY DEF Cdn!Rename, Cdn!Gives
<1> HIDE DEF c
<1>4. Cdn!CdnType'
  BY <1>1, <1>2, <1>3 DEF FetchInv, Cdn!CdnType, Cdn!Body
<1>5. Cdn!CacheComplete'
  BY <1>2, <1>3 DEF FetchInv, Cdn!CdnType, Cdn!CacheComplete
<1>6. \A q \in Proc : CallOK(call[q])'
  BY <1>1, <1>3 DEF FetchInv, Cdn!CdnType, CallOK
<1> QED
  BY <1>4, <1>5, <1>6 DEF FetchInv

LEMMA RemoteStep == ASSUME FetchInv, NEW p \in Proc, Cdn!Remote(p) PROVE FetchInv'
<1>1. call[p] \in Cdn!CdnCalls /\ CallOK(call[p]) /\ call \in [Proc -> Cdn!CdnCalls]
  BY DEF FetchInv, Cdn!CdnType
<1>2. CASE Cdn!CacheHit(p)
  BY <1>2, DecodedIs, GivesKept DEF Cdn!CacheHit
<1>3. CASE Cdn!CacheMiss(p)
  <2> DEFINE c == [call[p] EXCEPT !.pc = "flat"]
  <2>1. c \in Cdn!CdnCalls /\ CallOK(c)
    BY <1>1, <1>3 DEF Cdn!CdnCalls, CallOK, Cdn!CacheMiss
  <2> QED
    BY <1>1, <1>3, <2>1, CallChanges DEF Cdn!CacheMiss
<1>4. CASE Cdn!NextHost(p)
  BY <1>4, NextHostStep
<1>5. CASE Cdn!RangeArrives(p)
  BY <1>5, DecodedIs, GivesKept DEF Cdn!RangeArrives
<1>6. CASE Cdn!BlobArrives(p)
  <2> DEFINE c == [call[p] EXCEPT !.pc = "temp", !.body = Cdn!Answers(call[p].try, p),
                                  !.try = 1, !.up = {}]
  <2>1. Cdn!Fetching(p) /\ call[p].pc = "flat" /\ call[p].try \in Cdn!Host
    BY <1>1, <1>6 DEF Cdn!BlobArrives, Cdn!Fetching, Cdn!CdnCalls
  <2>2. Cdn!Answers(call[p].try, p) \in {call[p].key, Garbage}
    BY <2>1, AnswersIs
  <2>3. call[p].key \in EKey
    BY <1>1, <2>1 DEF CallOK
  <2>4. c \in Cdn!CdnCalls
    BY <1>1, <2>1, <2>2, <2>3, Hosts DEF Cdn!CdnCalls, Cdn!Body
  <2>5. CallOK(c)
    BY <1>1, <2>1, <2>2 DEF Cdn!CdnCalls, CallOK
  <2>6. call' = [call EXCEPT ![p] = c]
    BY <1>1, <1>6 DEF Cdn!BlobArrives
  <2> QED
    BY <1>6, <2>4, <2>5, <2>6, CallChanges DEF Cdn!BlobArrives
<1>7. CASE Cdn!CreateTemp(p)
  <2> DEFINE c == [call[p] EXCEPT !.pc = "write", !.tmp = Torn]
  <2>1. c \in Cdn!CdnCalls /\ CallOK(c)
    BY <1>1, <1>7 DEF Cdn!CdnCalls, CallOK, Cdn!CreateTemp
  <2> QED
    BY <1>1, <1>7, <2>1, CallChanges DEF Cdn!CreateTemp
<1>8. CASE Cdn!WriteTemp(p)
  <2> DEFINE c == [call[p] EXCEPT !.pc = "rename", !.tmp = call[p].body]
  <2>1. c \in Cdn!CdnCalls /\ CallOK(c)
    BY <1>1, <1>8 DEF Cdn!CdnCalls, CallOK, Cdn!WriteTemp
  <2> QED
    BY <1>1, <1>8, <2>1, CallChanges DEF Cdn!WriteTemp
<1>9. CASE Cdn!Rename(p)
  BY <1>9, RenameStep
<1>10. CASE Cdn!CacheWriteFails(p)
  BY <1>10, DecodedIs, GivesKept DEF Cdn!CacheWriteFails
<1> QED
  BY <1>2, <1>3, <1>4, <1>5, <1>6, <1>7, <1>8, <1>9, <1>10 DEF Cdn!Remote

LEMMA HostStep ==
  ASSUME FetchInv, NEW h \in Cdn!Host, NEW b \in Behaviour, Cdn!HostChanges(h, b)
  PROVE  FetchInv'
<1>1. /\ host' = [host EXCEPT ![h] = b] /\ cache' = cache
      /\ call' = [p \in Proc |-> IF b = "down" THEN [call[p] EXCEPT !.up = @ \ {h}] ELSE call[p]]
  BY DEF Cdn!HostChanges
<1>2. ASSUME NEW p \in Proc
      PROVE  /\ call'[p] \in Cdn!CdnCalls
             /\ call'[p] = [call[p] EXCEPT !.up = call'[p].up]
             /\ call'[p].up = IF b = "down" THEN call[p].up \ {h} ELSE call[p].up
  BY <1>1, ZenonT(60) DEF FetchInv, Cdn!CdnType, Cdn!CdnCalls
<1>3. Cdn!CdnType' /\ Cdn!CacheComplete'
  BY <1>1, <1>2 DEF FetchInv, Cdn!CdnType, Cdn!CacheComplete
<1>4. ASSUME NEW p \in Proc PROVE CallOK(call[p])'
  <2>1. call[p] \in Cdn!CdnCalls /\ CallOK(call[p])
    BY DEF FetchInv, Cdn!CdnType
  <2>2. \A g \in call'[p].up : g >= call[p].try /\ host'[g] # "down"
    BY <1>1, <1>2, <2>1 DEF FetchInv, Cdn!CdnType, Cdn!CdnCalls, CallOK
  <2> QED
    BY <1>2, <2>1, <2>2, ZenonT(60) DEF CallOK, Cdn!CdnCalls
<1> QED
  BY <1>3, <1>4 DEF FetchInv

LEMMA FetchKept == ASSUME FetchInv, FetchNext PROVE FetchInv'
<1>1. ASSUME NEW p \in Proc, Forgets(p) PROVE FetchInv'
  BY <1>1, NoCallOK, CallChanges DEF Forgets
<1>2. CASE Cdn!Stop
  BY <1>2, NoCallOK DEF Cdn!Stop, FetchInv, Cdn!CdnType, Cdn!CacheComplete, CallOK
<1>3. CASE UNCHANGED cdnVars
  BY <1>3 DEF cdnVars, FetchInv, Cdn!CdnType, Cdn!CacheComplete, CallOK
<1> QED
  BY <1>1, <1>2, <1>3, AskStep, RemoteStep, HostStep DEF FetchNext

(* What a fetch gives back, on any step: nothing, but by a step of its own. *)
LEMMA OthersGiveNothing ==
  ASSUME FetchInv, FetchNext, ~\E q \in Proc : Cdn!Remote(q), NEW p \in Proc, call[p].pc # "idle"
  PROVE  call'[p].ret = "none"
<1>1. call[p] \in Cdn!CdnCalls /\ call[p].ret = "none" /\ call \in [Proc -> Cdn!CdnCalls]
  BY DEF FetchInv, Cdn!CdnType, CallOK
<1>2. ASSUME NEW q \in Proc, NEW k, NEW a, Cdn!Ask(q, k, a) PROVE call'[p].ret = "none"
  BY <1>1, <1>2 DEF Cdn!Ask, Cdn!NoCall
<1>3. ASSUME NEW q \in Proc, Forgets(q) PROVE call'[p].ret = "none"
  BY <1>1, <1>3 DEF Forgets, Cdn!NoCall
<1>4. ASSUME NEW h, NEW b, Cdn!HostChanges(h, b) PROVE call'[p].ret = "none"
  BY <1>1, <1>4 DEF Cdn!HostChanges, Cdn!CdnCalls
<1>5. CASE Cdn!Stop \/ UNCHANGED cdnVars
  BY <1>1, <1>5 DEF Cdn!Stop, cdnVars, Cdn!NoCall
<1> QED
  BY <1>2, <1>3, <1>4, <1>5 DEF FetchNext

LEMMA GivesUp ==
  ASSUME FetchInv, FetchNext, NEW p \in Proc,
         call'[p].ret = "unreachable", call[p].pc # "idle"
  PROVE  call[p].up = {}
<1>1. call[p] \in Cdn!CdnCalls /\ CallOK(call[p]) /\ call \in [Proc -> Cdn!CdnCalls]
  BY DEF FetchInv, Cdn!CdnType
<1>2. call[p].ret = "none"
  BY <1>1 DEF CallOK
<1>3. ASSUME NEW q \in Proc, Cdn!Remote(q) PROVE call[p].up = {}
  <2>1. p = q
    BY <1>1, <1>2, <1>3 DEF Cdn!Remote, Cdn!CacheHit, Cdn!CacheMiss, Cdn!NextHost,
      Cdn!RangeArrives, Cdn!BlobArrives, Cdn!CreateTemp, Cdn!WriteTemp, Cdn!Rename,
      Cdn!CacheWriteFails, Cdn!Gives
  <2>2. ASSUME NEW body PROVE ~Cdn!Gives(p, Cdn!Decoded(body))
    BY <1>1, DecodedIs, BodyAssumption DEF Cdn!Gives, Cdn!NoCall
  <2>3. Cdn!NextHost(p) /\ call[p].try = NHosts
    BY <1>1, <1>2, <1>3, <2>1, <2>2 DEF Cdn!Remote, Cdn!CacheHit, Cdn!CacheMiss, Cdn!NextHost,
      Cdn!RangeArrives, Cdn!BlobArrives, Cdn!CreateTemp, Cdn!WriteTemp, Cdn!Rename,
      Cdn!CacheWriteFails, Cdn!CdnCalls
  <2>4. \A h \in call[p].up : h \in 1..NHosts /\ h >= NHosts /\ h # NHosts
    BY <1>1, <2>3 DEF Cdn!NextHost, CallOK, Cdn!CdnCalls, Cdn!Host
  <2> QED
    BY <2>4, Hosts
<1> QED
  BY <1>3, OthersGiveNothing

LEMMA GivesRight ==
  ASSUME FetchInv, FetchNext, NEW p \in Proc, ~Cdn!RangeIgnored(p),
         call[p].pc # "idle", call'[p].pc = "idle", call'[p].ret \in EKey
  PROVE  call'[p].ret = call[p].key
<1>1. call[p] \in Cdn!CdnCalls /\ CallOK(call[p]) /\ call \in [Proc -> Cdn!CdnCalls]
  BY DEF FetchInv, Cdn!CdnType
<1>2. call[p].key \in EKey /\ call[p].ret = "none" /\ "none" \notin EKey /\ Garbage \notin EKey
      /\ "unreachable" \notin EKey
  BY <1>1, BodyAssumption DEF CallOK
<1>3. ASSUME NEW q \in Proc, Cdn!Remote(q) PROVE call'[p].ret = call[p].key
  <2>1. p = q
    BY <1>1, <1>2, <1>3 DEF Cdn!Remote, Cdn!CacheHit, Cdn!CacheMiss, Cdn!NextHost,
      Cdn!RangeArrives, Cdn!BlobArrives, Cdn!CreateTemp, Cdn!WriteTemp, Cdn!Rename,
      Cdn!CacheWriteFails, Cdn!Gives
  <2>2. ASSUME NEW body \in {call[p].key, Garbage, Nothing}, Cdn!Gives(p, Cdn!Decoded(body))
        PROVE  call'[p].ret = call[p].key
    <3>1. call'[p].ret = Cdn!Decoded(body)
      BY <1>1, <2>2 DEF Cdn!Gives, Cdn!NoCall
    <3> QED
      BY <1>2, <3>1, DecodedIs, BodyAssumption
  <2>3. CASE Cdn!CacheHit(p)
    <3>1. cache[call[p].key] \in {call[p].key, Garbage, Nothing}
      BY <1>2 DEF FetchInv, Cdn!CacheComplete
    <3> QED
      BY <2>2, <2>3, <3>1 DEF Cdn!CacheHit
  <2>4. CASE Cdn!RangeArrives(p)
    <3>1. call[p].try \in Cdn!Host /\ Cdn!Fetching(p)
      BY <1>1, <2>4 DEF Cdn!CdnCalls, Cdn!RangeArrives, Cdn!Fetching
    <3>2. Cdn!Answers(call[p].try, p) \in {call[p].key, Garbage}
      BY <2>4, <3>1, AnswersIs DEF Cdn!RangeIgnored, Cdn!RangeArrives
    <3> QED
      BY <2>2, <2>4, <3>2 DEF Cdn!RangeArrives
  <2>5. CASE Cdn!Rename(p) \/ Cdn!CacheWriteFails(p)
    <3>1. call[p].body \in {call[p].key, Garbage}
      BY <1>1, <2>5 DEF CallOK, Cdn!Rename, Cdn!CacheWriteFails
    <3> QED
      BY <2>2, <2>5, <3>1 DEF Cdn!Rename, Cdn!CacheWriteFails
  <2>6. CASE Cdn!NextHost(p)
    BY <1>1, <1>2, <2>6 DEF Cdn!NextHost, Cdn!Gives, Cdn!NoCall, Cdn!CdnCalls, Cdn!Fetching
  <2>7. CASE Cdn!CacheMiss(p) \/ Cdn!BlobArrives(p) \/ Cdn!CreateTemp(p) \/ Cdn!WriteTemp(p)
    BY <1>1, <2>7 DEF Cdn!CacheMiss, Cdn!BlobArrives, Cdn!CreateTemp, Cdn!WriteTemp, Cdn!CdnCalls
  <2> QED
    BY <1>3, <2>1, <2>3, <2>4, <2>5, <2>6, <2>7 DEF Cdn!Remote
<1> QED
  BY <1>2, <1>3, OthersGiveNothing

------------------------------------------------------------------------------
(* Loading the archive indexes: what has been taken from the channel of     *)
(* work is with one goroutine or has arrived, once; after Open nothing is   *)
(* on its way.                                                              *)
Arrived == {results[i] : i \in DOMAIN results}
AtWork  == {job[w] : w \in Worker} \ {0}

LoadOK ==
  /\ \A w \in Worker : job[w] # 0 <=> step[w] \in {"fetch", "send"}
  /\ \A v, w \in Worker : job[v] = job[w] /\ job[v] # 0 => v = w
  /\ \A w \in Worker : job[w] # 0 => job[w] < next /\ job[w] \notin Arrived
  /\ \A i, j \in DOMAIN results : results[i] = results[j] => i = j
  /\ \A i \in DOMAIN results : results[i] < next
  /\ loading => \A a \in Index!ArchiveNo : a < next => a \in Arrived \cup AtWork
  /\ ~loading => results = <<>> /\ failed = {} /\ (\A w \in Worker : job[w] = 0)

LoadInv == Index!LoadType /\ loading \in BOOLEAN /\ LoadOK

LoadNext ==
  \/ loading /\ loading' = loading /\ \E w \in Worker : Index!Work(w)
  \/ loading /\ loading' = FALSE /\ Index!Merge
  \/ loading' \in BOOLEAN /\ Index!Reload
  \/ loading' = loading /\ UNCHANGED loadVars

LEMMA Archives ==
  /\ Len(CdnArchives) \in Nat /\ Index!ArchiveNo = 1..Len(CdnArchives)
  /\ 0 \notin Index!ArchiveNo
  BY CdnAssumption DEF Index!ArchiveNo

LEMMA LoadStarts ==
  ASSUME loading \in BOOLEAN, Index!LoadInit
  PROVE  LoadInv
<1>1. Index!LoadType
  BY Archives DEF Index!LoadInit, Index!LoadType
<1>2. LoadOK
  BY Archives DEF Index!LoadInit, LoadOK
<1> QED
  BY <1>1, <1>2 DEF LoadInv

LEMMA LoadRestarts ==
  ASSUME loading' \in BOOLEAN, Index!Reload
  PROVE  LoadInv'
<1>1. Index!LoadType'
  BY Archives DEF Index!Reload, Index!LoadType
<1>2. LoadOK'
  BY Archives DEF Index!Reload, LoadOK
<1> QED
  BY <1>1, <1>2 DEF LoadInv

LEMMA TakeStep ==
  ASSUME LoadInv, loading, loading' = loading, NEW w \in Worker,
         Index!Take(w) \/ Index!NoMoreWork(w)
  PROVE  LoadInv'
<1>1. CASE Index!Take(w)
  <2>1. Index!LoadType'
    BY <1>1, Archives DEF LoadInv, Index!LoadType, Index!Take
  <2>2. /\ next \in Nat /\ next # 0 /\ job[w] = 0
        /\ job' = [job EXCEPT ![w] = next] /\ next' = next + 1
        /\ step' = [step EXCEPT ![w] = "fetch"] /\ results' = results
        /\ job \in [Worker -> Nat] /\ step \in [Worker -> {"take", "fetch", "send", "done"}]
    BY <1>1, Archives DEF LoadInv, Index!LoadType, LoadOK, Index!Take
  <2>3. Arrived' = Arrived /\ next \notin Arrived /\ Arrived \subseteq Nat
    BY <2>2, Archives DEF Arrived, LoadInv, LoadOK, Index!LoadType
  <2>4. AtWork' = AtWork \cup {next}
    BY <2>2 DEF AtWork
  <2>5. \A v \in Worker : (job[v] # 0 <=> step[v] \in {"fetch", "send"})'
    BY <2>2 DEF LoadInv, LoadOK
  <2>6. \A u, v \in Worker : (job[u] = job[v] /\ job[u] # 0 => u = v)'
    BY <2>2 DEF LoadInv, LoadOK
  <2>7. \A v \in Worker : (job[v] # 0 => job[v] < next /\ job[v] \notin Arrived)'
    BY <2>2, <2>3 DEF LoadInv, LoadOK
  <2>8. (\A i \in DOMAIN results : results[i] < next)'
    BY <2>2, Archives DEF LoadInv, LoadOK, Index!LoadType
  <2>9. (\A a \in Index!ArchiveNo : a < next => a \in Arrived \cup AtWork)'
    BY <2>2, <2>3, <2>4, Archives DEF LoadInv, LoadOK
  <2>10. LoadOK'
    BY <2>2, <2>5, <2>6, <2>7, <2>8, <2>9 DEF LoadInv, LoadOK
  <2> QED
    BY <2>1, <2>10 DEF LoadInv
<1>2. CASE Index!NoMoreWork(w)
  BY <1>2 DEF LoadInv, Index!LoadType, LoadOK, Arrived, AtWork, Index!NoMoreWork
<1> QED
  BY <1>1, <1>2

LEMMA SendStep ==
  ASSUME LoadInv, loading, loading' = loading, NEW w \in Worker, Index!Send(w)
  PROVE  LoadInv'
<1>1. /\ job[w] \in Index!ArchiveNo /\ job[w] # 0 /\ results \in Seq(Index!ArchiveNo)
      /\ results' = Append(results, job[w]) /\ job' = [job EXCEPT ![w] = 0]
      /\ step' = [step EXCEPT ![w] = "take"] /\ good' = [good EXCEPT ![w] = FALSE]
      /\ failed' \in SUBSET Index!ArchiveNo
      /\ UNCHANGED <<next, byEKey>>
  BY DEF LoadInv, LoadOK, Index!LoadType, Index!Send
<1>2. Index!LoadType'
  BY <1>1, Archives DEF LoadInv, Index!LoadType
<1>3. /\ DOMAIN results' = DOMAIN results \cup {Len(results) + 1}
      /\ Len(results) + 1 \notin DOMAIN results
      /\ results'[Len(results) + 1] = job[w]
      /\ \A i \in DOMAIN results : results'[i] = results[i]
  BY <1>1
<1>4. Arrived' = Arrived \cup {job[w]}
  BY <1>3 DEF Arrived
<1>5. AtWork' = AtWork \ {job[w]}
  BY <1>1 DEF AtWork, LoadInv, LoadOK, Index!LoadType
<1>6. \A i \in DOMAIN results : results[i] # job[w]
  BY <1>1 DEF LoadInv, LoadOK, Arrived
<1>7. LoadOK'
  <2>1. \A v \in Worker : (job[v] # 0 <=> step[v] \in {"fetch", "send"})'
    BY <1>1 DEF LoadInv, LoadOK, Index!LoadType
  <2>2. \A u, v \in Worker : (job[u] = job[v] /\ job[u] # 0 => u = v)'
    BY <1>1 DEF LoadInv, LoadOK, Index!LoadType
  <2>3. \A v \in Worker : (job[v] # 0 => job[v] < next /\ job[v] \notin Arrived)'
    BY <1>1, <1>4 DEF LoadInv, LoadOK, Index!LoadType
  <2>4. (\A i, j \in DOMAIN results : results[i] = results[j] => i = j)'
    BY <1>3, <1>6 DEF LoadInv, LoadOK
  <2>5. (\A i \in DOMAIN results : results[i] < next)'
    BY <1>1, <1>3 DEF LoadInv, LoadOK
  <2>6. (\A a \in Index!ArchiveNo : a < next => a \in Arrived \cup AtWork)'
    BY <1>1, <1>4, <1>5 DEF LoadInv, LoadOK
  <2> QED
    BY <2>1, <2>2, <2>3, <2>4, <2>5, <2>6 DEF LoadOK
<1> QED
  BY <1>2, <1>7 DEF LoadInv

LEMMA FetchStep ==
  ASSUME LoadInv, loading, loading' = loading, NEW w \in Worker, NEW ok \in BOOLEAN,
         Index!Fetch(w, ok)
  PROVE  LoadInv'
  BY DEF LoadInv, Index!LoadType, LoadOK, Arrived, AtWork, Index!Fetch

LEMMA Counted ==
  ASSUME NEW n \in Nat PROVE IsFiniteSet(1..n) /\ Cardinality(1..n) = n
<1>1. 1 \in Int /\ n \in Int /\ (n < 1 => n = 0) /\ n - 1 + 1 = n
  OBVIOUS
<1>2. IsFiniteSet(1..n) /\ Cardinality(1..n) = IF 1 > n THEN 0 ELSE n - 1 + 1
  BY <1>1, FS_Interval
<1> QED
  BY <1>1, <1>2

(* A set of places has a first one: of the sets of places before one of     *)
(* its own, a smallest one is empty.                                        *)
LEMMA Least ==
  ASSUME NEW n \in Nat, NEW S \in SUBSET (1..n), S # {}
  PROVE  \E x \in S : \A y \in S : x <= y
<1> DEFINE Before(j) == {m \in S : m < j}
           Befores == {Before(j) : j \in S}
<1>1. IsFiniteSet(S) /\ S \subseteq Nat
  <2>1. IsFiniteSet(1..n)
    BY Counted
  <2>2. IsFiniteSet(S)
    BY <2>1, FS_Subset
  <2> QED
    BY <2>2
<1>2. Befores \subseteq FiniteSubsetsOf(S)
  BY <1>1, FS_Subset DEF FiniteSubsetsOf
<1>3. Befores # {}
  OBVIOUS
<1>4. IsWellFoundedOn(StrictSubsetOrdering(S), FiniteSubsetsOf(S))
  BY FS_StrictSubsetOrderingWellFounded
<1> HIDE DEF Befores
<1>5. PICK B \in Befores : \A C \in Befores : <<C, B>> \notin StrictSubsetOrdering(S)
  BY <1>2, <1>3, <1>4, WFMin
<1>6. PICK x \in S : B = Before(x)
  BY DEF Befores
<1>7. ASSUME NEW y \in S, y < x PROVE FALSE
  <2>1. Before(y) \in Befores
    BY DEF Befores
  <2>2. y \in Before(x) /\ y \notin Before(y) /\ Before(y) \subseteq Before(x)
    <3>1. x \in Nat /\ y \in Nat /\ y \in S /\ ~(y < y)
      BY <1>1
    <3>2. \A m \in S : m < y => m < x
      BY <1>1, <1>7, <3>1
    <3> QED
      BY <1>7, <3>1, <3>2
  <2>3. <<Before(y), B>> \in StrictSubsetOrdering(S)
    BY <1>6, <2>2 DEF StrictSubsetOrdering
  <2> QED
    BY <1>5, <2>1, <2>3
<1> QED
  BY <1>1, <1>7

(* The first of the results that has a key is one of the results.           *)
LEMMA FirstIs ==
  ASSUME LoadInv, NEW k \in EKey
  PROVE  Index!FirstWith(k) \in Index!ArchiveNo \cup {NoArchive}
<1> DEFINE has == {j \in DOMAIN results :
                     results[j] \notin failed /\ k \in CdnArchives[results[j]]}
<1>1. results \in Seq(Index!ArchiveNo)
  BY DEF LoadInv, Index!LoadType
<1>2. CASE has = {}
  BY <1>2 DEF Index!FirstWith
<1>3. CASE has # {}
  <2>1. has \in SUBSET (1..Len(results)) /\ Len(results) \in Nat
    BY <1>1
  <2> HIDE DEF has
  <2>2. \E j \in has : \A m \in has : j <= m
    BY <1>3, <2>1, Least
  <2> USE DEF has
  <2>3. (CHOOSE j \in has : \A m \in has : j <= m) \in has
    BY <2>2
  <2>4. results[CHOOSE j \in has : \A m \in has : j <= m] \in Index!ArchiveNo
    BY <1>1, <2>3
  <2> QED
    BY <1>3, <2>4 DEF Index!FirstWith
<1> QED
  BY <1>2, <1>3

LEMMA LoadKept == ASSUME LoadInv, LoadNext PROVE LoadInv'
<1>1. ASSUME NEW w \in Worker, loading, loading' = loading, Index!Work(w) PROVE LoadInv'
  BY <1>1, TakeStep, SendStep, FetchStep DEF Index!Work
<1>2. CASE loading /\ loading' = FALSE /\ Index!Merge
  <2>1. \A w \in Worker : job[w] = 0
    BY <1>2 DEF LoadInv, LoadOK, Index!Merge
  <2>2. byEKey' \in [EKey -> Index!ArchiveNo \cup {NoArchive}]
    BY <1>2, FirstIs DEF Index!Merge
  <2>3. Index!LoadType'
    BY <1>2, <2>2 DEF LoadInv, Index!LoadType, Index!Merge
  <2>4. LoadOK'
    BY <1>2, <2>1 DEF LoadInv, LoadOK, Arrived, Index!Merge
  <2> QED
    BY <1>2, <2>3, <2>4 DEF LoadInv
<1>3. CASE loading' = loading /\ UNCHANGED loadVars
  BY <1>3 DEF loadVars, LoadInv, Index!LoadType, LoadOK, Arrived, AtWork, Index!ArchiveNo
<1> QED
  BY <1>1, <1>2, <1>3, LoadRestarts DEF LoadNext

(* More results than archives would be two of one archive.                  *)
LEMMA RoomForAll == LoadInv => Index!NeverBlocksOnSend
<1> SUFFICES ASSUME LoadInv, NEW w \in Worker, step[w] = "send",
                    ~(Len(results) < Index!Capacity)
             PROVE  FALSE
  BY DEF Index!NeverBlocksOnSend
<1> DEFINE Places == 1..Len(results)
           Others == Index!ArchiveNo \ {job[w]}
<1>1. /\ results \in Seq(Index!ArchiveNo) /\ Len(results) \in Nat
      /\ job[w] \in Index!ArchiveNo /\ job[w] \notin Arrived
      /\ Len(results) >= Len(CdnArchives)
  BY Archives DEF LoadInv, Index!LoadType, LoadOK, Index!Capacity
<1>2. IsFiniteSet(Places) /\ Cardinality(Places) = Len(results)
  BY <1>1, Counted
<1>3. IsFiniteSet(Index!ArchiveNo) /\ Cardinality(Index!ArchiveNo) = Len(CdnArchives)
  BY Archives, Counted
<1>4. IsFiniteSet(Others) /\ Cardinality(Others) = Len(CdnArchives) - 1
  BY <1>1, <1>3, FS_RemoveElement
<1>5. Cardinality(Others) < Cardinality(Places)
  BY <1>1, <1>2, <1>4, Archives
<1>6. [i \in Places |-> results[i]] \in [Places -> Others]
  BY <1>1 DEF Arrived
<1>7. \E i, j \in Places : i # j /\ results[i] = results[j]
  <2> DEFINE f == [i \in Places |-> results[i]]
  <2>1. f \in [Places -> Others]
    BY <1>6
  <2> HIDE DEF f, Places, Others
  <2>2. \E i, j \in Places : i # j /\ f[i] = f[j]
    BY <1>2, <1>4, <1>5, <2>1, FS_PigeonHole
  <2> QED
    BY <2>2 DEF f
<1> QED
  BY <1>1, <1>7 DEF LoadInv, LoadOK

LEMMA ArriveOnce == LoadInv => Index!EachOnce
<1> SUFFICES ASSUME LoadInv, results # <<>>
             PROVE  Index!ArchiveNo = {i \in Index!ArchiveNo : i >= next} \cup Arrived \cup AtWork
  BY DEF Index!EachOnce, LoadInv, LoadOK, Arrived, AtWork
<1>1. loading /\ next \in Nat /\ Index!ArchiveNo \subseteq Nat
  BY Archives DEF LoadInv, LoadOK, Index!LoadType
<1>2. Arrived \subseteq Index!ArchiveNo /\ AtWork \subseteq Index!ArchiveNo
  BY DEF LoadInv, Index!LoadType, Arrived, AtWork
<1>3. \A a \in Index!ArchiveNo : a >= next \/ a \in Arrived \cup AtWork
  BY <1>1 DEF LoadInv, LoadOK
<1> QED
  BY <1>2, <1>3

------------------------------------------------------------------------------
(* The storage: its steps are steps of the three parts.                     *)
ReadInv == PoolInv /\ FetchInv /\ LoadInv /\ online \in BOOLEAN

LEMMA LoadSteps == Next => LoadNext
  BY CdnAssumption
  DEF Next, LoadNext, LoadArchiveIndexes, Opened, ReadLocal, ReadCdn, ReadCdnInstead,
      ReadSpan, Fetch, Close, HostChanges, Restart

LEMMA FetchSteps == ASSUME ReadInv, Next PROVE FetchNext
<1>1. \A k \in EKey : byEKey[k] \in DOMAIN FirstOf \cup {NoArchive}
  BY CdnAssumption DEF ReadInv, LoadInv, Index!LoadType, Index!ArchiveNo
<1>2. ASSUME NEW p \in Proc, NEW k \in EKey, ReadLocal(p, k) PROVE FetchNext
  BY <1>2 DEF ReadLocal, Free, FetchNext, Forgets
<1>3. ASSUME NEW p \in Proc, NEW k \in EKey, ReadCdn(p, k) PROVE FetchNext
  BY <1>1, <1>3 DEF ReadCdn, FetchNext
<1>4. ASSUME NEW p \in Proc, ReadCdnInstead(p) PROVE FetchNext
  <2>1. span[p].key \in EKey
    BY <1>4, LocalIndexAssumption DEF ReadCdnInstead, Local!NoDataDir, ReadInv, PoolInv, SpanOK
  <2> QED
    BY <1>1, <1>4, <2>1 DEF ReadCdnInstead, FetchNext
<1>5. ASSUME NEW p \in Proc, ReadSpan(p) \/ Fetch(p) PROVE FetchNext
  BY <1>5 DEF ReadSpan, Fetch, FetchNext
<1>6. CASE LoadArchiveIndexes \/ Opened \/ Close
  BY <1>6 DEF LoadArchiveIndexes, Opened, Close, FetchNext
<1>7. CASE HostChanges \/ Restart
  BY <1>7 DEF HostChanges, Restart, FetchNext
<1> QED
  BY <1>2, <1>3, <1>4, <1>5, <1>6, <1>7 DEF Next

LEMMA ReadStart == Init => ReadInv
<1>1. Init => loading \in BOOLEAN /\ online \in BOOLEAN /\ Index!LoadInit
  BY CdnAssumption DEF Init
<1> QED
  BY <1>1, PoolStart, FetchStart, LoadStarts DEF ReadInv

LEMMA StutterOK ==
  ASSUME UNCHANGED vars
  PROVE  PoolNext /\ FetchNext /\ LoadNext /\ online' = online
  BY DEF vars, PoolNext, FetchNext, LoadNext

LEMMA ReadStep == ASSUME ReadInv, [Next]_vars PROVE PoolNext /\ FetchNext /\ LoadNext /\ ReadInv'
<1>1. PoolNext /\ FetchNext /\ LoadNext
  BY PoolSteps, FetchSteps, LoadSteps, StutterOK
<1>2. online' \in BOOLEAN
  <2>1. CASE Next
    BY <2>1, CdnAssumption
    DEF ReadInv, Next, LoadArchiveIndexes, Opened, ReadLocal, ReadCdn, ReadCdnInstead,
        ReadSpan, Fetch, Close, HostChanges, Restart
  <2> QED
    BY <2>1, StutterOK DEF ReadInv
<1> QED
  BY <1>1, <1>2, PoolKept, FetchKept, LoadKept DEF ReadInv

LEMMA ReadInvariant == Spec => []ReadInv
  BY ReadStart, ReadStep, PTL DEF Spec

(* Every state of the storage is well-typed: a fetch asks a host there is,  *)
(* whatever fails under it (lookup.go, cdn_archives.go, client.go).         *)
THEOREM ReadTypeCorrect == Spec => []TypeOK
<1>1. ReadInv => TypeOK
  BY DEF ReadInv, PoolInv, FetchInv, LoadInv, TypeOK
<1> QED
  BY <1>1, ReadInvariant, PTL

(* Every open file belongs to the pool of the storage, so that one more     *)
(* Close releases everything (storage.go:280-301, archive.go:67-107).       *)
THEOREM CloseReleasesAll == Spec => []NoOrphan
<1>1. PoolInv => NoOrphan
  <2> SUFFICES ASSUME PoolInv PROVE Local!NoOrphan
    BY DEF NoOrphan
  <2>1. ASSUME NEW i \in Pool, NEW a \in Archive
        PROVE  <<i, a>> \in handles <=> i = pool /\ a \in files[i]
    BY DEF PoolInv, OneLivePool
  <2>2. handles \subseteq Pool \X Archive /\ \A i \in Pool : files[i] \subseteq Archive
    BY DEF PoolInv, Local!PoolType
  <2> HIDE DEF PoolInv
  <2>3. \A h : h \in handles <=> \E i \in {pool} \cap Pool : \E a \in files[i] : h = <<i, a>>
    BY <2>1, <2>2
  <2> QED
    BY <2>3 DEF Local!NoOrphan
<1> QED
  BY <1>1, ReadInvariant, PTL DEF ReadInv

(* A read never uses a handle closed under it, unless its whole pool was    *)
(* closed (archive.go:124-138).                                             *)
THEOREM HandleIsOpen == Spec => []ReadsOpenFile
<1>1. PoolInv => ReadsOpenFile
  BY LocalIndexAssumption
  DEF PoolInv, OneLivePool, SpanOK, ReadsOpenFile, Local!ReadsOpenFile, Local!HandleOf
<1> QED
  BY <1>1, ReadInvariant, PTL DEF ReadInv

(* No loader ever waits to send, so that OpenStorage returns, for any       *)
(* numbers of loaders and archives (cdn_archives.go:79-110).                *)
THEOREM SendNeverBlocks == Spec => []NeverBlocksOnSend
<1>1. LoadInv => NeverBlocksOnSend
  BY RoomForAll DEF NeverBlocksOnSend
<1> QED
  BY <1>1, ReadInvariant, PTL DEF ReadInv

(* Every archive index arrives, and once (cdn_archives.go:81-125).          *)
THEOREM EachArrivesOnce == Spec => []EachOnce
<1>1. LoadInv => EachOnce
  BY ArriveOnce DEF EachOnce
<1> QED
  BY <1>1, ReadInvariant, PTL DEF ReadInv

(* No part of a blob and no other key's is in the cache directory, with any *)
(* writers, crashes and hosts, also ones that ignore ranges                 *)
(* (cache.go:51-81).                                                        *)
THEOREM CacheStaysComplete == Spec => []CacheComplete
<1>1. FetchInv => CacheComplete
  BY DEF FetchInv, CacheComplete
<1> QED
  BY <1>1, ReadInvariant, PTL DEF ReadInv

(* A fetch that gives up has tried every host that stayed reachable         *)
(* (client.go:110-147).                                                     *)
THEOREM AllHostsTried == Spec => TriesEveryHost
<1>1. ReadInv /\ [Next]_vars =>
        [\A p \in Proc : call'[p].ret = "unreachable" /\ call[p].pc # "idle" =>
           call[p].up = {}]_cdnVars
  BY ReadStep, GivesUp DEF ReadInv
<1> QED
  BY <1>1, ReadInvariant, PTL DEF Spec, TriesEveryHost, Cdn!TriesEveryHost, Cdn!cdnVars, cdnVars

(* For any hosts, failures and other readers of the cache: a read returns   *)
(* another key's content only when the host it asked for a range sent the   *)
(* whole archive instead (cdn_archives.go:140-184, client.go:137).          *)
THEOREM ContentIsRight == Spec => RightContent
<1>1. ReadInv /\ [Next]_vars =>
        [\A p \in Proc : call[p].pc # "idle" /\ call'[p].pc = "idle" /\ call'[p].ret \in EKey =>
           call'[p].ret = call[p].key \/ Cdn!RangeIgnored(p)]_cdnVars
  BY ReadStep, GivesRight DEF ReadInv
<1> QED
  BY <1>1, ReadInvariant, PTL DEF Spec, RightContent, Cdn!RightContent, Cdn!cdnVars, cdnVars
==============================================================================
