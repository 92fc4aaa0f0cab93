------------------------------- MODULE CdnFetch -------------------------------
(***************************************************************************)
(* A read from the CDN (internal/storage/cdn_archives.go, cache.go,         *)
(* internal/cdn/client.go): a range of an archive when an archive index has *)
(* the key, else a blob of its own from the cache directory or from the     *)
(* CDN, written through to the cache.  Hosts are tried in order; what they  *)
(* answer changes at any time.  Several goroutines, and the programs before *)
(* and after a restart, share the cache directory.                          *)
(*                                                                          *)
(* A body is what it decodes to: the key whose content it holds, or         *)
(* Garbage for a body that does not decode (a truncated blob, an error page *)
(* with status 200).                                                        *)
(***************************************************************************)
EXTENDS Naturals

CONSTANTS
  Proc, EKey,
  NHosts,        \* hosts are 1..NHosts, in the order they are tried
  Behaviour,     \* what a host may do: "good", "down", "garbage", "norange"
  FirstOf,       \* key of the first span of each archive
  Garbage, Nothing, Torn, NoArchive

Host == 1..NHosts

VARIABLES
  host,     \* what each host does at the moment
  cache,    \* cache[k]: body in the cache directory, or Nothing
  call      \* each goroutine's read
cdnVars == <<host, cache, call>>

Body == EKey \cup {Garbage}
Failures == {"unreachable", "corrupt"}

(* A read: its step, key and archive, the host it tries, the body it got    *)
(* and the temporary file it fills, its last result; and, for the           *)
(* properties, the hosts that have been reachable ever since it began.      *)
NoCall == [pc |-> "idle", key |-> Nothing, arch |-> NoArchive, try |-> 1,
           body |-> Nothing, tmp |-> Nothing, ret |-> "none", up |-> {}]
CdnCalls == [pc : {"idle", "range", "cache", "flat", "temp", "write", "rename"},
             key : EKey \cup {Nothing}, arch : DOMAIN FirstOf \cup {NoArchive}, try : Host,
             body : Body \cup {Nothing}, tmp : Body \cup {Nothing, Torn},
             ret : EKey \cup Failures \cup {"none"}, up : SUBSET Host]

CdnType == /\ host \in [Host -> Behaviour] /\ call \in [Proc -> CdnCalls]
           /\ cache \in [EKey -> Body \cup {Nothing, Torn}]

CdnInit == /\ host \in [Host -> Behaviour]
           /\ cache = [k \in EKey |-> Nothing]
           /\ call = [p \in Proc |-> NoCall]

Gives(p, r) == call' = [call EXCEPT ![p] = [NoCall EXCEPT !.ret = r]]

(* DecodeSpan: the frames of a body carry hashes, but nothing ties the body *)
(* to the key that was asked for.                                           *)
Decoded(body) == IF body \in EKey THEN body ELSE "corrupt"

(* What a host sends.  One that does not do ranges answers 200 with all of  *)
(* the archive, of which the first span is then decoded.                    *)
Answers(h, p) ==
  CASE host[h] = "garbage" -> Garbage
    [] host[h] = "norange" /\ call[p].pc = "range" -> FirstOf[call[p].arch]
    [] OTHER -> call[p].key

(* fetchByEKeyViaArchives: `arch` is what CDNArchives.Lookup says.          *)
Ask(p, k, arch) ==
  /\ call[p].pc = "idle"
  /\ call' = [call EXCEPT ![p] =
       [NoCall EXCEPT !.pc = IF arch = NoArchive THEN "cache" ELSE "range",
                      !.key = k, !.arch = arch,
                      !.up = {h \in Host : host[h] # "down"}]]
  /\ UNCHANGED <<host, cache>>

CacheHit(p) ==
  /\ call[p].pc = "cache" /\ cache[call[p].key] # Nothing
  /\ Gives(p, Decoded(cache[call[p].key]))
  /\ UNCHANGED <<host, cache>>

(* There is no such file, it cannot be read, or there is no cache directory. *)
CacheMiss(p) ==
  /\ call[p].pc = "cache"
  /\ call' = [call EXCEPT ![p].pc = "flat"]
  /\ UNCHANGED <<host, cache>>

Fetching(p) == call[p].pc \in {"range", "flat"}

(* Mutant: the first host that fails ends the fetch.                        *)
NextHostNone(p) ==
  /\ Fetching(p) /\ host[call[p].try] = "down"
  /\ Gives(p, "unreachable")
  /\ UNCHANGED <<host, cache>>

(* Mutant: the loop over the hosts has no end.                              *)
NextHostPastLast(p) ==
  /\ Fetching(p) /\ host[call[p].try] = "down"
  /\ call' = [call EXCEPT ![p].try = @ + 1]
  /\ UNCHANGED <<host, cache>>

(* Client.fetch: no connection, a timeout, a body cut off or a status that  *)
(* is not OK moves on to the next host; the last one's error is returned.   *)
NextHost(p) ==
  /\ Fetching(p) /\ host[call[p].try] = "down"
  /\ IF call[p].try = NHosts THEN Gives(p, "unreachable")
     ELSE call' = [call EXCEPT ![p].try = @ + 1]
  /\ UNCHANGED <<host, cache>>

(* A range is decoded at once, a blob of its own is cached first.           *)
RangeArrives(p) ==
  /\ call[p].pc = "range" /\ host[call[p].try] # "down"
  /\ Gives(p, Decoded(Answers(call[p].try, p)))
  /\ UNCHANGED <<host, cache>>

BlobArrives(p) ==
  /\ call[p].pc = "flat" /\ host[call[p].try] # "down"
  /\ call' = [call EXCEPT ![p].pc = "temp", ![p].body = Answers(call[p].try, p),
                          ![p].try = 1, ![p].up = {}]
  /\ UNCHANGED <<host, cache>>

(* cacheWrite: a temporary file is created, filled, and renamed.            *)
CreateTemp(p) ==
  /\ call[p].pc = "temp"
  /\ call' = [call EXCEPT ![p].pc = "write", ![p].tmp = Torn]
  /\ UNCHANGED <<host, cache>>

(* Mutant: the file is written under its own name.                          *)
WriteInPlace(p) ==
  /\ call[p].pc = "write"
  /\ call' = [call EXCEPT ![p].pc = "rename", ![p].tmp = call[p].body]
  /\ cache' = [cache EXCEPT ![call[p].key] = Torn]
  /\ UNCHANGED host

WriteTemp(p) ==
  /\ call[p].pc = "write"
  /\ call' = [call EXCEPT ![p].pc = "rename", ![p].tmp = call[p].body]
  /\ UNCHANGED <<host, cache>>

(* Mutant: all writers share one temporary name.                            *)
RenameShared(p) ==
  /\ call[p].pc = "rename"
  /\ \E q \in Proc : /\ call[q].tmp # Nothing
                     /\ cache' = [cache EXCEPT ![call[p].key] = call[q].tmp]
  /\ Gives(p, Decoded(call[p].body))
  /\ UNCHANGED host

Rename(p) ==
  /\ call[p].pc = "rename"
  /\ cache' = [cache EXCEPT ![call[p].key] = call[p].tmp]
  /\ Gives(p, Decoded(call[p].body))
  /\ UNCHANGED host

(* Any of the three may fail, and none is done without a cache directory:   *)
(* the cache is left alone and the blob is used.                            *)
CacheWriteFails(p) ==
  /\ call[p].pc \in {"temp", "write", "rename"}
  /\ Gives(p, Decoded(call[p].body))
  /\ UNCHANGED <<host, cache>>

Remote(p) == \/ CacheHit(p) \/ CacheMiss(p) \/ NextHost(p)
             \/ RangeArrives(p) \/ BlobArrives(p)
             \/ CreateTemp(p) \/ WriteTemp(p) \/ Rename(p) \/ CacheWriteFails(p)

(* The network changes.                                                     *)
HostChanges(h, b) ==
  /\ host[h] # b
  /\ host' = [host EXCEPT ![h] = b]
  /\ call' = [p \in Proc |-> IF b = "down" THEN [call[p] EXCEPT !.up = @ \ {h}] ELSE call[p]]
  /\ UNCHANGED cache

(* The program ends; temporary files of its cache writes stay, under names  *)
(* that no read looks for.                                                  *)
Stop == /\ call' = [p \in Proc |-> NoCall]
        /\ UNCHANGED <<host, cache>>

------------------------------------------------------------------------------
(* A read returns the content of its own key, whatever another goroutine    *)
(* cached, an earlier program left behind or a host sent, but in one case:  *)
(* a host that does not do ranges answers 200 to a request for one, which   *)
(* client.go:137 accepts, where client.go:79 promises the span that the key *)
(* resolves to.  What goes wrong there stays with that one read: nothing of *)
(* it is cached, and another host or another read is not affected.          *)
RangeIgnored(p) == call[p].pc = "range" /\ host[call[p].try] = "norange"

RightContent ==
  [][\A p \in Proc : call[p].pc # "idle" /\ call'[p].pc = "idle" /\ call'[p].ret \in EKey =>
       call'[p].ret = call[p].key \/ RangeIgnored(p)]_cdnVars

(* The cache never shows a part of a blob, nor that of another key: not     *)
(* while it is written, not after two writers of one key, and not after a   *)
(* crash (cache.go:51-81).                                                  *)
CacheComplete == \A k \in EKey : cache[k] \in {Nothing, k, Garbage}

(* A fetch gives up only when no host has stayed reachable during the call: *)
(* every one of them has been tried (client.go:74, :110-145).               *)
TriesEveryHost ==
  [][\A p \in Proc : call'[p].ret = "unreachable" /\ call[p].pc # "idle" =>
       call[p].up = {}]_cdnVars
==============================================================================
