--------------------------- MODULE ArchiveIndexLoad ---------------------------
(***************************************************************************)
(* loadCDNArchiveIndexes (internal/storage/cdn_archives.go): goroutines     *)
(* take archives from a closed channel, fetch and parse the index of each   *)
(* and send the result to a buffered channel.  Nobody receives before all   *)
(* of them are done; then the indexes are merged in the order in which they *)
(* arrived, the first one that has a key winning.                           *)
(***************************************************************************)
EXTENDS Naturals, Sequences, FiniteSets

CONSTANTS
  EKey,           \* trimmed encoded keys
  Worker,         \* goroutines, 8 in the code
  CdnArchives,    \* CdnArchives[i]: keys in the i-th archive of the CDN config
  NoArchive       \* CDNArchives is nil, or has no such key

VARIABLES
  next,      \* first archive in the channel of work
  job,       \* job[w]: archive w works on, 0 between two
  step,      \* step[w]: "take", "fetch", "send", "done"
  good,      \* good[w]: its index was fetched and parsed
  results,   \* the channel of results: archives, in order of arrival
  failed,    \* those of them that carry an error
  byEKey     \* the ArchiveSet: archive of each key, or NoArchive
loadVars == <<next, job, step, good, results, failed, byEKey>>

ArchiveNo == DOMAIN CdnArchives

(* Mutant: room for one result per goroutine.                               *)
CapacityPerWorker == Cardinality(Worker)

(* The room in the channel of results: one place for each archive.          *)
Capacity == Len(CdnArchives)

LoadType ==
  /\ next \in 1..(Len(CdnArchives) + 1) /\ job \in [Worker -> ArchiveNo \cup {0}]
  /\ step \in [Worker -> {"take", "fetch", "send", "done"}]
  /\ good \in [Worker -> BOOLEAN]
  /\ results \in Seq(ArchiveNo) /\ failed \in SUBSET ArchiveNo
  /\ byEKey \in [EKey -> ArchiveNo \cup {NoArchive}]

LoadInit ==
  /\ next = 1 /\ job = [w \in Worker |-> 0] /\ step = [w \in Worker |-> "take"]
  /\ good = [w \in Worker |-> FALSE]
  /\ results = <<>> /\ failed = {} /\ byEKey = [k \in EKey |-> NoArchive]

Take(w) ==
  /\ step[w] = "take" /\ next <= Len(CdnArchives)
  /\ job' = [job EXCEPT ![w] = next] /\ next' = next + 1
  /\ step' = [step EXCEPT ![w] = "fetch"]
  /\ UNCHANGED <<good, results, failed, byEKey>>

NoMoreWork(w) ==
  /\ step[w] = "take" /\ next > Len(CdnArchives)
  /\ step' = [step EXCEPT ![w] = "done"]
  /\ UNCHANGED <<next, job, good, results, failed, byEKey>>

(* Mutant: a failed fetch sends nothing.                                    *)
FetchSkips(w, ok) ==
  /\ step[w] = "fetch"
  /\ good' = [good EXCEPT ![w] = ok]
  /\ step' = [step EXCEPT ![w] = IF ok THEN "send" ELSE "take"]
  /\ job' = [job EXCEPT ![w] = IF ok THEN @ ELSE 0]
  /\ UNCHANGED <<next, results, failed, byEKey>>

(* Fetch and ParseArchiveIndex succeed, or one of them does not.            *)
Fetch(w, ok) ==
  /\ step[w] = "fetch"
  /\ good' = [good EXCEPT ![w] = ok] /\ step' = [step EXCEPT ![w] = "send"]
  /\ UNCHANGED <<next, job, results, failed, byEKey>>

Send(w) ==
  /\ step[w] = "send" /\ Len(results) < Capacity
  /\ results' = Append(results, job[w])
  /\ failed' = IF good[w] THEN failed ELSE failed \cup {job[w]}
  /\ step' = [step EXCEPT ![w] = "take"] /\ job' = [job EXCEPT ![w] = 0]
  /\ good' = [good EXCEPT ![w] = FALSE]
  /\ UNCHANGED <<next, byEKey>>

(* ArchiveSet.Add of each result in turn skips a key that is in the set     *)
(* already: of the indexes that have a key, the first to arrive wins.       *)
FirstWith(k) ==
  LET has == {j \in DOMAIN results : results[j] \notin failed /\ k \in CdnArchives[results[j]]}
  IN  IF has = {} THEN NoArchive
      ELSE results[CHOOSE j \in has : \A m \in has : j <= m]

(* wg.Wait returns; the results are drained and merged, and the goroutines  *)
(* and their channels are gone.                                             *)
Merge ==
  /\ \A w \in Worker : step[w] = "done"
  /\ byEKey' = [k \in EKey |-> FirstWith(k)]
  /\ next' = 1 /\ step' = [w \in Worker |-> "take"]
  /\ results' = <<>> /\ failed' = {}
  /\ UNCHANGED <<job, good>>

Work(w) == \/ Take(w) \/ NoMoreWork(w) \/ Send(w)
           \/ \E ok \in BOOLEAN : Fetch(w, ok)

(* The program ends and the next one opens the storage again.               *)
Reload ==
  /\ next' = 1 /\ job' = [w \in Worker |-> 0] /\ step' = [w \in Worker |-> "take"]
  /\ good' = [w \in Worker |-> FALSE]
  /\ results' = <<>> /\ failed' = {} /\ byEKey' = [k \in EKey |-> NoArchive]

------------------------------------------------------------------------------
(* A goroutine that has a result can always send it: nobody receives before *)
(* all of them are done, so one that had to wait would wait for ever, and   *)
(* OpenStorage with it (cdn_archives.go:79, :110).                          *)
NeverBlocksOnSend == \A w \in Worker : step[w] = "send" => Len(results) < Capacity

(* No archive is lost or merged twice: whatever is neither in the channel   *)
(* of work nor with a goroutine has arrived, once (cdn_archives.go:81-125). *)
EachOnce ==
  /\ \A i, j \in DOMAIN results : results[i] = results[j] => i = j
  /\ results # <<>> =>
       ArchiveNo = {i \in ArchiveNo : i >= next} \cup {results[i] : i \in DOMAIN results}
                   \cup ({job[w] : w \in Worker} \ {0})
==============================================================================
