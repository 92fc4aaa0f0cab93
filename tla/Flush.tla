-------------------------------- MODULE Flush --------------------------------
(***************************************************************************)
(* Storage.Flush (pkg/casc/flush.go) and what OpenStorage makes of the      *)
(* directory afterwards.  A Flush takes a snapshot of the overlay, appends  *)
(* the contents and the INSTALL, DOWNLOAD and ENCODING manifests to the     *)
(* data segments with an archive writer of its own (SegmentWriter), and     *)
(* then overwrites the .idx file, the build config, the CDN config and      *)
(* .build.info, one after the other and without a lock.  Any of these steps *)
(* may fail, and the program may end between two of them; the next program  *)
(* calls CreateStorage on the same directory.                               *)
(*                                                                          *)
(* A key is the hash of what it names, so it is modelled by that thing: a   *)
(* file by its content, a manifest and a build config by the snapshot they  *)
(* are computed from.  DOWNLOAD and the CDN config are always the same.     *)
(***************************************************************************)
EXTENDS Integers

CONSTANTS
  Name, Data, Absent,
  None,             \* the key of a cell never written
  MaxFlushes,       \* a bound on the calls of Flush
  Serial,           \* the caller runs one Flush at a time
  HeaderSize, SpanLen, SegmentSize, Segment, Addr,  \* see SegmentWriter
  OffsBits, StoreBits                               \* see SegmentIndex

Flusher  == 1..MaxFlushes
Snapshot == [Name -> Data \cup {Absent}]
Empty    == [n \in Name |-> Absent]

ASSUME FlushAssumption ==
  /\ MaxFlushes \in Nat /\ Serial \in BOOLEAN
  /\ OffsBits \in Nat /\ StoreBits \in Nat /\ OffsBits <= StoreBits
  /\ Absent \notin Data

File(d)     == [kind |-> "file", of |-> d]
Install(s)  == [kind |-> "install", of |-> s]
Encoding(s) == [kind |-> "encoding", of |-> s]
Download    == [kind |-> "download", of |-> Absent]
SpanKey     == {File(d) : d \in Data} \cup {Download}
               \cup {Install(s) : s \in Snapshot} \cup {Encoding(s) : s \in Snapshot}

ASSUME SegmentAssumption ==
  /\ HeaderSize \in Nat \ {0} /\ SpanLen \in Nat /\ SegmentSize \in Nat
  /\ Segment \subseteq Nat /\ 0 \in Segment
  /\ Addr \subseteq Nat /\ 0 \in Addr /\ \A i \in Addr : 0..i \subseteq Addr
  /\ None \notin SpanKey
(* True of all numbers; the provers know nothing of powers.                 *)
ASSUME PowersAssumption == {2^OffsBits, 2^(StoreBits - OffsBits)} \subseteq Nat \ {0}

VARIABLES
  cells, size,                                     \* the data segments
  st, segmentIndex, segmentFile, segmentOffs, pos, \* the writer of each Flush
  entries,                                         \* its idxEntries
  overlay,     \* the overlay of the storage
  stage, res,  \* what each Flush writes next, and its result
  snap, left,  \* its snapshot, and the names of it still to write
  open,        \* it has truncated the file it writes
  whole,       \* the manifest files of the directory that are written to the end
  index, info  \* what the .idx file lists, and the snapshot .build.info names

writer == <<cells, size, st, segmentIndex, segmentFile, segmentOffs, pos, entries>>
flush  == <<stage, res, snap, left, open>>
file   == <<whole, index, info>>
vars   == <<writer, overlay, flush, file>>

W == INSTANCE SegmentIndex WITH
       Writer <- Flusher, Key <- SpanKey, NoKey <- None, Old <- None,
       BlteLen <- {SpanLen}, AbortOnError <- TRUE, OldSizes <- {0}

(* What a Flush writes after what: spans, then files.                       *)
After == [files |-> "install", install |-> "download", download |-> "encoding",
          encoding |-> "close", close |-> "idx", idx |-> "config",
          config |-> "cdn", cdn |-> "info", info |-> "end"]
Spans == {"files", "install", "download", "encoding"}
Files == {"idx", "config", "cdn", "info"}
Stage == Spans \cup {"close"} \cup Files \cup {"end"}

(* Build configs are stored under their hash, the other files under a name. *)
FileName == [kind : Files \ {"config"}, of : {Absent}] \cup [kind : {"config"}, of : Snapshot]
FileAt(kind, s) == [kind |-> kind, of |-> IF kind = "config" THEN s ELSE Absent]
Idx             == FileAt("idx", Empty)
BuildInfo       == FileAt("info", Empty)

TypeOK ==
  /\ W!TypeOK /\ overlay \in Snapshot
  /\ stage \in [Flusher -> Stage]
  /\ res \in [Flusher -> {"none", "running", "ok", "failed"}]
  /\ snap \in [Flusher -> Snapshot] /\ left \in [Flusher -> SUBSET Name]
  /\ open \in [Flusher -> BOOLEAN]
  /\ whole \subseteq FileName /\ info \in Snapshot
  /\ index \subseteq UNION {{W!Stored(e) : e \in entries[f]} : f \in Flusher}

Init ==
  /\ W!Init /\ overlay = Empty
  /\ stage = [f \in Flusher |-> "files"] /\ res = [f \in Flusher |-> "none"]
  /\ snap = [f \in Flusher |-> Empty] /\ left = [f \in Flusher |-> {}]
  /\ open = [f \in Flusher |-> FALSE]
  /\ whole = {} /\ index = {} /\ info = Empty

------------------------------------------------------------------------------
(* The overlay of a created storage while Flush runs (module Overlay has    *)
(* the methods in full).                                                    *)
AddFile(n, d)    == overlay[n] = Absent /\ overlay' = [overlay EXCEPT ![n] = d]
RemoveFile(n)    == overlay[n] # Absent /\ overlay' = [overlay EXCEPT ![n] = Absent]
RenameFile(o, n) == /\ overlay[o] # Absent /\ overlay[n] = Absent
                    /\ overlay' = [overlay EXCEPT ![n] = overlay[o], ![o] = Absent]

Running(f) == res[f] = "running"

Fails(f) == res' = [res EXCEPT ![f] = "failed"]

(* Flush begins with the snapshot and a new archive writer.                 *)
Flush(f) ==
  /\ res[f] = "none" /\ \A g \in 1..(f - 1) : res[g] # "none"
  /\ Serial => \A g \in Flusher : ~Running(g)
  /\ W!NewWriter(f)
  /\ res' = [res EXCEPT ![f] = "running"]
  /\ snap' = [snap EXCEPT ![f] = overlay]
  /\ left' = [left EXCEPT ![f] = {n \in Name : overlay[n] # Absent}]
  /\ UNCHANGED <<overlay, stage, open, file>>

(* Mutant: contents are read from the overlay, not from the snapshot.       *)
WriteContentLive(f, n) ==
  /\ Running(f) /\ stage[f] = "files" /\ n \in left[f]
  /\ W!WriteSpan(f, File(overlay[n]), SpanLen)
  /\ left' = [left EXCEPT ![f] = @ \ {n}]
  /\ stage' = [stage EXCEPT ![f] = IF left'[f] = {} THEN After[@] ELSE @]
  /\ UNCHANGED <<overlay, res, snap, open, file>>

(* writeSpan appends the next content, of the names in any order, or the    *)
(* next manifest.                                                           *)
WriteContent(f, n) ==
  /\ Running(f) /\ stage[f] = "files" /\ n \in left[f]
  /\ W!WriteSpan(f, File(snap[f][n]), SpanLen)
  /\ left' = [left EXCEPT ![f] = @ \ {n}]
  /\ stage' = [stage EXCEPT ![f] = IF left'[f] = {} THEN After[@] ELSE @]
  /\ UNCHANGED <<overlay, res, snap, open, file>>

NoContent(f) ==
  /\ Running(f) /\ stage[f] = "files" /\ left[f] = {}
  /\ stage' = [stage EXCEPT ![f] = After[@]]
  /\ UNCHANGED <<writer, overlay, res, snap, left, open, file>>

(* Mutant: the INSTALL manifest lists the overlay, not the snapshot.        *)
ManifestLive(f) == CASE stage[f] = "install"  -> Install(overlay)
                     [] stage[f] = "download" -> Download
                     [] stage[f] = "encoding" -> Encoding(snap[f])

Manifest(f) == CASE stage[f] = "install"  -> Install(snap[f])
                 [] stage[f] = "download" -> Download
                 [] stage[f] = "encoding" -> Encoding(snap[f])

WriteManifest(f) ==
  /\ Running(f) /\ stage[f] \in Spans \ {"files"}
  /\ W!WriteSpan(f, Manifest(f), SpanLen)
  /\ stage' = [stage EXCEPT ![f] = After[@]]
  /\ UNCHANGED <<overlay, res, snap, left, open, file>>

(* A span is not written, or in part: Flush returns the error.              *)
SpanFails(f) ==
  /\ Running(f) /\ stage[f] \in Spans
  /\ LET keys == IF stage[f] = "files" THEN {File(snap[f][n]) : n \in left[f]}
                                       ELSE {Manifest(f)}
     IN  \/ \E k \in keys, m \in Addr : W!WriteFails(f, k, SpanLen, m)
         \/ W!OpenFails(f, SpanLen)
  /\ Fails(f)
  /\ UNCHANGED <<overlay, stage, snap, left, open, file>>

CloseWriter(f) ==
  /\ Running(f) /\ stage[f] = "close"
  /\ W!Close(f)
  /\ \/ stage' = [stage EXCEPT ![f] = After[@]] /\ UNCHANGED res
     \/ UNCHANGED stage /\ Fails(f)
  /\ UNCHANGED <<overlay, snap, left, open, file>>

(* os.WriteFile truncates the file and then writes it; what index and info  *)
(* hold counts for nothing until the file is whole again.                   *)
Truncate(f) ==
  /\ Running(f) /\ stage[f] \in Files /\ ~open[f]
  /\ whole' = whole \ {FileAt(stage[f], snap[f])}
  /\ open' = [open EXCEPT ![f] = TRUE]
  /\ UNCHANGED <<writer, overlay, stage, res, snap, left, index, info>>

(* The .idx file lists the spans of this Flush and of no other; .build.info *)
(* names the build config.                                                  *)
WriteFile(f) ==
  /\ Running(f) /\ open[f]
  /\ whole' = whole \cup {FileAt(stage[f], snap[f])}
  /\ index' = IF stage[f] = "idx" THEN {W!Stored(e) : e \in entries[f]} ELSE index
  /\ info' = IF stage[f] = "info" THEN snap[f] ELSE info
  /\ open' = [open EXCEPT ![f] = FALSE]
  /\ stage' = [stage EXCEPT ![f] = After[@]]
  /\ res' = [res EXCEPT ![f] = IF stage[f] = "info" THEN "ok" ELSE @]
  /\ UNCHANGED <<writer, overlay, snap, left>>

FileFails(f) ==
  /\ Running(f) /\ stage[f] \in Files
  /\ Fails(f) /\ open' = [open EXCEPT ![f] = FALSE]
  /\ UNCHANGED <<writer, overlay, stage, snap, left, file>>

(* The program ends, or crashes, between any two steps; a crash inside a    *)
(* write leaves what a failed write leaves.  What it wrote stays.           *)
Restart ==
  /\ overlay' = Empty
  /\ res' = [f \in Flusher |-> IF Running(f) THEN "failed" ELSE res[f]]
  /\ open' = [f \in Flusher |-> FALSE]
  /\ st' = [f \in Flusher |-> IF st[f] = "live" THEN "closed" ELSE st[f]]
  /\ segmentFile' = [f \in Flusher |-> FALSE]
  /\ UNCHANGED <<cells, size, segmentIndex, segmentOffs, pos, entries,
                 stage, snap, left, file>>

Edit ==
  /\ \/ \E n \in Name, d \in Data : AddFile(n, d)
     \/ \E n \in Name : RemoveFile(n)
     \/ \E o, n \in Name : RenameFile(o, n)
  /\ UNCHANGED <<writer, flush, file>>

Next ==
  \/ Edit
  \/ \E f \in Flusher :
       \/ Flush(f) \/ NoContent(f) \/ WriteManifest(f) \/ SpanFails(f) \/ CloseWriter(f)
       \/ \E n \in Name : WriteContent(f, n)
       \/ Truncate(f) \/ WriteFile(f) \/ FileFails(f)
  \/ Restart

Spec == Init /\ [][Next]_vars

------------------------------------------------------------------------------
(* OpenStorage and OpenFile on the directory.  A torn file is skipped: the  *)
(* .idx by its hashes, the others because a key they should give is missing.*)
(* Reading a span yields what lies there: the encoded header is not checked *)
(* against the key that was asked for, and a span that was overwritten in   *)
(* part, or is not there, does not decode.                                  *)
ReadSpan(e) ==
  IF e.index \notin Segment \/ e.offs + e.size > size[e.index] THEN {}
  ELSE {k \in SpanKey : \A i \in 0..(e.size - 1) :
                          cells[e.index][e.offs + i] = [key |-> k, at |-> i]}

(* ReadByEKey; with several entries for a key, any of them may come first.  *)
ReadByEKey(k) == IF Idx \notin whole THEN {}
                 ELSE UNION {ReadSpan(W!Loaded(x)) : x \in {x \in index : x.key = k}}

(* LoadAll: .build.info names a config, the config the ENCODING manifest,   *)
(* which must know the root, the INSTALL manifest of the same snapshot.     *)
Roots ==
  IF \/ ~({BuildInfo, FileAt("config", info)} \subseteq whole)
     \/ Encoding(info) \notin ReadByEKey(Encoding(info))
  THEN {}
  ELSE {k.of : k \in {k \in ReadByEKey(Install(info)) : k.kind = "install"}}

(* FindFiles lists the names of the root; OpenFile reads what is under one. *)
Lists == UNION {{n \in Name : r[n] # Absent} : r \in Roots}
Serves(n) == UNION {ReadByEKey(File(r[n])) : r \in {r \in Roots : r[n] # Absent}}

ServesSnapshot(s) ==
  /\ Lists = {n \in Name : s[n] # Absent}
  /\ \A n \in Lists : Serves(n) = {File(s[n])}

(* flush.go:28: the output is round-trippable.  The directory of a Flush    *)
(* that returned nil serves exactly the files the overlay had when it       *)
(* began, and keeps serving them through the edits, the crashes and the     *)
(* failed writes of later Flushes, for as long as none of these has touched *)
(* the .idx file.                                                           *)
KeepsLast(g) == stage[g] \in Spans \cup {"close"} \/ (stage[g] = "idx" /\ Idx \in whole)
RoundTrip ==
  \A f \in Flusher : res[f] = "ok" /\ (\A g \in Flusher : g > f => KeepsLast(g)) =>
    ServesSnapshot(snap[f])

(* Whatever failed or crashed where, no reader of the directory gets a      *)
(* content under a name other than the one of the snapshot .build.info      *)
(* names: manifests of two Flushes never mix (flush.go:203-259).            *)
NoMixture ==
  \A n \in Name : \A k \in Serves(n) : k = File(info[n])
==============================================================================
