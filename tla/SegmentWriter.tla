---------------------------- MODULE SegmentWriter ----------------------------
(***************************************************************************)
(* archive.Writer (internal/archive/writer.go): it appends BLTE spans to    *)
(* the segment files data.000, data.001, ... of a data directory and hands  *)
(* out the index entry of each.  Every WriteSpan holds the writer's mutex,  *)
(* so a call is one step with one of its outcomes.  Two writers on one      *)
(* directory share nothing but the files.                                   *)
(*                                                                          *)
(* Files are arrays of cells.  A cell is a unit of bytes: HeaderSize cells  *)
(* for the BLTE_ENCODED_HEADER, then the cells of the BLTE stream.          *)
(***************************************************************************)
EXTENDS Integers

CONSTANTS
  Writer,        \* writer instances, one per Flush
  Key,           \* encoded keys: the spans
  NoKey, Old,    \* keys of a cell never written, and of an earlier program's span
  BlteLen,       \* lengths of BLTE streams
  HeaderSize, SegmentSize,
  Segment,       \* 0..k, a bound on the segments
  Addr,          \* 0..m, a bound on the file offsets
  Serial,        \* a directory has one live writer at a time
  AbortOnError,  \* the caller gives up after a failed WriteSpan, as Flush does
  OldSizes       \* sizes data.000 may have before the first writer

NoCell == [key |-> NoKey, at |-> 0]
Cell   == [key : Key \cup {NoKey, Old}, at : Nat]

ASSUME SizesAssumption ==
  /\ HeaderSize \in Nat \ {0} /\ SegmentSize \in Nat /\ OldSizes \subseteq Addr
  /\ BlteLen \subseteq Nat /\ Addr \subseteq Nat /\ Segment \subseteq Nat
  /\ \A i \in Addr : 0..i \subseteq Addr
ASSUME ModeAssumption == Serial \in BOOLEAN /\ AbortOnError \in BOOLEAN
ASSUME KeyAssumption == NoKey \notin Key
ASSUME FirstSegment == 0 \in Segment

VARIABLES
  cells, size,   \* content and length of each segment file
  st,            \* "none", "live", "closed"
  segmentIndex, segmentFile,   \* current segment, and whether it is open
  segmentOffs,   \* where the writer believes the next span goes
  pos,           \* where the file handle writes next
  entries        \* index entries each writer has returned

disk == <<cells, size>>
handle == <<segmentIndex, segmentFile, segmentOffs, pos>>
vars == <<disk, st, handle, entries>>

Entry == [key : Key, index : Segment, offs : Nat, size : Nat]

TypeOK ==
  /\ cells \in [Segment -> [Addr -> Cell]] /\ size \in [Segment -> Nat]
  /\ st \in [Writer -> {"none", "live", "closed"}]
  /\ segmentIndex \in [Writer -> Segment] /\ segmentFile \in [Writer -> BOOLEAN]
  /\ segmentOffs \in [Writer -> Nat] /\ pos \in [Writer -> Nat]
  /\ entries \in [Writer -> SUBSET Entry]

(* data.000 may hold the spans of an earlier flush.                         *)
Init ==
  /\ \E n \in OldSizes :
       /\ size = [s \in Segment |-> IF s = 0 THEN n ELSE 0]
       /\ cells = [s \in Segment |-> [i \in Addr |->
                     IF s = 0 /\ i < n THEN [key |-> Old, at |-> i] ELSE NoCell]]
  /\ st = [w \in Writer |-> "none"]
  /\ segmentIndex = [w \in Writer |-> 0]
  /\ segmentFile = [w \in Writer |-> FALSE]
  /\ segmentOffs = [w \in Writer |-> 0] /\ pos = segmentOffs
  /\ entries = [w \in Writer |-> {}]

NewWriter(w) ==
  /\ st[w] = "none"
  /\ Serial => \A v \in Writer : st[v] # "live"
  /\ st' = [st EXCEPT ![w] = "live"]
  /\ UNCHANGED <<disk, handle, entries>>

(* A span that does not fit behind an open segment goes to the next one.    *)
RollsOver(w, total) == segmentFile[w] /\ segmentOffs[w] + total > SegmentSize
Target(w, total)    == IF RollsOver(w, total) THEN segmentIndex[w] + 1 ELSE segmentIndex[w]
StaysOpen(w, total) == segmentFile[w] /\ ~RollsOver(w, total)

(* Mutants: a reopened segment is taken to be empty, is overwritten from    *)
(* its start, or is entered before its last header.                         *)
StartOffsZero(w, total)  == IF StaysOpen(w, total) THEN segmentOffs[w] ELSE 0
StartPosZero(w, total)   == IF StaysOpen(w, total) THEN pos[w] ELSE 0
StartOffsEarly(w, total) == IF StaysOpen(w, total) THEN segmentOffs[w]
                            ELSE size[Target(w, total)] - HeaderSize

(* openSegment creates the file or goes to the end of what it holds.        *)
StartOffs(w, total) == IF StaysOpen(w, total) THEN segmentOffs[w] ELSE size[Target(w, total)]
StartPos(w, total)  == IF StaysOpen(w, total) THEN pos[w] ELSE size[Target(w, total)]

(* The first m cells of span k go to the file at the handle's position.     *)
Put(s, at, k, m) ==
  /\ at + m \in Addr
  /\ cells' = [cells EXCEPT ![s] = [i \in Addr |->
                 IF at <= i /\ i < at + m THEN [key |-> k, at |-> i - at] ELSE cells[s][i]]]
  /\ size' = [size EXCEPT ![s] = IF at + m > size[s] THEN at + m ELSE size[s]]

Fits(w, total) == /\ st[w] = "live" /\ total <= SegmentSize
                  /\ Target(w, total) \in Segment

WriteSpan(w, k, n) ==
  LET total == HeaderSize + n
      s == Target(w, total)  offs == StartOffs(w, total)  at == StartPos(w, total)
  IN
  /\ Fits(w, total)
  /\ Put(s, at, k, total)
  /\ segmentIndex' = [segmentIndex EXCEPT ![w] = s]
  /\ segmentFile' = [segmentFile EXCEPT ![w] = TRUE]
  /\ segmentOffs' = [segmentOffs EXCEPT ![w] = offs + total]
  /\ pos' = [pos EXCEPT ![w] = at + total]
  /\ entries' = [entries EXCEPT ![w] =
                   @ \cup {[key |-> k, index |-> s, offs |-> offs, size |-> total]}]
  /\ UNCHANGED st

(* After an error Flush returns and its deferred Close closes the writer.   *)
AfterError(w) == st' = IF AbortOnError THEN [st EXCEPT ![w] = "closed"] ELSE st

(* A write of the header or of the stream stops after m cells (disk full,   *)
(* I/O error): the handle has moved, segmentOffs has not.                   *)
WriteFails(w, k, n, m) ==
  LET total == HeaderSize + n
      s == Target(w, total)  offs == StartOffs(w, total)  at == StartPos(w, total)
  IN
  /\ Fits(w, total) /\ m < total
  /\ Put(s, at, k, m)
  /\ segmentIndex' = [segmentIndex EXCEPT ![w] = s]
  /\ segmentFile' = [segmentFile EXCEPT ![w] = ~AbortOnError]
  /\ segmentOffs' = [segmentOffs EXCEPT ![w] = offs]
  /\ pos' = [pos EXCEPT ![w] = at + m]
  /\ AfterError(w)
  /\ UNCHANGED entries

(* The segment file cannot be opened: the rollover, if any, has happened.   *)
OpenFails(w, n) ==
  LET total == HeaderSize + n IN
  /\ Fits(w, total) /\ ~StaysOpen(w, total)
  /\ segmentIndex' = [segmentIndex EXCEPT ![w] = Target(w, total)]
  /\ segmentFile' = [segmentFile EXCEPT ![w] = FALSE]
  /\ segmentOffs' = [segmentOffs EXCEPT ![w] = IF RollsOver(w, total) THEN 0 ELSE @]
  /\ AfterError(w)
  /\ UNCHANGED <<disk, pos, entries>>

(* Mutant: Close leaves the segment file in the writer.                     *)
CloseKeepsFile(w) ==
  /\ st[w] = "live"
  /\ st' = [st EXCEPT ![w] = "closed"]
  /\ UNCHANGED <<disk, handle, entries>>

Close(w) ==
  /\ st[w] = "live"
  /\ st' = [st EXCEPT ![w] = "closed"]
  /\ segmentFile' = [segmentFile EXCEPT ![w] = FALSE]
  /\ UNCHANGED <<disk, segmentIndex, segmentOffs, pos, entries>>

Next == \E w \in Writer :
  \/ NewWriter(w)
  \/ \E k \in Key, n \in BlteLen : WriteSpan(w, k, n)
  \/ \E k \in Key, n \in BlteLen, m \in Addr : WriteFails(w, k, n, m)
  \/ \E n \in BlteLen : OpenFails(w, n)
  \/ Close(w)

Spec == Init /\ [][Next]_vars

------------------------------------------------------------------------------
(* Every entry handed out keeps pointing at the header of its span, and all *)
(* of the span is still there: no later write, of this writer or the next,  *)
(* moves or overwrites it (writer.go:110-112, :150-169).                    *)
SpanAt(e) == /\ e.index \in Segment /\ e.offs + e.size <= size[e.index]
             /\ \A i \in 0..(e.size - 1) :
                  cells[e.index][e.offs + i] = [key |-> e.key, at |-> i]
EntriesIntact == \A w \in Writer : \A e \in entries[w] : SpanAt(e)

(* Bytes that are in a segment file never change: spans of an earlier flush *)
(* stay readable for as long as an index refers to them (writer.go:181).    *)
AppendOnly ==
  [][\A s \in Segment : /\ size[s] <= size'[s]
                        /\ \A i \in Addr : i < size[s] => cells'[s][i] = cells[s][i]]_vars

(* Why an entry stays intact while a directory has one writer at a time     *)
(* that gives up at the first error: an open handle is at the end of its    *)
(* segment, where segmentOffs says it is.                                   *)
HandleInv == \A w \in Writer :
  segmentFile[w] => /\ st[w] = "live"
                    /\ pos[w] = segmentOffs[w] /\ pos[w] = size[segmentIndex[w]]
OneLive == \A v, w \in Writer : st[v] = "live" /\ st[w] = "live" => v = w
WriterInv == /\ TypeOK /\ HandleInv /\ OneLive /\ EntriesIntact
             /\ \A s \in Segment : size[s] \in Addr
==============================================================================
