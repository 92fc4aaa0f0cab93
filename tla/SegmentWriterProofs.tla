-------------------------- MODULE SegmentWriterProofs --------------------------
(***************************************************************************)
(* Proofs about SegmentWriter, for any spans, sizes and segments: with one  *)
(* writer on a directory at a time, that gives up at the first error, the   *)
(* segments are append-only and every index entry stays good.               *)
(***************************************************************************)
EXTENDS SegmentWriter, TLAPS

LEMMA TypeInit == Init => TypeOK
  BY SizesAssumption, FirstSegment DEF Init, TypeOK, Cell, NoCell

(* What Put does to the segments: cells below the position stay, the m at   *)
(* the position are those of the span, and no file shrinks.                 *)
LEMMA PutType ==
  ASSUME TypeOK, NEW s \in Segment, NEW at \in Nat, NEW k \in Key, NEW m \in Nat,
         Put(s, at, k, m)
  PROVE  /\ cells' \in [Segment -> [Addr -> Cell]] /\ size' \in [Segment -> Nat]
         /\ \A t \in Segment : t # s => cells'[t] = cells[t] /\ size'[t] = size[t]
         /\ \A i \in Addr : i < at => cells'[s][i] = cells[s][i]
         /\ \A i \in Nat : i < m => at + i \in Addr /\ cells'[s][at + i] = [key |-> k, at |-> i]
         /\ size[s] <= size'[s] /\ at + m <= size'[s]
         /\ at = size[s] => size'[s] = at + m /\ size'[s] \in Addr
<1> DEFINE new == [i \in Addr |-> IF at <= i /\ i < at + m
                                  THEN [key |-> k, at |-> i - at] ELSE cells[s][i]]
<1>1. /\ cells \in [Segment -> [Addr -> Cell]] /\ size \in [Segment -> Nat]
      /\ at + m \in Addr /\ at + m \in Nat /\ Addr \subseteq Nat
  BY SizesAssumption DEF TypeOK, Put
<1>2. cells' = [cells EXCEPT ![s] = new]
  BY DEF Put
<1>3. new \in [Addr -> Cell]
  BY <1>1 DEF Cell
<1>4. size' = [size EXCEPT ![s] = IF at + m > size[s] THEN at + m ELSE size[s]]
  BY DEF Put
<1>5. cells' \in [Segment -> [Addr -> Cell]] /\ cells'[s] = new
  BY <1>1, <1>2, <1>3
<1>6. size' \in [Segment -> Nat] /\ size[s] \in Nat
  BY <1>1, <1>4
<1>7. \A t \in Segment : t # s => cells'[t] = cells[t] /\ size'[t] = size[t]
  BY <1>1, <1>2, <1>4
<1>8. \A i \in Nat : i < m => at + i \in Addr /\ cells'[s][at + i] = [key |-> k, at |-> i]
  <2> TAKE i \in Nat
  <2> HAVE i < m
  <2>1. at + i \in Addr
    BY <1>1, SizesAssumption
  <2> QED
    BY <2>1, <1>1, <1>5
<1>9. \A i \in Addr : i < at => cells'[s][i] = cells[s][i]
  BY <1>1, <1>5
<1>10. size[s] <= size'[s] /\ at + m <= size'[s] /\ (at = size[s] => size'[s] = at + m)
  BY <1>1, <1>4, <1>6
<1> QED
  BY <1>1, <1>5, <1>6, <1>7, <1>8, <1>9, <1>10

LEMMA StartType ==
  ASSUME TypeOK, NEW w \in Writer, NEW total \in Nat, Fits(w, total)
  PROVE  /\ Target(w, total) \in Segment
         /\ StartOffs(w, total) \in Nat /\ StartPos(w, total) \in Nat
  BY DEF TypeOK, Fits, StartOffs, StartPos

(* A step of any writer, however many there are and whatever they do after  *)
(* an error.                                                                *)
LEMMA StepType ==
  ASSUME TypeOK, [Next]_vars
  PROVE  TypeOK'
<1>1. ASSUME NEW w \in Writer, NEW k \in Key, NEW n \in BlteLen, WriteSpan(w, k, n)
      PROVE  TypeOK'
  <2> DEFINE total == HeaderSize + n
             s == Target(w, total)  offs == StartOffs(w, total)  at == StartPos(w, total)
             e == [key |-> k, index |-> s, offs |-> offs, size |-> total]
  <2>1. total \in Nat
    BY SizesAssumption
  <2>2. Fits(w, total) /\ Put(s, at, k, total)
    BY <1>1 DEF WriteSpan
  <2>3. s \in Segment /\ offs \in Nat /\ at \in Nat
    BY <2>1, <2>2, StartType
  <2>4. e \in Entry
    BY <2>1, <2>3 DEF Entry
  <2>5. /\ segmentIndex' = [segmentIndex EXCEPT ![w] = s]
        /\ segmentFile' = [segmentFile EXCEPT ![w] = TRUE]
        /\ segmentOffs' = [segmentOffs EXCEPT ![w] = offs + total]
        /\ pos' = [pos EXCEPT ![w] = at + total]
        /\ entries' = [entries EXCEPT ![w] = @ \cup {e}]
        /\ st' = st
    BY <1>1 DEF WriteSpan
  <2> HIDE DEF total, s, offs, at, e
  <2>6. cells' \in [Segment -> [Addr -> Cell]] /\ size' \in [Segment -> Nat]
    BY <2>1, <2>2, <2>3, PutType
  <2> QED
    BY <2>1, <2>3, <2>4, <2>5, <2>6 DEF TypeOK
<1>2. ASSUME NEW w \in Writer, NEW k \in Key, NEW n \in BlteLen, NEW m \in Addr,
             WriteFails(w, k, n, m)
      PROVE  TypeOK'
  <2> DEFINE total == HeaderSize + n
             s == Target(w, total)  offs == StartOffs(w, total)  at == StartPos(w, total)
  <2>1. total \in Nat /\ m \in Nat
    BY SizesAssumption
  <2>2. Fits(w, total) /\ Put(s, at, k, m)
    BY <1>2 DEF WriteFails
  <2>3. s \in Segment /\ offs \in Nat /\ at \in Nat
    BY <2>1, <2>2, StartType
  <2>4. /\ segmentIndex' = [segmentIndex EXCEPT ![w] = s]
        /\ segmentFile' = [segmentFile EXCEPT ![w] = ~AbortOnError]
        /\ segmentOffs' = [segmentOffs EXCEPT ![w] = offs]
        /\ pos' = [pos EXCEPT ![w] = at + m]
        /\ entries' = entries
        /\ st' = IF AbortOnError THEN [st EXCEPT ![w] = "closed"] ELSE st
    BY <1>2 DEF WriteFails, AfterError
  <2> HIDE DEF total, s, offs, at
  <2>5. cells' \in [Segment -> [Addr -> Cell]] /\ size' \in [Segment -> Nat]
    BY <2>1, <2>2, <2>3, PutType
  <2>6. segmentFile' \in [Writer -> BOOLEAN]
    BY <2>4, ModeAssumption DEF TypeOK
  <2> QED
    BY <2>1, <2>3, <2>4, <2>5, <2>6 DEF TypeOK
<1>3. ASSUME NEW w \in Writer, NEW n \in BlteLen, OpenFails(w, n)
      PROVE  TypeOK'
  <2> DEFINE s == Target(w, HeaderSize + n)
  <2>1. s \in Segment
    BY <1>3 DEF OpenFails, Fits
  <2>2. /\ segmentIndex' = [segmentIndex EXCEPT ![w] = s]
        /\ segmentFile' = [segmentFile EXCEPT ![w] = FALSE]
        /\ segmentOffs' \in [Writer -> Nat]
        /\ cells' = cells /\ size' = size /\ pos' = pos /\ entries' = entries
        /\ st' = IF AbortOnError THEN [st EXCEPT ![w] = "closed"] ELSE st
    BY <1>3 DEF OpenFails, AfterError, disk, TypeOK
  <2> HIDE DEF s
  <2> QED
    BY <2>1, <2>2 DEF TypeOK
<1>4. ASSUME NEW w \in Writer, NewWriter(w) \/ Close(w)
      PROVE  TypeOK'
  BY <1>4 DEF TypeOK, NewWriter, Close, disk, handle
<1>5. CASE UNCHANGED vars
  BY <1>5 DEF vars, disk, handle, TypeOK
<1> QED
  BY <1>1, <1>2, <1>3, <1>4, <1>5 DEF Next

(* A writer only hands out entries of its own segments and never has an     *)
(* offset or a position that is not a number, with any number of writers on *)
(* a directory at once and whatever the caller does after an error.         *)
THEOREM WriterTypeCorrect == Spec => []TypeOK
<1>1. TypeOK /\ [Next]_vars => TypeOK'
  BY StepType
<1> QED
  BY <1>1, TypeInit, PTL DEF Spec

(* A span starts at the end of its segment, and its entry says so.          *)
LEMMA StartsAtEnd ==
  ASSUME TypeOK, HandleInv, NEW w \in Writer, NEW total \in Nat, Fits(w, total)
  PROVE  /\ Target(w, total) \in Segment
         /\ StartOffs(w, total) \in Nat
         /\ StartPos(w, total) = StartOffs(w, total)
         /\ StartPos(w, total) = size[Target(w, total)]
<1>1. Target(w, total) \in Segment /\ size[Target(w, total)] \in Nat
  BY DEF Fits, TypeOK
<1>2. CASE StaysOpen(w, total)
  <2>1. Target(w, total) = segmentIndex[w] /\ segmentFile[w]
    BY <1>2 DEF StaysOpen, Target
  <2>2. pos[w] = segmentOffs[w] /\ pos[w] = size[segmentIndex[w]]
    BY <2>1 DEF HandleInv
  <2> QED
    BY <1>1, <1>2, <2>1, <2>2 DEF StartOffs, StartPos
<1>3. CASE ~StaysOpen(w, total)
  BY <1>1, <1>3 DEF StartOffs, StartPos
<1> QED
  BY <1>2, <1>3

(* Appending at the end of a segment disturbs nothing that is there.        *)
LEMMA PutAppends ==
  ASSUME TypeOK, EntriesIntact, \A s \in Segment : size[s] \in Addr,
         NEW s \in Segment, NEW k \in Key, NEW m \in Nat, Put(s, size[s], k, m)
  PROVE  /\ \A t \in Segment : /\ size[t] <= size'[t] /\ size'[t] \in Addr
                              /\ \A i \in Addr : i < size[t] => cells'[t][i] = cells[t][i]
         /\ \A w \in Writer : \A e \in entries[w] : SpanAt(e)'
         /\ \A e \in Entry : e.key = k /\ e.index = s /\ e.offs = size[s] /\ e.size = m
                           => SpanAt(e)'
<1>1. size[s] \in Nat /\ \A t \in Segment : size[t] \in Nat
  BY DEF TypeOK
<1>2. \A t \in Segment : /\ size[t] <= size'[t] /\ size'[t] \in Addr
                       /\ \A i \in Addr : i < size[t] => cells'[t][i] = cells[t][i]
  <2> TAKE t \in Segment
  <2>1. CASE t = s
    BY <1>1, <2>1, PutType
  <2>2. CASE t # s
    BY <1>1, <2>2, PutType
  <2> QED
    BY <2>1, <2>2
<1>3. ASSUME NEW w \in Writer, NEW e \in entries[w] PROVE SpanAt(e)'
  <2>1. /\ SpanAt(e) /\ e.index \in Segment /\ e.offs \in Nat /\ e.size \in Nat
        /\ e.offs + e.size <= size[e.index]
    BY <1>3 DEF EntriesIntact, TypeOK, Entry, SpanAt
  <2>2. size'[e.index] \in Nat /\ size[e.index] <= size'[e.index] /\ size[e.index] \in Addr
    BY <1>1, <1>2, <2>1, PutType
  <2>3. ASSUME NEW i \in 0..(e.size - 1)
        PROVE  cells'[e.index][e.offs + i] = [key |-> e.key, at |-> i]
    <3>1. e.offs + i \in 0..size[e.index] /\ e.offs + i < size[e.index]
      BY <1>1, <2>1
    <3>2. e.offs + i \in Addr
      BY <2>2, <3>1, SizesAssumption
    <3>3. cells'[e.index][e.offs + i] = cells[e.index][e.offs + i]
      BY <1>2, <2>1, <3>1, <3>2
    <3> QED
      BY <2>1, <3>3 DEF SpanAt
  <2> QED
    BY <1>1, <2>1, <2>2, <2>3 DEF SpanAt
<1>4. ASSUME NEW e \in Entry, e.key = k, e.index = s, e.offs = size[s], e.size = m
      PROVE  SpanAt(e)'
  <2>1. size[s] + m <= size'[s] /\ \A i \in 0..(m - 1) : cells'[s][size[s] + i] = [key |-> k, at |-> i]
    BY <1>1, PutType
  <2> QED
    BY <2>1, <1>4 DEF SpanAt
<1> QED
  BY <1>2, <1>3, <1>4

(* Before any writer, a directory holds at most the old data.000.           *)
LEMMA WriterInit == Init => WriterInv
<1> SUFFICES ASSUME Init PROVE WriterInv
  OBVIOUS
<1>1. PICK n \in OldSizes : size = [s \in Segment |-> IF s = 0 THEN n ELSE 0]
  BY DEF Init
<1>2. n \in Addr /\ n \in Nat /\ 0 \in Addr
  BY SizesAssumption
<1>3. \A s \in Segment : size[s] \in Addr
  BY <1>1, <1>2
<1>4. HandleInv /\ OneLive /\ EntriesIntact
  BY DEF Init, HandleInv, OneLive, EntriesIntact
<1> QED
  BY <1>3, <1>4, TypeInit DEF WriterInv

(* What is proved of a step: the segments only grow and the invariant stays *)
Grows == \A s \in Segment : /\ size[s] <= size'[s]
                            /\ \A i \in Addr : i < size[s] => cells'[s][i] = cells[s][i]

LEMMA KeptDisk ==
  ASSUME WriterInv, UNCHANGED disk
  PROVE  Grows /\ (\A s \in Segment : size'[s] \in Addr)
               /\ (\A w \in Writer : \A e \in entries[w] : SpanAt(e)')
<1>1. cells' = cells /\ size' = size /\ \A s \in Segment : size[s] \in Nat
  BY DEF WriterInv, disk, TypeOK
<1> QED
  BY <1>1 DEF WriterInv, EntriesIntact, SpanAt, Grows

LEMMA NewWriterKeeps ==
  ASSUME Serial, WriterInv, NEW w \in Writer, NewWriter(w)
  PROVE  WriterInv' /\ Grows
<1>1. TypeOK'
  BY DEF WriterInv, TypeOK, NewWriter, disk, handle
<1>2. HandleInv'
  BY DEF WriterInv, TypeOK, HandleInv, NewWriter, disk, handle
<1>3. OneLive'
  BY DEF WriterInv, TypeOK, OneLive, NewWriter
<1>4. EntriesIntact' /\ Grows /\ \A s \in Segment : size'[s] \in Addr
  BY KeptDisk DEF NewWriter, EntriesIntact
<1> QED
  BY <1>1, <1>2, <1>3, <1>4 DEF WriterInv

LEMMA CloseKeeps ==
  ASSUME WriterInv, NEW w \in Writer, Close(w)
  PROVE  WriterInv' /\ Grows
<1>1. TypeOK'
  BY DEF WriterInv, TypeOK, Close, disk
<1>2. HandleInv'
  BY DEF WriterInv, TypeOK, HandleInv, Close, disk
<1>3. OneLive'
  BY DEF WriterInv, TypeOK, OneLive, Close
<1>4. EntriesIntact' /\ Grows /\ \A s \in Segment : size'[s] \in Addr
  BY KeptDisk DEF Close, EntriesIntact
<1> QED
  BY <1>1, <1>2, <1>3, <1>4 DEF WriterInv

LEMMA OpenFailsKeeps ==
  ASSUME AbortOnError, WriterInv, NEW w \in Writer, NEW n \in BlteLen, OpenFails(w, n)
  PROVE  WriterInv' /\ Grows
<1> DEFINE s == Target(w, HeaderSize + n)
<1>1. s \in Segment /\ st' = [st EXCEPT ![w] = "closed"] /\ st[w] = "live"
  BY DEF OpenFails, Fits, AfterError
<1> HIDE DEF s
<1>2. segmentIndex' = [segmentIndex EXCEPT ![w] = s]
  BY DEF OpenFails, s
<1>3. TypeOK'
  BY <1>1, <1>2 DEF WriterInv, TypeOK, OpenFails, disk
<1>4. HandleInv'
  BY <1>1, <1>2 DEF WriterInv, TypeOK, HandleInv, OpenFails, disk
<1>5. OneLive'
  BY <1>1 DEF WriterInv, TypeOK, OneLive
<1>6. EntriesIntact' /\ Grows /\ \A t \in Segment : size'[t] \in Addr
  BY KeptDisk DEF OpenFails, EntriesIntact
<1> QED
  BY <1>3, <1>4, <1>5, <1>6 DEF WriterInv

(* A span, or the part of it that is written before an error, goes to the   *)
(* end of its segment.                                                      *)
LEMMA Appended ==
  ASSUME WriterInv, NEW w \in Writer, NEW k \in Key, NEW total \in Nat, NEW m \in Nat,
         Fits(w, total), Put(Target(w, total), StartPos(w, total), k, m)
  PROVE  LET s == Target(w, total) IN
         /\ s \in Segment /\ size[s] \in Nat
         /\ StartOffs(w, total) = size[s] /\ StartPos(w, total) = size[s]
         /\ cells' \in [Segment -> [Addr -> Cell]] /\ size' \in [Segment -> Nat]
         /\ size'[s] = size[s] + m
         /\ Grows /\ (\A t \in Segment : size'[t] \in Addr)
         /\ \A v \in Writer : \A e \in entries[v] : SpanAt(e)'
         /\ \A e \in Entry : e.key = k /\ e.index = s /\ e.offs = size[s] /\ e.size = m
                           => SpanAt(e)'
<1> DEFINE s == Target(w, total)
<1>1. TypeOK /\ HandleInv /\ EntriesIntact /\ \A t \in Segment : size[t] \in Addr
  BY DEF WriterInv
<1>2. /\ s \in Segment /\ StartOffs(w, total) = size[s] /\ StartPos(w, total) = size[s]
      /\ size[s] \in Nat
  BY <1>1, StartsAtEnd DEF TypeOK
<1>3. Put(s, size[s], k, m)
  BY <1>2
<1> HIDE DEF s
<1>4. /\ cells' \in [Segment -> [Addr -> Cell]] /\ size' \in [Segment -> Nat]
      /\ size'[s] = size[s] + m
  BY <1>1, <1>2, <1>3, PutType
<1>5. /\ Grows /\ (\A t \in Segment : size'[t] \in Addr)
      /\ \A v \in Writer : \A e \in entries[v] : SpanAt(e)'
      /\ \A e \in Entry : e.key = k /\ e.index = s /\ e.offs = size[s] /\ e.size = m
                        => SpanAt(e)'
  BY <1>1, <1>2, <1>3, PutAppends DEF Grows
<1> QED
  BY <1>2, <1>4, <1>5 DEF s

LEMMA WriteSpanKeeps ==
  ASSUME WriterInv, NEW w \in Writer, NEW k \in Key, NEW n \in BlteLen, WriteSpan(w, k, n)
  PROVE  WriterInv' /\ Grows
<1> DEFINE total == HeaderSize + n
           s == Target(w, total)
<1>1. total \in Nat
  BY SizesAssumption
<1>2. Fits(w, total) /\ Put(s, StartPos(w, total), k, total)
  BY DEF WriteSpan
<1>3. /\ s \in Segment /\ size[s] \in Nat
      /\ StartOffs(w, total) = size[s] /\ StartPos(w, total) = size[s]
      /\ cells' \in [Segment -> [Addr -> Cell]] /\ size' \in [Segment -> Nat]
      /\ size'[s] = size[s] + total
      /\ Grows /\ (\A t \in Segment : size'[t] \in Addr)
      /\ \A v \in Writer : \A x \in entries[v] : SpanAt(x)'
      /\ \A x \in Entry : x.key = k /\ x.index = s /\ x.offs = size[s] /\ x.size = total
                        => SpanAt(x)'
  BY <1>1, <1>2, Appended
<1>0. PICK e : e = [key |-> k, index |-> s, offs |-> size[s], size |-> total]
  OBVIOUS
<1>4. /\ segmentIndex' = [segmentIndex EXCEPT ![w] = s]
      /\ segmentFile' = [segmentFile EXCEPT ![w] = TRUE]
      /\ segmentOffs' = [segmentOffs EXCEPT ![w] = size[s] + total]
      /\ pos' = [pos EXCEPT ![w] = size[s] + total]
      /\ entries' = [entries EXCEPT ![w] = @ \cup {e}]
      /\ st' = st /\ st[w] = "live"
  BY <1>0, <1>3 DEF WriteSpan, Fits
<1>5. TypeOK /\ HandleInv /\ OneLive
  BY DEF WriterInv
<1> HIDE DEF total, s
<1>6. e \in Entry /\ SpanAt(e)'
  <2>1. e \in Entry /\ e.key = k /\ e.index = s /\ e.offs = size[s] /\ e.size = total
    BY <1>0, <1>1, <1>3 DEF Entry
  <2> QED
    BY <1>3, <2>1
<1>7. TypeOK'
  BY <1>1, <1>3, <1>4, <1>5, <1>6 DEF TypeOK
<1>8. HandleInv'
  <2> SUFFICES ASSUME NEW v \in Writer, segmentFile'[v]
               PROVE  /\ st'[v] = "live"
                      /\ pos'[v] = segmentOffs'[v] /\ pos'[v] = size'[segmentIndex'[v]]
    BY DEF HandleInv
  <2>1. CASE v = w
    BY <1>3, <1>4, <1>5, <2>1 DEF TypeOK
  <2>2. CASE v # w
    <3>1. segmentFile[v] /\ st[v] = "live"
      BY <1>4, <1>5, <2>2 DEF TypeOK, HandleInv
    <3> QED
      BY <1>4, <1>5, <2>2, <3>1 DEF OneLive
  <2> QED
    BY <2>1, <2>2
<1>9. OneLive'
  BY <1>4, <1>5 DEF OneLive
<1>10. EntriesIntact'
  <2>1. ASSUME NEW v \in Writer, NEW x \in entries'[v] PROVE x \in entries[v] \/ x = e
    BY <1>4, <1>5 DEF TypeOK
  <2> QED
    BY <1>3, <1>6, <2>1 DEF EntriesIntact
<1> QED
  BY <1>3, <1>7, <1>8, <1>9, <1>10 DEF WriterInv

LEMMA WriteFailsKeeps ==
  ASSUME AbortOnError, WriterInv, NEW w \in Writer, NEW k \in Key, NEW n \in BlteLen,
         NEW m \in Addr, WriteFails(w, k, n, m)
  PROVE  WriterInv' /\ Grows
<1> DEFINE total == HeaderSize + n
           s == Target(w, total)
<1>1. total \in Nat /\ m \in Nat
  BY SizesAssumption
<1>2. Fits(w, total) /\ Put(s, StartPos(w, total), k, m)
  BY DEF WriteFails
<1>3. /\ s \in Segment /\ size[s] \in Nat
      /\ StartOffs(w, total) = size[s] /\ StartPos(w, total) = size[s]
      /\ cells' \in [Segment -> [Addr -> Cell]] /\ size' \in [Segment -> Nat]
      /\ Grows /\ (\A t \in Segment : size'[t] \in Addr)
      /\ \A v \in Writer : \A x \in entries[v] : SpanAt(x)'
  BY <1>1, <1>2, Appended
<1>4. /\ segmentIndex' = [segmentIndex EXCEPT ![w] = s]
      /\ segmentFile' = [segmentFile EXCEPT ![w] = FALSE]
      /\ segmentOffs' = [segmentOffs EXCEPT ![w] = size[s]]
      /\ pos' = [pos EXCEPT ![w] = size[s] + m]
      /\ entries' = entries
      /\ st' = [st EXCEPT ![w] = "closed"] /\ st[w] = "live"
  BY <1>3 DEF WriteFails, AfterError, Fits
<1>5. TypeOK /\ HandleInv /\ OneLive
  BY DEF WriterInv
<1> HIDE DEF total, s
<1>6. TypeOK'
  BY <1>1, <1>3, <1>4, <1>5 DEF TypeOK
<1>7. HandleInv'
  <2> SUFFICES ASSUME NEW v \in Writer, segmentFile'[v] PROVE FALSE
    BY DEF HandleInv
  <2>1. v # w /\ segmentFile[v]
    BY <1>4, <1>5 DEF TypeOK
  <2> QED
    BY <1>4, <1>5, <2>1 DEF HandleInv, OneLive
<1>8. OneLive'
  BY <1>4, <1>5 DEF OneLive, TypeOK
<1>9. EntriesIntact'
  BY <1>3, <1>4 DEF EntriesIntact
<1> QED
  BY <1>3, <1>6, <1>7, <1>8, <1>9 DEF WriterInv

LEMMA StepKeeps ==
  ASSUME Serial, AbortOnError, WriterInv, [Next]_vars
  PROVE  WriterInv' /\ Grows
<1>1. CASE UNCHANGED vars
  <2>1. EntriesIntact' /\ Grows /\ \A s \in Segment : size'[s] \in Addr
    BY <1>1, KeptDisk DEF vars, EntriesIntact, disk
  <2>2. TypeOK' /\ HandleInv' /\ OneLive'
    BY <1>1 DEF vars, disk, handle, WriterInv, TypeOK, HandleInv, OneLive
  <2> QED
    BY <2>1, <2>2 DEF WriterInv
<1>2. CASE Next
  <2>1. PICK w \in Writer :
          \/ NewWriter(w)
          \/ \E k \in Key, n \in BlteLen : WriteSpan(w, k, n)
          \/ \E k \in Key, n \in BlteLen, m \in Addr : WriteFails(w, k, n, m)
          \/ \E n \in BlteLen : OpenFails(w, n)
          \/ Close(w)
    BY <1>2 DEF Next
  <2>2. CASE NewWriter(w)
    BY <2>2, NewWriterKeeps
  <2>3. CASE \E k \in Key, n \in BlteLen : WriteSpan(w, k, n)
    BY <2>3, WriteSpanKeeps
  <2>4. CASE \E k \in Key, n \in BlteLen, m \in Addr : WriteFails(w, k, n, m)
    BY <2>4, WriteFailsKeeps
  <2>5. CASE \E n \in BlteLen : OpenFails(w, n)
    BY <2>5, OpenFailsKeeps
  <2>6. CASE Close(w)
    BY <2>6, CloseKeeps
  <2> QED
    BY <2>1, <2>2, <2>3, <2>4, <2>5, <2>6
<1> QED
  BY <1>1, <1>2

(* A writer is where it believes to be: its handle at the end of the file,  *)
(* segmentOffs at the handle, and no other writer in the directory          *)
(* (writer.go:40-160); what the other results rest on.                      *)
THEOREM WriterInvariant == Serial /\ AbortOnError /\ Spec => []WriterInv
<1> SUFFICES ASSUME Serial, AbortOnError PROVE Spec => []WriterInv
  OBVIOUS
<1>1. WriterInv /\ [Next]_vars => WriterInv'
  BY StepKeeps
<1> QED
  BY <1>1, WriterInit, PTL DEF Spec

(* Every index entry that was handed out points at a span that is all there *)
(* and is its own, whatever the sizes of spans and segments, as long as a   *)
(* directory has one writer at a time that gives up at the first error.     *)
THEOREM EntriesStayIntact == Serial /\ AbortOnError /\ Spec => []EntriesIntact
<1>1. WriterInv => EntriesIntact
  BY DEF WriterInv
<1> QED
  BY <1>1, WriterInvariant, PTL

(* Under the same conditions no byte of a segment file ever changes.        *)
THEOREM SegmentsAppendOnly == Serial /\ AbortOnError /\ Spec => AppendOnly
<1> SUFFICES ASSUME Serial, AbortOnError PROVE Spec => AppendOnly
  OBVIOUS
<1>1. WriterInv /\ [Next]_vars => [Grows]_vars
  BY StepKeeps
<1>2. Spec => [][Grows]_vars
  BY <1>1, WriterInvariant, PTL DEF Spec
<1> QED
  BY <1>2 DEF AppendOnly, Grows
==============================================================================
