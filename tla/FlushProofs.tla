------------------------------ MODULE FlushProofs ------------------------------
(***************************************************************************)
(* Proofs about Flush, for any names, contents, Flushes and sizes: what is  *)
(* in the directory after any failures and crashes is never mixed up, and   *)
(* what the last successful Flush wrote is what a reader gets.              *)
(***************************************************************************)
EXTENDS Flush, TLAPS

P == INSTANCE SegmentWriterProofs WITH
       Writer <- Flusher, Key <- SpanKey, NoKey <- None, Old <- None,
       BlteLen <- {SpanLen}, AbortOnError <- TRUE, OldSizes <- {0}

Present(s)   == {n \in Name : s[n] # Absent}
SpanTotal    == HeaderSize + SpanLen
Keys(f)      == {e.key : e \in entries[f]}
StoredOf(f)  == {W!Stored(e) : e \in entries[f]}
Indexed(f)   == stage[f] \in {"config", "cdn", "info", "end"}
IsNewest(f)  == \A g \in Flusher : g > f => KeepsLast(g)

(* What a type-correct step needs to know: the names a Flush has still to   *)
(* write are those of its snapshot, and it opens only manifest files.       *)
LeftInv == \A f \in Flusher : /\ left[f] \subseteq Present(snap[f])
                              /\ open[f] => stage[f] \in Files

(* One Flush runs at a time, in the order of their numbers, and the writer  *)
(* of a Flush is not used after it.                                         *)
TurnInv ==
  \A f \in Flusher :
    /\ st[f] = "live" => Running(f) /\ stage[f] \in Spans \cup {"close"}
    /\ \A g \in Flusher : f < g /\ res[g] # "none" => res[f] \in {"ok", "failed"}
    /\ res[f] = "none" => stage[f] = "files" /\ entries[f] = {}
    /\ res[f] = "ok" => stage[f] = "end"

(* What a Flush has appended when it is at a stage.                         *)
WroteInv ==
  \A f \in Flusher :
    /\ \A e \in entries[f] : e.size = SpanTotal
    /\ \A n \in Present(snap[f]) \ left[f] : File(snap[f][n]) \in Keys(f)
    /\ stage[f] # "files" => left[f] = {}
    /\ stage[f] \notin {"files", "install"} => Install(snap[f]) \in Keys(f)
    /\ stage[f] \notin {"files", "install", "download", "encoding"} =>
         Encoding(snap[f]) \in Keys(f)

(* The .idx file is always that of one Flush, and the newest one's files    *)
(* are in place as far as it has got.                                       *)
IndexInv == Idx \in whole => \E f \in Flusher : Indexed(f) /\ index = StoredOf(f)
NewestInv ==
  \A f \in Flusher : IsNewest(f) =>
    /\ Indexed(f) => Idx \in whole /\ index = StoredOf(f)
    /\ stage[f] \in {"cdn", "info", "end"} => FileAt("config", snap[f]) \in whole
    /\ stage[f] = "end" => BuildInfo \in whole /\ info = snap[f]

FlushInv == /\ TypeOK /\ LeftInv /\ P!WriterInv
            /\ TurnInv /\ WroteInv /\ IndexInv /\ NewestInv

(* No entry of a Flush overflows the offset or the index of an .idx entry.  *)
OffsetsFit == \A f \in Flusher : \A e \in entries[f] :
                e.offs < 2^OffsBits /\ e.index < 2^(StoreBits - OffsBits)
------------------------------------------------------------------------------
(* What the writer's module assumes holds of the constants of Flush.        *)
LEMMA WriterAssumptions ==
  /\ P!SizesAssumption!: /\ P!ModeAssumption!: /\ P!KeyAssumption!: /\ P!FirstSegment!:
  BY SegmentAssumption, FlushAssumption

LEMMA AfterType ==
  /\ \A x \in Spans \cup {"close"} \cup Files : After[x] \in Stage
  /\ Spans \subseteq Stage /\ Files \subseteq Stage
  BY DEF After, Spans, Files, Stage

(* The spans a Flush writes have keys.                                      *)
LEMMA SpanKeys ==
  ASSUME TypeOK, LeftInv, NEW f \in Flusher
  PROVE  /\ \A n \in left[f] : n \in Name /\ File(snap[f][n]) \in SpanKey
         /\ stage[f] \in Spans \ {"files"} => Manifest(f) \in SpanKey
         /\ Install(snap[f]) \in SpanKey /\ Encoding(snap[f]) \in SpanKey
<1>1. snap[f] \in Snapshot /\ left[f] \subseteq Name
  BY DEF TypeOK
<1>2. \A n \in left[f] : snap[f][n] \in Data
  BY <1>1 DEF LeftInv, Present, Snapshot
<1>3. Install(snap[f]) \in SpanKey /\ Encoding(snap[f]) \in SpanKey
  BY <1>1 DEF SpanKey
<1>4. \A n \in left[f] : File(snap[f][n]) \in SpanKey
  BY <1>2 DEF SpanKey
<1>5. Download \in SpanKey
  BY DEF SpanKey
<1>6. stage[f] \in Spans \ {"files"} => Manifest(f) \in SpanKey
  BY <1>3, <1>5 DEF Spans, Manifest
<1> QED
  BY <1>1, <1>3, <1>4, <1>6

(* What the actions of a Flush do to its writer, in the terms of the        *)
(* writer's proofs.                                                         *)
LEMMA WriterStep ==
  ASSUME TypeOK, LeftInv, NEW f \in Flusher
  PROVE  /\ Flush(f) => P!NewWriter(f)
         /\ \A n \in Name : WriteContent(f, n) => P!WriteSpan(f, File(snap[f][n]), SpanLen)
         /\ WriteManifest(f) => P!WriteSpan(f, Manifest(f), SpanLen)
         /\ CloseWriter(f) => P!Close(f)
         /\ SpanFails(f) => \/ \E k \in SpanKey, m \in Addr : P!WriteFails(f, k, SpanLen, m)
                            \/ P!OpenFails(f, SpanLen)
         /\ (\/ NoContent(f) \/ Truncate(f) \/ WriteFile(f) \/ FileFails(f)) => UNCHANGED P!vars
<1>1. Flush(f) => P!NewWriter(f)
  BY DEF Flush, W!NewWriter, P!NewWriter, W!disk, W!handle, P!disk, P!handle
<1>2. ASSUME NEW k, NEW n, W!WriteSpan(f, k, n)
      PROVE  P!WriteSpan(f, k, n)
  BY <1>2 DEF W!WriteSpan, W!Fits, W!Put, W!Target, W!StartOffs, W!StartPos, W!RollsOver, W!StaysOpen,
              P!WriteSpan, P!Fits, P!Put, P!Target, P!StartOffs, P!StartPos, P!RollsOver, P!StaysOpen
<1>3. ASSUME NEW k, NEW n, NEW m, W!WriteFails(f, k, n, m)
      PROVE  P!WriteFails(f, k, n, m)
  BY <1>3 DEF W!WriteFails, W!Fits, W!Put, W!Target, W!StartOffs, W!StartPos, W!RollsOver, W!StaysOpen,
              P!WriteFails, P!Fits, P!Put, P!Target, P!StartOffs, P!StartPos, P!RollsOver, P!StaysOpen,
              W!AfterError, P!AfterError
<1>4. ASSUME NEW n, W!OpenFails(f, n)
      PROVE  P!OpenFails(f, n)
  BY <1>4 DEF W!OpenFails, W!Fits, W!Target, W!RollsOver, W!StaysOpen, W!AfterError, W!disk,
              P!OpenFails, P!Fits, P!Target, P!RollsOver, P!StaysOpen, P!AfterError, P!disk
<1>5. CloseWriter(f) => P!Close(f)
  BY DEF CloseWriter, W!Close, P!Close, W!disk, P!disk
<1>6. ASSUME SpanFails(f)
      PROVE  \/ \E k \in SpanKey, m \in Addr : P!WriteFails(f, k, SpanLen, m)
             \/ P!OpenFails(f, SpanLen)
  <2> DEFINE keys == IF stage[f] = "files" THEN {File(snap[f][n]) : n \in left[f]}
                                           ELSE {Manifest(f)}
  <2>1. keys \subseteq SpanKey
    BY <1>6, SpanKeys DEF SpanFails
  <2>2. \/ \E k \in keys, m \in Addr : W!WriteFails(f, k, SpanLen, m)
        \/ W!OpenFails(f, SpanLen)
    BY <1>6 DEF SpanFails
  <2> QED
    BY <2>1, <2>2, <1>3, <1>4
<1>7. (\/ NoContent(f) \/ Truncate(f) \/ WriteFile(f) \/ FileFails(f)) => UNCHANGED P!vars
  BY DEF NoContent, Truncate, WriteFile, FileFails, writer, P!vars, P!disk, P!handle
<1> QED
  BY <1>1, <1>2, <1>5, <1>6, <1>7 DEF WriteContent, WriteManifest

LEMMA TypeInit == Init => TypeOK /\ LeftInv
<1> SUFFICES ASSUME Init PROVE TypeOK /\ LeftInv
  OBVIOUS
<1>1. P!Init
  BY DEF Init, W!Init, P!Init, W!NoCell, P!NoCell
<1>2. P!TypeOK
  BY <1>1, P!TypeInit, WriterAssumptions
<1>3. W!TypeOK
  BY <1>2 DEF P!TypeOK, W!TypeOK, P!Entry, W!Entry, P!Cell, W!Cell, P!NoCell, W!NoCell
<1>4. Empty \in Snapshot
  BY DEF Empty, Snapshot
<1> QED
  BY <1>3, <1>4 DEF Init, TypeOK, LeftInv, Stage, Spans, FileName

(* A restart closes the writers and keeps all they wrote.                   *)
LEMMA RestartWriter ==
  ASSUME P!TypeOK, Restart
  PROVE  P!TypeOK' /\ (P!WriterInv => P!WriterInv')
<1>1. P!TypeOK'
  BY DEF P!TypeOK, Restart
<1>2. P!EntriesIntact => P!EntriesIntact'
  BY DEF P!EntriesIntact, P!SpanAt, Restart
<1>3. P!HandleInv' /\ P!OneLive'
  BY DEF P!HandleInv, P!OneLive, Restart, P!TypeOK
<1> QED
  BY <1>1, <1>2, <1>3 DEF P!WriterInv, Restart

LEMMA WriterNext ==
  ASSUME TypeOK, LeftInv, [Next]_vars
  PROVE  [P!Next]_(P!vars) \/ Restart
<1>1. Edit \/ UNCHANGED vars => UNCHANGED P!vars
  BY DEF Edit, vars, writer, P!vars, P!disk, P!handle
<1>2. ASSUME NEW f \in Flusher,
             \/ Flush(f) \/ NoContent(f) \/ WriteManifest(f) \/ SpanFails(f) \/ CloseWriter(f)
             \/ Truncate(f) \/ WriteFile(f) \/ FileFails(f)
      PROVE  [P!Next]_(P!vars)
  <2>1. WriteManifest(f) => Manifest(f) \in SpanKey
    BY SpanKeys DEF WriteManifest
  <2> QED
    BY <1>2, <2>1, WriterStep DEF P!Next
<1>3. ASSUME NEW f \in Flusher, NEW n \in Name, WriteContent(f, n)
      PROVE  [P!Next]_(P!vars)
  <2>1. File(snap[f][n]) \in SpanKey
    BY <1>3, SpanKeys DEF WriteContent
  <2> QED
    BY <1>3, <2>1, WriterStep DEF P!Next
<1> QED
  BY <1>1, <1>2, <1>3 DEF Next

LEMMA StepWriterType ==
  ASSUME TypeOK, LeftInv, [Next]_vars
  PROVE  W!TypeOK'
<1>1. P!TypeOK
  BY DEF TypeOK, P!TypeOK, W!TypeOK, P!Entry, W!Entry, P!Cell, W!Cell, P!NoCell, W!NoCell
<1>2. [P!Next]_(P!vars) => P!TypeOK'
  BY <1>1, P!StepType, WriterAssumptions
<1>3. P!TypeOK'
  BY <1>1, <1>2, WriterNext, RestartWriter
<1> QED
  BY <1>3 DEF P!TypeOK, W!TypeOK, P!Entry, W!Entry, P!Cell, W!Cell, P!NoCell, W!NoCell

(* With one Flush at a time the entries of every Flush stay good.           *)
LEMMA StepWriter ==
  ASSUME Serial, TypeOK, LeftInv, P!WriterInv, [Next]_vars
  PROVE  P!WriterInv'
<1>1. [P!Next]_(P!vars) => P!WriterInv'
  BY P!StepKeeps, WriterAssumptions
<1>2. Restart => P!WriterInv'
  BY RestartWriter DEF P!WriterInv
<1> QED
  BY <1>1, <1>2, WriterNext

(* No entry is ever taken back.                                             *)
LEMMA EntriesGrow ==
  ASSUME TypeOK, [Next]_vars
  PROVE  \A f \in Flusher : entries[f] \subseteq entries'[f]
<1>1. entries \in [Flusher -> SUBSET W!Entry]
  BY DEF TypeOK, W!TypeOK
<1>2. ASSUME NEW f \in Flusher, NEW k, W!WriteSpan(f, k, SpanLen)
      PROVE  \A g \in Flusher : entries[g] \subseteq entries'[g]
  <2>1. PICK e : entries' = [entries EXCEPT ![f] = @ \cup {e}]
    BY <1>2 DEF W!WriteSpan
  <2> QED
    BY <1>1, <2>1
<1>3. ASSUME NEW f \in Flusher,
             \/ Flush(f) \/ NoContent(f) \/ SpanFails(f) \/ CloseWriter(f)
             \/ Truncate(f) \/ WriteFile(f) \/ FileFails(f)
      PROVE  entries' = entries
  BY <1>3 DEF Flush, NoContent, SpanFails, CloseWriter, Truncate, WriteFile, FileFails, writer,
              W!NewWriter, W!WriteFails, W!OpenFails, W!Close
<1>4. Edit \/ Restart \/ UNCHANGED vars => entries' = entries
  BY DEF Edit, Restart, vars, writer
<1> QED
  BY <1>2, <1>3, <1>4 DEF Next, WriteContent, WriteManifest

LEMMA StepType ==
  ASSUME TypeOK, LeftInv, [Next]_vars
  PROVE  TypeOK' /\ LeftInv'
<1>1. W!TypeOK'
  BY StepWriterType
<1>a. index' = index => index' \subseteq UNION {StoredOf(f)' : f \in Flusher}
  BY EntriesGrow DEF TypeOK, StoredOf
<1> USE <1>1, <1>a DEF StoredOf
<1>2. CASE UNCHANGED vars
  BY <1>2 DEF vars, flush, file, TypeOK, LeftInv
<1>3. CASE Edit
  <2>1. overlay' \in Snapshot
    BY <1>3 DEF Edit, AddFile, RemoveFile, RenameFile, TypeOK, Snapshot
  <2> QED
    BY <1>3, <2>1 DEF Edit, flush, file, TypeOK, LeftInv
<1>4. ASSUME NEW f \in Flusher, Flush(f)
      PROVE  TypeOK' /\ LeftInv'
  BY <1>4 DEF Flush, file, TypeOK, LeftInv, Present
<1>5. ASSUME NEW f \in Flusher, NEW n \in Name, WriteContent(f, n)
      PROVE  TypeOK' /\ LeftInv'
  <2>1. stage' \in [Flusher -> Stage]
    BY <1>5, AfterType DEF WriteContent, TypeOK, Spans
  <2> QED
    BY <1>5, <2>1 DEF WriteContent, file, TypeOK, LeftInv, Files
<1>6. ASSUME NEW f \in Flusher, NoContent(f) \/ WriteManifest(f) \/ CloseWriter(f)
      PROVE  TypeOK' /\ LeftInv'
  <2>1. stage' \in [Flusher -> Stage]
    BY <1>6, AfterType DEF NoContent, WriteManifest, CloseWriter, TypeOK, Spans
  <2> QED
    BY <1>6, <2>1 DEF NoContent, WriteManifest, CloseWriter, Fails, file, TypeOK, LeftInv,
                      Files, Spans
<1>7. ASSUME NEW f \in Flusher, SpanFails(f) \/ FileFails(f)
      PROVE  TypeOK' /\ LeftInv'
  BY <1>7 DEF SpanFails, FileFails, Fails, file, TypeOK, LeftInv
<1>8. ASSUME NEW f \in Flusher, Truncate(f)
      PROVE  TypeOK' /\ LeftInv'
  BY <1>8 DEF Truncate, TypeOK, LeftInv
<1>9. ASSUME NEW f \in Flusher, WriteFile(f)
      PROVE  TypeOK' /\ LeftInv'
  <2>1. stage[f] \in Files
    BY <1>9 DEF WriteFile, LeftInv
  <2>2. FileAt(stage[f], snap[f]) \in FileName
    BY <2>1 DEF FileAt, FileName, TypeOK, Files
  <2>3. index' \subseteq UNION {StoredOf(g)' : g \in Flusher}
    BY <1>9 DEF WriteFile, writer
  <2>4. stage' \in [Flusher -> Stage]
    BY <1>9, <2>1, AfterType DEF WriteFile, TypeOK
  <2>5. info' \in Snapshot /\ whole' \subseteq FileName
    BY <1>9, <2>2 DEF WriteFile, TypeOK
  <2> QED
    BY <1>9, <2>3, <2>4, <2>5 DEF WriteFile, TypeOK, LeftInv
<1>10. CASE Restart
  <2>1. Empty \in Snapshot
    BY DEF Empty, Snapshot
  <2>2. res' \in [Flusher -> {"none", "running", "ok", "failed"}]
    BY <1>10 DEF Restart, TypeOK
  <2> QED
    BY <1>10, <2>1, <2>2 DEF Restart, file, TypeOK, LeftInv
<1> QED
  BY <1>2, <1>3, <1>4, <1>5, <1>6, <1>7, <1>8, <1>9, <1>10 DEF Next

(* Every variable keeps its type, however many Flushes run at once: the     *)
(* spans have keys, the .idx file has entries, and a Flush leaves its       *)
(* stages in their order (flush.go:84-261).                                 *)
THEOREM FlushTypeCorrect == Spec => []TypeOK
<1>1. TypeOK /\ LeftInv /\ [Next]_vars => (TypeOK /\ LeftInv)'
  BY StepType
<1> QED
  BY <1>1, TypeInit, PTL DEF Spec

------------------------------------------------------------------------------
LEMMA InvInit == Init => FlushInv
<1> SUFFICES ASSUME Init PROVE FlushInv
  OBVIOUS
<1>1. P!Init
  BY DEF Init, W!Init, P!Init, W!NoCell, P!NoCell
<1>2. P!WriterInv
  BY <1>1, P!WriterInit, WriterAssumptions
<1>3. \A f \in Flusher : entries[f] = {} /\ st[f] = "none"
  BY DEF Init, W!Init
<1>4. TurnInv
  BY <1>3 DEF Init, TurnInv
<1>5. WroteInv
  BY <1>3 DEF Init, WroteInv, Empty, Present
<1>6. IndexInv /\ NewestInv
  BY DEF Init, IndexInv, NewestInv, Indexed
<1> QED
  BY <1>2, <1>4, <1>5, <1>6, TypeInit DEF FlushInv

LEMMA StepTurn ==
  ASSUME Serial, TypeOK, LeftInv, TurnInv, [Next]_vars
  PROVE  TurnInv'
<1> USE DEF Running
<1>0. Flusher \subseteq Int
  BY FlushAssumption DEF Flusher
<1>1. CASE Edit \/ UNCHANGED vars
  BY <1>1 DEF Edit, vars, writer, flush, TurnInv
<1>2. ASSUME NEW f \in Flusher, Flush(f)
      PROVE  TurnInv'
  <2>1. /\ res[f] = "none" /\ res' = [res EXCEPT ![f] = "running"]
        /\ st' = [st EXCEPT ![f] = "live"]
        /\ UNCHANGED <<stage, entries>>
    BY <1>2 DEF Flush, W!NewWriter
  <2>2. ASSUME NEW g \in Flusher, g < f PROVE res[g] \in {"ok", "failed"}
    <3>1. res[g] # "none" /\ res[g] # "running"
      BY <1>0, <1>2, <2>2 DEF Flush, Flusher
    <3> QED
      BY <3>1 DEF TypeOK
  <2>3. \A g \in Flusher : f < g => res[g] = "none"
    BY <2>1 DEF TurnInv
  <2> QED
    BY <1>0, <2>1, <2>2, <2>3 DEF TurnInv, TypeOK, W!TypeOK, Spans
<1>3. ASSUME NEW f \in Flusher, NEW k, W!WriteSpan(f, k, SpanLen), Running(f),
             stage[f] \in Spans, UNCHANGED res,
             stage' = stage \/ stage' = [stage EXCEPT ![f] = After[@]]
      PROVE  TurnInv'
  <2>1. PICK e : entries' = [entries EXCEPT ![f] = @ \cup {e}]
    BY <1>3 DEF W!WriteSpan
  <2>2. st' = st /\ After[stage[f]] \in Spans \cup {"close"}
    BY <1>3 DEF W!WriteSpan, After, Spans
  <2> QED
    BY <1>3, <2>1, <2>2 DEF TurnInv, TypeOK, W!TypeOK
<1>4. ASSUME NEW f \in Flusher, NEW n \in Name, WriteContent(f, n)
      PROVE  TurnInv'
  BY <1>4, <1>3 DEF WriteContent, Spans, TypeOK
<1>5. ASSUME NEW f \in Flusher, WriteManifest(f)
      PROVE  TurnInv'
  BY <1>5, <1>3 DEF WriteManifest
<1>6. ASSUME NEW f \in Flusher, NoContent(f)
      PROVE  TurnInv'
  BY <1>6 DEF NoContent, writer, TurnInv, TypeOK, After, Spans
<1>7. ASSUME NEW f \in Flusher, SpanFails(f) \/ CloseWriter(f)
      PROVE  TurnInv'
  <2>1. st' = [st EXCEPT ![f] = "closed"] /\ UNCHANGED entries
    BY <1>7 DEF SpanFails, CloseWriter, W!WriteFails, W!OpenFails, W!Close, W!AfterError
  <2>2. \/ UNCHANGED stage /\ res' = [res EXCEPT ![f] = "failed"]
        \/ UNCHANGED res /\ stage[f] = "close" /\ stage' = [stage EXCEPT ![f] = "idx"]
    BY <1>7 DEF SpanFails, CloseWriter, Fails, After
  <2> QED
    BY <1>7, <2>1, <2>2 DEF SpanFails, CloseWriter, TurnInv, TypeOK, W!TypeOK
<1>8. ASSUME NEW f \in Flusher, Truncate(f)
      PROVE  TurnInv'
  BY <1>8 DEF Truncate, writer, TurnInv
<1>9. ASSUME NEW f \in Flusher, WriteFile(f)
      PROVE  TurnInv'
  <2>1. stage[f] \in Files
    BY <1>9 DEF WriteFile, LeftInv
  <2>2. st[f] # "live"
    BY <2>1 DEF TurnInv, Spans, Files
  <2>3. After["info"] = "end"
    BY DEF After
  <2> QED
    BY <1>9, <2>1, <2>2, <2>3 DEF WriteFile, writer, TurnInv, TypeOK
<1>10. ASSUME NEW f \in Flusher, FileFails(f)
       PROVE  TurnInv'
  <2>1. st[f] # "live"
    BY <1>10 DEF FileFails, TurnInv, Spans, Files
  <2> QED
    BY <1>10, <2>1 DEF FileFails, Fails, writer, TurnInv, TypeOK
<1>11. CASE Restart
  BY <1>11 DEF Restart, TurnInv, TypeOK, W!TypeOK
<1> QED
  BY <1>1, <1>2, <1>4, <1>5, <1>6, <1>7, <1>8, <1>9, <1>10, <1>11 DEF Next

(* The entry of a span is added to those of its Flush, and to no other's.   *)
LEMMA SpanAdds ==
  ASSUME TypeOK, NEW f \in Flusher, NEW k, W!WriteSpan(f, k, SpanLen)
  PROVE  \E e : /\ e.key = k /\ e.size = SpanTotal
                /\ entries' = [entries EXCEPT ![f] = @ \cup {e}]
                /\ Keys(f)' = Keys(f) \cup {k}
<1>1. PICK e : /\ e.key = k /\ e.size = SpanTotal
               /\ entries' = [entries EXCEPT ![f] = @ \cup {e}]
  BY DEF W!WriteSpan, SpanTotal
<1>2. entries'[f] = entries[f] \cup {e}
  BY <1>1 DEF TypeOK, W!TypeOK
<1>3. Keys(f)' = Keys(f) \cup {k}
  BY <1>1, <1>2 DEF Keys
<1> QED
  BY <1>1, <1>3

LEMMA StepWrote ==
  ASSUME TypeOK, LeftInv, TurnInv, WroteInv, [Next]_vars
  PROVE  WroteInv'
<1>1. CASE /\ entries' = entries /\ snap' = snap /\ left' = left
           /\ stage' = stage \/ (\E f \in Flusher : /\ stage[f] \notin {"files"} \cup Spans
                                                    /\ stage' = [stage EXCEPT ![f] = After[@]]
                                                    /\ stage[f] \in {"close"} \cup Files)
  <2>1. \A f \in Flusher : Keys(f)' = Keys(f)
    BY <1>1 DEF Keys
  <2>2. \A s \in {"close"} \cup Files : After[s] \notin Spans
    BY DEF After, Files, Spans
  <2> QED
    BY <1>1, <2>1, <2>2 DEF WroteInv, TypeOK, Spans, Files
<1>2. ASSUME NEW f \in Flusher, Flush(f)
      PROVE  WroteInv'
  <2>1. /\ stage[f] = "files" /\ entries[f] = {} /\ UNCHANGED <<entries, stage>>
        /\ snap' = [snap EXCEPT ![f] = overlay]
        /\ left' = [left EXCEPT ![f] = Present(overlay)]
    BY <1>2 DEF Flush, W!NewWriter, TurnInv, Present
  <2>2. \A g \in Flusher : Keys(g)' = Keys(g)
    BY <2>1 DEF Keys
  <2> QED
    BY <2>1, <2>2 DEF WroteInv, TypeOK
<1>3. ASSUME NEW f \in Flusher, NEW n \in Name, WriteContent(f, n)
      PROVE  WroteInv'
  <2> DEFINE k == File(snap[f][n])
  <2>1. PICK e : /\ e.key = k /\ e.size = SpanTotal
                 /\ entries' = [entries EXCEPT ![f] = @ \cup {e}]
                 /\ Keys(f)' = Keys(f) \cup {k}
    BY <1>3, SpanAdds DEF WriteContent
  <2>2. \A g \in Flusher \ {f} : entries'[g] = entries[g] /\ Keys(g)' = Keys(g)
    BY <2>1 DEF Keys, TypeOK, W!TypeOK
  <2>3. \A d \in entries'[f] : d.size = SpanTotal
    BY <2>1 DEF WroteInv, TypeOK, W!TypeOK
  <2>4. /\ left' = [left EXCEPT ![f] = @ \ {n}] /\ snap' = snap /\ stage[f] = "files"
        /\ stage' = [stage EXCEPT ![f] = IF left'[f] = {} THEN "install" ELSE @]
    BY <1>3 DEF WriteContent, After
  <2>5. \A m \in Present(snap[f]) \ left'[f] : File(snap[f][m]) \in Keys(f)'
    BY <2>1, <2>4 DEF WroteInv, TypeOK
  <2>6. \A g \in Flusher \ {f} : left'[g] = left[g] /\ stage'[g] = stage[g]
    BY <2>4
  <2>7. stage'[f] # "files" => left'[f] = {} /\ stage'[f] = "install"
    BY <2>4 DEF TypeOK
  <2> QED
    BY <2>2, <2>3, <2>4, <2>5, <2>6, <2>7 DEF WroteInv
<1>4. ASSUME NEW f \in Flusher, NoContent(f)
      PROVE  WroteInv'
  <2>1. /\ stage[f] = "files" /\ left[f] = {} /\ UNCHANGED <<entries, snap, left>>
        /\ stage' = [stage EXCEPT ![f] = "install"]
    BY <1>4 DEF NoContent, writer, After
  <2>2. \A g \in Flusher : Keys(g)' = Keys(g)
    BY <2>1 DEF Keys
  <2> QED
    BY <2>1, <2>2 DEF WroteInv, TypeOK
<1>5. ASSUME NEW f \in Flusher, WriteManifest(f)
      PROVE  WroteInv'
  <2> DEFINE k == Manifest(f)
  <2>1. PICK e : /\ e.key = k /\ e.size = SpanTotal
                 /\ entries' = [entries EXCEPT ![f] = @ \cup {e}]
                 /\ Keys(f)' = Keys(f) \cup {k}
    BY <1>5, SpanAdds DEF WriteManifest
  <2>2. \A g \in Flusher \ {f} : entries'[g] = entries[g] /\ Keys(g)' = Keys(g)
    BY <2>1 DEF Keys, TypeOK, W!TypeOK
  <2>3. \A d \in entries'[f] : d.size = SpanTotal
    BY <2>1 DEF WroteInv, TypeOK, W!TypeOK
  <2>4. /\ stage[f] \in {"install", "download", "encoding"} /\ UNCHANGED <<left, snap>>
        /\ stage' = [stage EXCEPT ![f] = After[@]]
    BY <1>5 DEF WriteManifest, Spans
  <2>5. /\ stage[f] = "install" => k = Install(snap[f])
        /\ stage[f] = "encoding" => k = Encoding(snap[f])
    BY DEF Manifest
  <2>6. /\ After["install"] = "download" /\ After["download"] = "encoding"
        /\ After["encoding"] = "close"
    BY DEF After
  <2>7. \A g \in Flusher \ {f} : stage'[g] = stage[g]
    BY <2>4
  <2>8. stage'[f] = After[stage[f]]
    BY <2>4 DEF TypeOK
  <2> HIDE DEF k
  <2> QED
    BY <2>1, <2>2, <2>3, <2>4, <2>5, <2>6, <2>7, <2>8 DEF WroteInv
<1>6. ASSUME NEW f \in Flusher,
             SpanFails(f) \/ CloseWriter(f) \/ Truncate(f) \/ WriteFile(f) \/ FileFails(f)
      PROVE  WroteInv'
  <2>1. entries' = entries /\ snap' = snap /\ left' = left
    BY <1>6 DEF SpanFails, CloseWriter, Truncate, WriteFile, FileFails, writer,
                W!WriteFails, W!OpenFails, W!Close
  <2>2. WriteFile(f) => stage[f] \in Files
    BY DEF WriteFile, LeftInv
  <2>3. \/ stage' = stage
        \/ stage[f] \in {"close"} \cup Files /\ stage' = [stage EXCEPT ![f] = After[@]]
    BY <1>6, <2>2 DEF SpanFails, CloseWriter, Truncate, WriteFile, FileFails
  <2>4. \A s \in {"close"} \cup Files : s \notin {"files"} \cup Spans
    BY DEF Spans, Files
  <2> QED
    BY <2>1, <2>3, <2>4, <1>1
<1>7. CASE Edit \/ Restart \/ UNCHANGED vars
  BY <1>1, <1>7 DEF Edit, Restart, vars, writer, flush
<1> QED
  BY <1>2, <1>3, <1>4, <1>5, <1>6, <1>7 DEF Next

(* The manifest files are different files.                                  *)
LEMMA FileNames ==
  ASSUME NEW x \in Files, NEW s
  PROVE  /\ FileAt(x, s) = Idx <=> x = "idx"
         /\ FileAt(x, s) = BuildInfo <=> x = "info"
         /\ \A t : FileAt("config", t) = FileAt(x, s) => x = "config"
  BY DEF Files, FileAt, Idx, BuildInfo

(* A Flush that has written its .idx file appends no more, and never goes   *)
(* back.                                                                    *)
LEMMA IndexedStays ==
  ASSUME TypeOK, LeftInv, TurnInv, [Next]_vars, NEW f \in Flusher, Indexed(f)
  PROVE  /\ Indexed(f)' /\ StoredOf(f)' = StoredOf(f) /\ snap'[f] = snap[f]
         /\ \/ stage'[f] = stage[f]
            \/ WriteFile(f)
<1>1. stage[f] \in {"config", "cdn", "info", "end"} /\ stage[f] \notin Spans \cup {"close", "idx"}
  BY DEF Indexed, Spans
<1>2. /\ After["config"] = "cdn" /\ After["cdn"] = "info" /\ After["info"] = "end"
  BY DEF After
<1>3. CASE \E g \in Flusher : g # f /\ (\/ Flush(g) \/ NoContent(g) \/ WriteManifest(g)
                                        \/ \E n \in Name : WriteContent(g, n))
  <2>1. PICK g \in Flusher \ {f} : \/ Flush(g) \/ NoContent(g) \/ WriteManifest(g)
                                   \/ \E n \in Name : WriteContent(g, n)
    BY <1>3
  <2>2. stage'[f] = stage[f] /\ snap'[f] = snap[f]
    BY <2>1 DEF Flush, NoContent, WriteManifest, WriteContent, TypeOK
  <2>3. entries'[f] = entries[f]
    BY <2>1 DEF Flush, NoContent, WriteManifest, WriteContent, TypeOK, W!TypeOK,
                W!NewWriter, W!WriteSpan, writer
  <2> QED
    BY <2>2, <2>3, <1>1 DEF Indexed, StoredOf
<1>4. ~(\/ Flush(f) \/ NoContent(f) \/ WriteManifest(f) \/ \E n \in Name : WriteContent(f, n))
  BY <1>1 DEF Flush, NoContent, WriteManifest, WriteContent, TurnInv, Spans
<1>5. ASSUME NEW g \in Flusher,
             SpanFails(g) \/ CloseWriter(g) \/ Truncate(g) \/ WriteFile(g) \/ FileFails(g)
      PROVE  /\ entries' = entries /\ snap' = snap
             /\ stage'[f] = stage[f] \/ (WriteFile(f) /\ stage'[f] = After[stage[f]])
  <2>1. entries' = entries /\ snap' = snap
    BY <1>5 DEF SpanFails, CloseWriter, Truncate, WriteFile, FileFails, writer,
                W!WriteFails, W!OpenFails, W!Close
  <2>2. CloseWriter(g) => g # f
    BY <1>1 DEF CloseWriter
  <2> QED
    BY <1>5, <2>1, <2>2 DEF SpanFails, CloseWriter, Truncate, WriteFile, FileFails, TypeOK
<1>6. ASSUME WriteFile(f)
      PROVE  stage[f] # "end"
  BY <1>6 DEF WriteFile, LeftInv, Files
<1>7. CASE \E g \in Flusher :
             SpanFails(g) \/ CloseWriter(g) \/ Truncate(g) \/ WriteFile(g) \/ FileFails(g)
  BY <1>7, <1>1, <1>2, <1>5, <1>6 DEF Indexed, StoredOf
<1>8. CASE Edit \/ Restart \/ UNCHANGED vars
  BY <1>8 DEF Edit, Restart, vars, writer, flush, Indexed, StoredOf
<1> QED
  BY <1>3, <1>4, <1>7, <1>8 DEF Next

LEMMA StepIndex ==
  ASSUME TypeOK, LeftInv, TurnInv, IndexInv, [Next]_vars
  PROVE  IndexInv'
<1>1. CASE \A f \in Flusher : ~WriteFile(f)
  <2>1. index' = index /\ whole' \subseteq whole
    BY <1>1 DEF Next, Edit, Flush, WriteContent, NoContent, WriteManifest, SpanFails, CloseWriter,
                Truncate, FileFails, Restart, vars, file
  <2> QED
    BY <2>1, IndexedStays DEF IndexInv
<1>2. ASSUME NEW f \in Flusher, WriteFile(f)
      PROVE  IndexInv'
  <2>1. stage[f] \in Files
    BY <1>2 DEF WriteFile, LeftInv
  <2>2. CASE stage[f] = "idx"
    <3>1. index' = StoredOf(f)' /\ stage'[f] = After["idx"]
      BY <1>2, <2>2 DEF WriteFile, writer, StoredOf, TypeOK
    <3>2. Indexed(f)'
      BY <3>1 DEF Indexed, After
    <3> QED
      BY <3>1, <3>2 DEF IndexInv
  <2>3. CASE stage[f] # "idx"
    <3>1. FileAt(stage[f], snap[f]) # Idx
      BY <2>1, <2>3, FileNames
    <3>2. index' = index /\ (Idx \in whole' => Idx \in whole)
      BY <1>2, <2>3, <3>1 DEF WriteFile
    <3> QED
      BY <3>2, IndexedStays DEF IndexInv
  <2> QED
    BY <2>2, <2>3
<1> QED
  BY <1>1, <1>2

LEMMA StepNewest ==
  ASSUME TypeOK, LeftInv, TurnInv, NewestInv, [Next]_vars
  PROVE  NewestInv'
<1>0. Flusher \subseteq Int
  BY FlushAssumption DEF Flusher
<1> DEFINE early == Spans \cup {"close"}
<1>1. CASE /\ UNCHANGED file
           /\ \A f \in Flusher : stage'[f] # stage[f] =>
                stage[f] \in early /\ stage'[f] \in early \cup {"idx"}
  <2>1. \A f \in Flusher : IsNewest(f)' => IsNewest(f)
    BY <1>1 DEF IsNewest, KeepsLast, file
  <2>2. ASSUME NEW f \in Flusher, stage'[f] \in {"config", "cdn", "info", "end"}
        PROVE  /\ stage'[f] = stage[f] /\ Indexed(f)
               /\ StoredOf(f)' = StoredOf(f) /\ snap'[f] = snap[f]
    <3>1. stage'[f] = stage[f] /\ Indexed(f)
      BY <1>1, <2>2 DEF Spans, Indexed
    <3> QED
      BY <3>1, IndexedStays
  <2> QED
    BY <1>1, <2>1, <2>2 DEF NewestInv, Indexed, file
<1>2. ASSUME NEW h \in Flusher, Truncate(h) \/ WriteFile(h)
      PROVE  /\ stage[h] \in Files /\ entries' = entries /\ snap' = snap
             /\ \A f \in Flusher \ {h} : stage'[f] = stage[f]
             /\ \A f \in Flusher : f > h => stage'[f] = "files" /\ stage[f] = "files"
             /\ IsNewest(h)
  <2>1. stage[h] \in Files /\ entries' = entries /\ snap' = snap
    BY <1>2 DEF Truncate, WriteFile, LeftInv, writer
  <2>2. \A f \in Flusher \ {h} : stage'[f] = stage[f]
    BY <1>2 DEF Truncate, WriteFile, TypeOK
  <2>3. \A f \in Flusher : f > h => stage[f] = "files"
    BY <1>2 DEF Truncate, WriteFile, Running, TurnInv
  <2>4. \A f \in Flusher : f > h => f # h
    BY <1>0
  <2> QED
    BY <2>1, <2>2, <2>3, <2>4 DEF IsNewest, KeepsLast, Spans
<1>3. ASSUME NEW h \in Flusher, Truncate(h)
      PROVE  NewestInv'
  <2>1. /\ stage' = stage /\ index' = index /\ info' = info
        /\ whole' = whole \ {FileAt(stage[h], snap[h])}
    BY <1>3 DEF Truncate
  <2>2. ASSUME NEW f \in Flusher, f < h PROVE ~IsNewest(f)'
    <3>1. stage[h] \notin early
      BY <1>2, <1>3 DEF Files, Spans
    <3>2. stage[h] = "idx" => Idx \notin whole'
      BY <2>1 DEF FileAt, Idx
    <3> QED
      BY <2>1, <2>2, <3>1, <3>2 DEF IsNewest, KeepsLast
  <2>3. ASSUME NEW f \in Flusher, f > h PROVE stage'[f] = "files"
    BY <2>3, <1>2, <1>3
  <2>4. stage[h] # "end" /\ StoredOf(h)' = StoredOf(h)
    BY <1>2, <1>3 DEF Files, StoredOf
  <2>5. /\ Indexed(h) => Idx \in whole' /\ index' = StoredOf(h)'
        /\ stage[h] \in {"cdn", "info"} => FileAt("config", snap[h]) \in whole'
    <3>1. stage[h] # "idx" => FileAt(stage[h], snap[h]) # Idx
      BY <1>2, <1>3, FileNames
    <3>2. stage[h] # "config" => FileAt("config", snap[h]) # FileAt(stage[h], snap[h])
      BY <1>2, <1>3, FileNames
    <3> QED
      BY <1>2, <1>3, <2>1, <2>4, <3>1, <3>2 DEF NewestInv, Indexed
  <2>6. \A f \in Flusher : f < h \/ f = h \/ f > h
    BY <1>0
  <2> QED
    BY <1>2, <1>3, <2>1, <2>2, <2>3, <2>4, <2>5, <2>6 DEF NewestInv, Indexed
<1>4. ASSUME NEW h \in Flusher, WriteFile(h)
      PROVE  NewestInv'
  <2>1. /\ stage'[h] = After[stage[h]]
        /\ whole' = whole \cup {FileAt(stage[h], snap[h])}
        /\ index' = IF stage[h] = "idx" THEN StoredOf(h) ELSE index
        /\ info' = IF stage[h] = "info" THEN snap[h] ELSE info
    BY <1>4 DEF WriteFile, StoredOf, TypeOK
  <2>2. stage[h] \in {"idx", "config", "cdn", "info"}
    BY <1>2, <1>4 DEF Files
  <2>3. stage'[h] \in {"config", "cdn", "info", "end"}
    BY <1>2, <1>4, <2>1 DEF After, Files
  <2>4. ASSUME NEW f \in Flusher, f < h PROVE ~IsNewest(f)'
    BY <2>3, <2>4 DEF IsNewest, KeepsLast, Spans
  <2>5. ASSUME NEW f \in Flusher, f > h PROVE stage'[f] = "files"
    BY <2>5, <1>2, <1>4
  <2>6. StoredOf(h)' = StoredOf(h) /\ snap'[h] = snap[h]
    BY <1>2, <1>4 DEF StoredOf
  <2>7. /\ stage[h] = "idx" => stage'[h] = "config" /\ FileAt(stage[h], snap[h]) = Idx
        /\ stage[h] = "config" => stage'[h] = "cdn"
        /\ stage[h] = "cdn" => stage'[h] = "info"
        /\ stage[h] = "info" => stage'[h] = "end" /\ FileAt(stage[h], snap[h]) = BuildInfo
    BY <2>1 DEF After, FileAt, Idx, BuildInfo
  <2>8. /\ Idx \in whole' /\ index' = StoredOf(h)'
        /\ stage'[h] \in {"cdn", "info", "end"} => FileAt("config", snap'[h]) \in whole'
        /\ stage'[h] = "end" => BuildInfo \in whole' /\ info' = snap'[h]
    BY <1>2, <1>4, <2>1, <2>2, <2>6, <2>7 DEF NewestInv, Indexed
  <2>9. \A f \in Flusher : f < h \/ f = h \/ f > h
    BY <1>0
  <2> QED
    BY <2>4, <2>5, <2>8, <2>9 DEF NewestInv, Indexed
<1>5. CASE \A h \in Flusher : ~Truncate(h) /\ ~WriteFile(h)
  <2>1. UNCHANGED file
    BY <1>5 DEF Next, Edit, Flush, WriteContent, NoContent, WriteManifest, SpanFails, CloseWriter,
                FileFails, Restart, vars, file
  <2>2. \A x \in early : After[x] \in early \cup {"idx"}
    BY DEF After, Spans
  <2>3. \A f \in Flusher : stage'[f] # stage[f] => stage[f] \in early /\ stage'[f] = After[stage[f]]
    BY <1>5 DEF Next, Edit, Flush, WriteContent, NoContent, WriteManifest, SpanFails, CloseWriter,
                FileFails, Restart, vars, flush, Spans, TypeOK
  <2> QED
    BY <1>1, <2>1, <2>2, <2>3
<1> QED
  BY <1>3, <1>4, <1>5

LEMMA StepInv ==
  ASSUME Serial, FlushInv, [Next]_vars
  PROVE  FlushInv'
<1> USE DEF FlushInv
<1>1. TypeOK' /\ LeftInv'
  BY StepType
<1>2. P!WriterInv'
  BY StepWriter
<1>3. TurnInv' /\ WroteInv'
  BY StepTurn, StepWrote
<1>4. IndexInv' /\ NewestInv'
  BY StepIndex, StepNewest
<1> QED
  BY <1>1, <1>2, <1>3, <1>4

(* What the two theorems below rest on: with one Flush at a time, each has  *)
(* appended what its stage says (flush.go:94-200), the .idx file is that of *)
(* one Flush, and the files of the newest one are in place as far as it has *)
(* got (flush.go:202-261).                                                  *)
THEOREM FlushInvariant == Serial /\ Spec => []FlushInv
<1> SUFFICES ASSUME Serial PROVE Spec => []FlushInv
  OBVIOUS
<1>1. FlushInv /\ [Next]_vars => FlushInv'
  BY StepInv
<1> QED
  BY <1>1, InvInit, PTL DEF Spec

------------------------------------------------------------------------------
(* An index entry comes back as it was written if its offset and its index  *)
(* fit the digits of the stored number.                                     *)
LEMMA StoredAndLoaded ==
  ASSUME TypeOK, OffsetsFit, NEW f \in Flusher, NEW e \in entries[f]
  PROVE  /\ W!Stored(e).key = e.key
         /\ W!Loaded(W!Stored(e)).index = e.index
         /\ W!Loaded(W!Stored(e)).offs = e.offs
         /\ W!Loaded(W!Stored(e)).size = e.size
<1>0. e \in W!Entry
  BY DEF TypeOK, W!TypeOK
<1>1. /\ e.offs \in Nat /\ e.index \in Nat
      /\ e.offs < 2^OffsBits /\ e.index < 2^(StoreBits - OffsBits)
  BY <1>0, SegmentAssumption DEF W!Entry, OffsetsFit
<1> DEFINE P1 == 2^OffsBits  P2 == 2^(StoreBits - OffsBits)
<1>2. P1 \in Nat \ {0} /\ P2 \in Nat \ {0} /\ e.offs < P1 /\ e.index < P2
  BY <1>1, PowersAssumption
<1>3. W!Or(e.index, e.offs \div P1) = W!Or(e.index, 0) /\ e.offs % P1 = e.offs
  <2> HIDE DEF P1, P2
  <2> QED
    BY <1>1, <1>2
<1>4. W!Or(e.index, 0) = e.index
  BY DEF W!Or
<1>5. e.index % P2 = e.index
  <2> HIDE DEF P1, P2
  <2> QED
    BY <1>1, <1>2
<1> QED
  BY <1>3, <1>4, <1>5 DEF W!Stored, W!Loaded

(* Whoever asks for a key gets it if the .idx file lists it, and nothing    *)
(* else ever.                                                               *)
LEMMA ReadsTheKey ==
  ASSUME FlushInv, OffsetsFit, NEW k \in SpanKey
  PROVE  /\ ReadByEKey(k) \subseteq {k}
         /\ \A f \in Flusher : Idx \in whole /\ index = StoredOf(f) /\ k \in Keys(f)
                               => ReadByEKey(k) = {k}
<1>1. ASSUME NEW f \in Flusher, NEW e \in entries[f], e.key = k
      PROVE  ReadSpan(W!Loaded(W!Stored(e))) = {k}
  <2> DEFINE x == W!Loaded(W!Stored(e))
  <2>1. x.index = e.index /\ x.offs = e.offs /\ x.size = e.size
    BY StoredAndLoaded DEF FlushInv
  <2>2. /\ e.index \in Segment /\ e.offs + e.size <= size[e.index]
        /\ \A i \in 0..(e.size - 1) : cells[e.index][e.offs + i] = [key |-> k, at |-> i]
    BY <1>1 DEF FlushInv, P!WriterInv, P!EntriesIntact, P!SpanAt
  <2>3. 0 \in 0..(e.size - 1)
    BY SegmentAssumption DEF FlushInv, WroteInv, SpanTotal
  <2> HIDE DEF x
  <2>4. \A m \in SpanKey :
          (\A i \in 0..(e.size - 1) : cells[e.index][e.offs + i] = [key |-> m, at |-> i]) <=> m = k
    <3>1. \A m : [key |-> m, at |-> 0] = [key |-> k, at |-> 0] => m = k
      OBVIOUS
    <3> QED
      BY <2>2, <2>3, <3>1
  <2>5. ~(x.index \notin Segment \/ x.offs + x.size > size[x.index])
    <3>1. e.offs + e.size \in Nat /\ size[e.index] \in Nat
      BY <2>2 DEF FlushInv, TypeOK, W!TypeOK, W!Entry
    <3> QED
      BY <2>1, <2>2, <3>1
  <2> QED
    BY <2>1, <2>4, <2>5 DEF ReadSpan, x
<1>2. ASSUME NEW f \in Flusher, index = StoredOf(f), Idx \in whole
      PROVE  /\ ReadByEKey(k) \subseteq {k}
             /\ k \in Keys(f) => ReadByEKey(k) = {k}
  <2>1. \A x \in index : x.key = k => ReadSpan(W!Loaded(x)) = {k}
    BY <1>1, <1>2, StoredAndLoaded DEF StoredOf, FlushInv
  <2>2. k \in Keys(f) => \E x \in index : x.key = k
    BY <1>2, StoredAndLoaded DEF StoredOf, Keys, FlushInv
  <2> QED
    BY <1>2, <2>1, <2>2 DEF ReadByEKey
<1>3. Idx \notin whole => ReadByEKey(k) = {}
  BY DEF ReadByEKey
<1> QED
  BY <1>2, <1>3 DEF FlushInv, IndexInv

(* The keys of different spans differ.                                      *)
LEMMA RootOf ==
  ASSUME FlushInv, OffsetsFit
  PROVE  /\ Roots \subseteq {info}
         /\ \A n \in Name : info[n] # Absent => File(info[n]) \in SpanKey
         /\ Install(info) \in SpanKey /\ Encoding(info) \in SpanKey
<1>1. info \in Snapshot
  BY DEF FlushInv, TypeOK
<1>2. Install(info) \in SpanKey /\ Encoding(info) \in SpanKey
  BY <1>1 DEF SpanKey
<1>3. \A n \in Name : info[n] # Absent => File(info[n]) \in SpanKey
  BY <1>1 DEF Snapshot, SpanKey
<1>4. ReadByEKey(Install(info)) \subseteq {Install(info)}
  BY <1>2, ReadsTheKey
<1> QED
  BY <1>2, <1>3, <1>4 DEF Roots, Install

(* Manifests of two Flushes never mix: in any state of the directory,       *)
(* whatever failed or crashed where, a name gets the content it had in the  *)
(* snapshot that .build.info names, or none (flush.go:203-259), unless an   *)
(* offset does not fit its field of the .idx file (writer.go:134, a segment *)
(* that is full when a Flush begins).                                       *)
THEOREM NoMixtureEver == Serial /\ Spec => [](OffsetsFit => NoMixture)
<1>1. ASSUME FlushInv, OffsetsFit
      PROVE  NoMixture
  <2> SUFFICES ASSUME NEW n \in Name, NEW k \in Serves(n)
               PROVE  k = File(info[n])
    BY DEF NoMixture
  <2>1. info[n] # Absent /\ k \in ReadByEKey(File(info[n]))
    BY <1>1, RootOf DEF Serves
  <2> QED
    BY <1>1, <2>1, RootOf, ReadsTheKey
<1> QED
  BY <1>1, FlushInvariant, PTL

(* A directory serves exactly what the last successful Flush found in the   *)
(* overlay, whatever later Flushes appended or failed to write before they  *)
(* touched the .idx file (flush.go:28, :211-214), under the same condition. *)
THEOREM RoundTrips == Serial /\ Spec => [](OffsetsFit => RoundTrip)
<1>1. ASSUME FlushInv, OffsetsFit
      PROVE  RoundTrip
  <2> SUFFICES ASSUME NEW f \in Flusher, res[f] = "ok", IsNewest(f)
               PROVE  ServesSnapshot(snap[f])
    BY DEF RoundTrip, IsNewest
  <2>1. stage[f] = "end"
    BY <1>1 DEF FlushInv, TurnInv
  <2>2. /\ Idx \in whole /\ index = StoredOf(f) /\ FileAt("config", info) \in whole
        /\ BuildInfo \in whole /\ info = snap[f]
    BY <1>1, <2>1 DEF FlushInv, NewestInv, Indexed
  <2>3. /\ Install(info) \in Keys(f) /\ Encoding(info) \in Keys(f)
        /\ \A n \in Present(info) : File(info[n]) \in Keys(f)
    BY <1>1, <2>1, <2>2 DEF FlushInv, WroteInv
  <2>4. /\ ReadByEKey(Install(info)) = {Install(info)}
        /\ ReadByEKey(Encoding(info)) = {Encoding(info)}
        /\ \A n \in Present(info) : ReadByEKey(File(info[n])) = {File(info[n])}
    BY <1>1, <2>2, <2>3, RootOf, ReadsTheKey DEF Present
  <2>5. Roots = {info}
    BY <2>2, <2>4 DEF Roots, Install
  <2>6. Lists = Present(info)
    BY <2>5 DEF Lists, Present
  <2>7. \A n \in Present(info) : Serves(n) = {File(info[n])}
    BY <2>4, <2>5 DEF Serves, Present
  <2> QED
    BY <2>2, <2>6, <2>7 DEF ServesSnapshot, Present
<1> QED
  BY <1>1, FlushInvariant, PTL

(* The condition holds while no segment file grows beyond the 2^30 bytes    *)
(* that an offset of 30 bits can name, and there are no more of them than   *)
(* an index can name: then nothing is left of it.  A Flush into a segment   *)
(* that is full (MCFlush_full) is where the code lets one grow beyond.      *)
SegmentsFit == /\ \A i \in Addr : i <= 2^OffsBits
               /\ \A s \in Segment : s < 2^(StoreBits - OffsBits)

THEOREM FittingSegmentsRoundTrip ==
  Serial /\ SegmentsFit /\ Spec => [](RoundTrip /\ NoMixture)
<1> SUFFICES ASSUME Serial, SegmentsFit PROVE Spec => [](RoundTrip /\ NoMixture)
  OBVIOUS
<1>1. ASSUME FlushInv
      PROVE  OffsetsFit
  <2> SUFFICES ASSUME NEW f \in Flusher, NEW e \in entries[f]
               PROVE  e.offs < 2^OffsBits /\ e.index < 2^(StoreBits - OffsBits)
    BY DEF OffsetsFit
  <2>1. /\ e \in W!Entry /\ e.size = SpanTotal
        /\ e.index \in Segment /\ e.offs + e.size <= size[e.index]
        /\ size[e.index] \in Addr
    BY <1>1 DEF FlushInv, TypeOK, W!TypeOK, WroteInv, P!WriterInv, P!EntriesIntact, P!SpanAt
  <2>2. e.offs \in Nat /\ e.size \in Nat /\ e.size > 0 /\ size[e.index] \in Nat
    BY <2>1, SegmentAssumption DEF W!Entry, SpanTotal
  <2>3. size[e.index] <= 2^OffsBits /\ 2^OffsBits \in Nat
    BY <2>1, PowersAssumption DEF SegmentsFit
  <2>4. e.offs < 2^OffsBits
    BY <2>1, <2>2, <2>3
  <2> QED
    BY <2>1, <2>4 DEF SegmentsFit
<1> QED
  BY <1>1, FlushInvariant, RoundTrips, NoMixtureEver, PTL
==============================================================================
