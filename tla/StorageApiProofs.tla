--------------------------- MODULE StorageApiProofs ---------------------------
(***************************************************************************)
(* Proofs about StorageApi, for any build, workload and goroutines: when a  *)
(* method of a Storage may dereference nil, what a root needs, and that a   *)
(* lookup reads the span its argument names, says truly that it does not    *)
(* exist, and is listed as what it is.                                      *)
(***************************************************************************)
EXTENDS StorageApi, TLAPS

------------------------------------------------------------------------------
(* What holds of the storage, and of a call that tested s.inner.Root: it    *)
(* may find it gone only when Close has run.                                *)
Holding   == {"known", "walk", "count", "features"}
LockFree  == {"id", "find", "info"}
NilCall(c) == \/ phase = "created" /\ c.op \notin {"readckey", "readekey", "find"}
              \/ c.closed /\ c.op \in LockFree

StoreInv == /\ phase \in {"encoding", "root"} => root = NoRoot
            /\ root # NoRoot /\ phase # "closing" => encoding
CallShape(c) == {"pc", "op", "closed", "seen"} \subseteq DOMAIN c /\ c.closed \in BOOLEAN
(* Close marks the calls it finds, and those that start after it know.      *)
Runs(c)   == c.pc \notin {"idle", "file", "panic", "close", "clear"}
Marked(c) == Runs(c) /\ phase \in Closing => c.closed
CallInv(c) == /\ Marked(c)
              /\ c.pc \in Holding => c.op \in LockFree /\ (c.closed \/ root # NoRoot)
              /\ c.pc = "panic" => NilCall(c)
CallOK(c)  == CallShape(c) /\ CallInv(c)
CallsOK    == DOMAIN call = Proc /\ \A p \in Proc : CallOK(call[p])
ApiInv     == StoreInv /\ CallsOK

LEMMA IdleOK == CallOK(Idle)
  BY DEF CallOK, CallShape, CallInv, Marked, Runs, Idle, Holding

LEMMA InitInv == Init => ApiInv
<1> SUFFICES ASSUME Init PROVE ApiInv
  OBVIOUS
<1>1. StoreInv
  BY DEF Init, StoreInv
<1>2. CallsOK
  BY IdleOK DEF Init, CallsOK
<1> QED
  BY <1>1, <1>2 DEF ApiInv

(* A step of a call that leaves the storage alone.                          *)
LEMMA SetInv ==
  ASSUME ApiInv, NEW p \in Proc, NEW c, CallOK(c), Set(p, c)
  PROVE  ApiInv'
<1>1. StoreInv'
  BY DEF ApiInv, StoreInv, Set, stored
<1>2. CallsOK'
  BY DEF ApiInv, CallsOK, CallOK, CallShape, CallInv, Marked, NilCall, Set, stored
<1> QED
  BY <1>1, <1>2 DEF ApiInv

LEMMA EndsOK ==
  ASSUME NEW c, CallShape(c), NEW status
  PROVE  /\ CallOK(Ends(c, status)) /\ Ends(c, status).op = c.op
         /\ Ends(c, status).closed = c.closed
  BY DEF Ends, Idle, CallOK, CallShape, CallInv, Marked, Runs, Holding

LEMMA ReturnInv ==
  ASSUME ApiInv, NEW p \in Proc, NEW status, Return(p, status)
  PROVE  ApiInv'
  BY EndsOK, SetInv DEF Return, ApiInv, CallsOK, CallOK

LEMMA PanicInv ==
  ASSUME ApiInv, NEW p \in Proc, NilCall(call[p]), Panic(p)
  PROVE  ApiInv'
<1> DEFINE e == Ends(call[p], "none")
           c == [e EXCEPT !.pc = "panic"]
<1>1. CallShape(call[p])
  BY DEF ApiInv, CallsOK, CallOK
<1>2. CallOK(e) /\ e.op = call[p].op /\ e.closed = call[p].closed
  BY <1>1, EndsOK
<1>3. CallOK(c)
  BY <1>2 DEF CallOK, CallShape, CallInv, Marked, Runs, NilCall, Holding
<1>4. Set(p, c)
  BY DEF Panic
<1> QED
  BY <1>3, <1>4, SetInv

(* A call goes on where it holds no root, with the same method.             *)
LEMMA GoesOnInv ==
  ASSUME ApiInv, NEW p \in Proc, NEW c,
         CallShape(c), c.pc \notin Holding \cup {"panic"}, Set(p, c),
         c.pc = "file" \/ (Runs(call[p]) /\ c.closed = call[p].closed)
  PROVE  ApiInv'
<1>1. CallOK(call[p])
  BY DEF ApiInv, CallsOK
<1>2. Marked(c)
  BY <1>1 DEF CallOK, CallInv, Marked, Runs
<1> QED
  BY <1>2, SetInv DEF CallOK, CallInv

------------------------------------------------------------------------------
(* The actions, one lemma for each group of them.                           *)
LEMMA CallType == ASSUME ApiInv, NEW p \in Proc PROVE CallOK(call[p]) /\ CallShape(call[p])
  BY DEF ApiInv, CallsOK, CallOK

LEMMA LoadStep == ASSUME ApiInv, LoadEncoding \/ LoadRoot PROVE ApiInv'
<1>1. StoreInv'
  BY DEF ApiInv, StoreInv, LoadEncoding, LoadRoot
<1>2. CallsOK'
  BY DEF ApiInv, StoreInv, CallsOK, CallOK, CallShape, CallInv, Marked, Closing, NilCall,
         LoadEncoding, LoadRoot
<1> QED
  BY <1>1, <1>2 DEF ApiInv

LEMMA StartStep ==
  ASSUME ApiInv, NEW p \in Proc, NEW o \in Op, NEW arg, Start(p, o, arg)
  PROVE  ApiInv'
<1> DEFINE c == [Idle EXCEPT !.pc = "enter", !.op = o, !.arg = arg,
                             !.closed = phase \in Closing, !.seen = [k \in KeyName |-> {keys[k]}]]
<1>1. CallShape(c) /\ c.pc = "enter" /\ c.closed = (phase \in Closing)
  BY DEF CallShape, Idle
<1>2. Set(p, c)
  BY DEF Start
<1> HIDE DEF c
<1>3. CallOK(c)
  BY <1>1 DEF CallOK, CallInv, Marked, Holding
<1> QED
  BY <1>2, <1>3, SetInv

LEMMA CancelStep == ASSUME ApiInv, NEW p \in Proc, Cancel(p) PROVE ApiInv'
<1> DEFINE c == [call[p] EXCEPT !.ctx = "cancelled"]
<1>1. CallOK(c)
  BY CallType DEF CallOK, CallShape, CallInv, Marked, Runs, NilCall
<1>2. Set(p, c)
  BY DEF Cancel
<1> QED
  BY <1>1, <1>2, SetInv

LEMMA LocateInv ==
  ASSUME ApiInv, NEW p \in Proc, NEW e, Locate(p, e), Runs(call[p])
  PROVE  ApiInv'
<1> DEFINE c == [call[p] EXCEPT !.pc = "locate", !.ekey = e]
<1>1. CallShape(c) /\ c.pc = "locate" /\ c.closed = call[p].closed
  BY CallType DEF CallShape
<1>2. Set(p, c)
  BY DEF Locate
<1> QED
  BY <1>1, <1>2, GoesOnInv DEF Holding

LEMMA EnterStep ==
  ASSUME ApiInv, NEW p \in Proc, EnterCancelled(p) \/ EnterCreated(p)
  PROVE  ApiInv'
<1>1. CASE EnterCancelled(p)
  BY <1>1, ReturnInv DEF EnterCancelled
<1>2. CASE EnterCreated(p)
  <2>1. CASE call[p].op \in {"readckey", "readekey", "find"}
    BY <1>2, <2>1, ReturnInv DEF EnterCreated
  <2>2. CASE call[p].op \notin {"readckey", "readekey", "find"}
    <3>1. Panic(p) /\ NilCall(call[p])
      BY <1>2, <2>2 DEF EnterCreated, NilCall
    <3> QED
      BY <3>1, PanicInv
  <2> QED
    BY <2>1, <2>2
<1> QED
  BY <1>1, <1>2

LEMMA LookupStep ==
  ASSUME ApiInv, NEW p \in Proc, FindByName(p) \/ FindByCKey(p) \/ ByEKey(p)
  PROVE  ApiInv'
<1>1. (\E status : Return(p, status)) \/ \E e : Locate(p, e)
  BY DEF FindByName, FindByCKey, ByEKey
<1>2. Runs(call[p])
  BY DEF FindByName, FindByCKey, ByEKey, Enters, At, Runs
<1> QED
  BY <1>1, <1>2, ReturnInv, LocateInv

(* The test of s.inner.Root, and its uses.                                  *)
LEMMA TestRootStep == ASSUME ApiInv, NEW p \in Proc, TestRoot(p) PROVE ApiInv'
<1> DEFINE c == [call[p] EXCEPT !.pc = "known"]
<1>1. CASE root = NoRoot
  BY <1>1, ReturnInv DEF TestRoot
<1>2. CASE root # NoRoot
  <2>1. Set(p, c) /\ call[p].op \in LockFree
    BY <1>2 DEF TestRoot, Enters, LockFree
  <2>2. CallOK(c)
    <3>1. call[p].pc = "enter"
      BY DEF TestRoot, Enters, At
    <3> QED
      BY <1>2, <2>1, <3>1, CallType DEF CallOK, CallShape, CallInv, Marked, Runs
  <2> QED
    BY <2>1, <2>2, SetInv
<1> QED
  BY <1>1, <1>2

LEMMA GoneIsClosed ==
  ASSUME ApiInv, NEW p \in Proc, call[p].pc \in Holding, root = NoRoot
  PROVE  NilCall(call[p])
  BY CallType DEF CallOK, CallInv, NilCall

LEMMA ByIdStep == ASSUME ApiInv, NEW p \in Proc, LookupByFileDataID(p) PROVE ApiInv'
<1>1. \/ root = NoRoot /\ Panic(p)
      \/ \E status : Return(p, status)
      \/ \E e : Locate(p, e)
  BY DEF LookupByFileDataID
<1>2. call[p].pc \in Holding
  BY DEF LookupByFileDataID, At, Holding
<1>3. Runs(call[p])
  BY <1>2 DEF Runs, Holding
<1> QED
  BY <1>1, <1>2, <1>3, GoneIsClosed, PanicInv, ReturnInv, LocateInv

LEMMA FindStep ==
  ASSUME ApiInv, NEW p \in Proc, Find(p)
  PROVE  ApiInv'
<1>1. CASE FindEncoding(p)
  <2> DEFINE c == [call[p] EXCEPT !.pc = "walk", !.enc = encoding]
  <2>1. Set(p, c) /\ call[p].pc = "known"
    BY <1>1 DEF FindEncoding, At
  <2>2. CallOK(c)
    BY <2>1, CallType DEF CallOK, CallShape, CallInv, Marked, Runs, Holding
  <2> QED
    BY <2>1, <2>2, SetInv
<1>2. CASE FindWalk(p)
  <2> DEFINE c == [call[p] EXCEPT !.pc = "visit", !.todo = DOMAIN root]
  <2>1. (root = NoRoot /\ Panic(p)) \/ Set(p, c)
    BY <1>2 DEF FindWalk
  <2>2. call[p].pc \in Holding
    BY <1>2 DEF FindWalk, At, Holding
  <2>3. CallShape(c) /\ c.pc = "visit" /\ c.closed = call[p].closed
    BY CallType DEF CallShape
  <2>4. Runs(call[p])
    BY <2>2 DEF Runs, Holding
  <2> QED
    BY <2>1, <2>2, <2>3, <2>4, GoneIsClosed, PanicInv, GoesOnInv DEF Holding
<1>3. CASE FindDone(p)
  BY <1>3, ReturnInv DEF FindDone
<1>4. ASSUME NEW n \in Name, FindVisit(p, n) PROVE ApiInv'
  <2> DEFINE ek == Complete(build.root[n], call[p].enc)
             c(more) == [call[p] EXCEPT !.todo = IF more THEN @ \ {n} ELSE {},
                           !.found = @ \cup {[name |-> n, ekey |-> ek, available |-> ek \in ekeys]}]
  <2>1. PICK more \in BOOLEAN : Set(p, c(more))
    BY <1>4 DEF FindVisit
  <2>2. /\ CallShape(c(more)) /\ c(more).pc = "visit" /\ c(more).closed = call[p].closed
        /\ Runs(call[p])
    BY <1>4, CallType DEF CallShape, FindVisit, At, Runs
  <2> QED
    BY <2>1, <2>2, GoesOnInv DEF Holding
<1> QED
  BY <1>1, <1>2, <1>3, <1>4 DEF Find

LEMMA InfoStep == ASSUME ApiInv, NEW p \in Proc, GetInfo(p) PROVE ApiInv'
<1> DEFINE c(pc) == [call[p] EXCEPT !.pc = pc]
<1>1. call[p].pc \in Holding
  BY DEF GetInfo, At, Holding
<1>2. \/ root = NoRoot /\ Panic(p)
      \/ \E pc \in Holding : Set(p, c(pc))
      \/ \E status : Return(p, status)
  BY DEF GetInfo, Holding
<1>3. \A pc \in Holding : CallOK(c(pc))
  BY <1>1, CallType DEF CallOK, CallShape, CallInv, Marked, Runs, Holding
<1> QED
  BY <1>1, <1>2, <1>3, GoneIsClosed, PanicInv, SetInv, ReturnInv

(* Reading a span and decoding it.                                          *)
LEMMA SpanStep ==
  ASSUME ApiInv, NEW p \in Proc,
         \/ FindByEKey(p) \/ ArchivePool(p) \/ ReadSpan(p) \/ ReadSpanFails(p)
         \/ Fetch(p) \/ FetchFails(p)
  PROVE  ApiInv'
<1> DEFINE c(pc) == [call[p] EXCEPT !.pc = pc]
           d(from) == [call[p] EXCEPT !.pc = "decode", !.from = from]
<1>1. \/ \E pc \in {"pool", "local", "remote"} : Set(p, c(pc))
      \/ \E from : Set(p, d(from))
      \/ \E status : Return(p, status)
  BY DEF FindByEKey, ArchivePool, Elsewhere, ReadSpan, ReadSpanFails, Fetch, FetchFails, Has
<1>2. \A pc \in {"pool", "local", "remote"} :
        CallShape(c(pc)) /\ c(pc).pc = pc /\ c(pc).closed = call[p].closed
  BY CallType DEF CallShape
<1>3. \A from : CallShape(d(from)) /\ d(from).pc = "decode" /\ d(from).closed = call[p].closed
  BY CallType DEF CallShape
<1>4. Runs(call[p])
  BY DEF FindByEKey, ArchivePool, ReadSpan, ReadSpanFails, Fetch, FetchFails, At, Runs
<1> HIDE DEF c, d
<1> QED
  BY <1>1, <1>2, <1>3, <1>4, GoesOnInv, ReturnInv DEF Holding

LEMMA FrameDoneInv ==
  ASSUME ApiInv, NEW p \in Proc, NEW bytes, FrameDone(p, bytes), call[p].pc = "step"
  PROVE  ApiInv'
<1> DEFINE out == call[p].out \o bytes
           o == Opened(call[p], out)
           c == NextFrame(p, out)
<1>1. Set(p, o) \/ Set(p, c)
  BY DEF FrameDone
<1>2. CallShape(o) /\ o.pc = "file"
  BY CallType, EndsOK DEF Opened, CallOK, CallShape
<1>3. CallShape(c) /\ c.pc = "decode" /\ c.closed = call[p].closed
  BY CallType DEF CallShape, NextFrame
<1> QED
  BY <1>1, <1>2, <1>3, GoesOnInv DEF Holding, Runs

LEMMA DecodeFrameStep == ASSUME ApiInv, NEW p \in Proc, DecodeFrame(p) PROVE ApiInv'
<1> DEFINE c == [call[p] EXCEPT !.pc = "step", !.depth = 0,
                                !.cells = B!Encoded(Stream(p), call[p].frame, call[p].cursor)]
<1>1. Set(p, c) \/ \E status : Return(p, status)
  BY DEF DecodeFrame
<1>2. CallShape(c) /\ c.pc = "step" /\ c.closed = call[p].closed /\ call[p].pc = "decode"
  BY CallType DEF CallShape, DecodeFrame, At
<1> QED
  BY <1>1, <1>2, GoesOnInv, ReturnInv DEF Holding, Runs

LEMMA DecodeStepStep == ASSUME ApiInv, NEW p \in Proc, DecodeStep(p) PROVE ApiInv'
<1> DEFINE c(cells) == [call[p] EXCEPT !.cells = cells, !.depth = @ + 1]
<1>1. \/ \E bytes : FrameDone(p, bytes)
      \/ \E cells : Set(p, c(cells))
      \/ \E status : Return(p, status)
  BY DEF DecodeStep
<1>2. call[p].pc = "step"
  BY DEF DecodeStep, At
<1>3. \A cells : CallShape(c(cells)) /\ c(cells).pc = "step" /\ c(cells).closed = call[p].closed
  BY <1>2, CallType DEF CallShape
<1> QED
  BY <1>1, <1>2, <1>3, FrameDoneInv, GoesOnInv, ReturnInv DEF Holding, Runs

(* The File a lookup returned.                                              *)
LEMMA FileStep == ASSUME ApiInv, NEW p \in Proc, UseFile(p) PROVE ApiInv'
<1>1. CASE CloseFile(p)
  BY <1>1, IdleOK, SetInv DEF CloseFile
<1>2. CASE ReadEOF(p)
  <2> DEFINE c == [call[p] EXCEPT !.status = "eof"]
  <2>1. Set(p, c) /\ CallShape(c) /\ c.pc = "file"
    BY <1>2, CallType DEF ReadEOF, At, CallShape
  <2> QED
    BY <2>1, GoesOnInv DEF Holding
<1>3. CASE Read(p)
  <2> DEFINE n == IF Len(call[p].out) - call[p].pos < ReadSize
                  THEN Len(call[p].out) - call[p].pos ELSE ReadSize
             c == [call[p] EXCEPT !.pos = @ + n, !.status = "ok",
                     !.got = @ \o SubSeq(call[p].out, call[p].pos + 1, call[p].pos + n)]
  <2>1. Set(p, c) /\ call[p].pc = "file"
    BY <1>3 DEF Read, At
  <2> HIDE DEF n
  <2>2. CallShape(c) /\ c.pc = "file"
    BY <2>1, CallType DEF CallShape
  <2> QED
    BY <2>1, <2>2, GoesOnInv DEF Holding
<1>4. ASSUME NEW to \in SeekTo, Seek(p, to) PROVE ApiInv'
  <2> DEFINE c == [call[p] EXCEPT !.status = "invalid"]
             d == [call[p] EXCEPT !.pos = to, !.base = to, !.got = <<>>, !.status = "ok"]
  <2>1. (Set(p, c) \/ Set(p, d)) /\ call[p].pc = "file"
    BY <1>4 DEF Seek, At
  <2>2. CallShape(c) /\ CallShape(d) /\ c.pc = "file" /\ d.pc = "file"
    BY <2>1, CallType DEF CallShape
  <2> QED
    BY <2>1, <2>2, GoesOnInv DEF Holding
<1> QED
  BY <1>1, <1>2, <1>3, <1>4 DEF UseFile

------------------------------------------------------------------------------
(* Close marks the calls that may hold the root, before it takes it away.   *)
LEMMA CloseStep == ASSUME ApiInv, NEW p \in Proc, Close(p) PROVE ApiInv'
<1>1. StoreInv' /\ DOMAIN call' = Proc
  BY DEF ApiInv, StoreInv, Close
<1>2. ASSUME NEW q \in Proc, q # p PROVE CallOK(call[q])'
  <2>1. call'[q] = [call[q] EXCEPT !.closed = @ \/ Running(q)]
    BY <1>2 DEF Close
  <2>2. CallShape(call[q])
    BY CallType
  <2>3. /\ call'[q].pc = call[q].pc /\ call'[q].op = call[q].op
        /\ DOMAIN call'[q] = DOMAIN call[q]
        /\ call'[q].closed = (call[q].closed \/ Running(q))
    BY <2>1, <2>2 DEF CallShape
  <2>4. call'[q].closed \in BOOLEAN
    BY <2>3, Zenon
  <2>5. CallShape(call[q])'
    BY <2>2, <2>3, <2>4 DEF CallShape
  <2>6. (call[q].closed => call'[q].closed) /\ (Running(q) => call'[q].closed)
    BY <2>3, Zenon
  <2>7. Marked(call[q])'
    BY <2>3, <2>6 DEF Marked, Runs, Running
  <2>8. phase' # "created" /\ phase # "created" /\ root' = root
    BY DEF Close
  <2> QED
    BY <2>3, <2>5, <2>6, <2>7, <2>8, CallType DEF CallOK, CallInv, NilCall
<1>3. CallOK(call[p])'
  <2> DEFINE c == [Idle EXCEPT !.pc = "close", !.op = "close"]
  <2>1. CallOK(c)' /\ call'[p] = c
    BY DEF Close, CallOK, CallShape, CallInv, Marked, Runs, Idle, Holding
  <2> QED
    BY <2>1
<1> QED
  BY <1>1, <1>2, <1>3 DEF ApiInv, CallsOK

(* The encoding goes under the lock, the root when nobody but marked calls  *)
(* has it.                                                                  *)
LEMMA ClearStep ==
  ASSUME ApiInv, NEW p \in Proc, CloseEncoding(p) \/ CloseRoot(p)
  PROVE  ApiInv'
<1>1. StoreInv' /\ DOMAIN call' = Proc
  BY DEF ApiInv, StoreInv, CallsOK, CloseEncoding, CloseRoot
<1>2. phase = "closing" /\ phase' \in Closing
  BY DEF CloseEncoding, CloseRoot, Closing
<1>3. ASSUME NEW q \in Proc, q # p PROVE CallOK(call[q])'
  <2>1. call'[q] = call[q] /\ CallOK(call[q])
    BY <1>3, CallType DEF CloseEncoding, CloseRoot, ApiInv, CallsOK
  <2>2. call[q].pc \in Holding => call[q].closed
    BY <1>2, <2>1 DEF CallOK, CallInv, Marked, Runs, Holding, Closing
  <2> QED
    BY <1>2, <2>1, <2>2 DEF CallOK, CallShape, CallInv, Marked, Runs, NilCall, Closing
<1>4. CallOK(call[p])'
  <2>1. PICK c : call'[p] = c /\ (c = Idle \/ c = [call[p] EXCEPT !.pc = "clear"])
    BY DEF CloseEncoding, CloseRoot, ApiInv, CallsOK
  <2>2. CASE c = Idle
    BY <2>1, <2>2 DEF CallOK, CallShape, CallInv, Marked, Runs, NilCall, Idle, Holding
  <2>3. CASE c = [call[p] EXCEPT !.pc = "clear"]
    <3>1. /\ c.pc = "clear" /\ c.closed = call[p].closed /\ DOMAIN c = DOMAIN call[p]
          /\ CallOK(call[p])
      BY <2>3, CallType DEF CallShape
    <3> QED
      BY <1>2, <2>1, <3>1
         DEF CallOK, CallShape, CallInv, Marked, Runs, NilCall, Holding, Closing
  <2> QED
    BY <2>1, <2>2, <2>3
<1> QED
  BY <1>1, <1>3, <1>4 DEF ApiInv, CallsOK

LEMMA KeyStep ==
  ASSUME ApiInv, NEW p \in Proc, NEW k, NEW value, AddEncryptionKey(p, k, value)
  PROVE  ApiInv'
<1>1. StoreInv'
  BY DEF ApiInv, StoreInv, AddEncryptionKey
<1>2. DOMAIN call' = Proc
  BY DEF AddEncryptionKey
<1>3. ASSUME NEW q \in Proc PROVE CallOK(call[q])'
  <2>1. call'[q] = call[q] \/ call'[q] = [call[q] EXCEPT !.seen[k] = @ \cup {value}]
    BY DEF AddEncryptionKey
  <2>2. phase' = phase /\ root' = root
    BY DEF AddEncryptionKey
  <2>3. /\ call'[q].pc = call[q].pc /\ call'[q].op = call[q].op
        /\ call'[q].closed = call[q].closed /\ DOMAIN call'[q] = DOMAIN call[q]
    BY <2>1, CallType DEF CallShape
  <2> QED
    BY <2>2, <2>3, CallType DEF CallOK, CallShape, CallInv, Marked, Runs, NilCall
<1> QED
  BY <1>1, <1>2, <1>3 DEF ApiInv, CallsOK

------------------------------------------------------------------------------
LEMMA StepInv == ApiInv /\ [Next]_vars => ApiInv'
<1> SUFFICES ASSUME ApiInv, [Next]_vars PROVE ApiInv'
  OBVIOUS
<1>1. CASE LoadEncoding \/ LoadRoot
  BY <1>1, LoadStep
<1>2. ASSUME NEW p \in Proc, NEW o \in Op, NEW arg \in Args(o), Start(p, o, arg) PROVE ApiInv'
  BY <1>2, StartStep
<1>3. ASSUME NEW p \in Proc, Get(p) PROVE ApiInv'
  BY <1>3, EnterStep, LookupStep, TestRootStep, ByIdStep, SpanStep, DecodeFrameStep, DecodeStepStep
     DEF Get
<1>4. ASSUME NEW p \in Proc, \/ Cancel(p) \/ UseFile(p) \/ Find(p) \/ GetInfo(p)
                              \/ Close(p) \/ CloseEncoding(p) \/ CloseRoot(p)
      PROVE  ApiInv'
  BY <1>4, CancelStep, FileStep, FindStep, InfoStep, CloseStep, ClearStep
<1>5. ASSUME NEW p \in Proc, NEW a \in Added, AddEncryptionKey(p, a[1], a[2]) PROVE ApiInv'
  BY <1>5, KeyStep
<1>6. CASE UNCHANGED vars
  BY <1>6 DEF vars, ApiInv, StoreInv, CallsOK, CallOK, CallShape, CallInv, Marked, NilCall
<1> QED
  BY <1>1, <1>2, <1>3, <1>4, <1>5, <1>6 DEF Next

LEMMA InvMeans == ApiInv => RootNeedsEncoding /\ PanicsNeedClose
  BY DEF ApiInv, StoreInv, CallsOK, CallOK, CallInv, NilCall, LockFree,
         RootNeedsEncoding, PanicsNeedClose

LEMMA ApiInvariant == Spec => []ApiInv
  BY InitInv, StepInv, PTL DEF Spec

------------------------------------------------------------------------------
(* What a lookup has found so far, and what it says: on top of ApiInv.      *)
Reading == {"locate", "pool", "local", "remote", "decode", "step", "file"}

BuildOK == /\ build.root \in Roots /\ build.disk \in Disks /\ build.data \in BOOLEAN
           /\ root \in {NoRoot, build.root}
           /\ ekeys = IF phase \in {"created", "closed"} THEN {}
                      ELSE {e \in EKey : build.disk[e] # "missing"}

InTime(c) == c.pc \notin {"idle", "enter", "panic"} => phase # "created"

(* OpenFileByID never gets beyond the zero key that its entry has.          *)
Located(c) == IF c.op = "id" THEN c.ekey = NoKey /\ c.pc \in {"locate", "remote"}
              ELSE Known(c) /\ c.ekey = Resolved(c)

Listed(c, f) ==
  LET entry == build.root[f.name]
  IN /\ f.ekey = Complete(entry, TRUE) \/ (c.closed /\ f.ekey = entry.ekey)
     /\ f.available => f.ekey # NoKey /\ build.disk[f.ekey] # "missing"
     /\ f.ekey # NoKey /\ build.disk[f.ekey] # "missing" => f.available \/ c.closed

Walking(c) == /\ c.pc \in {"walk", "visit"} => c.enc \/ c.closed
              /\ c.pc = "visit" => c.todo \subseteq DOMAIN build.root
              /\ \A f \in c.found : Listed(c, f)

LookupOK(c) == /\ DOMAIN c = DOMAIN Idle /\ c.arg \in Args(c.op)
               /\ InTime(c) /\ Walking(c)
               /\ c.pc \in Reading => Located(c)
               /\ c.status = "notfound" /\ c.op # "id" => Truthful(c)
LookupInv == BuildOK /\ \A p \in Proc : LookupOK(call[p])

LEMMA Fields ==
  DOMAIN Idle = {"pc", "op", "arg", "status", "ctx", "ekey", "from", "frame", "cursor", "depth", "cells",
                 "out", "pos", "base", "got", "enc", "todo", "found", "seen", "closed"}
  BY DEF Idle

LEMMA IdleValues == /\ Idle.pc = "idle" /\ Idle.op = "none" /\ Idle.arg = NoKey
                    /\ Idle.status = "none" /\ Idle.found = {}
  BY DEF Idle

(* What a call is about depends on its method and argument only.            *)
LEMMA SameAnswer ==
  ASSUME NEW c, NEW d, d.op = c.op, d.arg = c.arg, c.op # "id"
  PROVE  Known(d) = Known(c) /\ Resolved(d) = Resolved(c)
  BY DEF Known, Resolved, Entry

LEMMA SameTruth ==
  ASSUME NEW c, NEW d, d.op = c.op, d.arg = c.arg, c.op # "id", c.closed => d.closed, Truthful(c)
  PROVE  Truthful(d)
  BY SameAnswer DEF Truthful

LEMMA IdleLookupOK == LookupOK(Idle)
  BY IdleValues DEF LookupOK, InTime, Walking, Reading, Args, Op, Getters

LEMMA InitLookup == Init => LookupInv
<1> SUFFICES ASSUME Init PROVE LookupInv
  OBVIOUS
<1>1. BuildOK
  BY DEF Init, BuildOK
<1>2. \A p \in Proc : LookupOK(call[p])
  BY IdleLookupOK DEF Init
<1> QED
  BY <1>1, <1>2 DEF LookupInv

(* A step of one call, which leaves the storage alone.                      *)
LEMMA SetLookup ==
  ASSUME LookupInv, ApiInv, NEW p \in Proc, NEW c, LookupOK(c), Set(p, c)
  PROVE  LookupInv'
<1>1. BuildOK'
  BY DEF LookupInv, BuildOK, Set, stored
<1>2. ASSUME NEW q \in Proc PROVE LookupOK(call[q])'
  <2>1. call'[q] = IF q = p THEN c ELSE call[q]
    BY DEF Set, ApiInv, CallsOK
  <2>2. LookupOK(call'[q])
    BY <2>1 DEF LookupInv
  <2>3. UNCHANGED <<build, opts, phase>>
    BY DEF Set, stored
  <2>4. InTime(call[q])'
    BY <2>2, <2>3 DEF LookupOK, InTime
  <2>5. Walking(call[q])'
    BY <2>2, <2>3 DEF LookupOK, Walking, Listed
  <2> QED
    BY <2>2, <2>3, <2>4, <2>5 DEF LookupOK, Located, Truthful, Known, Resolved, Entry
<1> QED
  BY <1>1, <1>2 DEF LookupInv

LEMMA LookupType ==
  ASSUME LookupInv, NEW p \in Proc
  PROVE  LookupOK(call[p]) /\ DOMAIN call[p] = DOMAIN Idle
  BY DEF LookupInv, LookupOK

LEMMA EndsLookup ==
  ASSUME NEW c, LookupOK(c), NEW status,
         status = "notfound" /\ c.op # "id" => Truthful(c)
  PROVE  LookupOK(Ends(c, status))
<1> DEFINE e == Ends(c, status)
<1>1. /\ DOMAIN e = DOMAIN Idle /\ e.pc = "idle" /\ e.op = c.op /\ e.arg = c.arg
      /\ e.status = status /\ e.closed = c.closed /\ e.found = {}
  BY Fields, IdleValues DEF Ends
<1> HIDE DEF e
<1>2. status = "notfound" /\ c.op # "id" => Truthful(e)
  BY <1>1, SameTruth
<1> QED
  BY <1>1, <1>2 DEF LookupOK, InTime, Walking, Reading, e

LEMMA ReturnLookup ==
  ASSUME LookupInv, ApiInv, NEW p \in Proc, NEW status, Return(p, status),
         status = "notfound" /\ call[p].op # "id" => Truthful(call[p])
  PROVE  LookupInv'
  BY EndsLookup, SetLookup, LookupType DEF Return

(* A call that stays where it read a span, or goes on to the next place.     *)
LEMMA MovesLookup ==
  ASSUME LookupInv, ApiInv, NEW p \in Proc, NEW c, DOMAIN c = DOMAIN Idle, Set(p, c),
         call[p].pc \in (Reading \cup {"enter", "known"}) \ {"file"}, phase # "created",
         c.op = call[p].op, c.arg = call[p].arg, c.closed = call[p].closed,
         c.found = call[p].found, c.status \in {call[p].status, "ok"},
         c.pc \in Reading, Located(c)
  PROVE  LookupInv'
<1> DEFINE o == call[p]
<1>1. LookupOK(o)
  BY LookupType
<1>2. InTime(c)
  BY <1>1 DEF LookupOK, InTime, Reading
<1>3. Walking(c)
  BY <1>1 DEF LookupOK, Walking, Listed, Reading
<1>4. c.status = "notfound" /\ c.op # "id" => Truthful(c)
  BY <1>1, SameTruth DEF LookupOK
<1>5. LookupOK(c)
  BY <1>1, <1>2, <1>3, <1>4 DEF LookupOK
<1> QED
  BY <1>5, SetLookup

LEMMA PanicLookup == ASSUME LookupInv, ApiInv, NEW p \in Proc, Panic(p) PROVE LookupInv'
<1> DEFINE e == Ends(call[p], "none")
           c == [e EXCEPT !.pc = "panic"]
<1>1. LookupOK(e) /\ DOMAIN e = DOMAIN Idle /\ e.status = "none" /\ e.found = {}
  BY EndsLookup, LookupType, Fields, IdleValues DEF Ends
<1>2. Set(p, c)
  BY DEF Panic
<1> HIDE DEF e
<1>3. LookupOK(c)
  BY <1>1, Fields DEF LookupOK, InTime, Walking, Reading
<1> QED
  BY <1>2, <1>3, SetLookup

------------------------------------------------------------------------------
LEMMA LoadLookup ==
  ASSUME LookupInv, LoadEncoding \/ LoadRoot
  PROVE  LookupInv'
<1>1. BuildOK'
  BY DEF LookupInv, BuildOK, LoadEncoding, LoadRoot
<1>2. ASSUME NEW q \in Proc PROVE LookupOK(call[q])'
  <2>1. /\ UNCHANGED <<build, opts, call>> /\ LookupOK(call[q])
        /\ phase \notin {"created", "closed"} /\ phase' \notin {"created", "closed"}
    BY DEF LookupInv, LoadEncoding, LoadRoot
  <2>2. InTime(call[q])' /\ Walking(call[q])'
    BY <2>1 DEF LookupOK, InTime, Walking, Listed
  <2> QED
    BY <2>1, <2>2 DEF LookupOK, Located, Truthful, Known, Resolved, Entry
<1> QED
  BY <1>1, <1>2 DEF LookupInv

LEMMA StartLookup ==
  ASSUME LookupInv, ApiInv, NEW p \in Proc, NEW o \in Op, NEW arg \in Args(o), Start(p, o, arg)
  PROVE  LookupInv'
<1> DEFINE seen == [k \in KeyName |-> {keys[k]}]
           c == [Idle EXCEPT !.pc = "enter", !.op = o, !.arg = arg,
                             !.closed = phase \in Closing, !.seen = seen]
<1>1. Set(p, c)
  BY DEF Start
<1> HIDE DEF seen
<1>2. /\ DOMAIN c = DOMAIN Idle /\ c.pc = "enter" /\ c.op = o /\ c.arg = arg
      /\ c.status = "none" /\ c.found = {} /\ c.closed = (phase \in Closing)
  BY Fields, IdleValues
<1> HIDE DEF c
<1>3. LookupOK(c)
  BY <1>2 DEF LookupOK, InTime, Walking, Reading
<1> QED
  BY <1>1, <1>3, SetLookup

LEMMA CancelLookup == ASSUME LookupInv, ApiInv, NEW p \in Proc, Cancel(p) PROVE LookupInv'
<1> DEFINE o == call[p]
           c == [o EXCEPT !.ctx = "cancelled"]
<1>1. Set(p, c) /\ LookupOK(o)
  BY LookupType DEF Cancel
<1>2. /\ DOMAIN c = DOMAIN Idle /\ c.pc = o.pc /\ c.op = o.op /\ c.arg = o.arg
      /\ c.status = o.status /\ c.found = o.found /\ c.closed = o.closed
      /\ c.enc = o.enc /\ c.todo = o.todo /\ c.ekey = o.ekey
  BY <1>1, Fields DEF LookupOK
<1> HIDE DEF c, o
<1>3. InTime(c) /\ Walking(c)
  BY <1>1, <1>2 DEF LookupOK, InTime, Walking, Listed
<1>4. c.pc \in Reading => Located(c)
  BY <1>1, <1>2, SameAnswer DEF LookupOK, Located
<1>5. LookupOK(c)
  BY <1>1, <1>2, <1>3, <1>4, SameTruth DEF LookupOK
<1> QED
  BY <1>1, <1>5, SetLookup DEF c, o

(* Where the lookups find the encoded key, and that it is the right one.    *)
LEMMA Truths ==
  /\ \A r \in Roots : \A n \in DOMAIN r : \A enc : Complete(r[n], enc) \in EKey \cup {NoKey}
  /\ \A c \in DOMAIN Encoding : Head(Encoding[c]) \in EKey
<1>1. \A s \in Seq(EKey) \ {<<>>} : Head(s) \in EKey
  OBVIOUS
<1>2. \A c \in DOMAIN Encoding : Head(Encoding[c]) \in EKey
  BY <1>1, TablesAssumption
<1>3. ASSUME NEW r \in Roots, NEW n \in DOMAIN r, NEW enc
      PROVE  Complete(r[n], enc) \in EKey \cup {NoKey}
  BY <1>2, <1>3, TablesAssumption DEF Complete
<1> QED
  BY <1>2, <1>3

LEMMA ResolvedKey ==
  ASSUME LookupInv, NEW c, c.op # "id", c.arg \in Args(c.op), Known(c)
  PROVE  Resolved(c) \in EKey \cup {NoKey}
<1>1. CASE c.op = "name"
  BY <1>1, Truths DEF Known, Resolved, Entry, LookupInv, BuildOK
<1>2. CASE c.op \in {"ckey", "readckey"}
  BY <1>2, Truths DEF Known, Resolved
<1>3. CASE c.op \notin {"name", "ckey", "readckey"}
  BY <1>3 DEF Resolved, Args
<1> QED
  BY <1>1, <1>2, <1>3

LEMMA LocateLookup ==
  ASSUME LookupInv, ApiInv, NEW p \in Proc, NEW e, Locate(p, e),
         call[p].pc \in {"enter", "known"}, phase # "created",
         IF call[p].op = "id" THEN e = NoKey ELSE Known(call[p]) /\ e = Resolved(call[p])
  PROVE  LookupInv'
<1> DEFINE o == call[p]
           c == [o EXCEPT !.pc = "locate", !.ekey = e]
<1>1. Set(p, c)
  BY DEF Locate
<1>2. DOMAIN o = DOMAIN Idle
  BY LookupType
<1>3. /\ DOMAIN c = DOMAIN Idle /\ c.pc = "locate" /\ c.op = o.op /\ c.arg = o.arg
      /\ c.status = o.status /\ c.found = o.found /\ c.closed = o.closed /\ c.ekey = e
  BY <1>2, Fields
<1> HIDE DEF c
<1>4. Located(c)
  BY <1>3, SameAnswer DEF Located
<1> QED
  BY <1>1, <1>3, <1>4, MovesLookup DEF Reading

LEMMA EnterLookup ==
  ASSUME LookupInv, ApiInv, NEW p \in Proc,
         EnterCancelled(p) \/ EnterCreated(p) \/ FindByName(p) \/ FindByCKey(p) \/ ByEKey(p)
  PROVE  LookupInv'
<1>1. CASE EnterCancelled(p) \/ EnterCreated(p)
  BY <1>1, ReturnLookup, PanicLookup DEF EnterCancelled, EnterCreated
<1>2. CASE FindByName(p)
  <2>1. call[p].pc = "enter" /\ phase # "created" /\ call[p].op = "name"
    BY <1>2 DEF FindByName, Enters, At
  <2>2. CASE root = NoRoot
    BY <1>2, <2>2, ReturnLookup DEF FindByName
  <2>3. CASE root # NoRoot
    <3>1. root = build.root /\ encoding
      BY <1>2, <2>3 DEF LookupInv, BuildOK, ApiInv, StoreInv, FindByName, RLock
    <3>2. CASE call[p].arg \notin DOMAIN root
      <4>1. Return(p, "notfound") /\ Truthful(call[p])
        BY <1>2, <2>1, <2>3, <3>1, <3>2 DEF FindByName, Truthful, Known
      <4> QED
        BY <4>1, ReturnLookup
    <3>3. CASE call[p].arg \in DOMAIN root
      <4> DEFINE e == Complete(root[call[p].arg], encoding)
      <4>1. Locate(p, e)
        BY <1>2, <2>3, <3>3 DEF FindByName
      <4>2. Known(call[p]) /\ e = Resolved(call[p])
        BY <2>1, <3>1, <3>3 DEF Known, Resolved, Entry, Complete
      <4> QED
        BY <2>1, <4>1, <4>2, LocateLookup
    <3> QED
      BY <3>2, <3>3
  <2> QED
    BY <2>2, <2>3
<1>3. CASE FindByCKey(p)
  <2>1. call[p].pc = "enter" /\ phase # "created" /\ call[p].op \in {"ckey", "readckey"}
    BY <1>3 DEF FindByCKey, Enters, At
  <2>2. CASE ~encoding
    BY <1>3, <2>2, ReturnLookup DEF FindByCKey
  <2>3. CASE encoding /\ call[p].arg \notin DOMAIN Encoding
    <3>1. Return(p, "notfound") /\ Truthful(call[p])
      BY <1>3, <2>1, <2>3 DEF FindByCKey, Truthful, Known
    <3> QED
      BY <3>1, ReturnLookup
  <2>4. CASE encoding /\ call[p].arg \in DOMAIN Encoding
    <3>1. Locate(p, Head(Encoding[call[p].arg]))
      BY <1>3, <2>4 DEF FindByCKey
    <3>2. Known(call[p]) /\ Head(Encoding[call[p].arg]) = Resolved(call[p])
      BY <2>1, <2>4 DEF Known, Resolved
    <3> QED
      BY <2>1, <3>1, <3>2, LocateLookup
  <2> QED
    BY <2>2, <2>3, <2>4
<1>4. CASE ByEKey(p)
  <2>1. call[p].pc = "enter" /\ phase # "created" /\ call[p].op \in {"ekey", "readekey"}
    BY <1>4 DEF ByEKey, Enters, At
  <2>2. Known(call[p]) /\ call[p].arg = Resolved(call[p])
    BY <2>1 DEF Known, Resolved
  <2> QED
    BY <1>4, <2>1, <2>2, LocateLookup DEF ByEKey
<1> QED
  BY <1>1, <1>2, <1>3, <1>4

LEMMA ByIdLookup ==
  ASSUME LookupInv, ApiInv, NEW p \in Proc, LookupByFileDataID(p)
  PROVE  LookupInv'
<1>1. call[p].pc = "known" /\ call[p].op = "id" /\ phase # "created" /\ call[p].arg \in Id
  BY LookupType DEF LookupByFileDataID, At, LookupOK, InTime, Args
<1>2. CASE root = NoRoot
  BY <1>2, PanicLookup DEF LookupByFileDataID
<1>3. CASE root # NoRoot /\ WithId(call[p].arg) = {}
  BY <1>1, <1>3, ReturnLookup DEF LookupByFileDataID
<1>4. CASE root # NoRoot /\ WithId(call[p].arg) # {}
  <2>1. PICK n \in WithId(call[p].arg) : Locate(p, root[n].ekey)
    BY <1>4 DEF LookupByFileDataID
  <2>2. root[n].ekey = NoKey
    BY <1>1, <1>4, <2>1, TablesAssumption DEF WithId, LookupInv, BuildOK
  <2> QED
    BY <1>1, <2>1, <2>2, LocateLookup
<1> QED
  BY <1>2, <1>3, <1>4

(* A method of the storage that only goes from one test to the next.        *)
LEMMA HoldsLookup ==
  ASSUME LookupInv, ApiInv, NEW p \in Proc, NEW pc \in {"known", "count", "features"},
         call[p].pc \in {"enter", "known", "count", "features"}, phase # "created",
         Set(p, [call[p] EXCEPT !.pc = pc])
  PROVE  LookupInv'
<1> DEFINE o == call[p]
           c == [o EXCEPT !.pc = pc]
<1>1. LookupOK(o) /\ DOMAIN o = DOMAIN Idle
  BY LookupType
<1>2. /\ DOMAIN c = DOMAIN Idle /\ c.pc = pc /\ c.op = o.op /\ c.arg = o.arg
      /\ c.status = o.status /\ c.found = o.found /\ c.closed = o.closed
  BY <1>1, Fields
<1> HIDE DEF c
<1>3. InTime(c) /\ Walking(c)
  BY <1>1, <1>2 DEF LookupOK, InTime, Walking, Listed
<1>4. LookupOK(c)
  BY <1>1, <1>2, <1>3, SameTruth DEF LookupOK, Reading
<1> QED
  BY <1>4, SetLookup DEF c

LEMMA TestRootLookup ==
  ASSUME LookupInv, ApiInv, NEW p \in Proc, TestRoot(p)
  PROVE  LookupInv'
<1>1. call[p].pc = "enter" /\ phase # "created"
  BY DEF TestRoot, Enters, At
<1>2. \/ Set(p, [call[p] EXCEPT !.pc = "known"])
      \/ Return(p, "unsupported") \/ Return(p, "ok")
  BY DEF TestRoot
<1> QED
  BY <1>1, <1>2, HoldsLookup, ReturnLookup

LEMMA InfoLookup ==
  ASSUME LookupInv, ApiInv, NEW p \in Proc, GetInfo(p)
  PROVE  LookupInv'
<1>1. call[p].pc \in {"known", "count", "features"}
  BY DEF GetInfo, At
<1>2. phase # "created"
  BY <1>1, LookupType DEF LookupOK, InTime
<1>3. \/ Panic(p) \/ Return(p, "ok")
      \/ Set(p, [call[p] EXCEPT !.pc = "count"]) \/ Set(p, [call[p] EXCEPT !.pc = "features"])
  BY DEF GetInfo
<1> QED
  BY <1>1, <1>2, <1>3, HoldsLookup, ReturnLookup, PanicLookup

(* FindFiles: the ENCODING it reads after its test of the root is there,    *)
(* or Close has run.                                                        *)
LEMMA FindLookup ==
  ASSUME LookupInv, ApiInv, NEW p \in Proc, Find(p)
  PROVE  LookupInv'
<1> DEFINE o == call[p]
<1>1. LookupOK(o) /\ DOMAIN o = DOMAIN Idle
  BY LookupType
<1>2. CASE FindEncoding(p)
  <2> DEFINE c == [o EXCEPT !.pc = "walk", !.enc = encoding]
  <2>1. Set(p, c) /\ o.pc = "known" /\ (encoding \/ o.closed)
    BY <1>2, CallType
       DEF FindEncoding, At, ApiInv, StoreInv, CallOK, CallInv, Marked, Runs, Closing, Holding
  <2>2. /\ DOMAIN c = DOMAIN Idle /\ c.pc = "walk" /\ c.op = o.op /\ c.arg = o.arg
        /\ c.status = o.status /\ c.found = o.found /\ c.closed = o.closed /\ c.enc = encoding
    BY <1>1, Fields
  <2> HIDE DEF c
  <2>3. InTime(c) /\ Walking(c)
    BY <1>1, <2>1, <2>2 DEF LookupOK, InTime, Walking, Listed
  <2>4. LookupOK(c)
    BY <1>1, <2>2, <2>3, SameTruth DEF LookupOK, Reading
  <2> QED
    BY <2>1, <2>4, SetLookup
<1>3. CASE FindWalk(p) /\ root = NoRoot
  BY <1>3, PanicLookup DEF FindWalk
<1>4. CASE FindWalk(p) /\ root # NoRoot
  <2> DEFINE c == [o EXCEPT !.pc = "visit", !.todo = DOMAIN root]
  <2>1. Set(p, c) /\ o.pc = "walk" /\ root = build.root
    BY <1>4 DEF FindWalk, At, LookupInv, BuildOK
  <2>2. /\ DOMAIN c = DOMAIN Idle /\ c.pc = "visit" /\ c.op = o.op /\ c.arg = o.arg
        /\ c.status = o.status /\ c.found = o.found /\ c.closed = o.closed /\ c.enc = o.enc
        /\ c.todo = DOMAIN root
    BY <1>1, Fields
  <2> HIDE DEF c
  <2>3. InTime(c) /\ Walking(c)
    BY <1>1, <2>1, <2>2 DEF LookupOK, InTime, Walking, Listed
  <2>4. LookupOK(c)
    BY <1>1, <2>2, <2>3, SameTruth DEF LookupOK, Reading
  <2> QED
    BY <2>1, <2>4, SetLookup
<1>5. CASE FindDone(p)
  BY <1>5, ReturnLookup DEF FindDone
<1>6. ASSUME NEW n \in Name, FindVisit(p, n) PROVE LookupInv'
  <2> DEFINE ek == Complete(build.root[n], o.enc)
             f == [name |-> n, ekey |-> ek, available |-> ek \in ekeys]
             rest(more) == IF more THEN o.todo \ {n} ELSE {}
  <2>1. PICK more \in BOOLEAN :
          Set(p, [o EXCEPT !.todo = rest(more), !.found = o.found \cup {f}])
    BY <1>6 DEF FindVisit
  <2> DEFINE c == [o EXCEPT !.todo = rest(more), !.found = o.found \cup {f}]
  <2>2. o.pc = "visit" /\ n \in o.todo
    BY <1>6 DEF FindVisit, At
  <2>3. /\ n \in DOMAIN build.root /\ (o.enc \/ o.closed)
        /\ phase # "created"
    BY <1>1, <2>2 DEF LookupOK, InTime, Walking
  <2>4. phase = "closed" => o.closed
    BY <2>2, CallType DEF CallOK, CallInv, Marked, Runs, Closing
  <2>5. /\ ek = Complete(build.root[n], TRUE) \/ (o.closed /\ ek = build.root[n].ekey)
        /\ ek \in EKey \cup {NoKey}
    BY <2>3, Truths DEF LookupInv, BuildOK, Complete
  <2>6. /\ DOMAIN c = DOMAIN Idle /\ c.pc = "visit" /\ c.op = o.op /\ c.arg = o.arg
        /\ c.status = o.status /\ c.closed = o.closed /\ c.enc = o.enc
        /\ c.found = o.found \cup {f} /\ c.todo \subseteq o.todo
    BY <1>1, <2>2, Fields
  <2>7. Listed(c, f)
    <3> HIDE DEF c, ek
    <3>1. ek # NoKey => (ek \in ekeys => build.disk[ek] # "missing")
                        /\ (build.disk[ek] # "missing" => ek \in ekeys \/ o.closed)
      BY <2>3, <2>5, <2>4 DEF LookupInv, BuildOK
    <3>2. NoKey \notin ekeys
      BY TablesAssumption DEF LookupInv, BuildOK
    <3>3. f.name = n /\ f.ekey = ek /\ f.available = (ek \in ekeys)
      OBVIOUS
    <3> HIDE DEF f
    <3> QED
      BY <2>5, <2>6, <3>1, <3>2, <3>3 DEF Listed
  <2> HIDE DEF c, f
  <2>8. \A g \in o.found : Listed(c, g)
    BY <1>1, <2>6 DEF LookupOK, Walking, Listed
  <2>9. InTime(c) /\ Walking(c)
    BY <1>1, <2>2, <2>6, <2>7, <2>8 DEF LookupOK, InTime, Walking
  <2>10. LookupOK(c)
    BY <1>1, <2>6, <2>9, SameTruth DEF LookupOK, Reading
  <2> QED
    BY <2>1, <2>10, SetLookup DEF c
<1> QED
  BY <1>2, <1>3, <1>4, <1>5, <1>6 DEF Find

(* From the encoded key to the frames.                                      *)
LEMMA SpanLookup ==
  ASSUME LookupInv, ApiInv, NEW p \in Proc,
         \/ FindByEKey(p) \/ ArchivePool(p) \/ ReadSpan(p) \/ ReadSpanFails(p)
         \/ Fetch(p) \/ FetchFails(p)
  PROVE  LookupInv'
<1> DEFINE o == call[p]
           c(pc) == [o EXCEPT !.pc = pc]
           d(from) == [o EXCEPT !.pc = "decode", !.from = from]
<1>1. LookupOK(o) /\ DOMAIN o = DOMAIN Idle
  BY LookupType
<1>2. o.pc \in {"locate", "pool", "local", "remote"}
  BY DEF FindByEKey, ArchivePool, ReadSpan, ReadSpanFails, Fetch, FetchFails, At
<1>3. phase # "created" /\ Located(o) /\ (phase = "closed" => o.closed)
  BY <1>1, <1>2, CallType
     DEF LookupOK, InTime, Reading, CallOK, CallInv, Marked, Runs, Closing
<1>4. NoKey \notin ekeys
  BY TablesAssumption DEF LookupInv, BuildOK
<1>5. ASSUME NEW pc \in {"pool", "local", "remote"}, Set(p, c(pc)), pc # "remote" => o.op # "id"
      PROVE  LookupInv'
  <2>1. /\ DOMAIN c(pc) = DOMAIN Idle /\ c(pc).pc = pc /\ c(pc).op = o.op
        /\ c(pc).arg = o.arg /\ c(pc).status = o.status /\ c(pc).found = o.found
        /\ c(pc).closed = o.closed /\ c(pc).ekey = o.ekey
    BY <1>1, Fields
  <2> DEFINE moved == c(pc)
  <2> HIDE DEF c
  <2>2. Located(moved)
    BY <1>3, <1>5, <2>1, SameAnswer DEF Located
  <2> QED
    BY <1>2, <1>3, <1>5, <2>1, <2>2, MovesLookup DEF Reading
<1>6. ASSUME FindByEKey(p) \/ ArchivePool(p), Elsewhere(p), o.ekey \notin ekeys \/ ~build.data
      PROVE  LookupInv'
  <2>1. CASE opts.online
    BY <1>5, <1>6, <2>1 DEF Elsewhere
  <2>2. CASE ~opts.online
    <3>1. Return(p, "notfound")
      BY <1>6, <2>2 DEF Elsewhere
    <3>2. ASSUME o.op # "id" PROVE Truthful(o)
      <4>1. Known(o) /\ o.ekey = Resolved(o)
        BY <1>3, <3>2 DEF Located
      <4>2. Resolved(o) \in EKey \cup {NoKey}
        BY <1>1, <3>2, <4>1, ResolvedKey DEF LookupOK
      <4>3. o.closed \/ ~build.data \/ Resolved(o) = NoKey \/ build.disk[Resolved(o)] = "missing"
        BY <1>3, <1>6, <4>1, <4>2 DEF LookupInv, BuildOK
      <4> QED
        BY <2>2, <4>3 DEF Truthful
    <3> QED
      BY <3>1, <3>2, ReturnLookup
  <2> QED
    BY <2>1, <2>2
<1>7. CASE FindByEKey(p)
  <2>1. CASE o.ekey \in ekeys
    <3>1. Set(p, c("pool")) /\ o.op # "id"
      BY <1>3, <1>4, <1>7, <2>1 DEF FindByEKey, Located
    <3> QED
      BY <1>5, <3>1
  <2> QED
    BY <1>6, <1>7, <2>1 DEF FindByEKey
<1>8. CASE ArchivePool(p)
  <2>1. o.op # "id"
    BY <1>3, <1>8 DEF ArchivePool, At, Located
  <2>2. CASE build.data
    BY <1>5, <1>8, <2>1, <2>2 DEF ArchivePool
  <2> QED
    BY <1>8, <1>6, <2>2 DEF ArchivePool
<1>9. CASE ReadSpan(p) \/ Fetch(p)
  <2>1. PICK from : Set(p, d(from))
    BY <1>9 DEF ReadSpan, Fetch, Has
  <2>2. o.op # "id"
    BY <1>3, <1>9 DEF ReadSpan, Fetch, At, Located
  <2>3. /\ DOMAIN d(from) = DOMAIN Idle /\ d(from).pc = "decode" /\ d(from).op = o.op
        /\ d(from).arg = o.arg /\ d(from).status = o.status /\ d(from).found = o.found
        /\ d(from).closed = o.closed /\ d(from).ekey = o.ekey
    BY <1>1, Fields
  <2> HIDE DEF d
  <2>4. Located(d(from))
    BY <1>3, <2>2, <2>3, SameAnswer DEF Located
  <2> QED
    BY <1>2, <1>3, <2>1, <2>3, <2>4, MovesLookup DEF Reading
<1>10. CASE ReadSpanFails(p) \/ FetchFails(p)
  BY <1>10, ReturnLookup DEF ReadSpanFails, FetchFails
<1> QED
  BY <1>7, <1>8, <1>9, <1>10

LEMMA DecodeErrors ==
  /\ \A s, i, cursor : B!FrameError(s, i, cursor) # "notfound"
  /\ \A fr, i, cells, depth, ks, overcome :
       \A r \in B!DecodeStep(fr, i, cells, depth, ks, overcome) : r.end # "notfound"
  BY DEF B!FrameError, B!DecodeStep, B!Out, B!Fail, B!Sealed, B!KeyMissing

LEMMA DecodeLookup ==
  ASSUME LookupInv, ApiInv, NEW p \in Proc, DecodeFrame(p) \/ DecodeStep(p)
  PROVE  LookupInv'
<1> DEFINE o == call[p]
           first(cells) == [o EXCEPT !.pc = "step", !.depth = 0, !.cells = cells]
           next(cells) == [o EXCEPT !.cells = cells, !.depth = @ + 1]
<1>1. LookupOK(o) /\ DOMAIN o = DOMAIN Idle
  BY LookupType
<1>2. o.pc \in {"decode", "step"}
  BY DEF DecodeFrame, DecodeStep, At
<1>3. phase # "created" /\ Located(o) /\ o.op # "id"
  BY <1>1, <1>2 DEF LookupOK, InTime, Reading, Located
<1>4. \/ \E status : Return(p, status) /\ status # "notfound"
      \/ \E cells : Set(p, first(cells)) \/ (Set(p, next(cells)) /\ o.pc = "step")
      \/ \E out : Set(p, NextFrame(p, out)) \/ Set(p, Opened(o, out))
  <2>1. CASE DecodeFrame(p)
    <3> DEFINE error == B!FrameError(Stream(p), o.frame, o.cursor)
    <3>1. error # "notfound"
      BY DecodeErrors
    <3>2. Return(p, error) \/ Set(p, first(B!Encoded(Stream(p), o.frame, o.cursor)))
      BY <2>1 DEF DecodeFrame
    <3> HIDE DEF error, first
    <3> QED
      BY <3>1, <3>2
  <2>2. CASE DecodeStep(p)
    BY <2>2, DecodeErrors DEF DecodeStep, FrameDone, At
  <2> QED
    BY <2>1, <2>2
<1>5. ASSUME NEW c, Set(p, c), DOMAIN c = DOMAIN Idle, c.pc \in Reading, c.op = o.op,
             c.arg = o.arg, c.closed = o.closed, c.found = o.found, c.ekey = o.ekey,
             c.status \in {o.status, "ok"}
      PROVE  LookupInv'
  <2>1. Located(c)
    BY <1>3, <1>5, SameAnswer DEF Located
  <2> QED
    BY <1>2, <1>3, <1>5, <2>1, MovesLookup DEF Reading
<1>6. CASE \E status : Return(p, status) /\ status # "notfound"
  BY <1>6, ReturnLookup
<1>7. ASSUME NEW cells, Set(p, first(cells)) PROVE LookupInv'
  BY <1>1, <1>5, <1>7, Fields DEF Reading
<1>8. ASSUME NEW cells, Set(p, next(cells)), o.pc = "step" PROVE LookupInv'
  BY <1>1, <1>5, <1>8, Fields DEF Reading
<1>9. ASSUME NEW out, Set(p, NextFrame(p, out)) PROVE LookupInv'
  BY <1>1, <1>5, <1>9, Fields DEF Reading, NextFrame
<1>10. ASSUME NEW out, Set(p, Opened(o, out)) PROVE LookupInv'
  <2> DEFINE c == Opened(o, out)
  <2>1. /\ DOMAIN c = DOMAIN Idle /\ c.pc = "file" /\ c.op = o.op /\ c.arg = o.arg
        /\ c.closed = o.closed /\ c.ekey = o.ekey /\ c.found = {} /\ c.status = "ok"
    BY Fields, IdleValues DEF Opened, Ends
  <2> HIDE DEF c
  <2>2. Located(c) /\ InTime(c) /\ Walking(c)
    BY <1>3, <2>1, SameAnswer DEF Located, InTime, Walking, Reading
  <2>3. LookupOK(c)
    BY <1>1, <2>1, <2>2 DEF LookupOK
  <2> QED
    BY <1>10, <2>3, SetLookup DEF c
<1> QED
  BY <1>4, <1>6, <1>7, <1>8, <1>9, <1>10

(* What is done with a File says nothing new of the lookup.                 *)
LEMMA FileLookup == ASSUME LookupInv, ApiInv, NEW p \in Proc, UseFile(p) PROVE LookupInv'
<1> DEFINE o == call[p]
<1>1. LookupOK(o) /\ DOMAIN o = DOMAIN Idle
  BY LookupType
<1>2. ASSUME NEW c, Set(p, c), DOMAIN c = DOMAIN Idle, c.pc = "file", o.pc = "file",
             c.op = o.op, c.arg = o.arg, c.closed = o.closed, c.found = o.found,
             c.ekey = o.ekey, c.status \in {"ok", "eof", "invalid"}
      PROVE  LookupInv'
  <2>1. Located(c)
    BY <1>1, <1>2, SameAnswer DEF LookupOK, Located, Reading
  <2>2. InTime(c) /\ Walking(c)
    BY <1>1, <1>2 DEF LookupOK, InTime, Walking, Listed
  <2>3. LookupOK(c)
    BY <1>1, <1>2, <2>1, <2>2 DEF LookupOK
  <2> QED
    BY <1>2, <2>3, SetLookup
<1>3. CASE CloseFile(p)
  BY <1>3, IdleLookupOK, SetLookup DEF CloseFile
<1>4. CASE ReadEOF(p)
  <2>1. Set(p, [o EXCEPT !.status = "eof"]) /\ o.pc = "file"
    BY <1>4 DEF ReadEOF, At
  <2> QED
    BY <1>1, <1>2, <2>1, Fields
<1>5. CASE Read(p)
  <2>1. PICK n, part :
          Set(p, [o EXCEPT !.pos = @ + n, !.status = "ok", !.got = @ \o part])
    BY <1>5 DEF Read
  <2>2. o.pc = "file"
    BY <1>5 DEF Read, At
  <2> QED
    BY <1>1, <1>2, <2>1, <2>2, Fields
<1>6. ASSUME NEW to \in SeekTo, Seek(p, to) PROVE LookupInv'
  <2>1. o.pc = "file"
    BY <1>6 DEF Seek, At
  <2>2. \/ Set(p, [o EXCEPT !.status = "invalid"])
        \/ Set(p, [o EXCEPT !.pos = to, !.base = to, !.got = <<>>, !.status = "ok"])
    BY <1>6 DEF Seek
  <2> QED
    BY <1>1, <1>2, <2>1, <2>2, Fields
<1> QED
  BY <1>3, <1>4, <1>5, <1>6 DEF UseFile

(* Close marks the calls, and empties the index under them.                 *)
LEMMA CloseLookup == ASSUME LookupInv, ApiInv, NEW p \in Proc, Close(p) PROVE LookupInv'
<1>1. BuildOK'
  BY DEF LookupInv, BuildOK, Close
<1>2. UNCHANGED <<build, opts>> /\ phase' # "created" /\ phase # "created"
  BY DEF Close
<1>3. ASSUME NEW q \in Proc, q # p PROVE LookupOK(call[q])'
  <2> DEFINE o == call[q]
             closed == o.closed \/ Running(q)
             c == [o EXCEPT !.closed = closed]
  <2>1. call'[q] = c
    BY <1>3 DEF Close, ApiInv, CallsOK
  <2>2. LookupOK(o) /\ DOMAIN o = DOMAIN Idle
    BY LookupType
  <2>3. /\ DOMAIN c = DOMAIN Idle /\ c.pc = o.pc /\ c.op = o.op /\ c.arg = o.arg
        /\ c.status = o.status /\ c.found = o.found /\ c.closed = closed
        /\ c.enc = o.enc /\ c.todo = o.todo /\ c.ekey = o.ekey
    BY <2>2, Fields
  <2> HIDE DEF c
  <2>4. o.closed => c.closed
    BY <2>3, Zenon
  <2> HIDE DEF closed, o
  <2>5. InTime(call[q])'
    BY <1>2, <2>1, <2>2, <2>3 DEF LookupOK, InTime
  <2>6. Walking(call[q])'
    BY <1>2, <2>1, <2>2, <2>3, <2>4 DEF LookupOK, Walking, Listed
  <2>7. c.pc \in Reading => Located(c)
    BY <2>2, <2>3, SameAnswer DEF LookupOK, Located
  <2>8. c.status = "notfound" /\ c.op # "id" => Truthful(c)
    BY <2>2, <2>3, <2>4, SameTruth DEF LookupOK
  <2> QED
    BY <1>2, <2>1, <2>2, <2>3, <2>5, <2>6, <2>7, <2>8
       DEF LookupOK, Located, Truthful, Known, Resolved, Entry
<1>4. LookupOK(call[p])'
  <2>1. PICK c : call'[p] = c /\ c = [Idle EXCEPT !.pc = "close", !.op = "close"]
    BY DEF Close, ApiInv, CallsOK
  <2>2. /\ DOMAIN c = DOMAIN Idle /\ c.pc = "close" /\ c.op = "close" /\ c.arg = NoKey
        /\ c.status = "none" /\ c.found = {}
    BY <2>1, Fields, IdleValues
  <2>3. c.arg \in Args(c.op)
    BY <2>2 DEF Args
  <2> QED
    BY <1>2, <2>1, <2>2, <2>3 DEF LookupOK, InTime, Walking, Reading
<1> QED
  BY <1>1, <1>3, <1>4 DEF LookupInv

LEMMA ClearLookup ==
  ASSUME LookupInv, ApiInv, NEW p \in Proc, CloseEncoding(p) \/ CloseRoot(p)
  PROVE  LookupInv'
<1>1. BuildOK'
  BY DEF LookupInv, BuildOK, CloseEncoding, CloseRoot
<1>2. UNCHANGED <<build, opts>> /\ phase' # "created" /\ phase # "created"
  BY DEF CloseEncoding, CloseRoot
<1>3. ASSUME NEW c, LookupOK(c) PROVE LookupOK(c)'
  <2>1. InTime(c)' /\ Walking(c)'
    BY <1>2, <1>3 DEF LookupOK, InTime, Walking, Listed
  <2> QED
    BY <1>2, <1>3, <2>1 DEF LookupOK, Located, Truthful, Known, Resolved, Entry
<1>4. ASSUME NEW q \in Proc PROVE LookupOK(call'[q])
  <2>1. CASE q # p
    BY <2>1 DEF CloseEncoding, CloseRoot, ApiInv, CallsOK, LookupInv
  <2>2. CASE q = p
    <3> DEFINE o == call[p]
               c == [o EXCEPT !.pc = "clear"]
    <3>1. o.pc \in {"close", "clear"} /\ (call'[p] = Idle \/ call'[p] = c)
      BY DEF CloseEncoding, CloseRoot, At, ApiInv, CallsOK
    <3>2. LookupOK(o) /\ DOMAIN o = DOMAIN Idle
      BY LookupType
    <3>3. /\ DOMAIN c = DOMAIN Idle /\ c.pc = "clear" /\ c.op = o.op /\ c.arg = o.arg
          /\ c.status = o.status /\ c.found = o.found /\ c.closed = o.closed
      BY <3>2, Fields
    <3> HIDE DEF c, o
    <3>4. InTime(c) /\ Walking(c)
      BY <1>2, <3>2, <3>3 DEF LookupOK, InTime, Walking, Listed
    <3>5. LookupOK(c)
      BY <3>2, <3>3, <3>4, SameTruth DEF LookupOK, Reading
    <3> QED
      BY <2>2, <3>1, <3>5, IdleLookupOK DEF c, o
  <2> QED
    BY <2>1, <2>2
<1>5. \A q \in Proc : LookupOK(call[q])'
  BY <1>3, <1>4
<1> QED
  BY <1>1, <1>5 DEF LookupInv

LEMMA KeyLookup ==
  ASSUME LookupInv, ApiInv, NEW p \in Proc, NEW k, NEW value, AddEncryptionKey(p, k, value)
  PROVE  LookupInv'
<1>1. BuildOK'
  BY DEF LookupInv, BuildOK, AddEncryptionKey
<1>2. ASSUME NEW q \in Proc PROVE LookupOK(call[q])'
  <2> DEFINE o == call[q]
  <2>1. UNCHANGED <<build, opts, phase>> /\ LookupOK(o) /\ DOMAIN o = DOMAIN Idle
    BY LookupType DEF AddEncryptionKey
  <2>2. PICK c : call'[q] = c /\ (c = o \/ c = [o EXCEPT !.seen[k] = @ \cup {value}])
    BY DEF AddEncryptionKey, ApiInv, CallsOK
  <2>3. /\ DOMAIN c = DOMAIN Idle /\ c.pc = o.pc /\ c.op = o.op /\ c.arg = o.arg
        /\ c.status = o.status /\ c.found = o.found /\ c.closed = o.closed
        /\ c.enc = o.enc /\ c.todo = o.todo /\ c.ekey = o.ekey
    BY <2>1, <2>2, Fields
  <2> HIDE DEF o
  <2>4. InTime(call[q])' /\ Walking(call[q])'
    BY <2>1, <2>2, <2>3 DEF LookupOK, InTime, Walking, Listed
  <2>5. c.pc \in Reading => Located(c)
    BY <2>1, <2>3, SameAnswer DEF LookupOK, Located
  <2>6. c.status = "notfound" /\ c.op # "id" => Truthful(c)
    BY <2>1, <2>3, SameTruth DEF LookupOK
  <2> QED
    BY <2>1, <2>2, <2>3, <2>4, <2>5, <2>6
       DEF LookupOK, Located, Truthful, Known, Resolved, Entry
<1> QED
  BY <1>1, <1>2 DEF LookupInv

------------------------------------------------------------------------------
LEMMA StepLookup == LookupInv /\ ApiInv /\ [Next]_vars => LookupInv'
<1> SUFFICES ASSUME LookupInv, ApiInv, [Next]_vars PROVE LookupInv'
  OBVIOUS
<1>1. CASE LoadEncoding \/ LoadRoot
  BY <1>1, LoadLookup
<1>2. ASSUME NEW p \in Proc, NEW o \in Op, NEW arg \in Args(o), Start(p, o, arg)
      PROVE  LookupInv'
  BY <1>2, StartLookup
<1>3. ASSUME NEW p \in Proc, Get(p) PROVE LookupInv'
  BY <1>3, EnterLookup, TestRootLookup, ByIdLookup, SpanLookup, DecodeLookup DEF Get
<1>4. ASSUME NEW p \in Proc, \/ Cancel(p) \/ UseFile(p) \/ Find(p) \/ GetInfo(p)
                              \/ Close(p) \/ CloseEncoding(p) \/ CloseRoot(p)
      PROVE  LookupInv'
  BY <1>4, CancelLookup, FileLookup, FindLookup, InfoLookup, CloseLookup, ClearLookup
<1>5. ASSUME NEW p \in Proc, NEW a \in Added, AddEncryptionKey(p, a[1], a[2])
      PROVE  LookupInv'
  BY <1>5, KeyLookup
<1>6. CASE UNCHANGED vars
  BY <1>6, ZenonT(60) DEF vars, LookupInv, BuildOK, LookupOK, InTime, Walking, Listed, Located, Truthful,
              Known, Resolved, Entry
<1> QED
  BY <1>1, <1>2, <1>3, <1>4, <1>5, <1>6 DEF Next

LEMMA LookupMeans == LookupInv => RightSpan /\ NotFoundIsTrue /\ ListedKeyOpens
<1> SUFFICES ASSUME LookupInv PROVE RightSpan /\ NotFoundIsTrue /\ ListedKeyOpens
  OBVIOUS
<1>1. RightSpan
  BY DEF LookupInv, LookupOK, Located, Reading, RightSpan
<1>2. NotFoundIsTrue
  BY DEF LookupInv, LookupOK, NotFoundIsTrue
<1>3. ListedKeyOpens
  BY DEF LookupInv, LookupOK, Walking, Listed, ListedKeyOpens
<1> QED
  BY <1>1, <1>2, <1>3

LEMMA LookupInvariant == Spec => []LookupInv
  BY ApiInvariant, InitLookup, StepLookup, PTL DEF Spec

(* Whatever manifests are missing or damaged, and between whichever steps of *)
(* Close and of the other calls: who holds s.mu finds no root without the   *)
(* ENCODING that resolves its entries (lookup.go LoadRoot, storage.go       *)
(* Close, FindByName).                                                      *)
THEOREM RootHasEncoding == Spec => []RootNeedsEncoding
  BY ApiInvariant, InvMeans, PTL

(* Only of a created storage, or when Close runs before or under the call,   *)
(* does a method dereference nil, for any number of goroutines and calls    *)
(* (casc.go openFileByID, FindFiles, GetInfo test s.inner.Root and use it   *)
(* without the lock).                                                       *)
THEOREM PanicsOnlyAfterClose == Spec => []PanicsNeedClose
  BY ApiInvariant, InvMeans, PTL

(* A lookup by name or key that succeeds has read the span that ENCODING,    *)
(* or else the root, has for its argument, also when the storage is closed  *)
(* between its reads of them (storage.go FindByName, casc.go openFileByCKey *)
(* and readByCKey).                                                         *)
THEOREM ReadsTheRightSpan == Spec => []RightSpan
  BY LookupInvariant, LookupMeans, PTL

(* ErrFileNotFound from a lookup by name or key is true of the build, the   *)
(* local index and archives, and the CDN: it is never a decoding error in   *)
(* disguise, and never the work of a Close that did not touch the call      *)
(* (lookup.go ReadByEKeyContext).                                           *)
THEOREM SaysNotFoundTruly == Spec => []NotFoundIsTrue
  BY LookupInvariant, LookupMeans, PTL

(* FindFiles reports the key that OpenFile would read, and its presence in  *)
(* the local index; with a Close under it the key that the root has and     *)
(* less than is there, but nothing else (casc.go FindFiles).                *)
THEOREM ListsKeysThatOpen == Spec => []ListedKeyOpens
  BY LookupInvariant, LookupMeans, PTL
==============================================================================
