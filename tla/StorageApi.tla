----------------------------- MODULE StorageApi -----------------------------
(***************************************************************************)
(* The read methods of a Storage (pkg/casc/casc.go, context.go) over the    *)
(* mounted storage behind it (internal/storage/storage.go, lookup.go):      *)
(* Open and the best-effort loading of ENCODING and ROOT, the lookups by    *)
(* name, content key, encoded key and file id, FindFiles, GetInfo, the      *)
(* File a lookup returns, the key registry, and Close.  The overlay is      *)
(* empty here (see Overlay); the archive pool and the CDN client are in     *)
(* StorageRead, here each answers in one step, or fails.                    *)
(***************************************************************************)
EXTENDS Integers, Sequences, FiniteSets, SequencesExt

CONSTANTS
  Proc,
  Name, Id, CKey, EKey, KeyName,
  NoKey,         \* the zero key of an entry that has none
  Roots,         \* possible root files: [names -> [ckey, ekey, id]]
  NoRoot,
  Encoding,      \* the ENCODING table: content keys to lists of encoded keys
  EncodingEKey, RootCKey,    \* from the build config
  Content,       \* Content[e]: what was encoded under e
  Packing,       \* Packing[e]: [opts, locks], how
  Disks,         \* possible local archives: [EKey -> condition of the span]
  Emptied,       \* those that may lack all data.NNN, with their index in place
  Overcome, Online, Mounted, \* sets of Booleans: the options, and inner # nil
  Workload,      \* Workload[p]: the methods goroutine p calls
  Asked,         \* the names, ids and keys the caller asks for
  Added,         \* what the caller registers: pairs of a key name and a value
  ReadSize,      \* length of the buffers given to File.Read
  SeekTo         \* positions given to File.Seek

Getters == {"name", "ckey", "ekey", "id", "readckey", "readekey"}
Op == Getters \cup {"find", "info"}
Condition == {"missing", "intact", "cut", "flipped"}

B == INSTANCE Blte

(* Parse keeps no ENCODING entry without an encoded key (encoding.go:112),  *)
(* and the handlers with file ids, WoW and MNDX, know content keys only.    *)
ASSUME TablesAssumption ==
  /\ NoKey \notin CKey \cup EKey \cup Id
  /\ \A r \in Roots : /\ DOMAIN r \subseteq Name
                      /\ \A n \in DOMAIN r : /\ r[n].ckey \in CKey \cup {NoKey}
                                             /\ r[n].ekey \in EKey \cup {NoKey}
                                             /\ r[n].id # NoKey => r[n].ekey = NoKey
  /\ NoRoot \notin Roots
  /\ \A c \in DOMAIN Encoding : c \in CKey /\ Encoding[c] \in Seq(EKey) \ {<<>>}
  /\ EncodingEKey \in EKey /\ RootCKey \in DOMAIN Encoding
ASSUME SpansAssumption ==
  /\ DOMAIN Content = EKey /\ DOMAIN Packing = EKey
  /\ \A e \in EKey :
       LET opts == Packing[e].opts
           locks == Packing[e].locks
       IN /\ Content[e] \in Seq(B!Byte)
          /\ opts.size \in Nat \ {0} /\ opts.mode \in {"N", "Z"} /\ opts.single \in BOOLEAN
          /\ locks \in Seq(Seq(KeyName)) /\ Len(locks) = Len(B!Pieces(Content[e], opts))
  /\ Emptied \subseteq Disks
  /\ \A d \in Disks : DOMAIN d = EKey /\ \A e \in EKey : d[e] \in Condition
ASSUME CallsAssumption ==
  /\ Overcome \subseteq BOOLEAN /\ Online \subseteq BOOLEAN /\ Mounted \subseteq BOOLEAN
  /\ Added \subseteq KeyName \X {"right", "wrong"}
  /\ \A p \in Proc : Workload[p] \subseteq Op \cup {"close", "key", "cancel"}
  /\ ReadSize \in Nat \ {0} /\ SeekTo \subseteq Int

VARIABLES
  build,      \* the root file of the build, the condition of its spans on disk,
              \* and whether any data.NNN is there
  opts,       \* overcome, and online: s.CDN # nil
  phase,      \* "created" (inner is nil), "encoding", "root", "open",
              \* "closing" (Close holds s.mu), "closed"
  ekeys,      \* the local index: its encoded keys
  encoding,   \* s.Encoding # nil
  root,       \* s.Root
  keys,       \* the registry: "none", "right" or "wrong" under each name
  call        \* the call of each goroutine: see Idle

vars == <<build, opts, phase, ekeys, encoding, root, keys, call>>
stored == <<build, opts, phase, ekeys, encoding, root, keys>>

KeyValue == {"none", "right", "wrong"}

(* Locals of a call; of those, seen and closed only record what happened:   *)
(* the values the registry had while it ran, and whether Close has run      *)
(* before it or under it.                                                   *)
Idle == [pc |-> "idle", op |-> "none", arg |-> NoKey, status |-> "none", ctx |-> "live",
         ekey |-> NoKey, from |-> "none", frame |-> 1, cursor |-> 0, depth |-> 0, cells |-> <<>>,
         out |-> <<>>, pos |-> 0, base |-> 0, got |-> <<>>, enc |-> FALSE, todo |-> {}, found |-> {},
         seen |-> [k \in KeyName |-> {}], closed |-> FALSE]

PCs == {"idle", "enter", "known", "locate", "pool", "local", "remote", "decode", "step", "file",
        "walk", "visit", "count", "features", "panic", "close", "clear"}
Errors == {"notfound", "unsupported", "encrypted", "corrupt", "badformat", "failed",
           "cancelled", "invalid"}

(* The span of an encoded key as it lies on disk, or on the CDN ("intact"). *)
Span == [e \in EKey |-> B!Encode(Content[e], Packing[e].opts, Packing[e].locks)]
Blob(e, condition) ==
  LET span == Span[e]
      n == Len(span.data)
  IN CASE condition = "cut"     -> [span EXCEPT !.data = SubSeq(@, 1, n - 1)]
       [] condition = "flipped" -> [span EXCEPT !.data[n] = B!Noise]
       [] OTHER                 -> span

TypeOK ==
  /\ build.root \in Roots /\ build.disk \in Disks /\ build.data \in BOOLEAN
  /\ opts.overcome \in BOOLEAN /\ opts.online \in BOOLEAN
  /\ phase \in {"created", "encoding", "root", "open", "closing", "closed"}
  /\ ekeys \subseteq EKey /\ encoding \in BOOLEAN /\ root \in Roots \cup {NoRoot}
  /\ keys \in [KeyName -> KeyValue]
  /\ \A p \in Proc :
       LET c == call[p]
       IN /\ DOMAIN c = DOMAIN Idle
          /\ c.pc \in PCs /\ c.op \in Op \cup {"none", "close"}
          /\ c.status \in Errors \cup {"none", "ok", "eof"}
          /\ c.ekey \in EKey \cup {NoKey} /\ c.from \in {"none"} \cup Condition
          /\ c.pos \in Nat /\ c.frame \in Nat \ {0} /\ c.depth \in 0..(B!MaxDepth + 1)
          /\ c.pc \in {"decode", "step"} => c.frame <= Len(B!FrameTable(Span[c.ekey]))
          /\ Len(c.got) <= Len(c.out) /\ c.todo \subseteq Name

Init ==
  /\ build \in [root : Roots, disk : Disks, data : BOOLEAN]
  /\ build.data \/ build.disk \in Emptied
  /\ opts \in [overcome : Overcome, online : Online]
  /\ phase \in {IF m THEN "encoding" ELSE "created" : m \in Mounted}
  /\ ekeys = IF phase = "created" THEN {} ELSE {e \in EKey : build.disk[e] # "missing"}
  /\ encoding = FALSE /\ root = NoRoot
  /\ keys = [k \in KeyName |-> "none"]
  /\ call = [p \in Proc |-> Idle]

------------------------------------------------------------------------------
Locks(e) == UNION {ToSet(Packing[e].locks[i]) : i \in DOMAIN Packing[e].locks}

(* Where a key is read from: the local archive if the index has it, and     *)
(* there are archives.                                                      *)
Source(e) == IF e \in ekeys /\ build.data THEN {build.disk[e]}
             ELSE IF opts.online THEN {"intact", "failed"} ELSE {"failed"}

(* LoadEncoding and LoadRoot, before Open returns: the registry is empty,   *)
(* and a manifest that is damaged, sealed or out of reach is not loaded.    *)
Loads(e) == {s = "intact" /\ Locks(e) = {} : s \in Source(e)}

LoadEncoding ==
  /\ phase = "encoding"
  /\ \E ok \in Loads(EncodingEKey) :
       /\ encoding' = ok
       /\ phase' = IF ok THEN "root" ELSE "open"
  /\ UNCHANGED <<build, opts, ekeys, root, keys, call>>

LoadRoot ==
  /\ phase = "root"
  /\ \E ok \in Loads(Head(Encoding[RootCKey])) :
       root' = IF encoding /\ ok THEN build.root ELSE NoRoot
  /\ phase' = "open"
  /\ UNCHANGED <<build, opts, ekeys, encoding, keys, call>>

------------------------------------------------------------------------------
Closing == {"closing", "closed"}
Ready == phase \in {"created", "open"} \cup Closing
Set(p, c) == call' = [call EXCEPT ![p] = c] /\ UNCHANGED stored

(* A call ends: what a lookup was working on is gone.                       *)
Ends(c, status) ==
  [Idle EXCEPT !.op = c.op, !.arg = c.arg, !.status = status, !.closed = c.closed,
               !.ekey = IF status = "encrypted" THEN c.ekey ELSE NoKey,
               !.seen = IF status = "encrypted" THEN c.seen ELSE @]
Return(p, status) == Set(p, Ends(call[p], status))
Panic(p) == Set(p, [Ends(call[p], "none") EXCEPT !.pc = "panic"])

At(p, pc) == call[p].pc = pc

(* The Context variants test the context before anything else; GetInfo has  *)
(* none.                                                                    *)
Start(p, op, arg) ==
  /\ Ready /\ At(p, "idle") /\ op \in Workload[p]
  /\ Set(p, [Idle EXCEPT !.pc = "enter", !.op = op, !.arg = arg,
                         !.closed = phase \in Closing, !.seen = [k \in KeyName |-> {keys[k]}]])

Args(op) == CASE op = "name" -> Asked \cap Name
              [] op = "id" -> Asked \cap Id
              [] op \in {"ckey", "readckey"} -> Asked \cap CKey
              [] op \in {"ekey", "readekey"} -> Asked \cap EKey
              [] OTHER -> {NoKey}

Cancel(p) ==
  /\ "cancel" \in Workload[p] /\ call[p].pc \notin {"idle", "panic", "file"}
  /\ call[p].op \notin {"info", "close"} /\ call[p].ctx = "live"
  /\ Set(p, [call[p] EXCEPT !.ctx = "cancelled"])

EnterCancelled(p) ==
  /\ At(p, "enter") /\ call[p].ctx = "cancelled"
  /\ Return(p, "cancelled")

(* ReadByCKey and ReadByEKey look at inner; the other methods do not, and   *)
(* FindFiles, of a created storage, lists the overlay.                      *)
EnterCreated(p) ==
  /\ At(p, "enter") /\ phase = "created"
  /\ CASE call[p].op \in {"readckey", "readekey"} -> Return(p, "invalid")
       [] call[p].op = "find" -> Return(p, "ok")
       [] OTHER -> Panic(p)

Enters(p, ops) == At(p, "enter") /\ phase # "created" /\ call[p].op \in ops

(* The entry a name has: that of the root, completed from ENCODING.         *)
Complete(entry, enc) ==
  IF enc /\ entry.ckey \in DOMAIN Encoding /\ Encoding[entry.ckey] # <<>>
  THEN Head(Encoding[entry.ckey]) ELSE entry.ekey

Locate(p, e) == Set(p, [call[p] EXCEPT !.pc = "locate", !.ekey = e])

(* What is read under s.mu is not read while Close holds it.                *)
RLock == phase # "closing"

(* FindByName takes root and encoding in one critical section.              *)
FindByName(p) ==
  /\ Enters(p, {"name"}) /\ RLock
  /\ CASE root = NoRoot -> Return(p, "unsupported")
       [] root # NoRoot /\ call[p].arg \notin DOMAIN root -> Return(p, "notfound")
       [] OTHER -> Locate(p, Complete(root[call[p].arg], encoding))

(* Mutant: the last encoded key of the entry.                               *)
FindByCKeyLast(p) ==
  /\ Enters(p, {"ckey", "readckey"})
  /\ CASE ~encoding -> Return(p, "unsupported")
       [] encoding /\ call[p].arg \notin DOMAIN Encoding -> Return(p, "notfound")
       [] OTHER -> Locate(p, Last(Encoding[call[p].arg]))

(* openFileByCKey, readByCKey: s.inner.Encoding is read once.               *)
FindByCKey(p) ==
  /\ Enters(p, {"ckey", "readckey"})
  /\ CASE ~encoding -> Return(p, "unsupported")
       [] encoding /\ call[p].arg \notin DOMAIN Encoding -> Return(p, "notfound")
       [] OTHER -> Locate(p, Head(Encoding[call[p].arg]))

ByEKey(p) == Enters(p, {"ekey", "readekey"}) /\ Locate(p, call[p].arg)

(* Mutant: openFileByID does not test s.inner.Root.                         *)
TestRootNot(p) ==
  /\ Enters(p, {"id", "find", "info"})
  /\ IF root # NoRoot \/ call[p].op = "id" THEN Set(p, [call[p] EXCEPT !.pc = "known"])
     ELSE Return(p, "ok")

(* openFileByID, FindFiles and GetInfo test s.inner.Root, and then use it,  *)
(* without the lock.                                                        *)
TestRoot(p) ==
  /\ Enters(p, {"id", "find", "info"})
  /\ IF root # NoRoot THEN Set(p, [call[p] EXCEPT !.pc = "known"])
     ELSE Return(p, IF call[p].op = "id" THEN "unsupported" ELSE "ok")

WithId(i) == {n \in DOMAIN root : root[n].id = i}

(* The entry of the root handler as it is: nothing asks ENCODING for its    *)
(* encoded key.                                                             *)
LookupByFileDataID(p) ==
  /\ At(p, "known") /\ call[p].op = "id"
  /\ IF root = NoRoot THEN Panic(p)
     ELSE IF WithId(call[p].arg) = {} THEN Return(p, "notfound")
     ELSE \E n \in WithId(call[p].arg) : Locate(p, root[n].ekey)

------------------------------------------------------------------------------
(* Mutant: the CDN is not asked.                                            *)
FindByEKeyLocal(p) ==
  /\ At(p, "locate") /\ RLock
  /\ IF call[p].ekey \in ekeys THEN Set(p, [call[p] EXCEPT !.pc = "pool"])
     ELSE Return(p, "notfound")

(* ReadByEKeyContext, from the moment its key is in no local archive.       *)
Elsewhere(p) == IF opts.online THEN Set(p, [call[p] EXCEPT !.pc = "remote"])
                ELSE Return(p, "notfound")

(* ReadByEKeyContext: the index, under the lock.                            *)
FindByEKey(p) ==
  /\ At(p, "locate") /\ RLock
  /\ IF call[p].ekey \in ekeys THEN Set(p, [call[p] EXCEPT !.pc = "pool"]) ELSE Elsewhere(p)

(* Then the pool, under the lock again: of a directory without data.NNN     *)
(* there is none, and the key is looked for as if the index did not have    *)
(* it.  An error of the pool's span is final.                               *)
ArchivePool(p) ==
  /\ At(p, "pool") /\ RLock
  /\ IF build.data THEN Set(p, [call[p] EXCEPT !.pc = "local"]) ELSE Elsewhere(p)

(* The frames of a blob: the first is next.                                 *)
Has(p, condition) == Set(p, [call[p] EXCEPT !.pc = "decode", !.from = condition])

ReadSpan(p) == At(p, "local") /\ Has(p, build.disk[call[p].ekey])

(* Close closes the pool under the read.                                    *)
ReadSpanFails(p) == At(p, "local") /\ call[p].closed /\ Return(p, "failed")

(* The CDN has every blob of the build, and no zero key.                    *)
Fetch(p) ==
  /\ At(p, "remote") /\ call[p].ctx = "live" /\ call[p].ekey # NoKey
  /\ Has(p, "intact")

FetchFails(p) ==
  /\ At(p, "remote")
  /\ Return(p, IF call[p].ctx = "cancelled" THEN "cancelled" ELSE "failed")

(* DecodeSpanWithOptions.  A step is one access to the registry.            *)
Stream(p) == Blob(call[p].ekey, call[p].from)

DecodeFrame(p) ==
  /\ At(p, "decode")
  /\ LET error == B!FrameError(Stream(p), call[p].frame, call[p].cursor)
     IN IF error # "none" THEN Return(p, error)
        ELSE Set(p, [call[p] EXCEPT !.pc = "step", !.depth = 0,
                       !.cells = B!Encoded(Stream(p), call[p].frame, call[p].cursor)])

(* The File, or the bytes, that a lookup returns.                           *)
Opened(c, out) == [Ends(c, "ok") EXCEPT !.pc = "file", !.ekey = c.ekey, !.from = c.from,
                                        !.seen = c.seen, !.out = out]

NextFrame(p, out) ==
  [call[p] EXCEPT !.pc = "decode", !.frame = @ + 1, !.cells = <<>>, !.out = out,
                  !.cursor = @ + B!FrameTable(Stream(p))[call[p].frame].encoded]

(* Mutant: the loop goes one frame too far.                                 *)
FrameDonePastLast(p, bytes) ==
  LET out == call[p].out \o bytes
  IN IF call[p].frame > Len(B!FrameTable(Stream(p))) THEN Set(p, Opened(call[p], out))
     ELSE Set(p, NextFrame(p, out))

FrameDone(p, bytes) ==
  LET out == call[p].out \o bytes
  IN IF call[p].frame = Len(B!FrameTable(Stream(p))) THEN Set(p, Opened(call[p], out))
     ELSE Set(p, NextFrame(p, out))

DecodeStep(p) ==
  /\ At(p, "step")
  /\ LET i == call[p].frame
     IN \E r \in B!DecodeStep(B!FrameTable(Stream(p))[i], i, call[p].cells, call[p].depth,
                              keys, opts.overcome) :
          CASE r.end = "none"   -> FrameDone(p, r.out)
            [] r.end = "sealed" -> Set(p, [call[p] EXCEPT !.cells = r.out, !.depth = @ + 1])
            [] OTHER            -> Return(p, r.end)

------------------------------------------------------------------------------
(* The File: its content is in memory, whatever becomes of the storage.     *)

Read(p) ==
  /\ At(p, "file") /\ call[p].op \notin {"readckey", "readekey"}
  /\ call[p].pos < Len(call[p].out)
  /\ LET n == IF Len(call[p].out) - call[p].pos < ReadSize
              THEN Len(call[p].out) - call[p].pos ELSE ReadSize
     IN Set(p, [call[p] EXCEPT !.pos = @ + n, !.status = "ok",
                               !.got = @ \o SubSeq(call[p].out, call[p].pos + 1, call[p].pos + n)])

ReadEOF(p) ==
  /\ At(p, "file") /\ call[p].pos >= Len(call[p].out)
  /\ call[p].status = "ok"
  /\ Set(p, [call[p] EXCEPT !.status = "eof"])

(* got is what was read since the last Seek, which went to base.            *)
Seek(p, to) ==
  /\ At(p, "file") /\ call[p].op \notin {"readckey", "readekey"}
  /\ Set(p, IF to < 0 THEN [call[p] EXCEPT !.status = "invalid"]
            ELSE [call[p] EXCEPT !.pos = to, !.base = to, !.got = <<>>, !.status = "ok"])

CloseFile(p) == At(p, "file") /\ Set(p, Idle)

------------------------------------------------------------------------------
(* FindFiles: ENCODING is read between the test and the use of the root.    *)
FindEncoding(p) ==
  /\ At(p, "known") /\ call[p].op = "find"
  /\ Set(p, [call[p] EXCEPT !.pc = "walk", !.enc = encoding])

FindWalk(p) ==
  /\ At(p, "walk")
  /\ IF root = NoRoot THEN Panic(p)
     ELSE Set(p, [call[p] EXCEPT !.pc = "visit", !.todo = DOMAIN root])

(* Mutant: the key of the root entry, not that of ENCODING.                 *)
FindVisitRoot(p, n) ==
  /\ At(p, "visit") /\ n \in call[p].todo /\ call[p].ctx = "live" /\ RLock
  /\ LET ek == build.root[n].ekey
     IN \E more \in BOOLEAN :
          Set(p, [call[p] EXCEPT !.todo = IF more THEN @ \ {n} ELSE {},
                    !.found = @ \cup {[name |-> n, ekey |-> ek, available |-> ek \in ekeys]}])

(* One entry: fn is given its key, and whether FindByEKey finds it in the   *)
(* index.  FindFilesContext stops before fn when the context is done; fn    *)
(* may stop as well.                                                        *)
FindVisit(p, n) ==
  /\ At(p, "visit") /\ n \in call[p].todo /\ call[p].ctx = "live" /\ RLock
  /\ LET ek == Complete(build.root[n], call[p].enc)
     IN \E more \in BOOLEAN :
          Set(p, [call[p] EXCEPT !.todo = IF more THEN @ \ {n} ELSE {},
                    !.found = @ \cup {[name |-> n, ekey |-> ek, available |-> ek \in ekeys]}])

FindDone(p) ==
  /\ At(p, "visit")
  /\ \/ call[p].todo = {} /\ Return(p, "ok")
     \/ call[p].todo # {} /\ call[p].ctx = "cancelled" /\ Return(p, "cancelled")

(* GetInfo: the root is read again for its name, its entries, its features. *)
GetInfo(p) ==
  /\ \/ At(p, "known") /\ call[p].op = "info"
     \/ call[p].pc \in {"count", "features"}
  /\ IF root = NoRoot THEN Panic(p)
     ELSE CASE At(p, "known") -> Set(p, [call[p] EXCEPT !.pc = "count"])
            [] At(p, "count") -> Set(p, [call[p] EXCEPT !.pc = "features"])
            [] OTHER          -> Return(p, "ok")

------------------------------------------------------------------------------
Running(q) == call[q].pc \notin {"idle", "file", "panic", "close", "clear"}

(* Storage.Close: the pool, and what it records in the calls that run.  A   *)
(* second one finds nothing to do.  It holds s.mu to the end, but methods   *)
(* that read s.Encoding and s.Root without the lock run between its steps.  *)
Close(p) ==
  /\ phase = "open" /\ "close" \in Workload[p] /\ At(p, "idle")
  /\ phase' = "closing"
  /\ call' = [q \in Proc |-> IF q = p THEN [Idle EXCEPT !.pc = "close", !.op = "close"]
                             ELSE [call[q] EXCEPT !.closed = @ \/ Running(q)]]
  /\ UNCHANGED <<build, opts, ekeys, encoding, root, keys>>

CloseEncoding(p) ==
  /\ At(p, "close") /\ phase = "closing"
  /\ encoding' = FALSE
  /\ call' = [call EXCEPT ![p] = [@ EXCEPT !.pc = "clear"]]
  /\ UNCHANGED <<build, opts, phase, ekeys, root, keys>>

(* Mutant: Close forgets the root.                                          *)
CloseKeepsRoot(p) ==
  /\ At(p, "clear") /\ phase = "closing"
  /\ ekeys' = {} /\ phase' = "closed"
  /\ call' = [call EXCEPT ![p] = Idle]
  /\ UNCHANGED <<build, opts, encoding, keys, root>>

(* The index is nil after the root; nobody reads it before the unlock.      *)
CloseRoot(p) ==
  /\ At(p, "clear") /\ phase = "closing"
  /\ root' = NoRoot /\ ekeys' = {} /\ phase' = "closed"
  /\ call' = [call EXCEPT ![p] = Idle]
  /\ UNCHANGED <<build, opts, encoding, keys>>

(* AddEncryptionKey replaces what is there; the registry outlives Close.    *)
(* A key that is not 16 bytes long changes nothing; of a created storage    *)
(* the method has no inner to call.                                         *)
AddEncryptionKey(p, k, value) ==
  /\ phase \in {"open"} \cup Closing /\ "key" \in Workload[p] /\ At(p, "idle") /\ keys[k] # value
  /\ keys' = [keys EXCEPT ![k] = value]
  /\ call' = [q \in Proc |-> IF Running(q) THEN [call[q] EXCEPT !.seen[k] = @ \cup {value}]
                          ELSE call[q]]
  /\ UNCHANGED <<build, opts, phase, ekeys, encoding, root>>

Get(p) ==
  \/ EnterCancelled(p) \/ EnterCreated(p) \/ FindByName(p) \/ FindByCKey(p) \/ ByEKey(p)
  \/ TestRoot(p) \/ LookupByFileDataID(p)
  \/ FindByEKey(p) \/ ArchivePool(p) \/ ReadSpan(p) \/ ReadSpanFails(p) \/ Fetch(p) \/ FetchFails(p)
  \/ DecodeFrame(p) \/ DecodeStep(p)

UseFile(p) == Read(p) \/ ReadEOF(p) \/ CloseFile(p) \/ \E to \in SeekTo : Seek(p, to)

Find(p) == FindEncoding(p) \/ FindWalk(p) \/ FindDone(p) \/ \E n \in Name : FindVisit(p, n)

Next ==
  \/ LoadEncoding \/ LoadRoot
  \/ \E p \in Proc :
       \/ \E op \in Op : \E arg \in Args(op) : Start(p, op, arg)
       \/ Cancel(p) \/ Get(p) \/ UseFile(p) \/ Find(p) \/ GetInfo(p)
       \/ Close(p) \/ CloseEncoding(p) \/ CloseRoot(p)
       \/ \E a \in Added : AddEncryptionKey(p, a[1], a[2])

Spec == Init /\ [][Next]_vars

------------------------------------------------------------------------------
(* The key a call is about, by the manifests of the build.                  *)
Entry(c) == IF c.op = "name" THEN build.root[c.arg]
            ELSE build.root[CHOOSE n \in DOMAIN build.root : build.root[n].id = c.arg]

Known(c) == CASE c.op = "name" -> c.arg \in DOMAIN build.root
              [] c.op = "id" -> \E n \in DOMAIN build.root : build.root[n].id = c.arg
              [] c.op \in {"ckey", "readckey"} -> c.arg \in DOMAIN Encoding
              [] OTHER -> TRUE

Resolved(c) == CASE c.op \in {"name", "id"} -> Complete(Entry(c), TRUE)
                 [] c.op \in {"ckey", "readckey"} -> Head(Encoding[c.arg])
                 [] OTHER -> c.arg

(* A key of frame i had this value at some time during the call.            *)
Saw(c, i, value) == \E k \in ToSet(Packing[c.ekey].locks[i]) : value \in c.seen[k]
Frames(e) == DOMAIN Packing[e].locks

(* The bytes frame i may give: its own; zeros if the caller asked for them  *)
(* and a key was missing at some time during the call.                      *)
Piece(e, i) == B!Pieces(Content[e], Packing[e].opts)[i]
FrameGives(c, i) ==
  {Piece(c.ekey, i)} \cup
    IF opts.overcome /\ Saw(c, i, "none")
    THEN {IF Packing[c.ekey].opts.single THEN <<>> ELSE B!Zeros(Len(Piece(c.ekey, i)))}
    ELSE {}

(* What the first n frames give, one after the other: end[i] is where the   *)
(* bytes of frame i end.                                                    *)
Assembled(c, n) ==
  \E end \in [0..n -> 0..Len(c.out)] :
    /\ end[0] = 0 /\ end[n] = Len(c.out)
    /\ \A i \in 1..n : /\ end[i - 1] <= end[i]
                       /\ SubSeq(c.out, end[i - 1] + 1, end[i]) \in FrameGives(c, i)

(* Nothing vouches for the bytes of a stream without a frame table, or of   *)
(* one that was opened with a wrong key: CKey and EKey are never compared.  *)
Vouched(c) ==
  /\ c.from = "intact" \/ ~Packing[c.ekey].opts.single
  /\ \A i \in Frames(c.ekey) : ~Saw(c, i, "wrong")

(* A lookup that succeeds has read the span its argument names: the one     *)
(* ENCODING has for it, else that of the root, whoever closes the storage   *)
(* while it runs (casc.go:331-362, storage.go:321-360).                     *)
RightSpan == \A p \in Proc : call[p].pc = "file" => call[p].ekey = Resolved(call[p])

(* What a File gives, from wherever it is read in whatever pieces, is the   *)
(* content that was encoded, but for frames that were asked to be zero      *)
(* without their key: through damage, sealed frames and keys that are added *)
(* while it runs.                                                           *)
RightBytes ==
  \A p \in Proc :
    LET c == call[p]
    IN c.pc = "file" =>
         /\ Vouched(c) => Assembled(c, Len(Packing[c.ekey].locks))
         /\ c.got = SubSeq(c.out, c.base + 1, IF c.base > c.pos THEN c.base ELSE c.pos)

Truthful(c) ==
  \/ ~Known(c)
  \/ /\ ~opts.online
     /\ c.closed \/ ~build.data \/ Resolved(c) = NoKey \/ build.disk[Resolved(c)] = "missing"

(* ErrFileNotFound from a lookup by name or key means that the build does   *)
(* not have the file, or that there is no CDN and no local span either: the *)
(* index does not have its key, or there are no archives at all             *)
(* (lookup.go:97-114), or Close has run.                                    *)
NotFoundIsTrue ==
  \A p \in Proc : call[p].status = "notfound" /\ call[p].op # "id" => Truthful(call[p])

(* The same of OpenFileByID.                                                *)
NotFoundByIdIsTrue ==
  \A p \in Proc : call[p].status = "notfound" /\ call[p].op = "id" => Truthful(call[p])

(* A call fails for want of a key only if the caller has not asked for      *)
(* zeros, and one of the span's keys was not registered at some time while  *)
(* it ran: a key that was added before is used.                             *)
EncryptedIsTrue ==
  \A p \in Proc :
    call[p].status = "encrypted" =>
      /\ ~opts.overcome
      /\ \E i \in Frames(call[p].ekey) : Saw(call[p], i, "none")

(* Only a storage without inner, or a Close under the call, makes a method  *)
(* dereference nil; reads by name and key survive the latter.               *)
PanicsNeedClose ==
  \A p \in Proc :
    call[p].pc = "panic" =>
      \/ phase = "created" /\ call[p].op \notin {"readckey", "readekey", "find"}
      \/ call[p].closed /\ call[p].op \in {"id", "find", "info"}

(* Whatever could not be loaded, and whenever the storage is closed: who    *)
(* holds s.mu never sees a root without the ENCODING that resolves its      *)
(* entries, as FindByName needs (storage.go:321-360).  Between two writes   *)
(* of Close the methods without the lock do see it (storage.go:296-297).    *)
RootNeedsEncoding == root # NoRoot /\ phase # "closing" => encoding

(* FindFiles gives fn the key that OpenFile would read, and says that it    *)
(* is available just when it is in the local index.  Under a Close the key  *)
(* may be that of the root entry, which ENCODING did not complete, and what *)
(* is there may be said not to be available; never the other way round.     *)
ListedKeyOpens ==
  \A p \in Proc : \A f \in call[p].found :
    LET entry == build.root[f.name]
    IN /\ f.ekey = Complete(entry, TRUE) \/ (call[p].closed /\ f.ekey = entry.ekey)
       /\ f.available => f.ekey # NoKey /\ build.disk[f.ekey] # "missing"
       /\ f.ekey # NoKey /\ build.disk[f.ekey] # "missing" => f.available \/ call[p].closed
==============================================================================
