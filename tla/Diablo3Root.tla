----------------------------- MODULE Diablo3Root -----------------------------
(***************************************************************************)
(* The root of Diablo III (root/diablo3/diablo3.go): a directory of named  *)
(* entries, some of which are directories themselves, with assets that get *)
(* a name of their number.  The client writes all of them.                 *)
(***************************************************************************)
EXTENDS Blob

CONSTANTS KeyLen, NameLen

rootSignature   == Name("D3root", 4)
subdirSignature == Name("D3subdir", 4)

(* A directory of the client: signature, assets [ckey, index], assetIdx      *)
(* [ckey, index, sub], named [ckey, name].                                  *)
FileDirectory(dir) ==
  LET Asset(a) == Key(a.ckey, KeyLen) \o LE(a.index, 4)
      AssetIdx(a) == Asset(a) \o LE(a.sub, 4)
      Named(e) == Key(e.ckey, KeyLen) \o Name(e.name, NameLen[e.name]) \o <<Nul>>
  IN (IF dir.isSub
      THEN subdirSignature
             \o LE(Len(dir.assets), 4) \o FlattenSeq([i \in DOMAIN dir.assets |-> Asset(dir.assets[i])])
             \o LE(Len(dir.assetIdx), 4)
             \o FlattenSeq([i \in DOMAIN dir.assetIdx |-> AssetIdx(dir.assetIdx[i])])
      ELSE rootSignature)
     \o LE(Len(dir.named), 4) \o FlattenSeq([i \in DOMAIN dir.named |-> Named(dir.named[i])])

------------------------------------------------------------------------------
(* A count at off, then that many records of a size; where they end. *)
HasRecords(data, off, size) ==
  off + 4 <= Len(data) /\ off + 4 + GetLE(data, off, 4) * size <= Len(data)
RecordsEnd(data, off, size) == off + 4 + GetLE(data, off, 4) * size
RecordsAt(data, off, size) ==
  [i \in 1..GetLE(data, off, 4) |-> Slice(data, off + 4 + (i - 1) * size, size)]

RECURSIVE NamedEntries(_, _, _)
NamedEntries(data, off, left) ==
  LET nul  == NulAt(data, off + KeyLen)
      rest == NamedEntries(data, off + KeyLen + nul + 1, left - 1)
  IN IF left = 0 THEN Ok(<<>>)
     ELSE IF off + KeyLen > Len(data) \/ nul < 0 THEN Error
     ELSE IF rest.status # "ok" THEN Error
     ELSE Ok(<<[ckey |-> Slice(data, off, KeyLen), name |-> Slice(data, off + KeyLen, nul)]>>
               \o rest.value)

parseDirectory(data) ==
  LET isSub  == Slice(data, 0, 4) = subdirSignature
      assetLen == KeyLen + 4
      idxAt  == RecordsEnd(data, 4, assetLen)
      idxLen == KeyLen + 8
      at     == IF isSub THEN RecordsEnd(data, idxAt, idxLen) ELSE 4
      named  == NamedEntries(data, at + 4, GetLE(data, at, 4))
  IN IF Len(data) < 4 \/ (~isSub /\ Slice(data, 0, 4) # rootSignature) THEN Error
     ELSE IF isSub /\ ~(HasRecords(data, 4, assetLen) /\ HasRecords(data, idxAt, idxLen)) THEN Error
     ELSE IF at + 4 > Len(data) \/ named.status # "ok" THEN Error
     ELSE Ok([named |-> named.value,
              assets |-> IF isSub THEN RecordsAt(data, 4, assetLen) ELSE <<>>,
              assetIdx |-> IF isSub THEN RecordsAt(data, idxAt, idxLen) ELSE <<>>])

(* Names: bytes; a synthesised one is the parent's with a mark of the asset. *)
Child(parent, name) == parent \o <<Byte(47)>> \o name
AssetName(parent, bytes) == Child(parent, <<<<"asset", GetLE(bytes, KeyLen, 4)>>>>)
AssetIdxName(parent, bytes) ==
  Child(parent, <<<<"asset", GetLE(bytes, KeyLen, 4), GetLE(bytes, KeyLen + 4, 4)>>>>)
Entry(name, ckey) == [name |-> name, ckey |-> ckey]

ParseDiablo3(data) ==
  LET dir == parseDirectory(data)
  IN IF dir.status # "ok" THEN Error
     ELSE Ok([i \in DOMAIN dir.value.named |->
                Entry(dir.value.named[i].name, dir.value.named[i].ckey)])

(* What LoadSubdirectories adds, the loader giving the blobs of some keys: a *)
(* key it does not have, or a blob that is no directory, is passed over.    *)
LoadSubdirectories(data, loader) ==
  LET Of(ne) ==
        LET blob == loader[ne.ckey]
            sub  == IF ne.ckey \in DOMAIN loader THEN parseDirectory(blob) ELSE Error
            dir  == sub.value
        IN IF sub.status # "ok" THEN <<>>
           ELSE [i \in DOMAIN dir.named |-> Entry(Child(ne.name, dir.named[i].name), dir.named[i].ckey)]
             \o [i \in DOMAIN dir.assets |->
                   Entry(AssetName(ne.name, dir.assets[i]), Slice(dir.assets[i], 0, KeyLen))]
             \o [i \in DOMAIN dir.assetIdx |->
                   Entry(AssetIdxName(ne.name, dir.assetIdx[i]), Slice(dir.assetIdx[i], 0, KeyLen))]
      named == ParseDiablo3(data).value
  IN FlattenSeq([i \in DOMAIN named |-> Of(named[i])])

(* A document: the root directory, subs [of, dir], the directories the       *)
(* entries of those names lead to; keys without one lead to other files.    *)
LoaderOf(doc) ==
  [k \in {Key(doc.subs[i].ckey, KeyLen) : i \in DOMAIN doc.subs} |->
     FileDirectory((doc.subs[CHOOSE i \in DOMAIN doc.subs : Key(doc.subs[i].ckey, KeyLen) = k]).dir)]
WroteDirectory(dir, prefix) ==
  LET In(name) == IF prefix = <<>> THEN name ELSE Child(prefix, name)
  IN [i \in DOMAIN dir.named |->
        Entry(In(Name(dir.named[i].name, NameLen[dir.named[i].name])), Key(dir.named[i].ckey, KeyLen))]
     \o [i \in DOMAIN dir.assets |->
           Entry(In(<<<<"asset", dir.assets[i].index>>>>), Key(dir.assets[i].ckey, KeyLen))]
     \o [i \in DOMAIN dir.assetIdx |->
           Entry(In(<<<<"asset", dir.assetIdx[i].index, dir.assetIdx[i].sub>>>>),
                 Key(dir.assetIdx[i].ckey, KeyLen))]
WroteDiablo3(doc) ==
  WroteDirectory(doc.dir, <<>>)
    \o FlattenSeq([i \in DOMAIN doc.dir.named |->
         LET e == doc.dir.named[i]
             subs == {k \in DOMAIN doc.subs : doc.subs[k].ckey = e.ckey}
         IN IF subs = {} THEN <<>>
            ELSE WroteDirectory(doc.subs[CHOOSE k \in subs : TRUE].dir, Name(e.name, NameLen[e.name]))])
==============================================================================
