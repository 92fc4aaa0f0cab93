------------------------------ MODULE TvfsRoot ------------------------------
(***************************************************************************)
(* The TVFS root (root/tvfs/writer.go, root/tvfs/tvfs.go): a path table    *)
(* whose nodes are files or folders with the size of what they hold, a VFS *)
(* table of spans and a table of the encoded keys they name.  The writer   *)
(* makes one flat folder; trees come from the game client.                 *)
(***************************************************************************)
EXTENDS Blob

CONSTANTS EKeyLen,       \* 9
          NameLen,       \* the length of a name, below 0xFF
          Lower          \* strings.ToLower

HeaderSize == 38
NodeMark   == Byte(255)
Slash      == Byte(47)
FlagLowercaseManifest == 3
SizeBytes(v)     == BE(v, 4)
FolderBytes(v)   == <<Byte(128)>> \o BE(v, 3)

offsetFieldSize(tableSize) ==
  CASE tableSize > 2^24 - 1 -> 4
    [] tableSize > 2^16 - 1 -> 3
    [] tableSize > 2^8 - 1  -> 2
    [] OTHER -> 1

Item(size, cftOff, cftOffsSize) == <<Byte(1)>> \o Nuls(4) \o BE(size, 4) \o BE(cftOff, cftOffsSize)

(* Header, path table, VFS table and key table, one after the other. *)
Image(body, entries, lowercase) ==
  LET cft  == FlattenSeq([i \in DOMAIN entries |-> Key(entries[i].ekey, EKeyLen)])
      vfs  == FlattenSeq([i \in DOMAIN entries |->
                Item(entries[i].size, (i - 1) * EKeyLen, offsetFieldSize(Len(cft)))])
      path == <<NodeMark>> \o FolderBytes(4 + Len(body)) \o body
  IN Name("TVFS", 4) \o <<Byte(1), Byte(HeaderSize), Byte(EKeyLen), Byte(EKeyLen)>>
       \o <<Byte(IF lowercase THEN 2^FlagLowercaseManifest ELSE 0)>> \o Nuls(3)
       \o BE(HeaderSize, 4) \o BE(Len(path), 4)
       \o BE(HeaderSize + Len(path), 4) \o BE(Len(vfs), 4)
       \o BE(HeaderSize + Len(path) + Len(vfs), 4) \o BE(Len(cft), 4) \o BE(1, 2)
       \o path \o vfs \o cft

ItemSize(n) == 9 + offsetFieldSize(n * EKeyLen)
NameBytes(name) == <<Byte(NameLen[name])>> \o Name(name, NameLen[name])

(* A document: entries [name, ekey, size], lowercase or not. *)
EncodeTvfs(doc) ==
  LET n == Len(doc.entries)
  IN Image(FlattenSeq([i \in 1..n |-> NameBytes(doc.entries[i].name) \o <<NodeMark>>
                                        \o SizeBytes((i - 1) * ItemSize(n))]),
           doc.entries, doc.lowercase)

(* A tree of the client: the entries in folders, folder names with a slash   *)
(* after them; an entry of the folder NoFolder is in the root.              *)
NoFolder == ""
FileTree(doc) ==
  LET n == Len(doc.entries)
      Node(i) == NameBytes(doc.entries[i].name) \o <<NodeMark>> \o SizeBytes((i - 1) * ItemSize(n))
      In(f) == FlattenSeq([i \in 1..n |-> IF doc.entries[i].folder = f THEN Node(i) ELSE <<>>])
      Folder(f) == NameBytes(f) \o <<Nul, NodeMark>> \o FolderBytes(4 + Len(In(f))) \o In(f)
  IN Image(FlattenSeq([k \in DOMAIN doc.folders |-> Folder(doc.folders[k])]) \o In(NoFolder),
           doc.entries, doc.lowercase)
treeOrder(doc) ==
  FlattenSeq([k \in DOMAIN doc.folders |-> SelectSeq(doc.entries, LAMBDA e : e.folder = doc.folders[k])])
    \o SelectSeq(doc.entries, LAMBDA e : e.folder = NoFolder)

------------------------------------------------------------------------------
(* The tables of the header, as far as the data holds them. *)
parseHeader(data) ==
  LET h == [flags |-> data[9][2], pathOff |-> GetBE(data, 12, 4), pathSize |-> GetBE(data, 16, 4),
            vfsOff |-> GetBE(data, 20, 4), vfsSize |-> GetBE(data, 24, 4),
            cftOff |-> GetBE(data, 28, 4), cftSize |-> GetBE(data, 32, 4)]
  IN IF Len(data) < HeaderSize \/ Slice(data, 0, 4) # Name("TVFS", 4) THEN Error
     ELSE IF data[5] # Byte(1) \/ data[7] # Byte(EKeyLen) \/ data[8] # Byte(EKeyLen) THEN Error
     ELSE IF \/ h.pathOff + h.pathSize > Len(data) \/ h.vfsOff + h.vfsSize > Len(data)
             \/ h.cftOff + h.cftSize > Len(data) THEN Error
     ELSE Ok(h)

(* One entry: a separator before it, a name, a separator after it, a value.  *)
(* Each part is there or not; a next entry that follows at once counts as a  *)
(* separator, too.                                                          *)
parsePathEntry(buf) ==
  LET pre   == IF Slice(buf, 0, 1) = <<Nul>> THEN 1 ELSE 0
      named == Len(buf) > pre /\ buf[pre + 1] # NodeMark
      nLen  == IF named THEN GetBE(buf, pre, 1) ELSE 0
      at    == IF named THEN pre + 1 + nLen ELSE pre
      post  == IF Slice(buf, at, 1) = <<Nul>> THEN 1 ELSE 0
      value == at + post
      more  == Len(buf) > value
      isNode == more /\ buf[value + 1] = NodeMark
  IN IF at > Len(buf) \/ (isNode /\ value + 5 > Len(buf)) THEN Error
     ELSE Ok([text |-> (IF pre = 1 THEN <<Slash>> ELSE <<>>) \o Slice(buf, at - nLen, nLen)
                         \o (IF post = 1 \/ (more /\ ~isNode) THEN <<Slash>> ELSE <<>>),
              isNode |-> isNode,
              isFolder |-> isNode /\ buf[value + 2][1] = "byte" /\ buf[value + 2][2] >= 128,
              number |-> IF isNode THEN Slice(buf, value + 1, 4) ELSE <<>>,
              rest |-> From(buf, IF isNode THEN value + 5 ELSE value)])

FolderSize(number) == NumBE([number EXCEPT ![1][2] = @ % 128])

(* The first span of a file: its size and its key. *)
resolveVfs(data, h, vfsOffset) ==
  LET cftOffsSize == offsetFieldSize(h.cftSize)
      vfs    == From(data, h.vfsOff + vfsOffset)
      cftOff == GetBE(vfs, 9, cftOffsSize)
  IN IF vfsOffset >= h.vfsSize \/ vfs = <<>> THEN Error
     ELSE IF GetBE(vfs, 0, 1) \notin 1..224 \/ Len(vfs) < 9 + cftOffsSize THEN Error
     ELSE IF cftOff >= h.cftSize \/ Len(data) < h.cftOff + cftOff + EKeyLen THEN Error
     ELSE Ok([ekey |-> Slice(data, h.cftOff + cftOff, EKeyLen), size |-> GetBE(vfs, 5, 4)])

LowerBytes(path) ==
  [k \in DOMAIN path |-> IF path[k][1] = "name" THEN <<"name", Lower[path[k][2]], path[k][3]>>
                         ELSE path[k]]

(* A file that does not resolve is skipped, a folder that does not fit is an *)
(* error.                                                                   *)
RECURSIVE walk(_, _, _, _)
walk(data, h, region, prefix) ==
  LET entry  == parsePathEntry(region)
      path   == prefix \o entry.value.text
      size   == FolderSize(entry.value.number) - 4
      rest   == entry.value.rest
      inside == walk(data, h, SubSeq(rest, 1, size), path)
      file   == resolveVfs(data, h, NumBE(entry.value.number))
      final  == IF (h.flags \div 2^FlagLowercaseManifest) % 2 = 1 THEN LowerBytes(path) ELSE path
      Then(found, tail) ==
        IF tail.status = "ok" THEN Ok(found \o tail.value) ELSE Error
  IN IF region = <<>> THEN Ok(<<>>)
     ELSE IF entry.status # "ok" THEN Error
     ELSE IF ~entry.value.isNode THEN walk(data, h, rest, prefix)
     ELSE IF entry.value.isFolder
     THEN IF size < 0 \/ size > Len(rest) \/ inside.status # "ok" THEN Error
          ELSE Then(inside.value, walk(data, h, From(rest, size), prefix))
     ELSE Then(IF file.status = "ok"
               THEN <<[name |-> final, ekey |-> file.value.ekey, size |-> file.value.size]>>
               ELSE <<>>, walk(data, h, rest, prefix))

parseRoot(data, h) ==
  LET pt   == Slice(data, h.pathOff, h.pathSize)
      size == FolderSize(Slice(pt, 1, 4))
  IN IF Len(pt) < 5 \/ pt[1] # NodeMark THEN walk(data, h, pt, <<>>)
     ELSE IF pt[2][1] # "byte" \/ pt[2][2] < 128 THEN Error
     ELSE IF size < 4 \/ 1 + size > Len(pt) THEN Error
     ELSE walk(data, h, SubSeq(pt, 6, 1 + size), <<>>)

ParseTvfs(data) ==
  LET h == parseHeader(data)
  IN IF h.status # "ok" THEN Error ELSE parseRoot(data, h.value)

(* h.files holds the last entry of a path. *)
Asked(path, lowercase) == IF lowercase THEN LowerBytes(path) ELSE path
LookupTvfs(entries, path, lowercase) ==
  LET is == {i \in DOMAIN entries : entries[i].name = Asked(path, lowercase)}
  IN IF is = {} THEN {} ELSE {entries[CHOOSE i \in is : \A j \in is : j <= i]}

PathOf(e, tree) ==
  (IF tree /\ e.folder # NoFolder THEN Name(e.folder, NameLen[e.folder]) \o <<Slash>> ELSE <<>>)
    \o Name(e.name, NameLen[e.name])
WroteTvfs(entries, tree, lowercase) ==
  [i \in DOMAIN entries |-> [name |-> Asked(PathOf(entries[i], tree), lowercase),
                             ekey |-> Key(entries[i].ekey, EKeyLen), size |-> entries[i].size]]
==============================================================================
