-------------------------- MODULE DownloadManifest --------------------------
(***************************************************************************)
(* The DOWNLOAD manifest (cdn/download_writer.go, cdn/download.go), in its *)
(* three versions: encoded keys with priorities, then tags with a bitmap.  *)
(***************************************************************************)
EXTENDS Blob

CONSTANTS EKeyLength,    \* opts.EKeyLength, at most 16
          NameLen

BitmapBytes(n) == (n + 7) \div 8
HeaderLength(version) == IF version = 1 THEN 11 ELSE IF version = 2 THEN 12 ELSE 16
EntryLength(keyLen, checksum, flagSize) == keyLen + 6 + flagSize + (IF checksum THEN 4 ELSE 0)

TagOf(t, n) == [name |-> Name(t.name, NameLen[t.name]), type |-> t.type,
                bitmap |-> [k \in 1..BitmapBytes(n) |-> <<"bits", t.name, k>>]]

(* A document: version, checksum, flagSize, entries [ekey, size, priority,   *)
(* checksum, flags] and tags [name, type].                                  *)
EncodeDownload(doc) ==
  LET n == Len(doc.entries)
      EntryBytes(e) ==
        Key(e.ekey, EKeyLength) \o BE(e.size, 5) \o <<Byte(e.priority)>>
          \o (IF doc.checksum THEN BE(e.checksum, 4) ELSE <<>>) \o BE(e.flags, doc.flagSize)
      TagBytes(t) == LET tag == TagOf(t, n)
                     IN tag.name \o <<Nul>> \o BE(tag.type, 2) \o tag.bitmap
  IN Name("DL", 2) \o <<Byte(doc.version), Byte(EKeyLength), Byte(IF doc.checksum THEN 1 ELSE 0)>>
       \o BE(n, 4) \o BE(Len(doc.tags), 2)
       \o (IF doc.version >= 2 THEN <<Byte(doc.flagSize)>> ELSE <<>>)
       \o (IF doc.version >= 3 THEN <<Byte(doc.basePriority)>> \o Nuls(3) ELSE <<>>)
       \o FlattenSeq([i \in 1..n |-> EntryBytes(doc.entries[i])])
       \o FlattenSeq([i \in DOMAIN doc.tags |-> TagBytes(doc.tags[i])])

------------------------------------------------------------------------------
DownloadEntry(data, off, keyLen, checksum, flagSize) ==
  LET at == off + keyLen
  IN [ekey |-> Slice(data, off, keyLen), size |-> GetBE(data, at, 5),
      priority |-> GetBE(data, at + 5, 1),
      checksum |-> IF checksum THEN GetBE(data, at + 6, 4) ELSE 0,
      flags |-> GetBE(data, at + 6 + (IF checksum THEN 4 ELSE 0), flagSize)]

(* The bitmap of a tag is cut to what is left; the name of the next one is   *)
(* then not found, unless it was the last.                                  *)
RECURSIVE DownloadTags(_, _, _, _)
DownloadTags(data, off, left, bitmapLen) ==
  LET nul  == NulAt(data, off)
      at   == off + nul + 1
      kept == IF Len(data) - at - 2 < bitmapLen THEN Len(data) - at - 2 ELSE bitmapLen
      rest == DownloadTags(data, at + 2 + kept, left - 1, bitmapLen)
      tag  == [name |-> Slice(data, off, nul), type |-> GetBE(data, at, 2),
               bitmap |-> Slice(data, at + 2, kept)]
  IN IF left = 0 THEN Ok(<<>>)
     ELSE IF nul < 0 \/ at + 2 > Len(data) THEN Error
     ELSE IF rest.status # "ok" THEN rest
     ELSE Ok(<<tag>> \o rest.value)

(* The length test admits 10 bytes, and data[9:11] is read after it. *)
TooShortForCount(data) == Len(data) < 9
TooShort(data) == Len(data) < 10
ParseDownload(data) ==
  LET version  == GetBE(data, 2, 1)
      keyLen   == GetBE(data, 3, 1)
      start    == HeaderLength(version)
      checksum == data[5] # Nul
      count    == GetBE(data, 5, 4)
      flagSize == IF version >= 2 THEN GetBE(data, 11, 1) ELSE 0
      size     == EntryLength(keyLen, checksum, flagSize)
      tags     == DownloadTags(data, start + count * size, GetBE(data, 9, 2), BitmapBytes(count))
  IN IF TooShort(data) THEN Error
     ELSE IF Slice(data, 0, 2) # Name("DL", 2) \/ version \notin 1..3 THEN Error
     ELSE IF Len(data) < 11 THEN Panic
     ELSE IF keyLen \notin 1..16 THEN Error
     ELSE IF start > Len(data) \/ start + count * size > Len(data) THEN Error
     ELSE IF tags.status # "ok" THEN tags
     ELSE Ok([entries |-> [i \in 1..count |->
                             DownloadEntry(data, start + (i - 1) * size, keyLen, checksum, flagSize)],
              tags |-> tags.value])

WroteDownload(doc) ==
  [entries |-> [i \in DOMAIN doc.entries |->
     LET e == doc.entries[i]
     IN [ekey |-> Key(e.ekey, EKeyLength), size |-> e.size, priority |-> e.priority,
         checksum |-> IF doc.checksum THEN e.checksum ELSE 0,
         flags |-> IF doc.version >= 2 /\ doc.flagSize > 0 THEN e.flags ELSE 0]],
   tags |-> [i \in DOMAIN doc.tags |-> TagOf(doc.tags[i], Len(doc.entries))]]
==============================================================================
