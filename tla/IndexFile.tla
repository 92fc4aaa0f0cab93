------------------------------ MODULE IndexFile ------------------------------
(***************************************************************************)
(* Local index files (index/writer.go, index/index.go): where the span of  *)
(* an encoded key is.  Version 1 is written and read; version 2, one       *)
(* guarded block or pages of guarded entries, comes from the game client.  *)
(***************************************************************************)
EXTENDS Blob

CONSTANTS EKeySize,      \* 9
          FileOffsBits,  \* 30
          PageSize,      \* 0x1000
          MinPaged       \* 0x8800, the least length of a paged file

EntryLen == EKeySize + 5 + 4
V1HeaderSize == 48
V2HeaderSize == 16
AlignedEntry == ((EntryLen + 3) \div 4) * 4

(* An entry [ekey, archive, offs, size]; offs is below 2^FileOffsBits.       *)
writeEntryV1(e) ==
  Key(e.ekey, EKeySize) \o BE(e.archive * 2^FileOffsBits + e.offs, 5) \o BE(e.size, 4)

decodeEntry(bytes) ==
  LET storage == GetBE(bytes, EKeySize, 5)
  IN [ekey |-> Slice(bytes, 0, EKeySize), size |-> GetBE(bytes, EKeySize + 5, 4),
      archive |-> storage \div 2^FileOffsBits, offs |-> storage % 2^FileOffsBits]

Widths == <<Byte(4), Byte(5), Byte(EKeySize), Byte(FileOffsBits)>>

(* A document: entries in any order, the bucket, the entries of block 1. *)
EncodeV1(doc) ==
  LET entries == SortSeq(doc.entries, LAMBDA a, b : a.ekey < b.ekey)
      n == IF doc.block1 \in 1..Len(entries) THEN doc.block1 ELSE Len(entries)
      Block(es) == FlattenSeq([i \in DOMAIN es |-> writeEntryV1(es[i])])
      block1 == Block(SubSeq(entries, 1, n))
      block2 == Block(From(entries, n))
      header == LE(5, 2) \o <<Byte(doc.bucket)>> \o Nuls(5) \o LE(2^30, 8) \o LE(2^30, 8) \o Widths
                  \o LE(n, 4) \o LE(Len(entries) - n, 4) \o Hash(block1, 4) \o Hash(block2, 4)
  IN header \o Hash(header \o Nuls(4), 4) \o block1 \o block2

------------------------------------------------------------------------------
(* Version 2 as the client writes it. *)
Guarded(payload, hashed) == LE(Len(payload), 4) \o Hash(hashed, 4) \o payload
HeaderV2(bucket) ==
  Guarded(LE(7, 2) \o <<Byte(bucket), Nul>> \o Widths \o LE(2^30, 8),
          LE(7, 2) \o <<Byte(bucket), Nul>> \o Widths \o LE(2^30, 8))
FileV2Block(doc) ==
  LET payload == FlattenSeq([i \in DOMAIN doc.entries |-> writeEntryV1(doc.entries[i])])
  IN HeaderV2(doc.bucket) \o Nuls(8) \o Guarded(payload, payload) \o Nuls(doc.tail)

EntriesPerPage == PageSize \div (4 + AlignedEntry)
FileV2Pages(doc) ==
  LET Status == Byte(1)
      Item(e) == Pad(Hash(writeEntryV1(e) \o <<Status>>, 4) \o writeEntryV1(e) \o <<Status>>,
                     4 + AlignedEntry)
      pages == (Len(doc.entries) + EntriesPerPage - 1) \div EntriesPerPage
      PageOf(p) == FlattenSeq([i \in 1..(IF p = pages THEN Len(doc.entries) - (p - 1) * EntriesPerPage
                                         ELSE EntriesPerPage)
                                 |-> Item(doc.entries[(p - 1) * EntriesPerPage + i])])
      body == Pad(HeaderV2(doc.bucket), PageSize)
                \o FlattenSeq([p \in 1..pages |-> Pad(PageOf(p), PageSize)])
  IN IF Len(body) < MinPaged THEN Pad(body, MinPaged) ELSE body

------------------------------------------------------------------------------
BlockTrusted(hash, block) == TRUE
BlockHashed(hash, block) == hash = Hash(block, 4)

parseHeaderV1(data, bucket) ==
  LET n1 == GetLE(data, 28, 4)
      n2 == GetLE(data, 32, 4)
      block1 == Slice(data, V1HeaderSize, n1 * EntryLen)
      block2 == Slice(data, V1HeaderSize + n1 * EntryLen, n2 * EntryLen)
  IN IF Len(data) < V1HeaderSize \/ GetLE(data, 0, 2) # 5 \/ data[3] # Byte(bucket) THEN Error
     ELSE IF GetLE(data, 8, 8) = 0 \/ Slice(data, 24, 3) # SubSeq(Widths, 1, 3) THEN Error
     ELSE IF Slice(data, 44, 4) # Hash(Slice(data, 0, 44) \o Nuls(4), 4) THEN Error
     ELSE IF V1HeaderSize + n1 * EntryLen > Len(data) THEN Error
     ELSE IF ~BlockHashed(Slice(data, 36, 4), block1) THEN Error
     ELSE IF V1HeaderSize + (n1 + n2) * EntryLen > Len(data) THEN Error
     ELSE IF ~BlockHashed(Slice(data, 40, 4), block2) THEN Error
     ELSE Ok(n1 + n2)

loadEntriesV1(data, count) ==
  [i \in 1..count |-> decodeEntry(Slice(data, V1HeaderSize + (i - 1) * EntryLen, EntryLen))]

(* The header's guarded block at the start of the file: its payload. *)
captureGuardedBlock1(data) ==
  LET size == GetLE(data, 0, 4)
      payload == Slice(data, 8, size)
  IN IF Len(data) < 8 \/ 8 + size > Len(data) \/ Slice(data, 4, 4) # Hash(payload, 4) THEN Error
     ELSE Ok(payload)

(* The guarded block of the entries at off, which may not be empty.  Its     *)
(* hash runs over whole entries, one after the other from 0: bytes behind    *)
(* the last are in the payload and in no hash.                               *)
EntriesHash(payload) ==
  LET whole == (Len(payload) \div EntryLen) * EntryLen
  IN IF whole = 0 THEN Nuls(4) ELSE Hash(Slice(payload, 0, whole), 4)
captureUnguardedBlock2(data, off) ==
  LET size == GetLE(data, off, 4)
  IN IF off + 8 > Len(data) \/ size = 0 \/ off + 8 + size > Len(data) THEN Error
     ELSE Ok(Slice(data, off + 8, size))
captureGuardedBlock2(data, off) ==
  LET size == GetLE(data, off, 4)
      payload == Slice(data, off + 8, size)
  IN IF off + 8 > Len(data) \/ size = 0 \/ off + 8 + size > Len(data) THEN Error
     ELSE IF Slice(data, off + 4, 4) # EntriesHash(payload) THEN Error
     ELSE Ok(payload)

parseHeaderV2(data, bucket) ==
  LET block == captureGuardedBlock1(data)
      hdr == block.value
  IN IF block.status # "ok" THEN Error
     ELSE IF Len(hdr) < V2HeaderSize \/ GetLE(hdr, 0, 2) # 7 THEN Error
     ELSE IF hdr[3] # Byte(bucket) \/ hdr[4] # Nul \/ Slice(hdr, 4, 3) # SubSeq(Widths, 1, 3) THEN Error
     ELSE Ok(8 + V2HeaderSize + 8)

(* captureGuardedBlock3 at p: the entry, or the end of what the page holds. *)
RECURSIVE PageEntries(_, _, _)
PageEntries(data, p, pageEnd) ==
  LET hash == Slice(data, p, 4)
  IN IF p + 4 + EntryLen + 1 > pageEnd \/ hash = Nuls(4)
        \/ hash # Hash(Slice(data, p + 4, EntryLen + 1), 4) THEN <<>>
     ELSE <<decodeEntry(Slice(data, p + 4, EntryLen))>> \o PageEntries(data, p + 4 + AlignedEntry, pageEnd)

loadEntriesV2(data, off) ==
  LET block == captureGuardedBlock2(data, off)
      pages == (Len(data) - 1) \div PageSize
      End(p) == IF (p + 1) * PageSize < Len(data) THEN (p + 1) * PageSize ELSE Len(data)
  IN IF off < Len(data) /\ block.status = "ok"
     THEN Ok([i \in 1..(Len(block.value) \div EntryLen) |->
                decodeEntry(Slice(block.value, (i - 1) * EntryLen, EntryLen))])
     ELSE IF Len(data) < MinPaged THEN Error
     ELSE Ok(FlattenSeq([p \in 1..pages |-> PageEntries(data, p * PageSize, End(p))]))

ParseIndex(data, bucket) ==
  LET v2 == parseHeaderV2(data, bucket)
      v1 == parseHeaderV1(data, bucket)
  IN IF v2.status = "ok" THEN loadEntriesV2(data, v2.value)
     ELSE IF v1.status # "ok" THEN Error
     ELSE Ok(loadEntriesV1(data, v1.value))

WroteIndex(doc) ==
  {[ekey |-> Key(e.ekey, EKeySize), archive |-> e.archive, offs |-> e.offs, size |-> e.size]
     : e \in ToSet(doc.entries)}
==============================================================================
