----------------------------- MODULE ArchiveIndex -----------------------------
(***************************************************************************)
(* The index of a CDN archive (cdn/archive_index.go): pages of records,    *)
(* each followed by its hash, and a footer of 36 bytes at the end that     *)
(* says how wide the fields of a record are.                               *)
(***************************************************************************)
EXTENDS Blob

CONSTANTS HashLen,       \* casc.MD5HashSize
          PageKilo       \* 1024

FooterLen == 36

(* What the footer's hash covers, its own bytes taken as zero. *)
FooterTail(doc) ==
  <<Byte(1), Nul, Nul, Byte(doc.pageKB), Byte(doc.offsBytes), Byte(doc.sizeBytes),
    Byte(doc.ekeyLen), Byte(8)>> \o LE(Len(doc.entries), 4)

(* A document: entries [ekey, size, offs] and the fields of the footer.      *)
ItemLength(ekeyLen, sizeBytes, offsBytes) == ekeyLen + sizeBytes + offsBytes
EncodeArchiveIndex(doc) ==
  LET pageLen == doc.pageKB * PageKilo
      perPage == pageLen \div ItemLength(doc.ekeyLen, doc.sizeBytes, doc.offsBytes)
      n == Len(doc.entries)
      needed == (n + perPage - 1) \div perPage
      pageCount == IF needed = 0 THEN 1 ELSE needed
      Record(e) == Key(e.ekey, doc.ekeyLen) \o BE(e.size, doc.sizeBytes) \o BE(e.offs, doc.offsBytes)
      Page(p) == Pad(FlattenSeq([i \in 1..(IF p * perPage <= n THEN perPage ELSE n - (p - 1) * perPage)
                                  |-> Record(doc.entries[(p - 1) * perPage + i])]), pageLen)
  IN FlattenSeq([p \in 1..pageCount |-> Page(p) \o Hash(Page(p), HashLen)])
       \o Hash("toc", 16) \o FooterTail(doc) \o Hash(FooterTail(doc) \o Nuls(8), 8)

------------------------------------------------------------------------------
(* The records of a page up to a key of zeros.  Its hash is not looked at,   *)
(* nor is the count of the footer.                                          *)
RECURSIVE PageRecords(_, _, _, _, _)
PageRecords(page, o, ekeyLen, sizeBytes, offsBytes) ==
  LET end  == o + ItemLength(ekeyLen, sizeBytes, offsBytes)
      ekey == Slice(page, o, ekeyLen)
  IN IF end > Len(page) \/ ekey = Nuls(ekeyLen) THEN <<>>
     ELSE <<[ekey |-> ekey, size |-> GetBE(page, o + ekeyLen, sizeBytes),
             offs |-> GetBE(page, o + ekeyLen + sizeBytes, offsBytes)]>>
            \o PageRecords(page, end, ekeyLen, sizeBytes, offsBytes)

ParseArchiveIndex(data) ==
  LET f == From(data, Len(data) - FooterLen)
      pageLen == GetBE(f, 19, 1) * PageKilo
      offsBytes == GetBE(f, 20, 1)
      sizeBytes == GetBE(f, 21, 1)
      ekeyLen == GetBE(f, 22, 1)
      pageCount == (Len(data) - FooterLen) \div (pageLen + HashLen)
  IN IF Len(data) < FooterLen THEN Error
     ELSE IF Slice(f, 16, 3) # <<Byte(1), Nul, Nul>> \/ f[24] # Byte(8) THEN Error
     ELSE IF pageLen = 0 \/ ekeyLen \notin 1..16 THEN Error
     ELSE IF offsBytes \notin 1..8 \/ sizeBytes \notin 1..8 THEN Error
     ELSE IF Slice(f, 28, 8) # Hash(Slice(f, 16, 12) \o Nuls(8), 8) THEN Error
     ELSE Ok(FlattenSeq([p \in 1..pageCount |->
               PageRecords(Slice(data, (p - 1) * (pageLen + HashLen), pageLen), 0,
                           ekeyLen, sizeBytes, offsBytes)]))

WroteArchiveIndex(doc) ==
  [i \in DOMAIN doc.entries |-> [ekey |-> Key(doc.entries[i].ekey, doc.ekeyLen),
                                 size |-> doc.entries[i].size, offs |-> doc.entries[i].offs]]
==============================================================================
