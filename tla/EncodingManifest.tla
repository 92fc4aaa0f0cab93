-------------------------- MODULE EncodingManifest --------------------------
(***************************************************************************)
(* The ENCODING manifest (encoding/writer.go, encoding/encoding.go): which *)
(* encoded keys hold the content of a content key.  Records are packed     *)
(* into pages of a fixed size, and a record does not cross a page.         *)
(***************************************************************************)
EXTENDS Blob, FiniteSets

CONSTANTS KeyLen,      \* casc.MD5HashSize
          Kilo         \* 1024, the unit of the page sizes in the header

HeaderSize == 22
RecordHdr  == 6 + KeyLen

(* A document: entries [ckey, size, ekeys] with keys of their own and at     *)
(* least one EKey each, page sizes in Kilo, EKey pages or not.              *)
RecordSize(e) == RecordHdr + Len(e.ekeys) * KeyLen

(* A record larger than a page keeps its first EKey only. *)
Cut(e, pageSize) ==
  IF RecordSize(e) > pageSize THEN [e EXCEPT !.ekeys = SubSeq(@, 1, 1)] ELSE e

Record(e) ==
  LE(Len(e.ekeys), 2) \o BE(e.size, 4) \o Key(e.ckey, KeyLen)
    \o FlattenSeq([k \in DOMAIN e.ekeys |-> Key(e.ekeys[k], KeyLen)])

(* Each page takes records while they fit. *)
RECURSIVE Pages(_, _, _)
Pages(records, pageSize, firsts) ==
  IF records = <<>> THEN <<>>
  ELSE LET Taken(n) == FlattenSeq(SubSeq(records, 1, n))
           n == CHOOSE n \in 1..Len(records) :
                  /\ Len(Taken(n)) <= pageSize
                  /\ n = Len(records) \/ Len(Taken(n + 1)) > pageSize
       IN <<[first |-> Head(firsts), page |-> Pad(Taken(n), pageSize)]>>
            \o Pages(From(records, n), pageSize, From(firsts, n))

sorted(doc) == SortSeq(doc.entries, LAMBDA a, b : a.ckey < b.ckey)

layoutCKeyPages(entries, pageSize) ==
  Pages([i \in DOMAIN entries |-> Record(Cut(entries[i], pageSize))], pageSize,
        [i \in DOMAIN entries |-> entries[i].ckey])

layoutEKeyPages(entries, pageSize) ==
  Pages([i \in DOMAIN entries |->
           Key(entries[i].ekeys[1], KeyLen) \o BE(i - 1, 4) \o Nuls(5)], pageSize,
        [i \in DOMAIN entries |-> entries[i].ekeys[1]])

PageIndex(pages) ==
  FlattenSeq([i \in DOMAIN pages |->
                Key(pages[i].first, KeyLen) \o Hash(pages[i].page, KeyLen)])

EncodeEncoding(doc) ==
  LET cpages == layoutCKeyPages(sorted(doc), doc.cKB * Kilo)
      epages == IF doc.eKeyPages THEN layoutEKeyPages(sorted(doc), doc.eKB * Kilo) ELSE <<>>
      Bodies(pages) == FlattenSeq([i \in DOMAIN pages |-> pages[i].page])
  IN Name("EN", 2) \o <<Byte(1), Byte(KeyLen), Byte(KeyLen)>> \o BE(doc.cKB, 2) \o BE(doc.eKB, 2)
       \o BE(Len(cpages), 4) \o BE(Len(epages), 4) \o <<Nul>> \o BE(doc.espec, 4)
       \o Name("espec", doc.espec)
       \o PageIndex(cpages) \o Bodies(cpages) \o PageIndex(epages) \o Bodies(epages)

------------------------------------------------------------------------------
(* The records of a page, up to one without EKeys or to the end. *)
RECURSIVE Records(_, _)
Records(page, p) ==
  LET count == GetLE(page, p, 2)
      size  == RecordHdr + count * KeyLen
      entry == [ckey  |-> Slice(page, p + 6, KeyLen), size |-> GetBE(page, p + 2, 4),
                ekeys |-> [k \in 1..count |-> Slice(page, p + RecordHdr + (k - 1) * KeyLen, KeyLen)]]
      rest  == Records(page, p + size)
  IN IF p + 6 > Len(page) \/ count = 0 THEN Ok({})
     ELSE IF p + size > Len(page) THEN Error
     ELSE IF rest.status # "ok" THEN rest
     ELSE Ok({entry} \cup rest.value)

ParseEncoding(data) ==
  LET pageBytes  == GetBE(data, 5, 2) * Kilo
      cPageCount == GetBE(data, 9, 4)
      start == HeaderSize + GetBE(data, 18, 4) + cPageCount * KeyLen * 2
      pages == [i \in 1..cPageCount |->
                  Records(Slice(data, start + (i - 1) * pageBytes, pageBytes), 0)]
  IN IF Len(data) < HeaderSize THEN Error
     ELSE IF Slice(data, 0, 2) # Name("EN", 2) \/ data[3] # Byte(1) THEN Error
     ELSE IF data[4] # Byte(KeyLen) \/ data[5] # Byte(KeyLen) THEN Error
     ELSE IF start + cPageCount * pageBytes > Len(data) THEN Error
     ELSE IF \E i \in DOMAIN pages : pages[i].status # "ok" THEN Error
     ELSE Ok(UNION {pages[i].value : i \in DOMAIN pages})

(* What a reader must find: every entry, in full unless it exceeds a page.   *)
WroteEncoding(doc) ==
  {LET c == Cut(e, doc.cKB * Kilo)
   IN [ckey |-> Key(c.ckey, KeyLen), size |-> c.size,
       ekeys |-> [k \in DOMAIN c.ekeys |-> Key(c.ekeys[k], KeyLen)]] : e \in ToSet(doc.entries)}
==============================================================================
