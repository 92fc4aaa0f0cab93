------------------------------ MODULE MndxRoot ------------------------------
(***************************************************************************)
(* The MNDX root (root/mndx/mndx.go): MAR files with the names of packages *)
(* and the names of files without their package, and a flat table of       *)
(* content keys in groups, one group per name.  The client writes it.      *)
(***************************************************************************)
EXTENDS MndxTrie

CONSTANT KeyLen          \* casc.MD5HashSize

mndxMagic == Name("MNDX", 4)
MarInfoSize == 20
CKeyEntrySize == 8 + KeyLen
marCount == 3
NameSlash == Byte(47)

(* A document: the tries of packages and files; groups[i], the entries       *)
(* [pkg, ckey, size] of file i - 1; the tables before the MAR files or after. *)
FileEntry(e, last) ==
  LE(e.pkg, 3) \o <<Byte(IF last THEN 128 ELSE 0)>> \o Key(e.ckey, KeyLen) \o LE(e.size, 4)
FileEntries(groups) ==
  Joined([i \in DOMAIN groups |->
    Joined([j \in DOMAIN groups[i] |-> FileEntry(groups[i][j], j = Len(groups[i]))])])

(* The MAR files m1 and m2, the entries, and where the tables begin.        *)
Arranged(doc, m1, m2, entries) ==
  LET header == 40 + (IF doc.version = 2 THEN 8 ELSE 0)
      infos  == 2 * MarInfoSize
      tables == header + (IF doc.tablesFirst THEN 0 ELSE Len(m1) + Len(m2))
      first  == header + (IF doc.tablesFirst THEN infos + Len(entries) ELSE 0)
      Info(i, size, off) == LE(i, 4) \o LE(size, 8) \o LE(off, 8)
      table  == Info(0, Len(m1), first) \o Info(1, Len(m2), first + Len(m1)) \o entries
  IN mndxMagic \o LE(doc.version, 4) \o LE(2, 4) \o (IF doc.version = 2 THEN Nuls(8) ELSE <<>>)
       \o LE(tables, 4) \o LE(2, 4) \o LE(MarInfoSize, 4)
       \o LE(tables + infos, 4) \o LE(Len(entries) \div CKeyEntrySize, 4)
       \o LE(Len(doc.groups), 4) \o LE(CKeyEntrySize, 4)
       \o IF doc.tablesFirst THEN table \o m1 \o m2 ELSE m1 \o m2 \o table
FileMndx(doc) ==
  Arranged(doc, FileMAR(doc.packages), FileMAR(doc.files), FileEntries(doc.groups))

------------------------------------------------------------------------------
parseInfo(data) ==
  LET version == GetLE(data, 4, 4)
      off == IF version = 2 THEN 20 ELSE 12
      n(i) == GetLE(data, off + 4 * i, 4)
  IN IF Len(data) < 12 \/ Slice(data, 0, 4) # mndxMagic \/ version \notin 1..2 THEN Error
     ELSE IF Len(data) < off + 28 \/ n(2) # MarInfoSize \/ n(6) # CKeyEntrySize \/ n(1) > 8 THEN Error
     ELSE Ok([marOff |-> n(0), mars |-> n(1), ckeyOff |-> n(3), ckeys |-> n(4), names |-> n(5)])

marInfo(data, off) ==
  [index |-> GetLE(data, off, 4), size |-> GetLE(data, off + 4, 4), off |-> GetLE(data, off + 12, 4)]
ckeyEntry(data, off) ==
  [pkg |-> GetLE(data, off, 3), last |-> data[off + 4][2] >= 128,
   ckey |-> Slice(data, off + 4, KeyLen), size |-> GetLE(data, off + 4 + KeyLen, 4)]

(* A MAR file that does not fit or does not load is left out, one with a     *)
(* number past the last is a panic.                                         *)
Loaded(data, mar) ==
  IF mar.off + mar.size > Len(data) THEN [ok |-> FALSE, db |-> NoTrie]
  ELSE LoadMAR(Slice(data, mar.off, mar.size))
loadMARs(data, mars) ==
  LET first  == [i \in 1..Min({Len(mars), marCount}) |-> Loaded(data, mars[i])]
      Of(index) == {i \in DOMAIN first : first[i].ok /\ mars[i].index = index}
  IN IF \E i \in DOMAIN first : first[i].ok /\ mars[i].index >= marCount THEN Panic
     ELSE Ok([index \in 0..(marCount - 1) |->
                IF Of(index) = {} THEN NoTrie ELSE first[Max(Of(index))].db])

(* buildNameIndex.  Where the groups begin; the names of the packages, as    *)
(* many as there are entries; each name with each entry of its group, the    *)
(* first of a full name counting.                                           *)
GroupStarts(entries) ==
  IF entries = <<>> THEN <<>>
  ELSE <<0>> \o SelectSeq([i \in DOMAIN entries |-> IF entries[i].last THEN i ELSE 0],
                          LAMBDA i : i # 0)

PackageNames(listed, count) ==
  [i \in 1..count |->
     LET at == {k \in DOMAIN listed : listed[k].index = i - 1}
     IN IF at = {} THEN <<>> ELSE listed[Max(at)].name]

FullNames(entries, packages, listed) ==
  LET starts == GroupStarts(entries)
      InGroup(index) == IF index + 1 >= Len(starts) THEN {}
                        ELSE starts[index + 1]..(starts[index + 2] - 1)
      all == UNION {{[name |-> packages[entries[i + 1].pkg + 1] \o <<NameSlash>> \o listed[k].name,
                      at |-> k, entry |-> i]
                       : i \in {i \in InGroup(listed[k].index) : entries[i + 1].pkg < Len(packages)}}
                    : k \in DOMAIN listed}
      Earlier(x, y) == x.at < y.at \/ (x.at = y.at /\ x.entry < y.entry)
  IN {x \in all : \A y \in all : y.name = x.name => ~Earlier(y, x)}

NameIndex(entries, count, pkgs, listed) ==
  IF Panic \in {pkgs, listed} THEN Panic
  ELSE Ok([entries |-> entries,
           names |-> FullNames(entries, PackageNames(pkgs.value, count), listed.value)])
NamesOf(mar) == IF mar = NoTrie THEN Ok(<<>>) ELSE enumerate(mar)
buildNameIndex(entries, mars) ==
  LET count == IF mars[0] = NoTrie THEN 0
               ELSE Min({mars[0].FileNameIndexes.ValidItemCount, Len(entries)})
  IN NameIndex(entries, count, NamesOf(mars[0]), NamesOf(IF count = 0 THEN NoTrie ELSE mars[1]))

(* Probe and Parse: the handler, its entries and its full names.            *)
Indexed(entries, loaded) ==
  IF loaded = Panic THEN Panic ELSE buildNameIndex(entries, loaded.value)
ParseTables(data, info) ==
  LET mars == [i \in 1..info.mars |-> marInfo(data, info.marOff + (i - 1) * MarInfoSize)]
      entries == [i \in 1..info.ckeys |-> ckeyEntry(data, info.ckeyOff + (i - 1) * CKeyEntrySize)]
      BadMagic(mar) == mar.off + 4 <= Len(data) /\ Slice(data, mar.off, 4) # marMagic
  IN IF info.marOff + info.mars * MarInfoSize > Len(data) THEN Error
     ELSE IF \E i \in DOMAIN mars : BadMagic(mars[i]) THEN Error
     ELSE IF info.ckeyOff + info.ckeys * CKeyEntrySize > Len(data) THEN Error
     ELSE Indexed(entries, loadMARs(data, mars))
ParseMndx(data) ==
  LET h == parseInfo(data)
  IN IF h.status # "ok" THEN Error ELSE ParseTables(data, h.value)

------------------------------------------------------------------------------
EntryOf(h, id) == [ckey |-> h.entries[id + 1].ckey, size |-> h.entries[id + 1].size, fdid |-> id]
LookupByFileDataID(h, id) == IF id < Len(h.entries) THEN {EntryOf(h, id)} ELSE {}
LookupMndx(h, name) == {EntryOf(h, n.entry) : n \in {n \in h.names : n.name = name}}

(* All: the names, or labels with the numbers of the entries when there are  *)
(* none.                                                                    *)
Label(i) == <<"FileDataID", i>>
All(h) ==
  IF h.names # {} THEN {[name |-> n.name, entry |-> EntryOf(h, n.entry)] : n \in h.names}
  ELSE {[name |-> Label(i), entry |-> EntryOf(h, i)] : i \in 0..(Len(h.entries) - 1)}

(* The files of a document, and the entries that are listed without names.   *)
Places(doc) == UNION {{<<i, j>> : j \in DOMAIN doc.groups[i]} : i \in DOMAIN doc.groups}
WroteEntry(doc, p) ==
  LET e == doc.groups[p[1]][p[2]]
      Precedes(q) == q[1] < p[1] \/ (q[1] = p[1] /\ q[2] < p[2])
  IN [ckey |-> Key(e.ckey, KeyLen), size |-> e.size,
      fdid |-> Cardinality({q \in Places(doc) : Precedes(q)})]
WroteMndx(doc) ==
  LET named == FileNames(doc.files)
      Package(p) == CHOOSE x \in FileNames(doc.packages) : x.index = doc.groups[p[1]][p[2]].pkg
  IN {[name |-> Package(<<f.index + 1, j>>).name \o <<NameSlash>> \o f.name,
       entry |-> WroteEntry(doc, <<f.index + 1, j>>)]
        : <<f, j>> \in {x \in named \X (1..2) : x[2] \in DOMAIN doc.groups[x[1].index + 1]}}
WroteLabels(doc) ==
  {[name |-> Label(WroteEntry(doc, p).fdid), entry |-> WroteEntry(doc, p)] : p \in Places(doc)}
==============================================================================
