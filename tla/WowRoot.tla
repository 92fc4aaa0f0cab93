------------------------------- MODULE WowRoot -------------------------------
(***************************************************************************)
(* The root of World of Warcraft (root/wow/writer.go, root/wow/wow.go):    *)
(* groups of FileDataIDs, written as differences, with their content keys  *)
(* and, unless a content flag says so, the hashes of their names.  The     *)
(* writer makes version 2; versions 1 and 3 come from the game client.     *)
(* Content flags are the set of their bits.                                *)
(***************************************************************************)
EXTENDS Blob, FiniteSets, FiniteSetsExt

CONSTANT KeyLen          \* casc.MD5HashSize

wowMagic == Name("MFST", 4)
cflagNoNameHash == 28
GroupHdr  == 12
PackedHdr == 17

FlagBytes(bits) ==
  [k \in 1..4 |-> Byte(SumSet({2^b : b \in {b \in 0..7 : 8 * (k - 1) + b \in bits}}))]
FlagBits(bytes) ==
  {8 * (k - 1) + b : <<k, b>> \in {<<k, b>> \in (1..Len(bytes)) \X (0..7) :
     bytes[k][1] = "byte" /\ (bytes[k][2] \div 2^b) % 2 = 1}}

NoName == ""
NameHash(name) == IF name = NoName THEN Nuls(8) ELSE Hash(name, 8)

(* Entries [fdid, ckey, name] in the order of their FileDataIDs; the reader  *)
(* adds one after each, so a difference is what remains.                    *)
DeltasFromId(entries) ==
  FlattenSeq([i \in DOMAIN entries |->
    LE(IF i = 1 THEN entries[i].fdid ELSE entries[i].fdid - entries[i - 1].fdid, 4)])
Deltas(entries) ==
  FlattenSeq([i \in DOMAIN entries |->
    LE(IF i = 1 THEN entries[i].fdid ELSE entries[i].fdid - (entries[i - 1].fdid + 1), 4)])
CKeys(entries) == FlattenSeq([i \in DOMAIN entries |-> Key(entries[i].ckey, KeyLen)])
Hashes(entries) == FlattenSeq([i \in DOMAIN entries |-> NameHash(entries[i].name)])

(* A document: entries in any order, the content flags, the locale bytes.    *)
sorted(doc) == SortSeq(doc.entries, LAMBDA a, b : a.fdid < b.fdid)
hasHash(entries) == \E i \in DOMAIN entries : entries[i].name # NoName
contentFlags(doc) ==
  IF hasHash(doc.entries) THEN doc.content \ {cflagNoNameHash} ELSE doc.content \cup {cflagNoNameHash}

EncodeWow(doc) ==
  LET cp == sorted(doc)
      n  == Len(cp)
  IN wowMagic \o LE(n, 4) \o LE(IF hasHash(cp) THEN n ELSE 0, 4)
       \o LE(n, 4) \o FlagBytes(contentFlags(doc)) \o doc.locale
       \o Deltas(cp) \o CKeys(cp) \o (IF hasHash(cp) THEN Hashes(cp) ELSE <<>>)

------------------------------------------------------------------------------
(* Versions 1 and 3 as the client writes them; a document has groups.        *)
GroupV1(g) ==
  LE(Len(g.entries), 4) \o FlagBytes(g.content) \o g.locale \o Deltas(g.entries)
    \o FlattenSeq([i \in DOMAIN g.entries |->
                     Key(g.entries[i].ckey, KeyLen) \o NameHash(g.entries[i].name)])
FileV1(doc) == FlattenSeq([i \in DOMAIN doc.groups |-> GroupV1(doc.groups[i])])

(* Bit b of the flags is in the first word, the second, or from bit 17 on in *)
(* the byte after them.                                                     *)
GroupV3(g, packed) ==
  LE(Len(g.entries), 4)
    \o (IF packed
        THEN g.locale \o FlagBytes(g.content \ (17..24)) \o Nuls(4)
               \o <<FlagBytes({b - 17 : b \in g.content \cap (17..24)})[1]>>
        ELSE FlagBytes(g.content) \o g.locale)
    \o Deltas(g.entries) \o CKeys(g.entries)
    \o (IF cflagNoNameHash \in g.content THEN <<>> ELSE Hashes(g.entries))
FileV3(doc) ==
  LET total == FoldLeft(LAMBDA sum, g : sum + Len(g.entries), 0, doc.groups)
  IN wowMagic \o LE(20, 4) \o LE(IF doc.packed THEN 2 ELSE 1, 4) \o LE(total, 4) \o LE(total, 4)
       \o FlattenSeq([i \in DOMAIN doc.groups |-> GroupV3(doc.groups[i], doc.packed)])

------------------------------------------------------------------------------
(* addV1 and addV2: the entries of a group, ids from the differences.        *)
GroupEntries(n, fdids, ckeyAt(_), hashAt(_), locale, content) ==
  LET fdid[i \in 0..n] == IF i = 0 THEN -1 ELSE fdid[i - 1] + 1 + GetLE(fdids, (i - 1) * 4, 4)
  IN [i \in 1..n |-> [fdid |-> fdid[i], ckey |-> ckeyAt(i - 1), hash |-> hashAt(i - 1),
                      locale |-> locale, content |-> content]]

(* parseGroup: the entries and how many bytes they took. *)
parseGroup(data, fmt, packed) ==
  LET hdrLen  == IF packed THEN PackedHdr ELSE GroupHdr
      n       == GetLE(data, 0, 4)
      locale  == Slice(data, IF packed THEN 4 ELSE 8, 4)
      content == IF packed
                 THEN FlagBits(Slice(data, 8, 4)) \cup FlagBits(Slice(data, 12, 4))
                        \cup {b + 17 : b \in FlagBits(Slice(data, 16, 1))}
                 ELSE FlagBits(Slice(data, 4, 4))
      fdids   == Slice(data, hdrLen, 4 * n)
      at      == hdrLen + 4 * n
      hashed  == fmt # 1 /\ cflagNoNameHash \notin content
      CKeyAt(i) == Slice(data, IF fmt = 1 THEN at + i * (KeyLen + 8) ELSE at + i * KeyLen, KeyLen)
      HashAt(i) == IF fmt = 1 THEN Slice(data, at + i * (KeyLen + 8) + KeyLen, 8)
                   ELSE IF hashed THEN Slice(data, at + n * KeyLen + i * 8, 8) ELSE Nuls(8)
      end     == at + n * (KeyLen + (IF fmt = 1 \/ hashed THEN 8 ELSE 0))
  IN IF Len(data) < hdrLen THEN Error
     ELSE IF n = 0 THEN Ok([entries |-> <<>>, consumed |-> hdrLen])
     ELSE IF n > Len(data) \/ end > Len(data) THEN Error
     ELSE Ok([entries |-> GroupEntries(n, fdids, CKeyAt, HashAt, locale, content), consumed |-> end])

RECURSIVE Groups(_, _, _)
Groups(data, fmt, packed) ==
  LET group == parseGroup(data, fmt, packed)
      rest  == Groups(From(data, group.value.consumed), fmt, packed)
  IN IF data = <<>> THEN Ok(<<>>)
     ELSE IF group.status # "ok" THEN Error
     ELSE IF rest.status # "ok" THEN Error
     ELSE Ok(group.value.entries \o rest.value)

(* Version 3 is tried first, on the same bytes. *)
ParseWow(data) ==
  LET magic == Len(data) >= 4 /\ Slice(data, 0, 4) = wowMagic
      sizeOfHeader == GetLE(data, 4, 4)
      isV3 == /\ magic /\ Len(data) >= 20
              /\ sizeOfHeader >= 20 /\ sizeOfHeader <= 256
              /\ GetLE(data, 16, 4) <= GetLE(data, 12, 4)
  IN IF ~magic THEN Groups(data, 1, FALSE)
     ELSE IF isV3 THEN Groups(From(data, sizeOfHeader), 3, GetLE(data, 8, 4) = 2)
     ELSE IF Len(data) < 12 \/ GetLE(data, 8, 4) > GetLE(data, 4, 4) THEN Error
     ELSE Groups(From(data, 12), 2, FALSE)

------------------------------------------------------------------------------
(* Probe leaves what has no signature, version 1, to nobody.                 *)
ProbeWow(data) ==
  IF Len(data) >= 4 /\ Slice(data, 0, 4) = wowMagic THEN ParseWow(data) ELSE Error

(* h.byID and h.byHash: the last entry of an id, the last of a hash. *)
LastWith(entries, Is(_)) ==
  LET is == {i \in DOMAIN entries : Is(entries[i])}
  IN IF is = {} THEN {} ELSE {entries[Max(is)]}
LookupByFileDataID(entries, id) == LastWith(entries, LAMBDA e : e.fdid = id)
LookupWow(entries, name) ==
  LastWith(entries, LAMBDA e : e.hash # Nuls(8) /\ e.hash = Hash(name, 8))

WroteWow(entries, content, locale, hashed) ==
  [i \in DOMAIN entries |->
     [fdid |-> entries[i].fdid, ckey |-> Key(entries[i].ckey, KeyLen), locale |-> locale,
      content |-> content, hash |-> IF hashed THEN NameHash(entries[i].name) ELSE Nuls(8)]]
WroteGroups(groups, version) ==
  FlattenSeq([i \in DOMAIN groups |->
     WroteWow(groups[i].entries, groups[i].content, groups[i].locale,
              version = 1 \/ cflagNoNameHash \notin groups[i].content)])
==============================================================================
