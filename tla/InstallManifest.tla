--------------------------- MODULE InstallManifest ---------------------------
(***************************************************************************)
(* The INSTALL manifest (root/install/writer.go, root/install/install.go), *)
(* also the root handler of what Flush writes: names with their content    *)
(* key and size, and tags with one bit per entry.                          *)
(***************************************************************************)
EXTENDS Blob

CONSTANTS HashSize,      \* opts.HashSize, at most 16
          NameLen,       \* the length of a name: any function of names
          Folded         \* HashFileName: one value per class of spellings

(* A bitmap holds a bit per entry, in whole bytes. *)
BitmapLen(n) == (n + 7) \div 8
Bitmap(tag, n) == [k \in 1..BitmapLen(n) |-> <<"bits", tag.name, k>>]

TagBytes(t, n) == Name(t.name, NameLen[t.name]) \o <<Nul>> \o BE(t.type, 2) \o Bitmap(t, n)

(* A document: entries [name, ckey, size] in order, tags [name, type]. *)
EncodeInstall(doc) ==
  LET n == Len(doc.entries)
      EntryBytes(e) == Name(e.name, NameLen[e.name]) \o <<Nul>> \o Key(e.ckey, HashSize) \o BE(e.size, 4)
  IN Name("IN", 2) \o <<Byte(1), Byte(HashSize)>> \o BE(Len(doc.tags), 2) \o BE(n, 4)
       \o FlattenSeq([i \in DOMAIN doc.tags |-> TagBytes(doc.tags[i], n)])
       \o FlattenSeq([i \in 1..n |-> EntryBytes(doc.entries[i])])

------------------------------------------------------------------------------
(* A zero-terminated name and size bytes after it: where they begin, or      *)
(* FALSE when the data ends before.                                         *)
NameAt(data, off) == Slice(data, off, NulAt(data, off))
AfterName(data, off) == off + NulAt(data, off) + 1
HasName(data, off, size) ==
  NulAt(data, off) >= 0 /\ AfterName(data, off) + size <= Len(data)

RECURSIVE InstallTags(_, _, _, _)
InstallTags(data, off, left, bitmapLen) ==
  LET at == AfterName(data, off)
      rest == InstallTags(data, at + 2 + bitmapLen, left - 1, bitmapLen)
      tag == [name |-> NameAt(data, off), type |-> GetBE(data, at, 2),
              bitmap |-> Slice(data, at + 2, bitmapLen)]
  IN IF left = 0 THEN Ok([off |-> off, tags |-> <<>>])
     ELSE IF ~HasName(data, off, 2 + bitmapLen) THEN Error
     ELSE IF rest.status # "ok" THEN rest
     ELSE Ok([off |-> rest.value.off, tags |-> <<tag>> \o rest.value.tags])

(* Entries, as many as the header counts or the data holds. *)
RECURSIVE InstallEntries(_, _, _, _)
InstallEntries(data, off, left, hashSize) ==
  LET at == AfterName(data, off)
      rest == InstallEntries(data, at + hashSize + 4, left - 1, hashSize)
      entry == [name |-> NameAt(data, off), ckey |-> Slice(data, at, hashSize),
                size |-> GetBE(data, at + hashSize, 4)]
  IN IF left = 0 \/ off >= Len(data) THEN Ok(<<>>)
     ELSE IF ~HasName(data, off, hashSize + 4) THEN Error
     ELSE IF rest.status # "ok" THEN rest
     ELSE Ok(<<entry>> \o rest.value)

ParseInstall(data) ==
  LET hashSize == GetBE(data, 3, 1)
      entryCount == GetBE(data, 6, 4)
      tags == InstallTags(data, 10, GetBE(data, 4, 2), BitmapLen(entryCount))
      entries == InstallEntries(data, tags.value.off, entryCount, hashSize)
  IN IF Len(data) < 10 THEN Error
     ELSE IF Slice(data, 0, 2) # Name("IN", 2) \/ data[3] # Byte(1) \/ hashSize \notin 1..16 THEN Error
     ELSE IF tags.status # "ok" THEN Error
     ELSE IF entries.status # "ok" THEN Error
     ELSE Ok([entries |-> entries.value, tags |-> tags.value.tags])

(* h.files holds the last entry of a name, h.byHash the last of a class of   *)
(* spellings; LookupByName asks the first and then the second.              *)
LastOf(entries, Same(_)) ==
  LET is == {i \in DOMAIN entries : Same(entries[i].name)}
  IN IF is = {} THEN {} ELSE {entries[CHOOSE i \in is : \A j \in is : j <= i]}
Spelled(bytes) == IF bytes = <<>> THEN "" ELSE bytes[1][2]
LookupExact(entries, name) == LastOf(entries, LAMBDA n : Spelled(n) = name)
LookupInstall(entries, name) ==
  LET exact == LastOf(entries, LAMBDA n : Spelled(n) = name)
  IN IF exact # {} THEN exact
     ELSE LastOf(entries, LAMBDA n : Folded[Spelled(n)] = Folded[name])

WroteInstall(doc) ==
  [entries |-> [i \in DOMAIN doc.entries |->
     [name |-> Name(doc.entries[i].name, NameLen[doc.entries[i].name]),
      ckey |-> Key(doc.entries[i].ckey, HashSize), size |-> doc.entries[i].size]],
   tags |-> [i \in DOMAIN doc.tags |->
     [name |-> Name(doc.tags[i].name, NameLen[doc.tags[i].name]), type |-> doc.tags[i].type,
      bitmap |-> Bitmap(doc.tags[i], Len(doc.entries))]]]
==============================================================================
