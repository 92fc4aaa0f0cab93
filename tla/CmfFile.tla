------------------------------- MODULE CmfFile -------------------------------
(***************************************************************************)
(* The content manifests of Overwatch (root/overwatch/cmf.go): a header in *)
(* one of three layouts that the build number chooses, package entries     *)
(* that are skipped, and assets in one of two layouts; and the package     *)
(* manifest.  A cipher here keeps what was enciphered with which key.      *)
(***************************************************************************)
EXTENDS Blob

CONSTANTS CKeyLen,       \* 16
          BlockSize,     \* aes.BlockSize
          KnownBuilds    \* the builds of the registered key providers

v122PTR == 47161
v148PTR == 68309
v135    == 57230
apmEntryV2Size == 24
v2HeaderSize   == 36
encryptedMagic == <<Byte(102), Byte(109), Byte(99)>>    \* 'fmc', after the version

(* Where the counts and the magic are in the header of a build. *)
HeaderOf(build) ==
  IF build > v148PTR THEN [size |-> 48, data |-> 32, entries |-> 40, magic |-> 44]
  ELSE IF build > v122PTR THEN [size |-> 40, data |-> 24, entries |-> 32, magic |-> 36]
  ELSE [size |-> 36, data |-> 20, entries |-> 28, magic |-> 32]

AssetGap(build) == IF build >= v135 THEN 1 ELSE 0
AssetSize(build) == 12 + AssetGap(build) + CKeyLen

(* The key and the initial vector, of a build, the header and the name: what *)
(* CmfKeys derives.                                                         *)
KeyOf(build, name) == <<build, name>>
Encipher(bytes, key) == [k \in DOMAIN bytes |-> <<"aes", key, bytes[k]>>]
Decipher(bytes, key) ==
  [k \in DOMAIN bytes |-> IF bytes[k][1] = "aes" /\ bytes[k][2] = key THEN bytes[k][3]
                          ELSE <<"plain", key, bytes[k]>>]

(* A document of the client: build, encrypted, apm (how many entries),       *)
(* assets [guid, size, ckey], plainName.                                    *)
FileCMF(doc) ==
  LET hdr == HeaderOf(doc.build)
      Asset(a) == Key(a.guid, 8) \o LE(a.size, 4) \o Nuls(AssetGap(doc.build)) \o Key(a.ckey, CKeyLen)
      plain == Nuls(doc.apm * apmEntryV2Size)
                 \o FlattenSeq([i \in DOMAIN doc.assets |-> Asset(doc.assets[i])])
      whole == Pad(plain, ((Len(plain) + BlockSize - 1) \div BlockSize) * BlockSize)
      Dword(at) == CASE at = 0 -> LE(doc.build, 4)
                     [] at = hdr.data -> LE(Len(doc.assets), 4)
                     [] at = hdr.entries -> LE(doc.apm, 4)
                     [] at = hdr.magic -> IF doc.encrypted THEN <<Byte(22)>> \o encryptedMagic
                                          ELSE Nuls(3) \o <<Byte(22)>>
                     [] OTHER -> Nuls(4)
  IN FlattenSeq([d \in 1..(hdr.size \div 4) |-> Dword((d - 1) * 4)])
       \o (IF doc.encrypted THEN Encipher(whole, KeyOf(doc.build, doc.plainName)) ELSE plain)

------------------------------------------------------------------------------
(* int32 of four bytes: negative when the top bit is set. *)
Negative(data, off) == data[off + 4][1] = "byte" /\ data[off + 4][2] >= 128

LoadCMF(data, plainName) ==
  LET build == GetLE(data, 0, 4)
      hdr   == HeaderOf(build)
      isEncrypted == Slice(data, hdr.magic + 1, 3) = encryptedMagic
      read  == From(data, hdr.size)
      body  == IF isEncrypted THEN Decipher(read, KeyOf(build, plainName)) ELSE read
      skip  == GetLE(data, hdr.entries, 4) * apmEntryV2Size
      count == GetLE(data, hdr.data, 4)
      Asset(i) == Slice(body, skip + (i - 1) * AssetSize(build), AssetSize(build))
  IN IF Len(data) < 4 \/ Len(data) < hdr.size THEN Error
     ELSE IF isEncrypted /\ (build \notin KnownBuilds \/ Len(read) % BlockSize # 0) THEN Error
     ELSE IF Negative(data, hdr.entries) \/ skip > Len(body) THEN Error
     ELSE IF Negative(data, hdr.data) \/ skip + count * AssetSize(build) > Len(body) THEN Error
     ELSE Ok([i \in 1..count |-> [guid |-> Slice(Asset(i), 0, 8), size |-> GetLE(Asset(i), 8, 4),
                                  ckey |-> Slice(Asset(i), 12 + AssetGap(build), CKeyLen)]])

WroteCMF(doc) ==
  [i \in DOMAIN doc.assets |-> [guid |-> Key(doc.assets[i].guid, 8), size |-> doc.assets[i].size,
                                ckey |-> Key(doc.assets[i].ckey, CKeyLen)]]

(* The package manifest: entries [index, hashA, hashB] after the header.     *)
FileAPM(doc) ==
  LE(doc.build, 8) \o Nuls(12) \o LE(doc.packages, 4) \o Nuls(4) \o LE(Len(doc.packed), 4) \o Nuls(4)
    \o FlattenSeq([i \in DOMAIN doc.packed |->
         LE(doc.packed[i].index, 4) \o Key(doc.packed[i].hashA, 8) \o Key(doc.packed[i].hashB, 8) \o Nuls(4)])

LoadAPM(data) ==
  LET count == GetLE(data, 28, 4)
      Row(i) == v2HeaderSize + (i - 1) * apmEntryV2Size
  IN IF Len(data) < v2HeaderSize \/ v2HeaderSize + count * apmEntryV2Size > Len(data) THEN Error
     ELSE Ok([i \in 1..count |-> [index |-> GetLE(data, Row(i), 4), hashA |-> Slice(data, Row(i) + 4, 8),
                                  hashB |-> Slice(data, Row(i) + 12, 8)]])

WroteAPM(doc) ==
  [i \in DOMAIN doc.packed |-> [index |-> doc.packed[i].index, hashA |-> Key(doc.packed[i].hashA, 8),
                                hashB |-> Key(doc.packed[i].hashB, 8)]]
==============================================================================
