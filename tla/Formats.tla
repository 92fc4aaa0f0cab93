------------------------------- MODULE Formats -------------------------------
(***************************************************************************)
(* A manifest is written, by this code or by the game client, may be cut   *)
(* short or damaged on its way, and is parsed.  Each format is a module of *)
(* its own; here is what must hold of all of them.                         *)
(***************************************************************************)
EXTENDS Blob, FiniteSets, FiniteSetsExt

CONSTANTS Docs,          \* the documents, records with a field format
          KeyLen, Kilo, EKeySize, FileOffsBits, PageSize, MinPaged,
          NameLen, Folded, Lower, Comments, Semicolons, KnownBuilds,
          ByteBits, MaxTrieSteps

ASSUME WidthsAssumption ==
  /\ KeyLen \in 1..16 /\ EKeySize \in 1..KeyLen /\ EKeySize % 4 # 3 /\ Kilo \in Nat \ {0}
  /\ ByteBits \in 1..8 /\ MaxTrieSteps \in Nat \ {0}
  /\ PageSize \in Nat \ {0} /\ MinPaged > 2 * PageSize /\ FileOffsBits \in 1..16

VARIABLES doc,           \* what was written, NoDoc before
          blob,          \* its bytes as they arrive
          fault,         \* what happened to them: "none", "cut", "damaged"
          parsed,        \* what the parser gave, NotYet before
          handler        \* which handler root.Detect chose, "not yet" before
vars == <<doc, blob, fault, parsed, handler>>

E  == INSTANCE EncodingManifest
I  == INSTANCE InstallManifest WITH HashSize <- KeyLen
D  == INSTANCE DownloadManifest WITH EKeyLength <- KeyLen
X  == INSTANCE IndexFile
A  == INSTANCE ArchiveIndex WITH HashLen <- KeyLen, PageKilo <- Kilo
W  == INSTANCE WowRoot
V  == INSTANCE TvfsRoot WITH EKeyLen <- EKeySize
D3 == INSTANCE Diablo3Root
C  == INSTANCE CmfFile WITH CKeyLen <- KeyLen, BlockSize <- KeyLen
L  == INSTANCE TextRoots
S  == INSTANCE SparseArray
MX == INSTANCE MndxRoot

NoDoc  == [format |-> "none"]
NotYet == [status |-> "not yet"]

Bytes(d) ==
  CASE d.format = "encoding"   -> E!EncodeEncoding(d)
    [] d.format = "install"    -> I!EncodeInstall(d)
    [] d.format = "download"   -> D!EncodeDownload(d)
    [] d.format = "idx1"       -> X!EncodeV1(d)
    [] d.format = "idx2block"  -> X!FileV2Block(d)
    [] d.format = "idx2pages"  -> X!FileV2Pages(d)
    [] d.format = "archive"    -> A!EncodeArchiveIndex(d)
    [] d.format = "wow1"       -> W!FileV1(d)
    [] d.format = "wow2"       -> W!EncodeWow(d)
    [] d.format = "wow3"       -> W!FileV3(d)
    [] d.format = "tvfs"       -> V!EncodeTvfs(d)
    [] d.format = "tvfstree"   -> V!FileTree(d)
    [] d.format = "diablo3"    -> D3!FileDirectory(d.dir)
    [] d.format = "cmf"        -> C!FileCMF(d)
    [] d.format = "apm"        -> C!FileAPM(d)
    [] d.format = "bits"       -> S!FileVector(d)
    [] d.format \in {"mndx", "mndxwide"} -> MX!FileMndx(d)
    [] OTHER                   -> d.lines

(* An index file is opened with its bucket, a manifest of Overwatch under    *)
(* its name, and a directory of Diablo III with the files it leads to.      *)
Parsed(d, data) ==
  CASE d.format = "encoding"   -> E!ParseEncoding(data)
    [] d.format = "install"    -> I!ParseInstall(data)
    [] d.format = "download"   -> D!ParseDownload(data)
    [] d.format \in {"idx1", "idx2block", "idx2pages"} -> X!ParseIndex(data, d.bucket)
    [] d.format = "archive"    -> A!ParseArchiveIndex(data)
    [] d.format \in {"wow1", "wow2", "wow3"} -> W!ParseWow(data)
    [] d.format \in {"tvfs", "tvfstree"} -> V!ParseTvfs(data)
    [] d.format = "diablo3"    ->
         LET root == D3!ParseDiablo3(data)
         IN IF root.status # "ok" THEN root
            ELSE Ok(root.value \o D3!LoadSubdirectories(data, D3!LoaderOf(d)))
    [] d.format = "cmf"        -> C!LoadCMF(data, d.plainName)
    [] d.format = "apm"        -> C!LoadAPM(data)
    [] d.format = "text"       -> L!ParseText(data)
    [] d.format = "overwatch"  -> L!ParseOverwatch(data)
    [] d.format = "bits"       -> S!ParseVector(data)
    [] d.format \in {"mndx", "mndxwide"} -> MX!ParseMndx(data)
    [] OTHER                   -> L!LoadList(data)

(* What a reader must find in a document. *)
Meant(d) ==
  CASE d.format = "encoding"   -> E!WroteEncoding(d)
    [] d.format = "install"    -> I!WroteInstall(d)
    [] d.format = "download"   -> D!WroteDownload(d)
    [] d.format \in {"idx1", "idx2block", "idx2pages"} -> X!WroteIndex(d)
    [] d.format = "archive"    -> A!WroteArchiveIndex(d)
    [] d.format = "wow2"       -> W!WroteWow(W!sorted(d), W!contentFlags(d), d.locale, W!hasHash(d.entries))
    [] d.format = "wow1"       -> W!WroteGroups(d.groups, 1)
    [] d.format = "wow3"       -> W!WroteGroups(d.groups, 3)
    [] d.format = "tvfs"       -> V!WroteTvfs(d.entries, FALSE, d.lowercase)
    [] d.format = "tvfstree"   -> V!WroteTvfs(V!treeOrder(d), TRUE, d.lowercase)
    [] d.format = "diablo3"    -> D3!WroteDiablo3(d)
    [] d.format = "cmf"        -> C!WroteCMF(d)
    [] d.format = "apm"        -> C!WroteAPM(d)
    [] d.format = "bits"       -> S!WroteVector(d)
    [] d.format \in {"mndx", "mndxwide"} -> MX!WroteMndx(d)
    [] OTHER                   -> d.rows

Read(d, value) ==
  CASE d.format \in {"idx1", "idx2block", "idx2pages"} -> ToSet(value)
    [] d.format \in {"mndx", "mndxwide"} -> MX!All(value)
    [] OTHER -> value
Lines  == {"text", "overwatch", "listfile"}
Whole  == Lines \cup {"bits", "mndxwide"}  \* not cut
Hashed == {"idx1", "idx2block", "idx2pages"}

(* Mutant: the probes are registered in another order.                      *)
ProbesByUse == <<"install", "text", "wow", "tvfs", "diablo3", "overwatch", "mndx">>

(* The handlers of roots in the order of their init functions, which is that *)
(* of the import paths.                                                     *)
Probes == <<"diablo3", "install", "mndx", "overwatch", "text", "tvfs", "wow">>
HandlerOf(d) ==
  CASE d.format \in {"wow1", "wow2", "wow3"} -> "wow"
    [] d.format = "tvfstree" -> "tvfs"
    [] d.format = "mndxwide" -> "mndx"
    [] OTHER -> d.format
Roots == ToSet(Probes)

(* A text is probed as text and has no signature; no byte string whose       *)
(* signature or counts hold a control character is a text.                  *)
Probe(name, data, isText) ==
  CASE name = "overwatch" /\ isText -> L!ProbeOverwatch(data)
    [] name = "text" /\ isText      -> L!ProbeText(data)
    [] name = "diablo3" /\ ~isText  -> D3!ParseDiablo3(data)
    [] name = "install" /\ ~isText  -> I!ParseInstall(data)
    [] name = "mndx" /\ ~isText     -> MX!ParseMndx(data)
    [] name = "tvfs" /\ ~isText     -> V!ParseTvfs(data)
    [] name = "wow" /\ ~isText      -> W!ProbeWow(data)
    [] OTHER                        -> Error

(* root.Detect: the first probe that accepts the root.                      *)
Detect(data, isText) ==
  Head(SelectSeq(Probes, LAMBDA name : Probe(name, data, isText).status = "ok") \o <<"none">>)

------------------------------------------------------------------------------
Init == /\ doc = NoDoc /\ blob = <<>> /\ fault = "none"
        /\ parsed = NotYet /\ handler = "not yet"

Write(d) ==
  /\ doc = NoDoc
  /\ doc' = d /\ blob' = Bytes(d)
  /\ UNCHANGED <<fault, parsed, handler>>

Untouched == parsed = NotYet /\ handler = "not yet"

(* Only the first n bytes arrive. *)
Cut(n) ==
  /\ doc # NoDoc /\ doc.format \notin Whole /\ fault = "none" /\ Untouched
  /\ n < Len(blob)
  /\ blob' = SubSeq(blob, 1, n) /\ fault' = "cut"
  /\ UNCHANGED <<doc, parsed, handler>>

(* A byte of a local index file, which hashes cover, is another one. *)
Other(b) == IF b[1] = "byte" THEN Byte((b[2] + 1) % 256) ELSE <<"other", b>>
Damage(i) ==
  /\ doc # NoDoc /\ doc.format \in Hashed /\ fault = "none" /\ Untouched
  /\ blob' = [blob EXCEPT ![i] = Other(@)] /\ fault' = "damaged"
  /\ UNCHANGED <<doc, parsed, handler>>

Parse ==
  /\ doc # NoDoc /\ Untouched
  /\ parsed' = Parsed(doc, blob)
  /\ UNCHANGED <<doc, blob, fault, handler>>

(* LoadRoot gives root.Detect a blob without saying what it is.             *)
DetectRoot ==
  /\ doc # NoDoc /\ Untouched /\ HandlerOf(doc) \in Roots
  /\ handler' = Detect(blob, doc.format \in Lines)
  /\ UNCHANGED <<doc, blob, fault, parsed>>

Next ==
  \/ \E d \in Docs : Write(d)
  \/ \E n \in 0..(Len(blob) - 1) : Cut(n)
  \/ \E i \in 1..Len(blob) : Damage(i)
  \/ Parse \/ DetectRoot
Spec == Init /\ [][Next]_vars

------------------------------------------------------------------------------
(* What was written is read again: every entry with its fields, in the       *)
(* order of the manifest, at the page and width boundaries of each format.  *)
(* A manifest of Overwatch whose build has no key provider is refused.      *)
Locked == doc.format = "cmf" /\ doc.encrypted /\ doc.build \notin KnownBuilds
ReadsBack ==
  parsed # NotYet /\ fault = "none" =>
    IF Locked THEN parsed = Error
    ELSE parsed.status = "ok" /\ Read(doc, parsed.value) = Meant(doc)

(* Of a manifest cut short or damaged a parser gives an error or a part of   *)
(* what was written, never an entry that nobody wrote; a tag's bitmap may    *)
(* end early, and an MNDX root without its names gives all entries a label. *)
PartOf(some, all) == IsPrefix(some, all)
TagsOf(some, all) ==
  /\ Len(some) <= Len(all)
  /\ \A i \in DOMAIN some : /\ some[i].name = all[i].name /\ some[i].type = all[i].type
                            /\ PartOf(some[i].bitmap, all[i].bitmap)
ReadsNothingNew ==
  parsed # NotYet /\ fault # "none" /\ parsed.status = "ok" =>
    LET value == Read(doc, parsed.value)
        meant == Meant(doc)
    IN CASE doc.format \in Hashed \cup {"encoding"} -> value \subseteq meant
         [] doc.format \in {"install", "download"} ->
              PartOf(value.entries, meant.entries) /\ TagsOf(value.tags, meant.tags)
         [] doc.format = "mndx" -> value \in {meant, MX!WroteLabels(doc)}
         [] OTHER -> PartOf(value, meant)

(* Any byte of a version 1 index changed, the file is refused: the hashes    *)
(* cover the header, the hash itself and both blocks.                       *)
DamageIsNoticed ==
  parsed # NotYet /\ fault = "damaged" /\ doc.format = "idx1" => parsed = Error

(* A root goes to the handler of its own format, whatever the others would   *)
(* make of it: a table of Overwatch is also a text with bars, and only the   *)
(* order of the import paths decides.  Cut short it goes to that handler or  *)
(* to none.  A version 1 root of WoW has no signature, and a table without   *)
(* an MD5 column is not known by its header.                                *)
Recognisable ==
  /\ doc.format # "wow1"
  /\ doc.format = "overwatch" => L!Text("MD5") \in ToSet(doc.lines[1])
DetectsOwn ==
  handler # "not yet" /\ Recognisable =>
    handler = HandlerOf(doc) \/ (fault = "cut" /\ handler = "none")

(* A parser ends with a value or an error on whatever was cut; the one       *)
(* exception is a DOWNLOAD manifest of 10 bytes.                            *)
PanicsOnTenBytes ==
  parsed.status = "panic" => doc.format = "download" /\ Len(blob) = 10

(* A name that is listed is found, and gives the last entry of that name; so *)
(* is, where names are compared by their hash, any other spelling of it.  An *)
(* MNDX entry is found by its number, and by its name if it has one.        *)
FindsName(d, value, i) ==
  LET e == value[i]
      LastOne(Is(_)) == value[Max({k \in DOMAIN value : Is(value[k])})]
  IN CASE d.format \in {"tvfs", "tvfstree"} ->
            V!LookupTvfs(value, e.name, d.lowercase) = {LastOne(LAMBDA x : x.name = e.name)}
       [] d.format \in {"wow1", "wow2", "wow3"} ->
            W!LookupByFileDataID(value, e.fdid) = {LastOne(LAMBDA x : x.fdid = e.fdid)}
       [] d.format \in Lines ->
            \A n \in {x.name : x \in ToSet(value)} :
              L!Same(n, e.name) => L!LookupText(value, n) = {LastOne(LAMBDA x : L!Same(x.name, e.name))}
FindsInstalled(entries, i) ==
  \A spelling \in DOMAIN Folded :
    Folded[spelling] = Folded[I!Spelled(entries[i].name)] =>
      I!LookupInstall(entries, spelling) # {}
FindsEntry(h, e) ==
  /\ MX!LookupByFileDataID(h, e.entry.fdid) = {e.entry}
  /\ h.names # {} => MX!LookupMndx(h, e.name) = {e.entry}
ListedIsFound ==
  parsed.status = "ok" =>
    /\ doc.format \in {"mndx", "mndxwide"} =>
         \A e \in MX!All(parsed.value) : FindsEntry(parsed.value, e)
    /\ doc.format = "install" =>
         \A i \in DOMAIN parsed.value.entries : FindsInstalled(parsed.value.entries, i)
    /\ doc.format \in {"tvfs", "tvfstree", "wow1", "wow2", "wow3"} \cup Lines =>
         \A i \in DOMAIN parsed.value : FindsName(doc, parsed.value, i)
==============================================================================
