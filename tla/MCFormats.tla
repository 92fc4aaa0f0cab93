------------------------------ MODULE MCFormats ------------------------------
(* Documents at the boundaries of each format, with keys of 5 bytes and      *)
(* pages that hold a few records.                                           *)
EXTENDS Formats

MCNameLen == [n \in {"a", "A", "b", "c", "dir", "tag", "espec"} |->
                CASE n = "dir" -> 3 [] n = "tag" -> 2 [] OTHER -> 1]
MCLower  == [n \in DOMAIN MCNameLen |-> IF n = "A" THEN "a" ELSE n]
MCFolded == MCLower

(* TextRoots!Text, WowRoot!NoName and TvfsRoot!NoFolder, spelled out: a      *)
(* constant is not given a value through an instance that takes it.         *)
N(s) == <<"text", s>>
NoName   == ""
NoFolder == ""
MCComments   == {N("#c")}
MCSemicolons == {N(";c")}

Entries(n, Of(_)) == [i \in 1..n |-> Of(i)]

(* Pages of 32 bytes hold two records of one key, of 16 bytes, one of two to *)
(* four, and no record of five keys.                                        *)
EncodingEntry(i, keys) ==
  [ckey |-> 10 - i, size |-> 300 * i, ekeys |-> [k \in 1..keys |-> 20 + 10 * i + k]]
EncodingDocs ==
  {[format |-> "encoding", entries |-> Entries(n, LAMBDA i : EncodingEntry(i, IF i = 2 THEN keys ELSE 1)),
    cKB |-> 1, eKB |-> 1, eKeyPages |-> withEKeys, espec |-> 2]
     : n \in 0..5, keys \in {1, 2, 4, 5}, withEKeys \in BOOLEAN}

InstallNames == {<<>>, <<"a">>, <<"a", "A", "b">>, <<"A", "a", "A">>, [i \in 1..9 |-> "c"]}
InstallDocs ==
  {[format |-> "install",
    entries |-> [i \in DOMAIN names |-> [name |-> names[i], ckey |-> i, size |-> 255 + i]],
    tags |-> [k \in 1..t |-> [name |-> "tag", type |-> k]]] : names \in InstallNames, t \in 0..2}

DownloadDocs ==
  {[format |-> "download", version |-> v, checksum |-> c, flagSize |-> f, basePriority |-> 7,
    entries |-> Entries(n, LAMBDA i : [ekey |-> i, size |-> 255 + i, priority |-> i,
                                       checksum |-> 9, flags |-> IF f = 0 THEN 0 ELSE i]),
    tags |-> [k \in 1..t |-> [name |-> "tag", type |-> k]]]
     : v \in 1..3, c \in BOOLEAN, f \in 0..1, n \in {0, 1, 9}, t \in 0..2}

IndexEntry(i) == [ekey |-> 20 - i, archive |-> i % 3, offs |-> 7 - (i % 8), size |-> 300 + i]
IndexDocs ==
  {[format |-> "idx1", entries |-> Entries(n, IndexEntry), block1 |-> b, bucket |-> 3]
     : n \in 0..3, b \in 0..3}
  \cup {[format |-> f, entries |-> Entries(n, IndexEntry), tail |-> tail, bucket |-> 3]
     : f \in {"idx2block", "idx2pages"}, n \in {1, 2, 5, 6, 9}, tail \in {0, 150}}

ArchiveDocs ==
  {[format |-> "archive", entries |-> Entries(n, LAMBDA i : [ekey |-> i, size |-> 250 + i, offs |-> 3 * i]),
    pageKB |-> 1, ekeyLen |-> 3, offsBytes |-> o, sizeBytes |-> 4]
     : n \in {0, 1, 2, 3, 5}, o \in {4, 6}}

WowEntry(i, named) == [fdid |-> 500 - 7 * i - (i % 2), ckey |-> i, name |-> IF i % named = 1 THEN "a" ELSE NoName]
WowLocale == <<Byte(255), Byte(255), Byte(255), Byte(255)>>
WowDocs ==
  {[format |-> "wow2", entries |-> Entries(n, LAMBDA i : WowEntry(i, named)), content |-> c,
    locale |-> WowLocale] : n \in {1, 3, 19}, named \in {2, 4}, c \in {{}, {7, 28}}}
  \cup {[format |-> "wow2", entries |-> Entries(n, LAMBDA i : [WowEntry(i, 2) EXCEPT !.name = NoName]),
    content |-> {7}, locale |-> WowLocale] : n \in {1, 20, 21}}
WowGroup(n, c) ==
  [entries |-> [i \in 1..n |-> [fdid |-> 5 * i, ckey |-> n + i, name |-> IF i = 1 THEN "b" ELSE NoName]],
   content |-> c, locale |-> LE(2, 4)]
WowClientDocs ==
  {[format |-> "wow1", groups |-> <<WowGroup(n, c), WowGroup(2, {7})>>] : n \in 0..2, c \in {{}, {7, 28}}}
  \cup {[format |-> "wow3", packed |-> p, groups |-> <<WowGroup(n, c), WowGroup(2, {8, 17, 24})>>]
          : p \in BOOLEAN, n \in 0..2, c \in {{}, {7, 28}}}

(* 51 keys of 5 bytes take 255 bytes, the last table with short offsets. *)
TvfsEntry(i) == [name |-> <<"a", "A", "b", "c">>[(i % 4) + 1], ekey |-> i, size |-> 70000 + i,
                 folder |-> IF i % 3 = 0 THEN "dir" ELSE IF i % 3 = 1 THEN NoFolder ELSE "tag"]
TvfsDocs ==
  {[format |-> "tvfs", entries |-> Entries(n, TvfsEntry), lowercase |-> l] : n \in {0, 1, 5, 51, 52}, l \in BOOLEAN}
  \cup {[format |-> "tvfstree", entries |-> Entries(n, TvfsEntry), folders |-> <<"dir", "tag">>, lowercase |-> l]
     : n \in {0, 1, 7}, l \in BOOLEAN}

Dir(isSub, named, assets) ==
  [isSub |-> isSub, named |-> [i \in DOMAIN named |-> [ckey |-> i, name |-> named[i]]],
   assets |-> [i \in 1..assets |-> [ckey |-> 30 + i, index |-> i]],
   assetIdx |-> [i \in 1..assets |-> [ckey |-> 40 + i, index |-> i, sub |-> 2]]]
Diablo3Docs ==
  {[format |-> "diablo3", dir |-> Dir(FALSE, <<"a", "b">>, 0),
    subs |-> [i \in 1..s |-> [ckey |-> i, dir |-> Dir(i = 1, <<"c", "A">>, IF i = 1 THEN 2 ELSE 0)]]] : s \in 0..2}

CmfDocs ==
  {[format |-> "cmf", build |-> b, encrypted |-> e, apm |-> n - 1, plainName |-> "a",
    assets |-> Entries(n, LAMBDA i : [guid |-> i, size |-> 400 + i, ckey |-> i])]
     : b \in {47161, 47162, 57229, 57230, 68309, 68310}, e \in BOOLEAN, n \in 1..3}
  \cup {[format |-> "apm", build |-> 60000, packages |-> 3,
         packed |-> Entries(n, LAMBDA i : [index |-> i, hashA |-> i, hashB |-> 50 + i])] : n \in 0..2}

M(k) == <<"md5", k>>
LineDocs ==
  {[format |-> "text",
    lines |-> <<<<N("#c"), M(1)>>, <<N("a"), M(2)>>, <<N("b")>>, <<N("A"), M(3)>>, <<N("c"), N("x")>>,
                <<N("b"), M(4), M(5)>>>>,
    rows |-> <<[name |-> N("a"), ckey |-> M(2)], [name |-> N("A"), ckey |-> M(3)]>>],
   [format |-> "overwatch",
    lines |-> <<<<N("MD5"), N("x"), N("FILENAME"), N("CKEY")>>, <<M(1), N("x"), N("a"), M(9)>>,
                <<M(2), N("x"), N("")>>, <<M(3), N("x"), N("A")>>, <<M(4), N("x")>>>>,
    rows |-> <<[name |-> N("a"), ckey |-> M(1)], [name |-> N("A"), ckey |-> M(3)]>>],
   [format |-> "overwatch",
    lines |-> <<<<N("CKEY"), N("x"), N("FILENAME")>>, <<M(1), N("x"), N("a")>>>>,
    rows |-> <<[name |-> N("a"), ckey |-> M(1)]>>],
   [format |-> "listfile",
    lines |-> <<<<N(";c")>>, <<N("a")>>, <<N("")>>, <<N("A")>>, <<N("b")>>, <<N("#c")>>>>,
    rows |-> <<[name |-> N("a"), ckey |-> N("a")], [name |-> N("A"), ckey |-> N("A")],
               [name |-> N("b"), ckey |-> N("b")]>>]}

(* 32 bits a word, 64 a count, 512 a group and a select point.              *)
VectorDocs ==
  {[format |-> "bits", n |-> n, ones |-> {i \in 0..(n - 1) : i % k = 0}]
     : n \in {1, 64, 512, 513, 1100}, k \in {1, 2, 5}}
  \cup {[format |-> "bits", n |-> 1700, ones |-> {i \in 0..1699 : i % 3 = 0}]}

Chars(text) == [i \in DOMAIN text |-> Name(text[i], 1)[1]]
Node(up, text, file) == [up |-> up, label |-> Chars(text), link |-> 0, file |-> file]
Link(up, to, file) == [up |-> up, label |-> <<>>, link |-> to, file |-> file]
Top(file) == Node(0, <<>>, file)
Trie(nodes, marked, highBits) ==
  [nodes |-> nodes, marked |-> marked, highBits |-> highBits, child |-> <<>>, cached |-> {}]
PackageTrie == Trie(<<Top(FALSE), Node(0, <<"p">>, TRUE), Node(0, <<"q", "r">>, TRUE)>>, FALSE, 0)
FileTrie(rootIsFile, marked) ==
  Trie(<<Top(rootIsFile), Node(0, <<"a">>, TRUE), Node(0, <<"b", "c">>, FALSE), Node(1, <<"d">>, TRUE),
         Node(1, <<"e", "f", "g">>, TRUE), Node(2, <<"h">>, TRUE), Node(2, <<"i", "j">>, FALSE),
         Node(6, <<"k">>, TRUE)>>, marked, 1)
(* Fragments in a child trie: "bc", "zefg", "xyc" and "fg".                  *)
LinkedTrie(cached) ==
  [Trie(<<Top(FALSE), Node(0, <<"a">>, TRUE), Link(0, 3, FALSE), Node(1, <<"d">>, TRUE),
          Link(1, 6, TRUE), Link(2, 4, TRUE), Link(2, 2, TRUE)>>, FALSE, 0)
     EXCEPT !.child = [Trie(<<Top(FALSE), Node(0, <<"c">>, FALSE), Node(0, <<"f", "g">>, FALSE),
                              Node(1, <<"b">>, FALSE), Node(1, <<"x", "y">>, FALSE),
                              Node(2, <<"e">>, FALSE), Node(5, <<"z">>, FALSE)>>, TRUE, 0)
                         EXCEPT !.cached = cached]]
(* 321 nodes: more than 512 bits in the collision table, fragments past 256. *)
WideTrie ==
  Trie([k \in 1..321 |->
          LET label == IF k % 3 = 0 THEN <<k, k>> ELSE <<k>>
          IN IF k = 1 THEN Top(FALSE) ELSE IF k <= 21 THEN Node(0, label, k % 2 = 0)
             ELSE Node(1 + ((k - 22) \div 15), label, TRUE)], FALSE, 5)
MndxDoc(format, version, tablesFirst, files) ==
  [format |-> format, version |-> version, tablesFirst |-> tablesFirst, packages |-> PackageTrie,
   files |-> files,
   groups |-> [i \in 1..Cardinality({k \in DOMAIN files.nodes : files.nodes[k].file}) |->
     IF i = 2 THEN <<[pkg |-> 1, ckey |-> 90, size |-> 5], [pkg |-> 0, ckey |-> 91, size |-> 6]>>
     ELSE <<[pkg |-> i % 2, ckey |-> i, size |-> 300 + i]>>]]
MndxDocs ==
  {MndxDoc("mndx", 1, TRUE, FileTrie(FALSE, FALSE)), MndxDoc("mndx", 2, FALSE, FileTrie(TRUE, TRUE)),
   MndxDoc("mndx", 1, TRUE, LinkedTrie({})), MndxDoc("mndx", 1, TRUE, LinkedTrie({2, 3, 6})),
   MndxDoc("mndxwide", 1, TRUE, WideTrie)}

MCDocs == EncodingDocs \cup InstallDocs
  \cup {d \in DownloadDocs : d.version = 1 => d.flagSize = 0}
  \cup IndexDocs \cup ArchiveDocs \cup WowDocs \cup WowClientDocs \cup TvfsDocs \cup Diablo3Docs
  \cup CmfDocs \cup LineDocs \cup VectorDocs \cup MndxDocs

(* Roots the writer makes of files that all have names. *)
MCWowDocs ==
  {[format |-> "wow2", entries |-> Entries(n, LAMBDA i : WowEntry(i, 2)), content |-> {},
    locale |-> WowLocale] : n \in 1..25}
==============================================================================
