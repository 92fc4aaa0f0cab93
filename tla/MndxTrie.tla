------------------------------ MODULE MndxTrie ------------------------------
(***************************************************************************)
(* The trie of file names in a MAR file (root/mndx/trie.go): loading it    *)
(* and walking through all its names.  The nodes are numbered breadth      *)
(* first.  A node holds one character of its name, or a fragment that lies  *)
(* in a table of fragments or, read upwards, in a child trie.              *)
(* mask-based search (findFileInDatabase) is not reachable in the code.    *)
(***************************************************************************)
EXTENDS SparseArray

CONSTANT MaxTrieSteps    \* 2^16

(* A document: nodes [up, label, link, file] from the root, node 0; label is *)
(* a sequence of characters, or link a node of the child trie; whether the  *)
(* ends of fragments are marked in a bit array or by zeros; bits of a high  *)
(* part; the child; the nodes that are cached in the hash table.            *)
NoTrie == <<>>
NodeOf(t, k) == t.nodes[k + 1]
Nodes(t) == 0..(Len(t.nodes) - 1)
HasLink(t, k) == k # 0 /\ (NodeOf(t, k).link # 0 \/ Len(NodeOf(t, k).label) > 1)
HashSlots == 8

Fragment(t, k) == NodeOf(t, k).label \o IF t.marked THEN <<>> ELSE <<Nul>>
FragmentsTo(t, n) == Joined([k \in 1..n |-> IF HasLink(t, k - 1) /\ t.child = NoTrie
                                         THEN Fragment(t, k - 1) ELSE <<>>])
LinkOf(t, k) == IF t.child = NoTrie THEN Len(FragmentsTo(t, k)) ELSE NodeOf(t, k).link

RECURSIVE FileDB(_)
FileDB(t) ==
  LET n == Len(t.nodes)
      louds == {0} \cup {k + NodeOf(t, k).up + 1 : k \in Nodes(t) \ {0}}
      links == {k \in Nodes(t) : HasLink(t, k)}
      tail  == FragmentsTo(t, n)
      ends  == {Len(FragmentsTo(t, k + 1)) - 1 : k \in links}
      high  == SelectSeq([k \in 1..n |-> IF HasLink(t, k - 1) THEN LinkOf(t, k - 1) \div 256 ELSE -1],
                         LAMBDA h : h # -1)
      Low(k) == IF HasLink(t, k) THEN Byte(LinkOf(t, k) % 256)
                ELSE IF k = 0 THEN Nul ELSE NodeOf(t, k).label[1]
      Entry(k) == LE(NodeOf(t, k).up, 4) \o LE(k, 4)
                    \o IF HasLink(t, k) THEN LE(LinkOf(t, k), 4)
                       ELSE NodeOf(t, k).label \o <<Byte(255), Byte(255), Byte(255)>>
      Slot(i) == LET in == {k \in t.cached : k % HashSlots = i}
                 IN IF in = {} THEN Nuls(12) ELSE Entry(CHOOSE k \in in : TRUE)
  IN FileSparse(2 * n + 1, louds, TRUE, TRUE)
     \o FileSparse(n, {k \in Nodes(t) : NodeOf(t, k).file}, FALSE, TRUE)
     \o FileSparse(n, links, FALSE, FALSE)
     \o FileArray([k \in 1..n |-> Low(k - 1)])
     \o FileBitEntries(high, t.highBits)
     \o FileArray(tail)
     \o (IF t.marked /\ t.child = NoTrie THEN FileSparse(Len(tail), ends, FALSE, FALSE)
                                         ELSE FileSparse(0, {}, FALSE, FALSE))
     \o (IF t.child = NoTrie THEN <<>> ELSE FileDB(t.child))
     \o FileArray(Joined([i \in 1..HashSlots |-> Slot(i - 1)]))
     \o LE(Cardinality({k \in Nodes(t) \ {0} : NodeOf(t, k).up = 0}), 4) \o LE(0, 4)

marMagic == Name("MAR", 4)
FileMAR(t) == marMagic \o FileDB(t)

------------------------------------------------------------------------------
hashEntry(r) == [NodeIndex |-> GetLE(r, 0, 4), NextIndex |-> GetLE(r, 4, 4),
                 FragmentOffset |-> GetLE(r, 8, 4), char |-> r[9],
                 IsSingleChar |-> \A i \in 10..12 : r[i] = Byte(255)]

(* loadFromStream: what was loaded, and the stream after it.  The arrays     *)
(* begin with the first, 7th, 13th and 25th item.                           *)
DBItems == SparseItems \o SparseItems \o SparseItems \o <<Array(1)>> \o BitItems
             \o <<Array(1)>> \o SparseItems
NotLoaded == [ok |-> FALSE, rest |-> <<>>, db |-> NoTrie]
fileNameDB(got, sparse, child, hashes, field214) ==
  [CollisionTable |-> sparse[1], FileNameIndexes |-> sparse[7],
   CollisionHiBitsIndexes |-> sparse[13], LoBitsTable |-> got[19],
   HiBitsTable |-> bitEntryArray(SubSeq(got, 20, 23)),
   PathFragments |-> got[24], PathMarks |-> sparse[25], ChildDB |-> child,
   HashTable |-> [i \in DOMAIN hashes |-> hashEntry(hashes[i])], Field214 |-> field214]
LoadLast(got, sparse, child, last) ==
  IF ~child.ok \/ ~last.ok THEN NotLoaded
  ELSE [ok |-> TRUE, rest |-> last.rest,
        db |-> fileNameDB(got, sparse, child.db, Records(last.got[1], 12), NumLE(last.got[2]))]

RECURSIVE LoadDB(_)
LoadChild(s, sparse) ==
  IF sparse[13].ValidItemCount # 0 /\ s.got[24] = <<>> THEN LoadDB(s.rest)
  ELSE [ok |-> TRUE, rest |-> s.rest, db |-> NoTrie]
LoadFrom(s, sparse) ==
  LET child == LoadChild(s, sparse)
  IN IF (\E i \in DOMAIN sparse : ~Sane(sparse[i])) \/ NumLE(s.got[21]) > 32 THEN NotLoaded
     ELSE LoadLast(s.got, sparse, child, Load(child.rest, <<Array(12), U32, U32>>))
LoadItems(s) ==
  IF ~s.ok THEN NotLoaded
  ELSE LoadFrom(s, [i \in {1, 7, 13, 25} |-> sparseArray(SubSeq(s.got, i, i + 5))])
LoadDB(data) == LoadItems(Load(data, DBItems))

LoadMAR(data) ==
  IF Slice(data, 0, 4) # marMagic THEN [ok |-> FALSE, rest |-> <<>>, db |-> NoTrie]
  ELSE LoadDB(From(data, 4))

------------------------------------------------------------------------------
isPathFragmentString(d, k) == IsItemPresent(d.CollisionHiBitsIndexes, k)
LowOf(d, k) == IF k < Len(d.LoBitsTable) THEN <<d.LoBitsTable[k + 1]>> ELSE <<>>

(* The high part is counted on from the last one where there is one.        *)
Unknown == -1            \* invalidIndex
FragmentOffset(d, hi, k) == 256 * GetEntry(d.HiBitsTable, hi) + NumBE(LowOf(d, k))

copyPathFragment(d, off) ==
  LET Ends(i) == IF d.PathMarks.TotalItemCount = 0 THEN d.PathFragments[i + 1] = Nul
                 ELSE IsItemPresent(d.PathMarks, i)
      size == Len(d.PathFragments)
      ends == {i \in off..(size - 1) : Ends(i)}
      stop == IF ends = {} THEN size ELSE Min(ends)
  IN IF d.PathMarks.TotalItemCount = 0 THEN SubSeq(d.PathFragments, off + 1, stop)
                                       ELSE SubSeq(d.PathFragments, off + 1, stop + 1)

(* copyPathFragmentByIndex: c is the text so far and the steps so far; a     *)
(* node that is in the hash table leads to its parent in one step.          *)
RECURSIVE CopyByIndex(_, _, _)
CopyFragment(d, c, off) ==
  IF d.ChildDB # NoTrie THEN CopyByIndex(d.ChildDB, c, off)
  ELSE [c EXCEPT !.text = @ \o copyPathFragment(d, off)]
CopyHashed(d, c, entry) ==
  IF entry.IsSingleChar THEN [c EXCEPT !.text = Append(@, entry.char)]
  ELSE CopyFragment(d, c, entry.FragmentOffset)
CopyNode(d, c, k) ==
  IF ~isPathFragmentString(d, k) THEN [c EXCEPT !.text = @ \o LowOf(d, k)]
  ELSE CopyFragment(d, c, FragmentOffset(d, GetItemValueAt(d.CollisionHiBitsIndexes, k), k))
CopyParent(d, c, parent) ==
  CopyByIndex(d, [c EXCEPT !.steps = @ + 1, !.panic = @ \/ parent = OutOfTable], parent)
CopyByIndex(d, c, k) ==
  LET entry == d.HashTable[(k % Len(d.HashTable)) + 1]
      Parent(up) == IF up = OutOfTable THEN up ELSE up - k - 1
  IN IF c.panic \/ c.steps >= MaxTrieSteps THEN c
     ELSE IF d.HashTable = <<>> THEN [c EXCEPT !.panic = TRUE]
     ELSE IF entry.NextIndex = k /\ entry.NodeIndex = 0 THEN CopyHashed(d, c, entry)
     ELSE IF entry.NextIndex = k THEN CopyParent(d, CopyHashed(d, c, entry), entry.NodeIndex)
     ELSE IF k <= d.Field214 THEN CopyNode(d, c, k)
     ELSE CopyParent(d, CopyNode(d, c, k), Parent(GetItem1(d.CollisionTable, k)))

------------------------------------------------------------------------------
(* doSearch: the way down to a node.  Each stop is a level: the next node of *)
(* it, the next bit of the collision table, the length of the text with it, *)
(* the last high part and the last file index used on it.  Stops below are  *)
(* kept when the search goes up: the nodes of a level follow each other.    *)
newPathStop(k, bit, count) ==
  [LoBitsIndex |-> k, Field4 |-> bit, Count |-> count, HiBits |-> Unknown, Field10 |-> Unknown]

BeginSearch(d) ==
  [stops |-> <<newPathStop(0, 0, 0)>>, depth |-> 1, text |-> <<>>, steps |-> 0,
   finished |-> FALSE, panic |-> FALSE,
   found |-> IF IsItemPresent(d.FileNameIndexes, 0)
             THEN <<[name |-> <<>>, index |-> GetItemValueAt(d.FileNameIndexes, 0)]>> ELSE <<>>]

Push(st, last, zero) ==
  IF zero = OutOfTable THEN [st EXCEPT !.panic = TRUE]
  ELSE [st EXCEPT !.stops = Append(@, newPathStop(zero - last, zero + 1, 0))]
Pushed(d, st) ==
  LET last == st.stops[Len(st.stops)].LoBitsIndex
  IN IF st.depth < Len(st.stops) THEN st ELSE Push(st, last, GetItem0(d.CollisionTable, last))

(* Another node on this level: its fragment, and its name if it is a file's. *)
Stopped(st, ps, copy, hi, index, link, file) ==
  [st EXCEPT !.depth = @ + 1, !.text = copy.text, !.panic = copy.panic,
     !.steps = copy.steps + (IF file THEN 0 ELSE 1),
     !.stops[st.depth + 1] = [ps EXCEPT !.Field4 = @ + 1, !.Count = Len(copy.text),
                                        !.HiBits = IF link THEN hi ELSE @,
                                        !.Field10 = IF file THEN index ELSE @],
     !.found = IF file THEN Append(@, [name |-> copy.text, index |-> index]) ELSE @]
NextOr(last, first) == IF last = Unknown THEN first ELSE last + 1
CopyHere(d, c, k, hi) ==
  IF isPathFragmentString(d, k) THEN CopyFragment(d, c, FragmentOffset(d, hi, k))
  ELSE [c EXCEPT !.text = @ \o LowOf(d, k)]
DownTo(d, st, ps, k, hi) ==
  Stopped(st, ps, CopyHere(d, [text |-> st.text, steps |-> st.steps, panic |-> FALSE], k, hi), hi,
          NextOr(ps.Field10, GetItemValueAt(d.FileNameIndexes, k)),
          isPathFragmentString(d, k), IsItemPresent(d.FileNameIndexes, k))
Down(d, st) ==
  LET ps == st.stops[st.depth + 1]
  IN DownTo(d, st, ps, ps.LoBitsIndex,
            NextOr(ps.HiBits, GetItemValueAt(d.CollisionHiBitsIndexes, ps.LoBitsIndex)))

(* The last node on this level was the last child of its parent.            *)
Up(st) ==
  IF st.depth = 1 THEN [st EXCEPT !.finished = TRUE]
  ELSE [st EXCEPT !.depth = @ - 1, !.steps = @ + 1,
          !.stops[st.depth + 1].Field4 = @ + 1,
          !.stops[st.depth].LoBitsIndex = @ + 1,
          !.text = SubSeq(@, 1, st.stops[st.depth - 1].Count)]

Stepped(d, st) ==
  IF st.panic THEN st
  ELSE IF IsItemPresent(d.CollisionTable, st.stops[st.depth + 1].Field4) THEN Down(d, st) ELSE Up(st)
SearchStep(d, st) == Stepped(d, Pushed(d, st))

(* At most 2^n steps.                                                       *)
RECURSIVE Search(_, _, _)
Search(d, st, n) ==
  IF st.finished \/ st.panic \/ st.steps >= MaxTrieSteps THEN st
  ELSE IF n = 0 THEN SearchStep(d, st)
  ELSE Search(d, Search(d, st, n - 1), n - 1)

(* enumerate: the names with their indexes, or a panic.  A step finds a name *)
(* or is counted, so that MaxTrieSteps end it.                              *)
SearchDepth == 17
FoundBy(st) == IF st.panic THEN Panic ELSE Ok(st.found)
enumerate(d) == FoundBy(Search(d, BeginSearch(d), SearchDepth))

------------------------------------------------------------------------------
(* The names of a document, each with its place among them.                 *)
RECURSIVE PathTo(_, _), Upwards(_, _)
LabelOf(t, k) == IF NodeOf(t, k).link = 0 THEN NodeOf(t, k).label
                 ELSE Upwards(t.child, NodeOf(t, k).link)
PathTo(t, k)  == IF k = 0 THEN <<>> ELSE PathTo(t, NodeOf(t, k).up) \o LabelOf(t, k)
Upwards(t, k) == IF k = 0 THEN <<>> ELSE LabelOf(t, k) \o Upwards(t, NodeOf(t, k).up)
FileNodes(t)  == {k \in Nodes(t) : NodeOf(t, k).file}
FileNames(t)  ==
  {[name |-> PathTo(t, k), index |-> Cardinality({j \in FileNodes(t) : j < k})] : k \in FileNodes(t)}
==============================================================================
