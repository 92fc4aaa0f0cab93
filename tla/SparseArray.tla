----------------------------- MODULE SparseArray -----------------------------
(***************************************************************************)
(* The parts of an MNDX trie (root/mndx/trie.go): a stream of arrays and   *)
(* numbers; bit arrays with the counts and positions that make rank and    *)
(* select fast; numbers packed in bits.  The client writes them.           *)
(***************************************************************************)
EXTENDS Blob, FiniteSets, FiniteSetsExt

CONSTANT ByteBits        \* 8: the bits of a byte of a bit array

Word  == 4 * ByteBits
Pair  == 2 * Word        \* 0x40: counted in AddValue
Group == 16 * Word       \* 0x200: counted in BaseValue200, and one select point

------------------------------------------------------------------------------
(* byteStream: what is left of the bytes, and what was got from them.       *)
Array(size) == [array |-> TRUE, size |-> size]
U32 == [array |-> FALSE, size |-> 4]
U64 == [array |-> FALSE, size |-> 8]
Padding(n) == (8 - (n % 8)) % 8

getItem(s, item) ==
  LET head  == IF item.array THEN 8 ELSE item.size
      count == IF item.array THEN GetLE(s.rest, 0, 8) ELSE 0
      size  == head + count + Padding(count)
  IN IF ~s.ok \/ Len(s.rest) < head THEN [s EXCEPT !.ok = FALSE]
     ELSE IF count % item.size # 0 \/ Len(s.rest) < size THEN [s EXCEPT !.ok = FALSE]
     ELSE [s EXCEPT !.rest = From(@, size),
                    !.got = Append(@, IF item.array THEN Slice(s.rest, 8, count)
                                                    ELSE Slice(s.rest, 0, head))]

Load(data, items) == FoldLeft(getItem, [ok |-> TRUE, rest |-> data, got |-> <<>>], items)

(* FlattenSeq of many parts, by halves.                                      *)
RECURSIVE Joined(_)
Joined(parts) ==
  LET half == Len(parts) \div 2
  IN CASE parts = <<>>   -> <<>>
       [] Len(parts) = 1 -> parts[1]
       [] OTHER -> Joined(SubSeq(parts, 1, half)) \o Joined(SubSeq(parts, half + 1, Len(parts)))

Records(bytes, size) == [i \in 1..(Len(bytes) \div size) |-> Slice(bytes, (i - 1) * size, size)]
Numbers(bytes) == [i \in 1..(Len(bytes) \div 4) |-> GetLE(bytes, 4 * (i - 1), 4)]

FileArray(bytes) == LE(Len(bytes), 8) \o bytes \o Nuls(Padding(Len(bytes)))

(* The bits at the given positions, of whole words of n bits.               *)
FileBits(n, ones) ==
  [b \in 1..(4 * ((n + Word - 1) \div Word)) |->
     Byte(SumSet({2^j : j \in {j \in 0..(ByteBits - 1) : ByteBits * (b - 1) + j \in ones}}))]

------------------------------------------------------------------------------
(* The counts of a group lie in fields of 7, 8, 8, 9, 9, 9 and 9 bits.      *)
loadBaseVals(r) ==
  LET b == [i \in 1..12 |-> r[i][2]]
  IN [BaseValue200 |-> NumLE(SubSeq(r, 1, 4)),
      AddValue |-> <<0, b[5] % 128,
                     b[5] \div 128 + 2 * (b[6] % 128),
                     b[6] \div 128 + 2 * (b[7] % 128),
                     b[7] \div 128 + 2 * b[8],
                     b[9] + 256 * (b[10] % 2),
                     b[10] \div 2 + 128 * (b[11] % 4),
                     b[11] \div 4 + 64 * (b[12] % 8)>>]

SparseItems == <<Array(4), U32, U32, Array(12), Array(4), Array(4)>>
sparseArray(got) ==
  [ItemBits |-> [i \in DOMAIN got[1] |-> got[1][i][2]],
   TotalItemCount |-> NumLE(got[2]), ValidItemCount |-> NumLE(got[3]),
   BaseVals |-> [i \in DOMAIN Records(got[4], 12) |-> loadBaseVals(Records(got[4], 12)[i])],
   IndexToItem0 |-> Numbers(got[5]), IndexToItem1 |-> Numbers(got[6])]
Sane(a) == /\ a.ValidItemCount <= a.TotalItemCount
           /\ a.TotalItemCount <= ByteBits * Len(a.ItemBits) + Word

(* With positions of every Group-th zero, or one, where they are wanted.    *)
FileBaseVals(a, counts) ==
  LET c == counts
  IN LE(a, 4)
     \o <<Byte(c[1] + 128 * (c[2] % 2)), Byte(c[2] \div 2 + 128 * (c[3] % 2)),
          Byte(c[3] \div 2 + 128 * (c[4] % 2)), Byte(c[4] \div 2)>>
     \o <<Byte(c[5] % 256), Byte(c[5] \div 256 + 2 * (c[6] % 128)),
          Byte(c[6] \div 128 + 4 * (c[7] % 64)), Byte(c[7] \div 64)>>
Below(ones, i) == Cardinality({j \in ones : j < i})
Points(n, set) ==
  LET count == (Cardinality(set) + Group - 1) \div Group
  IN [g \in 1..(count + 1) |->
        IF g > count THEN n ELSE CHOOSE i \in set : Below(set, i) = Group * (g - 1)]
FileSparse(n, ones, want0, want1) ==
  LET groups == (n + Group - 1) \div Group
      Counts(g) == [k \in 1..7 |-> Below(ones, Group * g + k * Pair) - Below(ones, Group * g)]
      FileNumbers(s) == FlattenSeq([i \in DOMAIN s |-> LE(s[i], 4)])
  IN FileArray(FileBits(n, ones)) \o LE(n, 4) \o LE(Cardinality(ones), 4)
     \o FileArray(FlattenSeq([g \in 1..(groups + 1) |->
          FileBaseVals(Below(ones, Group * (g - 1)), Counts(g - 1))]))
     \o FileArray(IF want0 THEN FileNumbers(Points(n, 0..(n - 1) \ ones)) ELSE <<>>)
     \o FileArray(IF want1 THEN FileNumbers(Points(n, ones)) ELSE <<>>)

------------------------------------------------------------------------------
BitOf(byte, j) == (byte \div 2^j) % 2
IsItemPresent(a, index) ==
  LET b == index \div ByteBits + 1
  IN b \in DOMAIN a.ItemBits /\ BitOf(a.ItemBits[b], index % ByteBits) = 1

(* bits: the ones, or the zeros, of a byte.                                 *)
InByte(byte, bit) == {j \in 0..(ByteBits - 1) : BitOf(byte, j) = bit}
(* setBitsAll: how many are in the first 1, 2, 3 and 4 bytes of a word.     *)
setBitsAll(a, word, bit) ==
  LET Here(k) == {<<b, j>> \in (1..k) \X (0..(ByteBits - 1)) : BitOf(a.ItemBits[4 * word + b], j) = bit}
  IN [k \in 1..4 |-> Cardinality(Here(k))]
HasWord(a, word) == word < Len(a.ItemBits) \div 4

(* rank: the ones below index.                                              *)
GetItemValueAt(a, index) ==
  LET g == index \div Group + 1
      w == index \div Word
      group == a.BaseVals[g].BaseValue200 + a.BaseVals[g].AddValue[((index \div Pair) % 8) + 1]
      word  == IF w % 2 = 1 /\ HasWord(a, w - 1) THEN setBitsAll(a, w - 1, 1)[4] ELSE 0
      rest  == IF HasWord(a, w)
               THEN Cardinality({i \in (w * Word)..(index - 1) : IsItemPresent(a, i)}) ELSE 0
  IN IF g \notin DOMAIN a.BaseVals THEN 0 ELSE group + word + rest

(* The items of a kind, ones or zeros, before a group and before a pair of   *)
(* words in it.                                                             *)
Before(a, g, bit) ==
  IF bit = 1 THEN a.BaseVals[g + 1].BaseValue200 ELSE Group * g - a.BaseVals[g + 1].BaseValue200
Within(a, g, k, bit) ==
  IF bit = 1 THEN a.BaseVals[g + 1].AddValue[k + 1] ELSE Pair * k - a.BaseVals[g + 1].AddValue[k + 1]
PointsOf(a, bit) == IF bit = 1 THEN a.IndexToItem1 ELSE a.IndexToItem0

(* findGroupItems0 and 1.  The search between far select points looks at     *)
(* its upper end, or once at the middle.                                    *)
Halve(a, index, from, to) ==
  LET halves[n \in Nat] == \* the interval after n steps
        IF n = 0 THEN <<from, to>>
        ELSE LET lo == halves[n - 1][1]
                 hi == halves[n - 1][2]
                 mid == (lo + hi) \div 2
             IN IF lo + 1 >= hi THEN <<lo, hi>>
                ELSE IF hi < Len(a.BaseVals) /\ index < Before(a, hi, 0) THEN <<lo, mid>>
                ELSE <<mid, hi>>
  IN halves[to - from][1]
findGroupItems(a, index, bit) ==
  LET points == PointsOf(a, bit)
      g  == index \div Group + 1
      lo == points[g] \div Group
      hi == (points[g + 1] + Group - 1) \div Group
      Reaches(n) == \A h \in (lo + 1)..n : index >= Before(a, h, bit)
      mid == (lo + hi) \div 2
  IN IF g \notin DOMAIN points THEN 0
     ELSE IF g = Len(points) THEN lo
     ELSE IF hi - lo < 10 THEN Max({n \in lo..Max({lo, Len(a.BaseVals) - 1}) : Reaches(n)})
     ELSE IF bit = 0 THEN Halve(a, index, lo, hi)
     ELSE IF mid < Len(a.BaseVals) /\ index >= Before(a, mid, 1) THEN mid ELSE lo

(* bitPos8Table has a row for each count below ByteBits; a row past it is a  *)
(* panic.                                                                   *)
OutOfTable == -1
bitPos8Table(n, byte, bit) ==
  LET is == {j \in InByte(byte, bit) : Cardinality({i \in InByte(byte, bit) : i < j}) = n}
  IN IF n >= ByteBits THEN OutOfTable
     ELSE IF is = {} THEN ByteBits - 1 ELSE CHOOSE j \in is : TRUE

(* GetItem0 and 1, select: where the item with this many before it is.  From *)
(* the group to a pair of words of it, the word, the byte and the bit.      *)
InItsByte(a, word, b, left, bit) ==
  LET pos == bitPos8Table(left, a.ItemBits[4 * word + b + 1], bit)
  IN IF pos = OutOfTable THEN OutOfTable ELSE word * Word + b * ByteBits + pos
InItsWord(a, word, left, bit, sums) ==
  LET b == Max({b \in 0..3 : b = 0 \/ left >= sums[b]})
  IN InItsByte(a, word, b, IF b = 0 THEN left ELSE left - sums[b], bit)
InItsPair(a, first, rest, bit, inFirst) ==
  IF ~HasWord(a, first) THEN 0
  ELSE IF rest < inFirst THEN InItsWord(a, first, rest, bit, setBitsAll(a, first, bit))
  ELSE IF ~HasWord(a, first + 1) THEN 0
  ELSE InItsWord(a, first + 1, rest - inFirst, bit, setBitsAll(a, first + 1, bit))
InItsGroup(a, g, dist, bit) ==
  LET k == Max({k \in 0..7 : k = 0 \/ dist >= Within(a, g, k, bit)})
      first == 16 * g + 2 * k
  IN InItsPair(a, first, dist - Within(a, g, k, bit), bit, setBitsAll(a, first, bit)[4])
GetItem(a, index, bit) ==
  LET points == PointsOf(a, bit)
      g == findGroupItems(a, index, bit)
  IN IF index % Group = 0
     THEN IF index \div Group + 1 \in DOMAIN points THEN points[index \div Group + 1] ELSE 0
     ELSE IF g >= Len(a.BaseVals) THEN 0
     ELSE IF index < Before(a, g, bit)  \* the distance wraps around
          THEN IF HasWord(a, 16 * g + 15) THEN OutOfTable ELSE 0
     ELSE InItsGroup(a, g, index - Before(a, g, bit), bit)
GetItem0(a, index) == GetItem(a, index, 0)
GetItem1(a, index) == GetItem(a, index, 1)

------------------------------------------------------------------------------
(* bitEntryArray: numbers of BitsPerEntry bits, one after the other.        *)
BitItems == <<Array(4), U32, U32, U64>>
bitEntryArray(got) ==
  [Items |-> [i \in DOMAIN got[1] |-> got[1][i][2]], BitsPerEntry |-> NumLE(got[2]),
   EntryBitMask |-> NumLE(got[3])]
GetEntry(b, idx) ==
  LET Bit(j) == LET at == idx * b.BitsPerEntry + j
                    i  == at \div ByteBits + 1
                IN IF i \in DOMAIN b.Items THEN BitOf(b.Items[i], at % ByteBits) ELSE 0
  IN SumSet({2^j * Bit(j) * BitOf(b.EntryBitMask, j) : j \in 0..(b.BitsPerEntry - 1)})

FileBitEntries(entries, width) ==
  LET Ones == UNION {{width * (i - 1) + j : j \in {j \in 0..(width - 1) : BitOf(entries[i], j) = 1}}
                       : i \in DOMAIN entries}
  IN FileArray(FileBits(width * Len(entries), Ones)) \o LE(width, 4) \o LE(2^width - 1, 4)
     \o LE(Len(entries), 8)

------------------------------------------------------------------------------
(* A document: one bit array of n items, those at ones present.             *)
FileVector(doc) == FileSparse(doc.n, doc.ones, TRUE, TRUE)
RanksAndPlaces(a) ==
  LET zeros == a.TotalItemCount - a.ValidItemCount
  IN IF ~Sane(a) THEN Error
     ELSE Ok([ranks |-> [i \in 0..(a.TotalItemCount - 1) |-> GetItemValueAt(a, i)],
              ones  |-> {<<GetItem1(a, k), k>> : k \in 0..(a.ValidItemCount - 1)},
              zeros |-> {<<GetItem0(a, k), k>> : k \in 0..(zeros - 1)}])
ParseVector(data) ==
  LET s == Load(data, SparseItems)
  IN IF ~s.ok THEN Error ELSE RanksAndPlaces(sparseArray(s.got))
WroteVector(doc) ==
  LET Counted(set) == {<<i, Below(set, i)>> : i \in set}
  IN [ranks |-> [i \in 0..(doc.n - 1) |-> Below(doc.ones, i)],
      ones  |-> Counted(doc.ones), zeros |-> Counted(0..(doc.n - 1) \ doc.ones)]
==============================================================================
