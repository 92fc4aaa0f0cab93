-------------------------- MODULE StorageBytesProofs --------------------------
(***************************************************************************)
(* Proofs about StorageApi, part two: the bytes a File gives.  The frames   *)
(* of Blte first, what a right or a wrong key makes of a sealed frame and   *)
(* what damage can do to it; then what a call has in its hands while it     *)
(* decodes, and the theorems.                                               *)
(***************************************************************************)
EXTENDS StorageApiProofs, SequenceTheorems

------------------------------------------------------------------------------
(* The frames of a blob.                                                    *)

(* What may be under the seals of a frame: never the header of another.     *)
Plain == B!Byte \cup {B!Noise, B!Mode("N"), B!Mode("Z")}
         \cup {<<"deflated", chunk>> : chunk \in Seq(B!Byte)}

LEMMA NoHeader == \A x \in Plain : x # B!Mode("E")
<1> SUFFICES ASSUME NEW x \in Plain PROVE x # B!Mode("E")
  OBVIOUS
<1>1. CASE x \in B!Byte
  BY <1>1 DEF B!Byte, B!Mode
<1>2. CASE x \in {B!Noise, B!Mode("N"), B!Mode("Z")}
  BY <1>2 DEF B!Noise, B!Mode
<1>3. CASE x \in {<<"deflated", chunk>> : chunk \in Seq(B!Byte)}
  BY <1>3 DEF B!Mode
<1> QED
  BY <1>1, <1>2, <1>3 DEF Plain

LEMMA SealShape ==
  ASSUME NEW b \in Seq(Plain), NEW ks \in Seq(KeyName), NEW i \in Nat
  PROVE  /\ Len(B!Seal(b, ks, i)) = 2 * Len(ks) + Len(b)
         /\ DOMAIN B!Seal(b, ks, i) = 1..(2 * Len(ks) + Len(b))
         /\ \A j \in 1..(2 * Len(ks) + Len(b)) :
              B!Seal(b, ks, i)[j] = B!SealedCell(b, ks, i, j)
<1> DEFINE n == 2 * Len(ks) + Len(b)
           s == [j \in 1..n |-> B!SealedCell(b, ks, i, j)]
<1>1. n \in Nat
  OBVIOUS
<1>2. B!Seal(b, ks, i) = s
  BY DEF B!Seal
<1>3. Len(s) = n
  BY <1>1
<1> QED
  BY <1>2, <1>3

LEMMA SealNone ==
  ASSUME NEW b \in Seq(Plain), NEW i \in Nat
  PROVE  B!Seal(b, <<>>, i) = b
<1>1. \A j \in 1..Len(b) : B!SealedCell(b, <<>>, i, j) = b[j]
  BY DEF B!SealedCell, B!Under
<1>2. B!Seal(b, <<>>, i) = [j \in 1..Len(b) |-> b[j]]
  BY <1>1 DEF B!Seal
<1> QED
  BY <1>2

LEMMA SealHead ==
  ASSUME NEW b \in Seq(Plain), NEW ks \in Seq(KeyName), NEW i \in Nat, ks # <<>>
  PROVE  /\ B!Seal(b, ks, i)[1] = B!Mode("E")
         /\ B!Seal(b, ks, i)[2] = <<"key", ks[Len(ks)]>>
<1> DEFINE n == Len(ks)
<1>1. n \in Nat /\ n >= 1 /\ 1 \in 1..(2 * n + Len(b)) /\ 2 \in 1..(2 * n + Len(b))
  OBVIOUS
<1>2. (1 - 1) \div 2 = 0 /\ (2 - 1) \div 2 = 0 /\ 1 % 2 = 1 /\ 2 % 2 = 0
  OBVIOUS
<1>3. SubSeq(ks, n + 1, n) = <<>>
  BY <1>1
<1>4. B!SealedCell(b, ks, i, 1) = B!Under(B!Mode("E"), SubSeq(ks, n - 0 + 1, n), i)
  BY <1>1, <1>2 DEF B!SealedCell
<1>5. B!SealedCell(b, ks, i, 2) = B!Under(<<"key", ks[n - 0]>>, SubSeq(ks, n - 0 + 1, n), i)
  BY <1>1, <1>2 DEF B!SealedCell
<1> QED
  BY <1>1, <1>3, <1>4, <1>5, SealShape DEF B!Under

(* What a right key does to a cell, and to a frame.                         *)
LEMMA CellOpens ==
  ASSUME NEW cell, cell[1] # "sealed", NEW ks \in Seq(KeyName), NEW i \in Nat, ks # <<>>
  PROVE  LET x == B!Under(cell, ks, i)
         IN (IF x[1] = "sealed" /\ Last(x[2]) = ks[Len(ks)] /\ x[3] = i - 1
             THEN B!Under(x[4], Front(x[2]), i) ELSE B!Noise)
            = B!Under(cell, Front(ks), i)
<1>1. CASE cell = B!Noise
  BY <1>1 DEF B!Under, B!Noise
<1>2. CASE cell # B!Noise
  BY <1>2 DEF B!Under, Last
<1> QED
  BY <1>1, <1>2

LEMMA FrontShape ==
  ASSUME NEW ks \in Seq(KeyName), ks # <<>>
  PROVE  /\ Front(ks) \in Seq(KeyName) /\ Len(Front(ks)) = Len(ks) - 1
         /\ \A j \in 1..(Len(ks) - 1) : Front(ks)[j] = ks[j]
         /\ \A j \in 1..Len(ks) : Front(SubSeq(ks, j, Len(ks))) = SubSeq(Front(ks), j, Len(ks) - 1)
<1> DEFINE n == Len(ks)
<1>1. n \in Nat /\ n >= 1 /\ \A j \in 1..n : ks[j] \in KeyName
  OBVIOUS
<1>2. /\ Front(ks) \in Seq(KeyName) /\ Len(Front(ks)) = n - 1
      /\ \A j \in 1..(n - 1) : Front(ks)[j] = ks[j]
  <2>1. \A j \in 1..(n - 1) : ks[j] \in KeyName
    BY <1>1
  <2>2. /\ SubSeq(ks, 1, n - 1) \in Seq(KeyName)
        /\ Len(SubSeq(ks, 1, n - 1)) = IF 1 <= n - 1 THEN (n - 1) - 1 + 1 ELSE 0
        /\ \A j \in 1..((n - 1) - 1 + 1) : SubSeq(ks, 1, n - 1)[j] = ks[1 + j - 1]
    BY <1>1, <2>1, SubSeqProperties
  <2>3. Front(ks) = SubSeq(ks, 1, n - 1)
    BY DEF Front
  <2> HIDE DEF n
  <2> QED
    BY <1>1, <2>2, <2>3
<1>3. ASSUME NEW j \in 1..n PROVE Front(SubSeq(ks, j, n)) = SubSeq(Front(ks), j, n - 1)
  <2>1. /\ SubSeq(ks, j, n) \in Seq(KeyName) /\ Len(SubSeq(ks, j, n)) = n - j + 1
        /\ \A m \in 1..(n - j + 1) : SubSeq(ks, j, n)[m] = ks[j + m - 1]
    BY <1>1, SubSeqProperties
  <2>2. /\ Front(SubSeq(ks, j, n)) \in Seq(KeyName) /\ Len(Front(SubSeq(ks, j, n))) = n - j
        /\ \A m \in 1..(n - j) : Front(SubSeq(ks, j, n))[m] = ks[j + m - 1]
    BY <1>1, <2>1, SubSeqProperties DEF Front
  <2>3. /\ SubSeq(Front(ks), j, n - 1) \in Seq(KeyName) /\ Len(SubSeq(Front(ks), j, n - 1)) = n - j
        /\ \A m \in 1..(n - j) : SubSeq(Front(ks), j, n - 1)[m] = Front(ks)[j + m - 1]
    BY <1>1, <1>2, SubSeqProperties
  <2> QED
    BY <1>1, <1>2, <2>2, <2>3, SeqEqual
<1> QED
  BY <1>2, <1>3

LEMMA PlainCells ==
  /\ \A x \in Plain : x[1] # "sealed"
  /\ B!Mode("E")[1] # "sealed" /\ \A k : <<"key", k>>[1] # "sealed"
<1>1. ASSUME NEW x \in Plain PROVE x[1] # "sealed"
  <2>1. CASE x \in B!Byte
    BY <2>1 DEF B!Byte
  <2>2. CASE x \in {B!Noise, B!Mode("N"), B!Mode("Z")}
    BY <2>2 DEF B!Noise, B!Mode
  <2>3. CASE x \in {<<"deflated", chunk>> : chunk \in Seq(B!Byte)}
    BY <2>3
  <2> QED
    BY <2>1, <2>2, <2>3 DEF Plain
<1> QED
  BY <1>1 DEF B!Mode

Peel(x, k, i) == IF x[1] = "sealed" /\ Last(x[2]) = k /\ x[3] = i - 1
                 THEN B!Under(x[4], Front(x[2]), i) ELSE B!Noise

LEMMA UnsealRight ==
  ASSUME NEW cells, NEW k, NEW i
  PROVE  B!Unseal(cells, k, "right", i) = {[j \in DOMAIN cells |-> Peel(cells[j], k, i)]}
  BY DEF B!Unseal, Peel, Last, Front, B!Last, B!Front

LEMMA CellPeels ==
  ASSUME NEW b \in Seq(Plain), NEW ks \in Seq(KeyName), NEW i \in Nat, ks # <<>>,
         NEW j \in 1..(2 * Len(ks) + Len(b) - 2)
  PROVE  Peel(B!SealedCell(b, ks, i, j + 2), ks[Len(ks)], i) = B!SealedCell(b, Front(ks), i, j)
<1> DEFINE n == Len(ks)
           layer == n - (j + 1) \div 2
<1>1. n \in Nat /\ n >= 1 /\ Len(Front(ks)) = n - 1 /\ Front(ks) \in Seq(KeyName)
  BY FrontShape
<1>2. CASE j + 2 > 2 * n
  <2> DEFINE x == b[j + 2 - 2 * n]
  <2>1. x \in Plain /\ x = b[j - 2 * (n - 1)]
    BY <1>1, <1>2
  <2>2. B!SealedCell(b, ks, i, j + 2) = B!Under(x, ks, i)
    BY <1>2 DEF B!SealedCell
  <2>3. B!SealedCell(b, Front(ks), i, j) = B!Under(x, Front(ks), i)
    BY <1>1, <1>2, <2>1 DEF B!SealedCell
  <2> HIDE DEF x
  <2>4. Peel(B!Under(x, ks, i), ks[Len(ks)], i) = B!Under(x, Front(ks), i)
    BY <2>1, PlainCells, CellOpens DEF Peel
  <2> QED
    BY <2>2, <2>3, <2>4
<1>3. CASE j + 2 <= 2 * n
  <2> DEFINE x == IF j % 2 = 1 THEN B!Mode("E") ELSE <<"key", ks[layer]>>
             st == SubSeq(ks, layer + 1, n)
  <2>1. /\ layer \in 1..(n - 1) /\ layer = n - (j + 2 - 1) \div 2
        /\ layer = (n - 1) - (j - 1) \div 2 /\ (j + 2) % 2 = j % 2
    BY <1>1, <1>3
  <2> HIDE DEF layer
  <2>2. /\ st \in Seq(KeyName) /\ st # <<>> /\ Len(st) = n - layer /\ st[Len(st)] = ks[n]
        /\ Front(st) = SubSeq(Front(ks), layer + 1, n - 1) /\ Front(ks)[layer] = ks[layer]
    <3>1. \A m \in 1..n : ks[m] \in KeyName
      BY <1>1
    <3>2. /\ st \in Seq(KeyName) /\ Len(st) = n - layer
          /\ \A m \in 1..(n - layer) : st[m] = ks[layer + m]
      <4> HIDE DEF n
      <4>1. \A m \in (layer + 1)..n : ks[m] \in KeyName
        BY <1>1, <2>1, <3>1
      <4> QED
        BY <1>1, <2>1, <4>1, SubSeqProperties
    <3>3. Front(st) = SubSeq(Front(ks), layer + 1, n - 1) /\ Front(ks)[layer] = ks[layer]
      <4>1. /\ \A m \in 1..n : Front(SubSeq(ks, m, n)) = SubSeq(Front(ks), m, n - 1)
            /\ \A m \in 1..(n - 1) : Front(ks)[m] = ks[m]
        BY FrontShape
      <4>2. layer + 1 \in 1..n /\ layer \in 1..(n - 1)
        BY <1>1, <2>1
      <4> HIDE DEF n
      <4>3. Front(SubSeq(ks, layer + 1, n)) = SubSeq(Front(ks), layer + 1, n - 1)
        BY <4>1, <4>2, Zenon
      <4> QED
        BY <4>1, <4>2, <4>3
    <3> HIDE DEF st, n
    <3> QED
      BY <1>1, <2>1, <3>2, <3>3, SMTT(60)
  <2>3. B!SealedCell(b, ks, i, j + 2) = B!Under(x, st, i)
    BY <1>1, <1>3, <2>1 DEF B!SealedCell
  <2>4. B!SealedCell(b, Front(ks), i, j) = B!Under(x, Front(st), i)
    <3> DEFINE low == (n - 1) - (j - 1) \div 2
    <3>1. B!SealedCell(b, Front(ks), i, j) =
            B!Under(IF j % 2 = 1 THEN B!Mode("E") ELSE <<"key", Front(ks)[low]>>,
                    SubSeq(Front(ks), low + 1, n - 1), i)
      <4>1. ~(j > 2 * Len(Front(ks)))
        BY <1>1, <1>3
      <4> QED
        BY <1>1, <4>1 DEF B!SealedCell
    <3>2. low = layer
      BY <2>1
    <3> HIDE DEF low, st
    <3> QED
      BY <2>2, <3>1, <3>2
  <2>5. x[1] # "sealed"
    BY PlainCells
  <2> HIDE DEF x, st
  <2>6. Peel(B!Under(x, st, i), st[Len(st)], i) = B!Under(x, Front(st), i)
    BY <2>2, <2>5, CellOpens DEF Peel
  <2> QED
    BY <2>2, <2>3, <2>4, <2>6
<1> QED
  BY <1>1, <1>2, <1>3

LEMMA SealOpens ==
  ASSUME NEW b \in Seq(Plain), NEW ks \in Seq(KeyName), NEW i \in Nat, ks # <<>>
  PROVE  LET s == B!Seal(b, ks, i)
         IN B!Unseal(SubSeq(s, 3, Len(s)), ks[Len(ks)], "right", i) = {B!Seal(b, Front(ks), i)}
<1> DEFINE s == B!Seal(b, ks, i)
           t == SubSeq(s, 3, Len(s))
           n == 2 * Len(ks) + Len(b)
<1>1. n \in Nat /\ n >= 2 /\ Len(s) = n /\ \A j \in 1..n : s[j] = B!SealedCell(b, ks, i, j)
  BY SealShape
<1>2. DOMAIN t = 1..(n - 2) /\ \A j \in 1..(n - 2) : t[j] = B!SealedCell(b, ks, i, j + 2)
  <2> DEFINE S == {s[j] : j \in 1..n}
  <2> HIDE DEF s, n
  <2>1. \A j \in 3..n : s[j] \in S
    BY <1>1
  <2>2. /\ t \in Seq(S) /\ Len(t) = IF 3 <= n THEN n - 3 + 1 ELSE 0
        /\ \A j \in 1..(n - 3 + 1) : t[j] = s[3 + j - 1]
    BY <1>1, <2>1, SubSeqProperties
  <2> HIDE DEF t, S
  <2>3. DOMAIN t = 1..(n - 2)
    BY <1>1, <2>2
  <2> QED
    BY <1>1, <2>2, <2>3
<1>3. [j \in DOMAIN t |-> Peel(t[j], ks[Len(ks)], i)]
      = [j \in 1..(n - 2) |-> B!SealedCell(b, Front(ks), i, j)]
  BY <1>2, CellPeels
<1>4. B!Seal(b, Front(ks), i) = [j \in 1..(n - 2) |-> B!SealedCell(b, Front(ks), i, j)]
  <2>1. 2 * Len(Front(ks)) + Len(b) = n - 2
    <3>1. Len(Front(ks)) = Len(ks) - 1
      BY FrontShape
    <3> QED
      BY <3>1
  <2> QED
    BY <2>1 DEF B!Seal
<1> HIDE DEF s, t, n
<1>5. B!Unseal(t, ks[Len(ks)], "right", i) = {B!Seal(b, Front(ks), i)}
  <2>1. B!Unseal(t, ks[Len(ks)], "right", i) = {[j \in DOMAIN t |-> Peel(t[j], ks[Len(ks)], i)]}
    BY UnsealRight
  <2> QED
    BY <1>3, <1>4, <2>1
<1> QED
  BY <1>5 DEF s, t

(* Damage under the seals is damage of what they seal.                      *)
LEMMA SealCut ==
  ASSUME NEW b \in Seq(Plain), NEW ks \in Seq(KeyName), NEW i \in Nat, Len(b) >= 1
  PROVE  LET s == B!Seal(b, ks, i)
         IN \E cut \in Seq(Plain) : SubSeq(s, 1, Len(s) - 1) = B!Seal(cut, ks, i)
<1> DEFINE s == B!Seal(b, ks, i)
           n == 2 * Len(ks) + Len(b)
           cut == SubSeq(b, 1, Len(b) - 1)
<1>1. /\ n \in Nat /\ n >= 1 /\ Len(s) = n
      /\ \A j \in 1..n : s[j] = B!SealedCell(b, ks, i, j)
  BY SealShape
<1>2. /\ cut \in Seq(Plain) /\ Len(cut) = Len(b) - 1
      /\ \A j \in 1..(Len(b) - 1) : cut[j] = b[j]
  <2> DEFINE m == Len(b)
  <2>1. m \in Nat /\ m >= 1 /\ \A j \in 1..(m - 1) : b[j] \in Plain
    OBVIOUS
  <2>2. /\ cut \in Seq(Plain) /\ Len(cut) = IF 1 <= m - 1 THEN (m - 1) - 1 + 1 ELSE 0
        /\ \A j \in 1..((m - 1) - 1 + 1) : cut[j] = b[1 + j - 1]
    BY <2>1, SubSeqProperties
  <2> HIDE DEF m, cut
  <2>3. /\ cut \in Seq(Plain) /\ Len(cut) = m - 1
        /\ \A j \in 1..(m - 1) : cut[j] = b[j]
    BY <2>1, <2>2
  <2> QED
    BY <2>3 DEF m
<1>3. ASSUME NEW j \in 1..(n - 1)
      PROVE  B!SealedCell(cut, ks, i, j) = B!SealedCell(b, ks, i, j)
  <2> HIDE DEF cut
  <2> DEFINE k == j - 2 * Len(ks)
  <2>1. CASE j > 2 * Len(ks)
    <3>1. Len(ks) \in Nat /\ Len(b) \in Nat /\ j \in Int /\ j <= n - 1
      BY <1>1
    <3>2. k \in 1..(Len(b) - 1)
      BY <2>1, <3>1
    <3>3. cut[k] = b[k]
      BY <1>2, <3>2
    <3> QED
      BY <2>1, <3>3 DEF B!SealedCell
  <2>2. CASE ~(j > 2 * Len(ks))
    BY <2>2 DEF B!SealedCell
  <2> QED
    BY <2>1, <2>2
<1>4. B!Seal(cut, ks, i) = [j \in 1..(n - 1) |-> B!SealedCell(b, ks, i, j)]
  <2> HIDE DEF cut
  <2>1. 2 * Len(ks) + Len(cut) = n - 1
    BY <1>2
  <2> HIDE DEF n
  <2> QED
    BY <1>3, <2>1 DEF B!Seal
<1>5. SubSeq(s, 1, n - 1) = [j \in 1..(n - 1) |-> B!SealedCell(b, ks, i, j)]
  <2> DEFINE S == {s[j] : j \in 1..n}
             t == SubSeq(s, 1, n - 1)
  <2> HIDE DEF s, n
  <2>1. \A j \in 1..(n - 1) : s[j] \in S
    BY <1>1
  <2>2. /\ t \in Seq(S) /\ Len(t) = IF 1 <= n - 1 THEN (n - 1) - 1 + 1 ELSE 0
        /\ \A j \in 1..((n - 1) - 1 + 1) : t[j] = s[1 + j - 1]
    BY <1>1, <2>1, SubSeqProperties
  <2> HIDE DEF t, S
  <2>3. Len(t) = n - 1 /\ \A j \in 1..(n - 1) : t[j] = B!SealedCell(b, ks, i, j)
    BY <1>1, <2>2
  <2>4. t = [j \in 1..Len(t) |-> t[j]]
    BY <2>2
  <2> QED
    BY <2>3, <2>4 DEF t
<1> HIDE DEF s, n, cut
<1>6. SubSeq(s, 1, Len(s) - 1) = B!Seal(cut, ks, i)
  BY <1>1, <1>4, <1>5
<1> QED
  BY <1>2, <1>6 DEF s

LEMMA SealFlip ==
  ASSUME NEW b \in Seq(Plain), NEW ks \in Seq(KeyName), NEW i \in Nat, Len(b) >= 1
  PROVE  LET s == B!Seal(b, ks, i)
         IN \E flip \in Seq(Plain) : [s EXCEPT ![Len(s)] = B!Noise] = B!Seal(flip, ks, i)
<1> DEFINE s == B!Seal(b, ks, i)
           n == 2 * Len(ks) + Len(b)
           flip == [b EXCEPT ![Len(b)] = B!Noise]
<1>1. /\ n \in Nat /\ n >= 1 /\ Len(s) = n /\ DOMAIN s = 1..n
      /\ \A j \in 1..n : s[j] = B!SealedCell(b, ks, i, j)
  BY SealShape
<1>2. /\ flip \in Seq(Plain) /\ Len(flip) = Len(b)
      /\ \A j \in 1..Len(b) : flip[j] = IF j = Len(b) THEN B!Noise ELSE b[j]
  BY ExceptSeq DEF Plain
<1>3. ASSUME NEW j \in 1..n
      PROVE  B!SealedCell(flip, ks, i, j) = IF j = n THEN B!Noise ELSE B!SealedCell(b, ks, i, j)
  <2> HIDE DEF flip
  <2>1. CASE j > 2 * Len(ks)
    <3>1. flip[j - 2 * Len(ks)] = IF j = n THEN B!Noise ELSE b[j - 2 * Len(ks)]
      <4>1. /\ j - 2 * Len(ks) \in 1..Len(b)
            /\ j = n <=> j - 2 * Len(ks) = Len(b)
        BY <2>1
      <4> HIDE DEF n
      <4> QED
        BY <1>2, <4>1
    <3>2. \A c : B!SealedCell(c, ks, i, j) = B!Under(c[j - 2 * Len(ks)], ks, i)
      BY <2>1 DEF B!SealedCell
    <3>3. B!Under(B!Noise, ks, i) = B!Noise
      BY DEF B!Under
    <3> QED
      BY <3>1, <3>2, <3>3
  <2>2. CASE ~(j > 2 * Len(ks))
    <3>1. j # n
      BY <2>2
    <3>2. B!SealedCell(flip, ks, i, j) = B!SealedCell(b, ks, i, j)
      BY <2>2 DEF B!SealedCell
    <3> QED
      BY <3>1, <3>2
  <2> QED
    BY <2>1, <2>2
<1>4. B!Seal(flip, ks, i) = [j \in 1..n |-> IF j = n THEN B!Noise ELSE B!SealedCell(b, ks, i, j)]
  <2> HIDE DEF flip
  <2>1. 2 * Len(ks) + Len(flip) = n
    BY <1>2
  <2> HIDE DEF n
  <2> QED
    BY <1>3, <2>1 DEF B!Seal
<1> HIDE DEF s, n, flip
<1>5. [s EXCEPT ![Len(s)] = B!Noise] = B!Seal(flip, ks, i)
  BY <1>1, <1>4
<1> QED
  BY <1>2, <1>5 DEF s

------------------------------------------------------------------------------
LEMMA Extremes ==
  ASSUME NEW x \in Int, NEW y \in Int
  PROVE  /\ B!Max({x, y}) = IF x >= y THEN x ELSE y
         /\ B!Min({x, y}) = IF x <= y THEN x ELSE y
<1>1. B!Max({x, y}) \in {x, y} /\ \A z \in {x, y} : B!Max({x, y}) >= z
  <2>1. \E m \in {x, y} : \A z \in {x, y} : m >= z
    OBVIOUS
  <2> QED
    BY <2>1 DEF B!Max
<1>2. B!Min({x, y}) \in {x, y} /\ \A z \in {x, y} : B!Min({x, y}) <= z
  <2>1. \E m \in {x, y} : \A z \in {x, y} : m <= z
    OBVIOUS
  <2> QED
    BY <2>1 DEF B!Min
<1> QED
  BY <1>1, <1>2

LEMMA ChunkTypes ==
  ASSUME NEW content \in Seq(B!Byte), NEW size \in Nat \ {0}
  PROVE  /\ B!Chunks(content, size) \in Seq(Seq(B!Byte)) /\ Len(B!Chunks(content, size)) >= 1
         /\ DOMAIN B!Chunks(content, size) = 1..Len(B!Chunks(content, size))
<1> DEFINE len == Len(content)
           count == B!Max({1, (len + size - 1) \div size})
           first(i) == (i - 1) * size + 1
           last(i) == B!Min({i * size, len})
<1>1. len \in Nat /\ \A j \in 1..len : content[j] \in B!Byte
  OBVIOUS
<1>2. count \in Nat /\ count >= 1
  <2>1. (len + size - 1) \div size \in Int
    BY <1>1
  <2> QED
    BY <2>1, Extremes
<1>3. ASSUME NEW i \in 1..count PROVE SubSeq(content, first(i), last(i)) \in Seq(B!Byte)
  <2>1. (i - 1) * size \in Nat /\ i * size \in Int
    BY <1>2
  <2> DEFINE f == first(i)
             l == last(i)
  <2>2. f \in Int /\ l \in Int /\ f >= 1 /\ l <= len
    <3>1. l = IF i * size <= len THEN i * size ELSE len
      <4>1. PICK y \in Int : y = i * size
        BY <2>1
      <4>2. \A m \in Int : B!Min({y, m}) = IF y <= m THEN y ELSE m
        BY Extremes
      <4> QED
        BY <1>1, <4>1, <4>2
    <3> HIDE DEF l, len
    <3> QED
      BY <1>1, <2>1, <3>1
  <2> HIDE DEF f, l, len
  <2>3. \A j \in f..l : content[j] \in B!Byte
    BY <1>1, <2>2
  <2>4. SubSeq(content, f, l) \in Seq(B!Byte)
    BY <2>2, <2>3, SubSeqProperties
  <2> QED
    BY <2>4 DEF f, l, len
<1>4. B!Chunks(content, size) = [i \in 1..count |-> SubSeq(content, first(i), last(i))]
  BY DEF B!Chunks
<1> HIDE DEF count, first, last
<1> QED
  BY <1>2, <1>3, <1>4

LEMMA FrameShape ==
  ASSUME NEW chunk \in Seq(B!Byte), NEW mode
  PROVE  LET f == B!EncodeFrame(mode, chunk)
         IN /\ f \in Seq(Plain) /\ Len(f) >= 1
            /\ \/ f[1] = B!Mode("N") /\ Tail(f) = chunk
               \/ f[1] = B!Mode("Z") /\ Len(f) = 2 /\ f[2] = <<"deflated", chunk>>
<1>1. /\ chunk \in Seq(Plain) /\ <<B!Mode("N")>> \in Seq(Plain)
      /\ <<"deflated", chunk>> \in Plain /\ B!Mode("Z") \in Plain
  BY SeqMonotonic DEF Plain
<1>2. CASE mode = "Z" /\ B!Deflates(chunk)
  BY <1>1, <1>2 DEF B!EncodeFrame
<1>3. CASE ~(mode = "Z" /\ B!Deflates(chunk))
  <2> DEFINE f == <<B!Mode("N")>> \o chunk
  <2>1. /\ f \in Seq(Plain) /\ Len(f) = 1 + Len(chunk)
        /\ \A i \in 1..(1 + Len(chunk)) : f[i] = IF i <= 1 THEN B!Mode("N") ELSE chunk[i - 1]
    BY <1>1, ConcatProperties
  <2> HIDE DEF f
  <2>2. f # <<>> /\ f[1] = B!Mode("N") /\ Len(f) >= 1
    BY <2>1
  <2>3. /\ Tail(f) \in Seq(Plain) /\ Len(Tail(f)) = Len(chunk)
        /\ \A i \in 1..Len(chunk) : Tail(f)[i] = chunk[i]
    BY <2>1, <2>2, HeadTailProperties
  <2>4. Tail(f) = chunk
    BY <1>1, <2>3, SeqEqual
  <2> QED
    BY <1>3, <2>1, <2>2, <2>4 DEF B!EncodeFrame, f
<1> QED
  BY <1>2, <1>3

LEMMA PieceTypes ==
  ASSUME NEW e \in EKey
  PROVE  LET n == Len(Packing[e].locks)
         IN /\ n \in Nat /\ n >= 1 /\ Frames(e) = 1..n
            /\ DOMAIN B!Pieces(Content[e], Packing[e].opts) = 1..n
            /\ Packing[e].opts.single => n = 1
            /\ \A i \in 1..n : Piece(e, i) \in Seq(B!Byte) /\ Packing[e].locks[i] \in Seq(KeyName)
<1> DEFINE o == Packing[e].opts
           n == Len(Packing[e].locks)
<1>1. /\ Content[e] \in Seq(B!Byte) /\ o.size \in Nat \ {0}
      /\ Packing[e].locks \in Seq(Seq(KeyName)) /\ n = Len(B!Pieces(Content[e], o))
  BY SpansAssumption
<1>2. n \in Nat /\ DOMAIN Packing[e].locks = 1..n
      /\ \A i \in 1..n : Packing[e].locks[i] \in Seq(KeyName)
  BY <1>1
<1>3. CASE o.single
  <2>1. B!Pieces(Content[e], o) = <<Content[e]>>
    BY <1>3 DEF B!Pieces
  <2>2. n = 1
    BY <1>1, <2>1
  <2>3. Piece(e, 1) = Content[e]
    BY <2>1 DEF Piece
  <2> HIDE DEF n, o
  <2> QED
    BY <1>1, <1>2, <1>3, <2>1, <2>2, <2>3 DEF Frames, n, o
<1>4. CASE ~o.single
  <2> DEFINE c == B!Chunks(Content[e], o.size)
  <2>1. B!Pieces(Content[e], o) = c
    BY <1>4 DEF B!Pieces
  <2>2. c \in Seq(Seq(B!Byte)) /\ Len(c) >= 1 /\ DOMAIN c = 1..Len(c)
    BY <1>1, ChunkTypes
  <2>3. \A i \in 1..n : Piece(e, i) \in Seq(B!Byte)
    BY <1>1, <2>1, <2>2 DEF Piece
  <2> HIDE DEF n, o, c
  <2> QED
    BY <1>1, <1>2, <1>4, <2>1, <2>2, <2>3 DEF Frames, n, o
<1> QED
  BY <1>3, <1>4

(* The body of frame i of e before it is sealed.                            *)
Frame(e, i) == B!EncodeFrame(Packing[e].opts.mode, Piece(e, i))

LEMMA FrameIs ==
  ASSUME NEW e \in EKey, NEW i \in 1..Len(Packing[e].locks)
  PROVE  /\ Frame(e, i) \in Seq(Plain) /\ Len(Frame(e, i)) >= 1
         /\ \/ Frame(e, i)[1] = B!Mode("N") /\ Tail(Frame(e, i)) = Piece(e, i)
            \/ /\ Frame(e, i)[1] = B!Mode("Z") /\ Len(Frame(e, i)) = 2
               /\ Frame(e, i)[2] = <<"deflated", Piece(e, i)>>
<1>1. Piece(e, i) \in Seq(B!Byte)
  BY PieceTypes
<1> QED
  BY <1>1, FrameShape DEF Frame

LEMMA SpanShape ==
  ASSUME NEW e \in EKey
  PROVE  LET n == Len(Packing[e].locks)
             body(i) == B!Seal(Frame(e, i), Packing[e].locks[i], i)
         IN /\ Packing[e].opts.single => Span[e].table = B!NoTable /\ Span[e].data = body(1)
            /\ ~Packing[e].opts.single =>
                 Span[e].table = [i \in 1..n |-> [encoded |-> Len(body(i)),
                                                  content |-> Len(Piece(e, i)), hash |-> body(i)]]
<1> DEFINE n == Len(Packing[e].locks)
           body(i) == B!Seal(Frame(e, i), Packing[e].locks[i], i)
           pieces == B!Pieces(Content[e], Packing[e].opts)
           bodies == [i \in DOMAIN pieces |->
                        B!Seal(B!EncodeFrame(Packing[e].opts.mode, pieces[i]), Packing[e].locks[i], i)]
<1>1. DOMAIN pieces = 1..n /\ n >= 1 /\ n \in Nat
  BY PieceTypes
<1>2. \A i \in 1..n : bodies[i] = body(i)
  BY <1>1 DEF Frame, Piece
<1>3. Span[e] = B!Encode(Content[e], Packing[e].opts, Packing[e].locks)
  BY DEF Span
<1>4. CASE Packing[e].opts.single
  <2>1. Span[e] = [table |-> B!NoTable, data |-> bodies[1]]
    BY <1>3, <1>4 DEF B!Encode
  <2> HIDE DEF bodies, body
  <2> QED
    BY <1>1, <1>2, <1>4, <2>1 DEF body
<1>5. CASE ~Packing[e].opts.single
  <2>1. Span[e].table = [i \in DOMAIN pieces |-> [encoded |-> Len(bodies[i]),
                                                  content |-> Len(pieces[i]), hash |-> bodies[i]]]
    BY <1>3, <1>5 DEF B!Encode
  <2> HIDE DEF bodies
  <2>2. Span[e].table = [i \in 1..n |-> [encoded |-> Len(body(i)),
                                         content |-> Len(Piece(e, i)), hash |-> body(i)]]
    BY <1>1, <1>2, <2>1 DEF Piece
  <2> QED
    BY <1>5, <2>2
<1> QED
  BY <1>4, <1>5

(* Damage leaves the header of the span as it is.                           *)
LEMMA BlobTable ==
  ASSUME NEW e \in EKey, NEW s
  PROVE  /\ Blob(e, s).table = Span[e].table
         /\ s \notin {"cut", "flipped"} => Blob(e, s).data = Span[e].data
         /\ s = "cut" => Blob(e, s).data = SubSeq(Span[e].data, 1, Len(Span[e].data) - 1)
         /\ s = "flipped" => Blob(e, s).data = [Span[e].data EXCEPT ![Len(Span[e].data)] = B!Noise]
<1>1. DOMAIN Span[e] = {"table", "data"}
  BY DEF Span, B!Encode
<1> QED
  BY <1>1 DEF Blob

LEMMA TableShape ==
  ASSUME NEW e \in EKey, NEW s
  PROVE  LET n == Len(Packing[e].locks)
             t == B!FrameTable(Blob(e, s))
         IN /\ Len(t) = n /\ Len(B!FrameTable(Span[e])) = n
            /\ Packing[e].opts.single =>
                 t = <<[encoded |-> Len(Blob(e, s).data), content |-> 0, hash |-> B!NoHash]>>
            /\ ~Packing[e].opts.single =>
                 \A i \in 1..n : /\ t[i].content = Len(Piece(e, i)) /\ t[i].encoded \in Nat
                                 /\ t[i].hash = B!Seal(Frame(e, i), Packing[e].locks[i], i)
<1> DEFINE n == Len(Packing[e].locks)
           body(i) == B!Seal(Frame(e, i), Packing[e].locks[i], i)
           t == B!FrameTable(Blob(e, s))
<1>1. n \in Nat /\ n >= 1 /\ (Packing[e].opts.single => n = 1)
  BY PieceTypes
<1>2. CASE Packing[e].opts.single
  <2>1. Span[e].table = B!NoTable /\ Blob(e, s).table = B!NoTable
    BY <1>2, SpanShape, BlobTable
  <2>2. /\ t = <<[encoded |-> Len(Blob(e, s).data), content |-> 0, hash |-> B!NoHash]>>
        /\ Len(B!FrameTable(Span[e])) = 1
    BY <2>1 DEF B!FrameTable
  <2>3. Len(t) = 1
    BY <2>2
  <2> HIDE DEF n, t
  <2> QED
    BY <1>1, <1>2, <2>2, <2>3 DEF n, t
<1>3. CASE ~Packing[e].opts.single
  <2> DEFINE table == [i \in 1..n |-> [encoded |-> Len(body(i)), content |-> Len(Piece(e, i)),
                                       hash |-> body(i)]]
  <2>1. Span[e].table = table /\ Blob(e, s).table = table
    BY <1>3, SpanShape, BlobTable
  <2>2. Len(table) = n /\ table # B!NoTable
    BY <1>1 DEF B!NoTable
  <2>3. t = table /\ B!FrameTable(Span[e]) = table
    <3> HIDE DEF table
    <3> QED
      BY <2>1, <2>2 DEF B!FrameTable
  <2>4. ASSUME NEW i \in 1..n PROVE Len(body(i)) \in Nat
    <3>1. /\ Frame(e, i) \in Seq(Plain) /\ Packing[e].locks[i] \in Seq(KeyName) /\ i \in Nat
      BY <2>4, FrameIs, PieceTypes
    <3> QED
      BY <3>1, SealShape
  <2>5. \A i \in 1..n : /\ table[i].content = Len(Piece(e, i)) /\ table[i].encoded \in Nat
                        /\ table[i].hash = body(i)
    BY <2>4
  <2> HIDE DEF n, t, table
  <2> QED
    BY <1>3, <2>2, <2>3, <2>5 DEF n, t
<1> QED
  BY <1>2, <1>3

LEMMA SealFull ==
  ASSUME NEW b \in Seq(Plain), NEW ks \in Seq(KeyName), NEW i \in Nat
  PROVE  SubSeq(B!Seal(b, ks, i), 1, Len(B!Seal(b, ks, i))) = B!Seal(b, ks, i)
<1> DEFINE s == B!Seal(b, ks, i)
           n == 2 * Len(ks) + Len(b)
           S == {s[j] : j \in 1..n}
<1>1. n \in Nat /\ Len(s) = n /\ s = [j \in 1..n |-> s[j]]
  BY SealShape DEF B!Seal
<1> HIDE DEF s, n
<1>2. \A j \in 1..n : s[j] \in S
  OBVIOUS
<1> HIDE DEF S
<1>3. s \in Seq(S)
  BY <1>1, <1>2, SMTT(60)
<1> QED
  BY <1>3, SubSeqFull DEF s

LEMMA BareBlob ==
  ASSUME NEW e \in EKey, NEW s, Packing[e].opts.single
  PROVE  LET ks == Packing[e].locks[1]
         IN \E b \in Seq(Plain) :
              /\ Blob(e, s).data = B!Seal(b, ks, 1) /\ SubSeq(Blob(e, s).data, 1, Len(Blob(e, s).data)) = B!Seal(b, ks, 1)
              /\ s = "intact" => b = Frame(e, 1)
<1> DEFINE ks == Packing[e].locks[1]
           f == Frame(e, 1)
<1>1. 1 \in 1..Len(Packing[e].locks)
  BY PieceTypes
<1>2. ks \in Seq(KeyName) /\ f \in Seq(Plain) /\ Len(f) >= 1
  BY <1>1, PieceTypes, FrameIs
<1>3. Span[e].data = B!Seal(f, ks, 1)
  BY SpanShape
<1> HIDE DEF f, ks
<1>4. \E b \in Seq(Plain) : Blob(e, s).data = B!Seal(b, ks, 1) /\ (s = "intact" => b = f)
  <2>1. CASE s = "cut"
    <3>1. \E b \in Seq(Plain) :
            SubSeq(Span[e].data, 1, Len(Span[e].data) - 1) = B!Seal(b, ks, 1)
      BY <1>2, <1>3, SealCut
    <3>2. Blob(e, s).data = SubSeq(Span[e].data, 1, Len(Span[e].data) - 1)
      BY <2>1, BlobTable
    <3> QED
      BY <2>1, <3>1, <3>2
  <2>2. CASE s = "flipped"
    <3>1. \E b \in Seq(Plain) :
            [Span[e].data EXCEPT ![Len(Span[e].data)] = B!Noise] = B!Seal(b, ks, 1)
      BY <1>2, <1>3, SealFlip
    <3>2. Blob(e, s).data = [Span[e].data EXCEPT ![Len(Span[e].data)] = B!Noise]
      BY <2>2, BlobTable
    <3> QED
      BY <2>2, <3>1, <3>2
  <2>3. CASE s \notin {"cut", "flipped"}
    BY <1>2, <1>3, <2>3, BlobTable
  <2> QED
    BY <2>1, <2>2, <2>3
<1> QED
  BY <1>2, <1>4, SealFull DEF f, ks

(* What decodeStep is given first: the sealed frame as it was written when  *)
(* there is a hash to compare it with; otherwise it may be damaged.         *)
LEMMA FrameReads ==
  ASSUME NEW e \in EKey, NEW s, NEW i \in 1..Len(Packing[e].locks), NEW cursor,
         Packing[e].opts.single => cursor = 0,
         B!FrameError(Blob(e, s), i, cursor) = "none"
  PROVE  \E b \in Seq(Plain) :
           /\ B!Encoded(Blob(e, s), i, cursor) = B!Seal(b, Packing[e].locks[i], i)
           /\ s = "intact" \/ ~Packing[e].opts.single => b = Frame(e, i)
<1>1. CASE Packing[e].opts.single
  <2>1. i = 1 /\ cursor = 0
    BY <1>1, PieceTypes
  <2>2. B!FrameTable(Blob(e, s))[1].encoded = Len(Blob(e, s).data)
    BY <1>1, TableShape
  <2>3. PICK b \in Seq(Plain) :
          /\ SubSeq(Blob(e, s).data, 1, Len(Blob(e, s).data)) = B!Seal(b, Packing[e].locks[1], 1)
          /\ Blob(e, s).data = B!Seal(b, Packing[e].locks[1], 1)
          /\ s = "intact" => b = Frame(e, 1)
    BY <1>1, BareBlob
  <2>4. Len(Blob(e, s).data) \in Nat
    <3>1. Packing[e].locks[1] \in Seq(KeyName)
      BY <2>1, PieceTypes
    <3> QED
      BY <2>3, <3>1, SealShape
  <2>5. B!Encoded(Blob(e, s), i, cursor) = SubSeq(Blob(e, s).data, 1, Len(Blob(e, s).data))
    BY <2>1, <2>2, <2>4 DEF B!Encoded
  <2> QED
    BY <1>1, <2>1, <2>3, <2>5
<1>2. CASE ~Packing[e].opts.single
  <2> DEFINE f == B!Seal(Frame(e, i), Packing[e].locks[i], i)
  <2>1. B!FrameTable(Blob(e, s))[i].hash = f
    BY <1>2, TableShape
  <2>2. Frame(e, i) \in Seq(Plain) /\ Len(Frame(e, i)) >= 1 /\ Packing[e].locks[i] \in Seq(KeyName)
    BY FrameIs, PieceTypes
  <2>3. f # B!NoHash
    <3>1. Len(f) = 2 * Len(Packing[e].locks[i]) + Len(Frame(e, i))
      BY <2>2, SealShape
    <3>2. Len(f) > 0
      BY <2>2, <3>1
    <3> HIDE DEF f
    <3> QED
      BY <3>2 DEF B!NoHash
  <2> HIDE DEF f
  <2>4. B!Encoded(Blob(e, s), i, cursor) = f
    BY <2>1, <2>3 DEF B!FrameError
  <2> QED
    BY <2>2, <2>4 DEF f
<1> QED
  BY <1>1, <1>2

------------------------------------------------------------------------------
(* decodeStep on what is left of a frame under the first m of its keys.      *)
LEMMA KeysBelow ==
  ASSUME NEW ks \in Seq(KeyName), NEW m \in 1..Len(ks), NEW pre, pre = SubSeq(ks, 1, m)
  PROVE  /\ pre \in Seq(KeyName) /\ pre # <<>> /\ pre[Len(pre)] = ks[m] /\ ks[m] \in ToSet(ks)
         /\ ks[m] \in KeyName /\ Front(pre) = SubSeq(ks, 1, m - 1)
<1> DEFINE n == Len(ks)
<1>1. n \in Nat /\ m \in 1..n /\ (\A j \in 1..n : ks[j] \in KeyName) /\ DOMAIN ks = 1..n
  OBVIOUS
<1> HIDE DEF n
<1>2. \A j \in 1..m : ks[j] \in KeyName
  BY <1>1
<1>3. /\ pre \in Seq(KeyName) /\ Len(pre) = m /\ \A j \in 1..m : pre[j] = ks[j]
  <2>1. /\ pre \in Seq(KeyName) /\ Len(pre) = IF 1 <= m THEN m - 1 + 1 ELSE 0
        /\ \A j \in 1..(m - 1 + 1) : pre[j] = ks[1 + j - 1]
    BY <1>1, <1>2, SubSeqProperties
  <2> QED
    BY <1>1, <2>1
<1>4. Front(pre) = SubSeq(ks, 1, m - 1)
  <2>1. /\ Front(pre) \in Seq(KeyName) /\ Len(Front(pre)) = m - 1
        /\ \A j \in 1..(m - 1) : Front(pre)[j] = ks[j]
    <3>1. pre # <<>>
      BY <1>1, <1>3
    <3>2. /\ Front(pre) \in Seq(KeyName) /\ Len(Front(pre)) = Len(pre) - 1
          /\ \A j \in 1..(Len(pre) - 1) : Front(pre)[j] = pre[j]
      BY <1>3, <3>1, FrontShape
    <3> QED
      BY <1>1, <1>3, <3>2
  <2> DEFINE low == SubSeq(ks, 1, m - 1)
  <2>2. \A j \in 1..(m - 1) : ks[j] \in KeyName
    BY <1>1
  <2>3. /\ low \in Seq(KeyName) /\ Len(low) = IF 1 <= m - 1 THEN (m - 1) - 1 + 1 ELSE 0
        /\ \A j \in 1..((m - 1) - 1 + 1) : low[j] = ks[1 + j - 1]
    BY <1>1, <2>2, SubSeqProperties
  <2> HIDE DEF low
  <2>4. Len(low) = m - 1 /\ \A j \in 1..(m - 1) : low[j] = ks[j]
    BY <1>1, <2>3
  <2>5. Front(pre) = low
    BY <2>1, <2>3, <2>4, SeqEqual
  <2> QED
    BY <2>5 DEF low
<1>5. ks[m] \in ToSet(ks)
  BY <1>1 DEF ToSet
<1> QED
  BY <1>1, <1>3, <1>4, <1>5

LEMMA ZerosType == \A n \in Nat : B!Zeros(n) \in Seq(Plain) /\ B!Zeros(0) = <<>>
<1>1. B!ZeroByte \in Plain
  BY DEF Plain, B!ZeroByte, B!Byte
<1> QED
  BY <1>1 DEF B!Zeros

(* A frame that is not sealed, or not any more.                             *)
LEMMA PlainStep ==
  ASSUME NEW e \in EKey, NEW i \in 1..Len(Packing[e].locks), NEW b \in Seq(Plain), NEW fr,
         fr.content = 0 \/ fr.content = Len(Piece(e, i)), NEW depth, NEW kv, NEW over,
         NEW r \in B!DecodeStep(fr, i, b, depth, kv, over)
  PROVE  \/ r.end \in {"corrupt", "badformat", "unsupported"}
         \/ r.end = "none" /\ r.out \in Seq(Plain) /\ (b = Frame(e, i) => r.out = Piece(e, i))
<1>1. CASE depth > B!MaxDepth
  BY <1>1 DEF B!DecodeStep, B!Fail
<1>2. CASE ~(depth > B!MaxDepth) /\ b = <<>>
  BY <1>2 DEF B!DecodeStep, B!Fail
<1>3. CASE ~(depth > B!MaxDepth) /\ b # <<>>
  <2>1. b[1] \in Plain /\ b[1] # B!Mode("E")
    BY <1>3, NoHeader
  <2>2. B!Mode("N") # B!Mode("Z") /\ B!Mode("N") # B!Mode("E") /\ B!Mode("Z") # B!Mode("E")
    BY DEF B!Mode
  <2>3. CASE b[1] = B!Mode("N")
    <3>1. r = B!Out(Tail(b))
      BY <1>3, <2>2, <2>3 DEF B!DecodeStep
    <3>2. Tail(b) \in Seq(Plain)
      BY <1>3, HeadTailProperties
    <3>3. b = Frame(e, i) => Tail(b) = Piece(e, i)
      BY <2>2, <2>3, FrameIs
    <3> QED
      BY <3>1, <3>2, <3>3 DEF B!Out
  <2>4. CASE b[1] = B!Mode("Z") /\ Len(b) = 2 /\ b[2][1] = "deflated"
    <3> DEFINE out == b[2][2]
    <3>1. r = B!Out(out \o B!Zeros(B!Max({0, fr.content - Len(out)})))
      BY <1>3, <2>2, <2>4 DEF B!DecodeStep
    <3>2. out \in Seq(B!Byte) /\ out \in Seq(Plain)
      <4> HIDE DEF out
      <4>1. b[2] \in Plain
        <5>1. \A j \in 1..Len(b) : b[j] \in Plain
          OBVIOUS
        <5> QED
          BY <2>4, <5>1
      <4> DEFINE x == b[2]
      <4> HIDE DEF x
      <4>2. x \in {<<"deflated", chunk>> : chunk \in Seq(B!Byte)}
        <5>1. x[1] = "deflated" /\ x \in Plain
          BY <2>4, <4>1 DEF x
        <5>2. x \notin B!Byte
          BY <5>1 DEF B!Byte
        <5>3. x \notin {B!Noise, B!Mode("N"), B!Mode("Z")}
          BY <5>1 DEF B!Noise, B!Mode
        <5> QED
          BY <5>1, <5>2, <5>3 DEF Plain
      <4> USE DEF x, out
      <4>3. out \in Seq(B!Byte)
        BY <4>2
      <4> QED
        BY <4>3, SeqMonotonic DEF Plain
    <3>3. Piece(e, i) \in Seq(B!Byte)
      BY PieceTypes
    <3>4. fr.content - Len(out) \in Int
      BY <3>2, <3>3, SMTT(60)
    <3> DEFINE more == B!Max({0, fr.content - Len(out)})
    <3>5. /\ more \in Nat /\ (fr.content - Len(out) <= 0 => more = 0)
      BY <3>4, Extremes
    <3>6. out \o B!Zeros(more) \in Seq(Plain)
      BY <3>2, <3>5, ZerosType, ConcatProperties
    <3>7. b = Frame(e, i) => out \o B!Zeros(more) = Piece(e, i)
      <4> SUFFICES ASSUME b = Frame(e, i) PROVE out \o B!Zeros(more) = Piece(e, i)
        OBVIOUS
      <4>1. out = Piece(e, i)
        BY <2>2, <2>4, FrameIs
      <4>2. fr.content - Len(out) <= 0
        BY <3>3, <4>1
      <4>3. B!Zeros(more) = <<>>
        BY <3>5, <4>2, ZerosType
      <4> HIDE DEF out, more
      <4> QED
        BY <3>2, <4>1, <4>3, ConcatEmptySeq
    <3> HIDE DEF out, more
    <3> QED
      BY <3>1, <3>6, <3>7 DEF B!Out, more
  <2>5. CASE b[1] = B!Mode("Z") /\ ~(Len(b) = 2 /\ b[2][1] = "deflated")
    BY <1>3, <2>2, <2>5 DEF B!DecodeStep, B!Fail
  <2>6. CASE b[1] \notin {B!Mode("N"), B!Mode("Z")}
    BY <1>3, <2>1, <2>6 DEF B!DecodeStep, B!Fail
  <2> QED
    BY <2>3, <2>4, <2>5, <2>6
<1> QED
  BY <1>1, <1>2, <1>3

(* A wrong key leaves nothing of a frame.                                   *)
LEMMA WrongKey ==
  ASSUME NEW b \in Seq(Plain), NEW ks \in Seq(KeyName), NEW i \in Nat, ks # <<>>, NEW k,
         NEW s, s = B!Seal(b, ks, i), NEW c \in B!Unseal(SubSeq(s, 3, Len(s)), k, "wrong", i)
  PROVE  c \in Seq(Plain)
<1> DEFINE n == 2 * Len(ks) + Len(b)
           t == SubSeq(s, 3, Len(s))
           S == {s[j] : j \in 1..n}
<1>1. n \in Nat /\ n >= 2 /\ Len(s) = n
  BY SealShape
<1> HIDE DEF n
<1>2. \A j \in 3..n : s[j] \in S
  BY <1>1
<1> HIDE DEF S
<1>3. t \in Seq(S)
  BY <1>1, <1>2, SubSeqProperties
<1> HIDE DEF t
<1>4. PICK first \in {B!Noise, B!Mode("N")} : c = [j \in DOMAIN t |-> IF j = 1 THEN first ELSE B!Noise]
  BY DEF B!Unseal, t
<1>5. first \in Plain /\ B!Noise \in Plain
  BY DEF Plain
<1>6. Len(t) \in Nat /\ DOMAIN t = 1..Len(t)
  BY <1>3
<1> QED
  BY <1>4, <1>5, <1>6

(* What a call of decodeStep says of what is under the seals: it ends with   *)
(* an error, for want of a key or not, or opens a seal, or ends.            *)
StepEnds(r, b, e, i, ks, fr, depth, kv, over) ==
  \/ r.end \in {"corrupt", "badformat", "unsupported"}
  \/ r.end = "encrypted" /\ ~over /\ \E k \in ToSet(ks) : kv[k] = "none"
  \/ /\ r.end = "sealed" /\ depth <= B!MaxDepth
     /\ \E c \in Seq(Plain), l \in 0..Len(ks) :
          /\ r.out = B!Seal(c, SubSeq(ks, 1, l), i)
          /\ c = b \/ \E k \in ToSet(ks) : kv[k] = "wrong"
  \/ /\ r.end = "none" /\ r.out \in Seq(Plain)
     /\ \/ over /\ r.out = B!Zeros(fr.content) /\ \E k \in ToSet(ks) : kv[k] = "none"
        \/ b = Frame(e, i) => r.out = Piece(e, i)

LEMMA StepGives ==
  ASSUME NEW e \in EKey, NEW i \in 1..Len(Packing[e].locks), NEW b \in Seq(Plain),
         NEW ks, ks = Packing[e].locks[i], NEW m \in 0..Len(ks),
         NEW fr, fr.content = 0 \/ fr.content = Len(Piece(e, i)), NEW depth \in Nat,
         NEW kv, \A k \in KeyName : kv[k] \in KeyValue, NEW over,
         NEW r \in B!DecodeStep(fr, i, B!Seal(b, SubSeq(ks, 1, m), i), depth, kv, over)
  PROVE  StepEnds(r, b, e, i, ks, fr, depth, kv, over)
<1> USE DEF StepEnds
<1> DEFINE n == Len(ks)
<1>1. /\ ks \in Seq(KeyName) /\ n \in Nat /\ m \in 0..n /\ i \in Nat
      /\ Piece(e, i) \in Seq(B!Byte) /\ fr.content \in Nat
  BY PieceTypes
<1>2. CASE m = 0
  <2>1. SubSeq(ks, 1, m) = <<>>
    BY <1>1, <1>2
  <2>2. r \in B!DecodeStep(fr, i, b, depth, kv, over)
    BY <1>1, <2>1, SealNone
  <2> QED
    BY <2>2, PlainStep
<1>3. CASE m > 0 /\ depth > B!MaxDepth
  BY <1>3 DEF B!DecodeStep, B!Fail
<1>4. CASE m > 0 /\ ~(depth > B!MaxDepth)
  <2>1. PICK pre : pre = SubSeq(ks, 1, m)
    OBVIOUS
  <2>2. /\ pre \in Seq(KeyName) /\ pre # <<>> /\ pre[Len(pre)] = ks[m] /\ ks[m] \in ToSet(ks)
        /\ ks[m] \in KeyName /\ Front(pre) = SubSeq(ks, 1, m - 1)
    <3>1. m \in 1..Len(ks)
      BY <1>1, <1>4
    <3> QED
      BY <1>1, <2>1, <3>1, KeysBelow, ZenonT(60)
  <2>3. PICK s : s = B!Seal(b, pre, i)
    OBVIOUS
  <2>4. s[1] = B!Mode("E") /\ s[2] = <<"key", ks[m]>> /\ s # <<>>
    <3>1. s[1] = B!Mode("E") /\ s[2] = <<"key", ks[m]>>
      BY <1>1, <2>2, <2>3, SealHead
    <3>2. DOMAIN s = 1..(2 * Len(pre) + Len(b)) /\ Len(pre) \in Nat \ {0} /\ Len(b) \in Nat
      BY <1>1, <2>2, <2>3, SealShape
    <3>3. 1 \in DOMAIN s
      BY <3>2
    <3> QED
      BY <3>1, <3>3
  <2> DEFINE k == ks[m]
  <2>5. r \in IF kv[k] # "none" THEN {B!Sealed(c) : c \in B!Unseal(SubSeq(s, 3, Len(s)), k, kv[k], i)}
              ELSE B!KeyMissing(fr, over)
    <3>1. B!Mode("E") # B!Mode("N") /\ B!Mode("E") # B!Mode("Z") /\ s[2][2] = k
      BY <2>4 DEF B!Mode
    <3>2. r \in B!DecodeStep(fr, i, s, depth, kv, over)
      BY <2>1, <2>3
    <3> HIDE DEF k
    <3> QED
      BY <1>4, <2>4, <3>1, <3>2 DEF B!DecodeStep
  <2>6. k \in ToSet(ks) /\ k \in KeyName /\ k = pre[Len(pre)]
    BY <2>2
  <2> HIDE DEF k
  <2>7. CASE kv[k] = "none"
    <3>1. r \in B!KeyMissing(fr, over)
      BY <2>5, <2>7
    <3>2. CASE over
      <4>1. r = B!Out(B!Zeros(fr.content))
        BY <3>1, <3>2 DEF B!KeyMissing
      <4>2. B!Zeros(fr.content) \in Seq(Plain)
        BY <1>1, ZerosType
      <4> QED
        BY <2>6, <2>7, <3>2, <4>1, <4>2 DEF B!Out
    <3>3. CASE ~over
      BY <2>6, <2>7, <3>1, <3>3 DEF B!KeyMissing, B!Fail
    <3> QED
      BY <3>2, <3>3
  <2>8. ASSUME kv[k] # "none"
        PROVE  \E c \in B!Unseal(SubSeq(s, 3, Len(s)), k, kv[k], i) : r.end = "sealed" /\ r.out = c
    BY <2>5, <2>8 DEF B!Sealed
  <2>9. depth <= B!MaxDepth
    BY <1>4 DEF B!MaxDepth
  <2>10. CASE kv[k] = "right"
    <3>1. B!Unseal(SubSeq(s, 3, Len(s)), k, "right", i) = {B!Seal(b, Front(pre), i)}
      BY <1>1, <2>2, <2>3, <2>6, SealOpens
    <3>2. r.end = "sealed" /\ r.out = B!Seal(b, SubSeq(ks, 1, m - 1), i)
      BY <2>2, <2>8, <2>10, <3>1
    <3>3. m - 1 \in 0..Len(ks)
      BY <1>1, <1>4
    <3> QED
      BY <2>9, <3>2, <3>3
  <2>11. CASE kv[k] = "wrong"
    <3>1. PICK c \in B!Unseal(SubSeq(s, 3, Len(s)), k, "wrong", i) : r.end = "sealed" /\ r.out = c
      BY <2>8, <2>11
    <3>2. c \in Seq(Plain)
      BY <1>1, <2>2, <2>3, <3>1, WrongKey
    <3>3. 0 \in 0..Len(ks) /\ SubSeq(ks, 1, 0) = <<>>
      BY <1>1
    <3>4. c = B!Seal(c, SubSeq(ks, 1, 0), i)
      BY <1>1, <3>2, <3>3, SealNone
    <3> QED
      BY <2>6, <2>9, <2>11, <3>1, <3>2, <3>3, <3>4
  <2> QED
    BY <2>6, <2>7, <2>10, <2>11 DEF KeyValue
<1> QED
  BY <1>1, <1>2, <1>3, <1>4

------------------------------------------------------------------------------
(* Content that is put together frame by frame.                             *)
LEMMA Joined ==
  ASSUME NEW s \in Seq(Plain), NEW t \in Seq(Plain)
  PROVE  /\ s \o t \in Seq(Plain) /\ Len(s \o t) = Len(s) + Len(t)
         /\ \A x, y \in 0..Len(s) : SubSeq(s \o t, x + 1, y) = SubSeq(s, x + 1, y)
         /\ SubSeq(s \o t, Len(s) + 1, Len(s) + Len(t)) = t
<1> DEFINE u == s \o t
           m == Len(s)
           n == Len(t)
<1>1. /\ u \in Seq(Plain) /\ Len(u) = m + n /\ m \in Nat /\ n \in Nat
      /\ \A i \in 1..(m + n) : u[i] = IF i <= m THEN s[i] ELSE t[i - m]
  BY ConcatProperties
<1>2. (\A i \in 1..m : s[i] \in Plain) /\ \A i \in 1..n : t[i] \in Plain
  OBVIOUS
<1> HIDE DEF u, m, n
<1>3. ASSUME NEW x \in 0..m, NEW y \in 0..m PROVE SubSeq(u, x + 1, y) = SubSeq(s, x + 1, y)
  <2> DEFINE a == SubSeq(u, x + 1, y)
             b == SubSeq(s, x + 1, y)
             l == IF x + 1 <= y THEN y - (x + 1) + 1 ELSE 0
  <2>1. /\ x + 1 \in Int /\ y \in Int
        /\ \A i \in (x + 1)..y : u[i] = s[i] /\ u[i] \in Plain /\ s[i] \in Plain
    BY <1>1, <1>2
  <2>2. /\ a \in Seq(Plain) /\ Len(a) = l
        /\ \A i \in 1..(y - (x + 1) + 1) : a[i] = u[(x + 1) + i - 1]
    BY <2>1, SubSeqProperties
  <2>3. /\ b \in Seq(Plain) /\ Len(b) = l
        /\ \A i \in 1..(y - (x + 1) + 1) : b[i] = s[(x + 1) + i - 1]
    BY <2>1, SubSeqProperties
  <2> HIDE DEF a, b
  <2>4. \A i \in 1..Len(a) : a[i] = b[i]
    BY <2>1, <2>2, <2>3
  <2>5. a = b
    BY <2>2, <2>3, <2>4, SeqEqual
  <2> QED
    BY <2>5 DEF a, b
<1>4. SubSeq(u, m + 1, m + n) = t
  <2> DEFINE a == SubSeq(u, m + 1, m + n)
  <2>1. m + 1 \in Int /\ m + n \in Int /\ \A i \in (m + 1)..(m + n) : u[i] \in Plain
    BY <1>1, <1>2
  <2>2. /\ a \in Seq(Plain)
        /\ Len(a) = IF m + 1 <= m + n THEN (m + n) - (m + 1) + 1 ELSE 0
        /\ \A i \in 1..((m + n) - (m + 1) + 1) : a[i] = u[(m + 1) + i - 1]
    BY <2>1, SubSeqProperties
  <2> HIDE DEF a
  <2>3. Len(a) = n /\ \A i \in 1..Len(a) : a[i] = t[i]
    BY <1>1, <2>2
  <2>4. a = t
    BY <2>2, <2>3, SeqEqual DEF n
  <2> QED
    BY <2>4 DEF a
<1>5. u \in Seq(Plain) /\ Len(u) = m + n
  BY <1>1
<1> QED
  BY <1>3, <1>4, <1>5 DEF u, m, n

LEMMA AssembledNone ==
  ASSUME NEW c, c.out = <<>>
  PROVE  Assembled(c, 0)
<1> DEFINE end == [i \in 0..0 |-> 0]
<1>1. end \in [0..0 -> 0..Len(c.out)] /\ end[0] = 0 /\ Len(c.out) = 0
  OBVIOUS
<1>2. \A i \in 1..0 : FALSE
  OBVIOUS
<1> HIDE DEF end
<1> QED
  BY <1>1, <1>2 DEF Assembled

LEMMA AssembledNext ==
  ASSUME NEW c, NEW d, NEW n \in Nat \ {0}, NEW bytes \in Seq(Plain), c.out \in Seq(Plain),
         Assembled(c, n - 1), bytes \in FrameGives(c, n),
         d.ekey = c.ekey, d.seen = c.seen, d.out = c.out \o bytes
  PROVE  Assembled(d, n)
<1> DEFINE s == c.out
           u == d.out
<1>1. PICK end \in [0..(n - 1) -> 0..Len(s)] :
        /\ end[0] = 0 /\ end[n - 1] = Len(s)
        /\ \A i \in 1..(n - 1) : /\ end[i - 1] <= end[i]
                                 /\ SubSeq(s, end[i - 1] + 1, end[i]) \in FrameGives(c, i)
  BY DEF Assembled
<1>2. \A i : FrameGives(d, i) = FrameGives(c, i)
  BY DEF FrameGives, Saw
<1>3. /\ Len(u) = Len(s) + Len(bytes) /\ Len(s) \in Nat /\ Len(bytes) \in Nat
      /\ \A x, y \in 0..Len(s) : SubSeq(u, x + 1, y) = SubSeq(s, x + 1, y)
      /\ SubSeq(u, Len(s) + 1, Len(s) + Len(bytes)) = bytes
  <2>1. /\ Len(s \o bytes) = Len(s) + Len(bytes)
        /\ \A x, y \in 0..Len(s) : SubSeq(s \o bytes, x + 1, y) = SubSeq(s, x + 1, y)
        /\ SubSeq(s \o bytes, Len(s) + 1, Len(s) + Len(bytes)) = bytes
    BY Joined
  <2>2. u = s \o bytes /\ Len(s) \in Nat /\ Len(bytes) \in Nat
    OBVIOUS
  <2> HIDE DEF s, u
  <2> QED
    BY <2>1, <2>2
<1> DEFINE last == [i \in 0..n |-> IF i = n THEN Len(s) + Len(bytes) ELSE end[i]]
<1> HIDE DEF s, u
<1>4. last \in [0..n -> 0..Len(u)]
  BY <1>1, <1>3
<1>5. last[0] = 0 /\ last[n] = Len(u) /\ last[n - 1] = Len(s)
  BY <1>1, <1>3
<1>6. ASSUME NEW i \in 1..n
      PROVE  last[i - 1] <= last[i] /\ SubSeq(u, last[i - 1] + 1, last[i]) \in FrameGives(d, i)
  <2>1. CASE i = n
    <3>1. last[i] = Len(s) + Len(bytes) /\ last[i - 1] = Len(s)
      BY <1>5, <2>1
    <3>2. bytes \in FrameGives(d, i)
      BY <1>2, <2>1
    <3> HIDE DEF last
    <3>3. SubSeq(u, last[i - 1] + 1, last[i]) = bytes
      BY <1>3, <3>1
    <3>4. last[i - 1] <= last[i]
      BY <1>3, <3>1
    <3> QED
      BY <3>2, <3>3, <3>4
  <2>2. CASE i # n
    <3>1. /\ i \in 1..(n - 1) /\ last[i] = end[i] /\ last[i - 1] = end[i - 1]
          /\ end[i] \in 0..Len(s) /\ end[i - 1] \in 0..Len(s)
      BY <1>1, <2>2, SMTT(60)
    <3> HIDE DEF last
    <3> QED
      BY <1>1, <1>2, <1>3, <3>1
  <2> QED
    BY <2>1, <2>2
<1> HIDE DEF last
<1>7. Assembled(d, n)
  BY <1>4, <1>5, <1>6 DEF Assembled, u
<1> QED
  BY <1>7

(* What a call has seen of the registry only grows.                         *)
LEMMA SeenGrows ==
  ASSUME NEW c, NEW d, c.ekey \in EKey, d.ekey = c.ekey, d.from = c.from, d.out = c.out,
         \A k \in KeyName : c.seen[k] \subseteq d.seen[k]
  PROVE  /\ \A i \in Frames(c.ekey) : \A v : Saw(c, i, v) => Saw(d, i, v)
         /\ Vouched(d) => Vouched(c)
         /\ \A n \in 0..Len(Packing[c.ekey].locks) : Assembled(c, n) => Assembled(d, n)
<1> DEFINE e == c.ekey
<1>1. \A i \in Frames(e) : ToSet(Packing[e].locks[i]) \subseteq KeyName
  <2> SUFFICES ASSUME NEW i \in Frames(e) PROVE ToSet(Packing[e].locks[i]) \subseteq KeyName
    OBVIOUS
  <2>1. Packing[e].locks[i] \in Seq(KeyName)
    BY PieceTypes
  <2> QED
    BY <2>1 DEF ToSet
<1>2. \A i \in Frames(e) : \A v : Saw(c, i, v) => Saw(d, i, v)
  BY <1>1 DEF Saw
<1>3. Vouched(d) => Vouched(c)
  BY <1>2 DEF Vouched
<1>4. \A i \in Frames(e) : FrameGives(c, i) \subseteq FrameGives(d, i)
  BY <1>2 DEF FrameGives
<1>5. ASSUME NEW n \in 0..Len(Packing[e].locks), Assembled(c, n) PROVE Assembled(d, n)
  <2>1. \A i \in 1..n : i \in Frames(e)
    BY <1>5, PieceTypes
  <2>2. PICK end \in [0..n -> 0..Len(c.out)] :
          /\ end[0] = 0 /\ end[n] = Len(c.out)
          /\ \A i \in 1..n : /\ end[i - 1] <= end[i]
                             /\ SubSeq(c.out, end[i - 1] + 1, end[i]) \in FrameGives(c, i)
    BY <1>5 DEF Assembled
  <2>3. /\ end \in [0..n -> 0..Len(d.out)] /\ end[0] = 0 /\ end[n] = Len(d.out)
        /\ \A i \in 1..n : /\ end[i - 1] <= end[i]
                           /\ SubSeq(d.out, end[i - 1] + 1, end[i]) \in FrameGives(d, i)
    BY <1>4, <2>1, <2>2
  <2> QED
    BY <2>3 DEF Assembled
<1> QED
  BY <1>2, <1>3, <1>5

------------------------------------------------------------------------------
(* What a call holds in its hands, on top of LookupInv.                     *)
Decodes == {"decode", "step"}

Typed(c) == /\ c.pc \in PCs /\ c.op \in Op \cup {"none", "close"}
            /\ c.status \in Errors \cup {"none", "ok", "eof"} /\ c.from \in {"none"} \cup Condition
            /\ c.pc \notin {"locate", "remote"} => c.ekey \in EKey \cup {NoKey}
            /\ c.frame \in Nat \ {0} /\ c.depth \in 0..(B!MaxDepth + 1) /\ c.todo \subseteq Name
            /\ c.out \in Seq(Plain) /\ c.pos \in Nat /\ c.base \in Nat /\ DOMAIN c.seen = KeyName

InFile(c) == /\ c.base <= c.pos /\ (c.pos <= Len(c.out) \/ c.pos = c.base)
             /\ c.got = SubSeq(c.out, c.base + 1, c.pos)
             /\ c.pc # "file" => c.pos = 0 /\ c.base = 0

SeesKeys(c) == Runs(c) => \A k \in KeyName : keys[k] \in c.seen[k]

(* The frame in hand is under the first of its keys, and it is the one the  *)
(* publisher wrote, unless nothing vouches for it.                          *)
Peeled(c) ==
  LET ks == Packing[c.ekey].locks[c.frame]
  IN \E b \in Seq(Plain), m \in 0..Len(ks) :
       /\ c.cells = B!Seal(b, SubSeq(ks, 1, m), c.frame)
       /\ Vouched(c) => b = Frame(c.ekey, c.frame)

Decoding(c) ==
  /\ c.pc \in {"pool", "local", "file"} \cup Decodes => c.ekey \in EKey
  /\ c.pc \notin Decodes => c.frame = 1 /\ c.cursor = 0
  /\ c.pc \notin Decodes \cup {"file"} => c.out = <<>>
  /\ c.frame = 1 => c.cursor = 0
  /\ c.pc \in Decodes => /\ c.frame <= Len(Packing[c.ekey].locks)
                         /\ Vouched(c) => Assembled(c, c.frame - 1)
  /\ c.pc = "step" => Peeled(c)
  /\ c.pc = "file" /\ Vouched(c) => Assembled(c, Len(Packing[c.ekey].locks))

Refused(c) == c.status = "encrypted" => /\ c.pc = "idle" /\ c.ekey \in EKey /\ ~opts.overcome
                                        /\ \E i \in Frames(c.ekey) : Saw(c, i, "none")

StoreOK == /\ phase \in {"created", "encoding", "root", "open", "closing", "closed"} /\ encoding \in BOOLEAN
           /\ opts.overcome \in BOOLEAN /\ opts.online \in BOOLEAN
           /\ keys \in [KeyName -> KeyValue]
BytesOK(c) == Typed(c) /\ InFile(c) /\ SeesKeys(c) /\ Decoding(c) /\ Refused(c)
BytesInv   == StoreOK /\ \A p \in Proc : BytesOK(call[p])

LEMMA IdleFresh ==
  /\ Idle.frame = 1 /\ Idle.cursor = 0 /\ Idle.depth = 0 /\ Idle.from = "none" /\ Idle.ekey = NoKey
  /\ Idle.out = <<>> /\ Idle.pos = 0 /\ Idle.base = 0 /\ Idle.got = <<>> /\ Idle.todo = {}
  /\ Idle.seen = [k \in KeyName |-> {}]
  BY DEF Idle

LEMMA NothingRead == SubSeq(<<>>, 1, 0) = <<>> /\ <<>> \in Seq(Plain) /\ Len(<<>>) = 0
  OBVIOUS

(* A call that has not come to a span yet, or has ended.                    *)
LEMMA FreshBytes ==
  ASSUME NEW c, Typed(c), SeesKeys(c), Refused(c),
         c.frame = 1, c.cursor = 0, c.out = <<>>, c.pos = 0, c.base = 0, c.got = <<>>,
         c.pc \notin Decodes \cup {"file"}, c.pc \in {"pool", "local"} => c.ekey \in EKey
  PROVE  BytesOK(c)
<1>1. InFile(c)
  BY NothingRead DEF InFile
<1>2. Decoding(c)
  BY DEF Decoding, Decodes
<1> QED
  BY <1>1, <1>2 DEF BytesOK

LEMMA IdleBytes == BytesOK(Idle)
<1>1. Typed(Idle) /\ SeesKeys(Idle) /\ Refused(Idle)
  BY IdleValues, IdleFresh, NothingRead
     DEF Typed, SeesKeys, Refused, Runs, PCs, Errors, B!MaxDepth
<1> QED
  BY <1>1, IdleValues, IdleFresh, FreshBytes DEF Decodes

LEMMA ClosingBytes ==
  ASSUME NEW c, c.pc = "close", c.op = "close", c.status = "none", c.seen = [k \in KeyName |-> {}],
         c.frame = 1, c.cursor = 0, c.depth = 0, c.from = "none", c.ekey = NoKey,
         c.out = <<>>, c.pos = 0, c.base = 0, c.got = <<>>, c.todo = {}
  PROVE  BytesOK(c)
<1>1. Typed(c) /\ SeesKeys(c) /\ Refused(c)
  BY NothingRead DEF Typed, SeesKeys, Refused, Runs, PCs, B!MaxDepth
<1> QED
  BY <1>1, FreshBytes DEF Decodes

LEMMA InitBytes == Init => BytesInv
<1> SUFFICES ASSUME Init PROVE BytesInv
  OBVIOUS
<1>1. StoreOK
  BY CallsAssumption DEF Init, StoreOK, KeyValue
<1>2. \A p \in Proc : BytesOK(call[p])
  BY IdleBytes DEF Init
<1> QED
  BY <1>1, <1>2 DEF BytesInv

(* Of the storage, what a call holds depends on the options and the keys.    *)
LEMMA KeysBytes ==
  ASSUME NEW q \in Proc, opts' = opts, SeesKeys(call[q])',
         Typed(call'[q]), InFile(call'[q]), Decoding(call'[q]), Refused(call'[q])
  PROVE  BytesOK(call[q])'
<1>1. Peeled(call[q])' = Peeled(call'[q])
  BY DEF Peeled, Vouched, Saw
<1>2. Decoding(call[q])'
  BY <1>1, ZenonT(60) DEF Decoding, Vouched, Saw, Assembled, FrameGives
<1> QED
  BY <1>2 DEF BytesOK, Typed, InFile, Refused, Saw

LEMMA StaysBytes ==
  ASSUME NEW q \in Proc, BytesOK(call'[q]), opts' = opts, keys' = keys
  PROVE  BytesOK(call[q])'
<1>1. SeesKeys(call[q])'
  BY DEF BytesOK, SeesKeys, Runs
<1> QED
  BY <1>1, KeysBytes DEF BytesOK

(* A step of one call, which leaves the storage alone.                      *)
LEMMA SetBytes ==
  ASSUME BytesInv, ApiInv, NEW p \in Proc, NEW c, BytesOK(c), Set(p, c)
  PROVE  BytesInv'
<1>1. StoreOK'
  BY DEF BytesInv, StoreOK, Set, stored
<1>2. ASSUME NEW q \in Proc PROVE BytesOK(call[q])'
  <2>1. call'[q] = IF q = p THEN c ELSE call[q]
    BY DEF Set, ApiInv, CallsOK
  <2>2. BytesOK(call'[q])
    BY <2>1 DEF BytesInv
  <2> QED
    BY <2>2, StaysBytes DEF Set, stored
<1> QED
  BY <1>1, <1>2 DEF BytesInv

LEMMA BytesType ==
  ASSUME BytesInv, NEW p \in Proc
  PROVE  BytesOK(call[p])
  BY DEF BytesInv

LEMMA ReturnBytes ==
  ASSUME BytesInv, LookupInv, ApiInv, NEW p \in Proc, NEW status \in Errors \cup {"none", "ok"},
         NEW c \in {Ends(call[p], status), [Ends(call[p], status) EXCEPT !.pc = "panic"]}, Set(p, c),
         status = "encrypted" =>
           /\ c.pc = "idle" /\ call[p].ekey \in EKey /\ ~opts.overcome
           /\ \E i \in Frames(call[p].ekey) : Saw(call[p], i, "none")
  PROVE  BytesInv'
<1> DEFINE o == call[p]
           e == Ends(o, status)
<1>1. BytesOK(o)
  BY BytesType
<1>2. /\ DOMAIN e = DOMAIN Idle /\ e.op = o.op /\ e.status = status /\ e.pc = "idle"
      /\ e.ekey = IF status = "encrypted" THEN o.ekey ELSE NoKey
      /\ e.seen = IF status = "encrypted" THEN o.seen ELSE [k \in KeyName |-> {}]
      /\ e.frame = 1 /\ e.cursor = 0 /\ e.depth = 0 /\ e.from = "none" /\ e.todo = {}
      /\ e.out = <<>> /\ e.pos = 0 /\ e.base = 0 /\ e.got = <<>>
  BY Fields, IdleValues, IdleFresh DEF Ends
<1> HIDE DEF e
<1>3. /\ c.op = o.op /\ c.status = status /\ c.pc \in {"idle", "panic"}
      /\ c.ekey = e.ekey /\ c.seen = e.seen
      /\ c.frame = 1 /\ c.cursor = 0 /\ c.depth = 0 /\ c.from = "none" /\ c.todo = {}
      /\ c.out = <<>> /\ c.pos = 0 /\ c.base = 0 /\ c.got = <<>>
  BY <1>2, Fields DEF e
<1>4. Typed(c)
  BY <1>1, <1>2, <1>3, NothingRead DEF BytesOK, Typed, PCs, B!MaxDepth
<1>5. SeesKeys(c)
  BY <1>3 DEF SeesKeys, Runs
<1>6. Refused(c)
  BY <1>2, <1>3 DEF Refused, Saw
<1>7. BytesOK(c)
  BY <1>3, <1>4, <1>5, <1>6, FreshBytes DEF Decodes
<1> QED
  BY <1>7, SetBytes

(* From one place to the next before the span is read.                      *)
Before == {"enter", "known", "locate", "pool", "local", "remote", "walk", "visit", "count", "features"}
Kept   == {"op", "status", "from", "frame", "cursor", "depth", "out", "pos", "base", "got", "seen"}

LEMMA MovesBytes ==
  ASSUME BytesInv, ApiInv, NEW p \in Proc, NEW c, Set(p, c),
         call[p].pc \in Before, c.pc \in Before, \A f \in Kept : c[f] = call[p][f],
         c.todo \subseteq Name, c.pc \in {"pool", "local"} => c.ekey \in EKey,
         c.pc \notin {"locate", "remote"} => c.ekey \in EKey \cup {NoKey}
  PROVE  BytesInv'
<1> DEFINE o == call[p]
<1>1. BytesOK(o)
  BY BytesType
<1>2. /\ c.op = o.op /\ c.status = o.status /\ c.from = o.from /\ c.frame = o.frame
      /\ c.cursor = o.cursor /\ c.depth = o.depth /\ c.out = o.out /\ c.pos = o.pos
      /\ c.base = o.base /\ c.got = o.got /\ c.seen = o.seen
  BY DEF Kept
<1>3. Typed(c)
  BY <1>1, <1>2 DEF BytesOK, Typed, PCs, Before
<1>4. InFile(c) /\ SeesKeys(c) /\ Refused(c)
  BY <1>1, <1>2 DEF BytesOK, InFile, SeesKeys, Refused, Runs, Before
<1>5. Decoding(c)
  BY <1>1, <1>2 DEF BytesOK, Decoding, Decodes, Before
<1> QED
  BY <1>3, <1>4, <1>5, SetBytes DEF BytesOK

LEMMA StartBytes ==
  ASSUME BytesInv, ApiInv, NEW p \in Proc, NEW o \in Op, NEW arg, Start(p, o, arg)
  PROVE  BytesInv'
<1> DEFINE seen == [k \in KeyName |-> {keys[k]}]
           c == [Idle EXCEPT !.pc = "enter", !.op = o, !.arg = arg,
                             !.closed = phase \in Closing, !.seen = seen]
<1>1. Set(p, c)
  BY DEF Start
<1>2. DOMAIN seen = KeyName /\ \A k \in KeyName : keys[k] \in seen[k]
  OBVIOUS
<1> HIDE DEF seen
<1>3. /\ c.pc = "enter" /\ c.op = o /\ c.status = "none" /\ c.seen = seen
      /\ c.frame = 1 /\ c.cursor = 0 /\ c.depth = 0 /\ c.from = "none" /\ c.ekey = NoKey
      /\ c.out = <<>> /\ c.pos = 0 /\ c.base = 0 /\ c.got = <<>> /\ c.todo = {}
  BY Fields, IdleValues, IdleFresh
<1> HIDE DEF c
<1>4. Typed(c) /\ SeesKeys(c) /\ Refused(c)
  BY <1>2, <1>3, NothingRead DEF Typed, SeesKeys, Refused, PCs, B!MaxDepth
<1>5. BytesOK(c)
  BY <1>3, <1>4, FreshBytes DEF Decodes
<1> QED
  BY <1>1, <1>5, SetBytes

LEMMA LoadBytes ==
  ASSUME BytesInv, LoadEncoding \/ LoadRoot
  PROVE  BytesInv'
<1>1. /\ UNCHANGED <<opts, keys, call>> /\ encoding' \in BOOLEAN /\ phase' \in {"root", "open"}
  BY DEF BytesInv, StoreOK, LoadEncoding, LoadRoot, Loads
<1>2. StoreOK'
  BY <1>1 DEF BytesInv, StoreOK
<1>3. ASSUME NEW q \in Proc PROVE BytesOK(call[q])'
  BY <1>1, StaysBytes DEF BytesInv
<1> QED
  BY <1>2, <1>3 DEF BytesInv

LEMMA CancelBytes == ASSUME BytesInv, LookupInv, ApiInv, NEW p \in Proc, Cancel(p) PROVE BytesInv'
<1> DEFINE o == call[p]
           c == [o EXCEPT !.ctx = "cancelled"]
<1>1. Set(p, c) /\ BytesOK(o) /\ DOMAIN o = DOMAIN Idle
  BY BytesType, LookupType DEF Cancel
<1>2. \A f \in DOMAIN Idle \ {"ctx"} : c[f] = o[f]
  BY <1>1
<1>3. /\ c.pc = o.pc /\ c.op = o.op /\ c.status = o.status /\ c.from = o.from
      /\ c.frame = o.frame /\ c.cursor = o.cursor /\ c.depth = o.depth /\ c.out = o.out
      /\ c.pos = o.pos /\ c.base = o.base /\ c.got = o.got /\ c.seen = o.seen
      /\ c.ekey = o.ekey /\ c.cells = o.cells /\ c.todo = o.todo
  BY <1>2, Fields
<1> HIDE DEF c, o
<1>4. Typed(c) /\ InFile(c) /\ SeesKeys(c) /\ Refused(c)
  BY <1>1, <1>3 DEF BytesOK, Typed, InFile, SeesKeys, Refused, Runs, Saw
<1>5. Vouched(c) = Vouched(o) /\ \A n : Assembled(c, n) = Assembled(o, n)
  BY <1>3 DEF Vouched, Assembled, FrameGives, Saw
<1>6. Peeled(o) => Peeled(c)
  BY <1>3, <1>5 DEF Peeled
<1>7. Decoding(c)
  BY <1>1, <1>3, <1>5, <1>6 DEF BytesOK, Decoding
<1> QED
  BY <1>1, <1>4, <1>7, SetBytes DEF BytesOK, c

LEMMA ReturnsBytes ==
  ASSUME BytesInv, LookupInv, ApiInv, NEW p \in Proc,
         \/ Panic(p)
         \/ \E status \in (Errors \cup {"ok"}) \ {"encrypted"} : Return(p, status)
  PROVE  BytesInv'
<1>1. CASE Panic(p)
  BY <1>1, ReturnBytes DEF Panic
<1>2. CASE \E status \in (Errors \cup {"ok"}) \ {"encrypted"} : Return(p, status)
  BY <1>2, ReturnBytes DEF Return
<1> QED
  BY <1>1, <1>2

LEMMA LocateBytes ==
  ASSUME BytesInv, LookupInv, ApiInv, NEW p \in Proc, NEW e, Locate(p, e), call[p].pc \in Before
  PROVE  BytesInv'
<1> DEFINE o == call[p]
           c == [o EXCEPT !.pc = "locate", !.ekey = e]
<1>1. Set(p, c) /\ DOMAIN o = DOMAIN Idle /\ BytesOK(o)
  BY LookupType, BytesType DEF Locate
<1>2. c.pc = "locate" /\ c.todo = o.todo /\ \A f \in Kept : c[f] = o[f]
  BY <1>1, Fields DEF Kept
<1> HIDE DEF c
<1> QED
  BY <1>1, <1>2, MovesBytes DEF Before, BytesOK, Typed

LEMMA HoldsBytes ==
  ASSUME BytesInv, LookupInv, ApiInv, NEW p \in Proc, NEW pc \in {"known", "count", "features"},
         call[p].pc \in Before \ {"locate", "remote"}, Set(p, [call[p] EXCEPT !.pc = pc])
  PROVE  BytesInv'
<1> DEFINE o == call[p]
           c == [o EXCEPT !.pc = pc]
<1>1. Set(p, c) /\ DOMAIN o = DOMAIN Idle /\ BytesOK(o)
  BY LookupType, BytesType
<1>2. c.pc = pc /\ c.todo = o.todo /\ c.ekey = o.ekey /\ \A f \in Kept : c[f] = o[f]
  BY <1>1, Fields DEF Kept
<1> HIDE DEF c
<1> QED
  BY <1>1, <1>2, MovesBytes DEF Before, BytesOK, Typed

LEMMA EnterBytes ==
  ASSUME BytesInv, LookupInv, ApiInv, NEW p \in Proc,
         \/ EnterCancelled(p) \/ EnterCreated(p) \/ FindByName(p) \/ FindByCKey(p) \/ ByEKey(p)
         \/ TestRoot(p) \/ LookupByFileDataID(p) \/ GetInfo(p)
  PROVE  BytesInv'
<1>1. call[p].pc \in Before \ {"locate", "remote"}
  BY DEF EnterCancelled, EnterCreated, FindByName, FindByCKey, ByEKey, TestRoot, Enters,
         LookupByFileDataID, GetInfo, At, Before
<1>2. \/ Panic(p)
      \/ \E status \in (Errors \cup {"ok"}) \ {"encrypted"} : Return(p, status)
      \/ \E e : Locate(p, e)
      \/ \E pc \in {"known", "count", "features"} : Set(p, [call[p] EXCEPT !.pc = pc])
  <2>1. CASE EnterCancelled(p) \/ EnterCreated(p)
    BY <2>1 DEF EnterCancelled, EnterCreated, Errors
  <2>2. CASE FindByName(p) \/ FindByCKey(p) \/ ByEKey(p)
    BY <2>2 DEF FindByName, FindByCKey, ByEKey, Errors
  <2>3. CASE TestRoot(p) \/ LookupByFileDataID(p)
    BY <2>3 DEF TestRoot, LookupByFileDataID, Errors
  <2>4. CASE GetInfo(p)
    BY <2>4 DEF GetInfo
  <2> QED
    BY <2>1, <2>2, <2>3, <2>4
<1> QED
  BY <1>1, <1>2, ReturnsBytes, LocateBytes, HoldsBytes

LEMMA FindBytes ==
  ASSUME BytesInv, LookupInv, ApiInv, NEW p \in Proc, Find(p)
  PROVE  BytesInv'
<1> DEFINE o == call[p]
<1>1. BytesOK(o) /\ DOMAIN o = DOMAIN Idle
  BY BytesType, LookupType
<1>2. ASSUME NEW c, Set(p, c), o.pc \in {"known", "walk", "visit"}, c.pc \in {"walk", "visit"},
             c.ekey = o.ekey, c.todo \subseteq Name, \A f \in Kept : c[f] = o[f]
      PROVE  BytesInv'
  BY <1>1, <1>2, MovesBytes DEF Before, BytesOK, Typed
<1>3. CASE FindEncoding(p)
  <2> DEFINE c == [o EXCEPT !.pc = "walk", !.enc = encoding]
  <2>1. Set(p, c) /\ o.pc = "known"
    BY <1>3 DEF FindEncoding, At
  <2>2. c.pc = "walk" /\ c.ekey = o.ekey /\ c.todo \subseteq Name /\ \A f \in Kept : c[f] = o[f]
    BY <1>1, Fields DEF Kept, BytesOK, Typed
  <2> HIDE DEF c
  <2> QED
    BY <1>2, <2>1, <2>2
<1>4. CASE FindWalk(p) /\ root # NoRoot
  <2> DEFINE c == [o EXCEPT !.pc = "visit", !.todo = DOMAIN root]
  <2>1. Set(p, c) /\ o.pc = "walk" /\ DOMAIN root \subseteq Name
    BY <1>4, TablesAssumption DEF FindWalk, At, LookupInv, BuildOK
  <2>2. c.pc = "visit" /\ c.ekey = o.ekey /\ c.todo = DOMAIN root /\ \A f \in Kept : c[f] = o[f]
    BY <1>1, Fields DEF Kept
  <2> HIDE DEF c
  <2> QED
    BY <1>2, <2>1, <2>2
<1>5. CASE FindWalk(p) /\ root = NoRoot
  BY <1>5, ReturnsBytes DEF FindWalk
<1>6. CASE FindDone(p)
  BY <1>6, ReturnsBytes DEF FindDone, Errors
<1>7. ASSUME NEW n \in Name, FindVisit(p, n) PROVE BytesInv'
  <2> DEFINE rest(more) == IF more THEN o.todo \ {n} ELSE {}
  <2>0. PICK more \in BOOLEAN :
          \E found : Set(p, [o EXCEPT !.todo = rest(more), !.found = found])
    BY <1>7 DEF FindVisit
  <2>1. PICK found : Set(p, [o EXCEPT !.todo = rest(more), !.found = found])
    BY <2>0
  <2> DEFINE todo == rest(more)
             c == [o EXCEPT !.todo = todo, !.found = found]
  <2>2. o.pc = "visit"
    BY <1>7 DEF FindVisit, At
  <2>3. c.pc = "visit" /\ c.ekey = o.ekey /\ c.todo = todo /\ \A f \in Kept : c[f] = o[f]
    BY <1>1, <2>2, Fields DEF Kept
  <2>4. Set(p, c) /\ todo \subseteq o.todo
    BY <2>1
  <2> HIDE DEF c, todo
  <2> QED
    BY <1>1, <1>2, <2>2, <2>3, <2>4 DEF BytesOK, Typed
<1> QED
  BY <1>3, <1>4, <1>5, <1>6, <1>7 DEF Find

(* From the encoded key to the first frame.                                 *)
LEMMA SpanBytes ==
  ASSUME BytesInv, LookupInv, ApiInv, NEW p \in Proc,
         \/ FindByEKey(p) \/ ArchivePool(p) \/ ReadSpan(p) \/ ReadSpanFails(p)
         \/ Fetch(p) \/ FetchFails(p)
  PROVE  BytesInv'
<1> DEFINE o == call[p]
<1>1. BytesOK(o) /\ LookupOK(o) /\ DOMAIN o = DOMAIN Idle
  BY BytesType, LookupType
<1>2. CASE \E status \in (Errors \cup {"ok"}) \ {"encrypted"} : Return(p, status)
  BY <1>2, ReturnsBytes
<1>3. ASSUME NEW pc \in {"pool", "local", "remote"}, Set(p, [o EXCEPT !.pc = pc]),
             o.pc \in {"locate", "pool"}, pc # "remote" => o.ekey \in EKey
      PROVE  BytesInv'
  <2> DEFINE c == [o EXCEPT !.pc = pc]
  <2>1. c.pc = pc /\ c.todo = o.todo /\ c.ekey = o.ekey /\ \A f \in Kept : c[f] = o[f]
    BY <1>1, Fields DEF Kept
  <2>2. Set(p, c)
    BY <1>3
  <2> HIDE DEF c
  <2> QED
    BY <1>1, <1>3, <2>1, <2>2, MovesBytes DEF Before, BytesOK, Typed
<1>4. ASSUME NEW from \in Condition, Has(p, from), o.pc \in {"local", "remote"}, o.ekey \in EKey
      PROVE  BytesInv'
  <2> DEFINE c == [o EXCEPT !.pc = "decode", !.from = from]
  <2>1. Set(p, c)
    BY <1>4 DEF Has
  <2>2. /\ c.pc = "decode" /\ c.op = o.op /\ c.status = o.status /\ c.from = from
        /\ c.frame = o.frame /\ c.cursor = o.cursor /\ c.depth = o.depth /\ c.out = o.out
        /\ c.pos = o.pos /\ c.base = o.base /\ c.got = o.got /\ c.seen = o.seen
        /\ c.ekey = o.ekey /\ c.todo = o.todo
    BY <1>1, Fields
  <2> HIDE DEF c
  <2>3. Typed(c)
    BY <1>1, <1>4, <2>2 DEF BytesOK, Typed, PCs
  <2>4. InFile(c) /\ SeesKeys(c) /\ Refused(c)
    BY <1>1, <1>4, <2>2 DEF BytesOK, InFile, SeesKeys, Refused, Runs
  <2>5. Decoding(c)
    <3>1. c.frame = 1 /\ c.cursor = 0 /\ c.out = <<>>
      BY <1>1, <1>4, <2>2 DEF BytesOK, Decoding, Decodes
    <3>2. Assembled(c, 0)
      BY <3>1, AssembledNone
    <3>3. Len(Packing[c.ekey].locks) \in Nat /\ Len(Packing[c.ekey].locks) >= 1
      BY <1>4, <2>2, PieceTypes
    <3>4. c.frame - 1 = 0 /\ c.frame <= Len(Packing[c.ekey].locks)
      BY <3>1, <3>3
    <3> QED
      BY <1>4, <2>2, <3>1, <3>2, <3>4 DEF Decoding, Decodes
  <2> QED
    BY <2>1, <2>3, <2>4, <2>5, SetBytes DEF BytesOK
<1>5. CASE FindByEKey(p)
  <2>1. ekeys \subseteq EKey
    BY DEF LookupInv, BuildOK
  <2> QED
    BY <1>2, <1>3, <1>5, <2>1 DEF FindByEKey, Elsewhere, At, Errors
<1>9. CASE ArchivePool(p)
  <2>1. o.pc = "pool" /\ o.ekey \in EKey
    BY <1>1, <1>9 DEF ArchivePool, At, BytesOK, Decoding
  <2> QED
    BY <1>2, <1>3, <1>9, <2>1 DEF ArchivePool, Elsewhere, Errors
<1>6. CASE ReadSpan(p)
  <2>1. o.pc = "local" /\ o.ekey \in EKey
    BY <1>1, <1>6 DEF ReadSpan, At, BytesOK, Decoding
  <2>2. build.disk[o.ekey] \in Condition
    BY <2>1, SpansAssumption DEF LookupInv, BuildOK
  <2> QED
    BY <1>4, <1>6, <2>1, <2>2 DEF ReadSpan
<1>7. CASE Fetch(p)
  <2>1. o.pc = "remote" /\ o.ekey # NoKey
    BY <1>7 DEF Fetch, At
  <2>2. o.ekey = Resolved(o) /\ Resolved(o) \in EKey \cup {NoKey}
    BY <1>1, <2>1, ResolvedKey DEF LookupOK, Located, Reading
  <2> QED
    BY <1>4, <1>7, <2>1, <2>2 DEF Fetch, Condition
<1>8. CASE ReadSpanFails(p) \/ FetchFails(p)
  BY <1>2, <1>8 DEF ReadSpanFails, FetchFails, Errors
<1> QED
  BY <1>5, <1>6, <1>7, <1>8, <1>9

LEMMA DecodeFrameBytes ==
  ASSUME BytesInv, LookupInv, ApiInv, NEW p \in Proc, DecodeFrame(p)
  PROVE  BytesInv'
<1> DEFINE o == call[p]
           e == o.ekey
           i == o.frame
           error == B!FrameError(Stream(p), i, o.cursor)
           cells == B!Encoded(Stream(p), i, o.cursor)
           c == [o EXCEPT !.pc = "step", !.depth = 0, !.cells = cells]
<1>1. BytesOK(o) /\ DOMAIN o = DOMAIN Idle /\ o.pc = "decode"
  BY BytesType, LookupType DEF DecodeFrame, At
<1>2. /\ e \in EKey /\ i \in 1..Len(Packing[e].locks) /\ (i = 1 => o.cursor = 0)
      /\ Stream(p) = Blob(e, o.from)
  <2>1. e \in EKey /\ i <= Len(Packing[e].locks) /\ (i = 1 => o.cursor = 0) /\ i \in Nat \ {0}
    BY <1>1 DEF BytesOK, Decoding, Typed, Decodes
  <2>2. Len(Packing[e].locks) \in Nat
    BY <2>1, PieceTypes
  <2> HIDE DEF e, i
  <2> QED
    BY <2>1, <2>2 DEF Stream, e
<1>3. CASE error # "none"
  <2>1. Return(p, error) /\ error = "corrupt"
    BY <1>3 DEF DecodeFrame, B!FrameError
  <2> QED
    BY <2>1, ReturnsBytes DEF Errors
<1>4. CASE error = "none"
  <2>1. Set(p, c)
    BY <1>4 DEF DecodeFrame
  <2> HIDE DEF error, cells
  <2>2. /\ c.pc = "step" /\ c.op = o.op /\ c.status = o.status /\ c.from = o.from
        /\ c.frame = o.frame /\ c.cursor = o.cursor /\ c.depth = 0 /\ c.out = o.out
        /\ c.pos = o.pos /\ c.base = o.base /\ c.got = o.got /\ c.seen = o.seen
        /\ c.ekey = o.ekey /\ c.todo = o.todo /\ c.cells = cells
    BY <1>1, Fields
  <2> HIDE DEF c
  <2>3. Typed(c)
    BY <1>1, <2>2 DEF BytesOK, Typed, PCs, B!MaxDepth
  <2>4. InFile(c) /\ SeesKeys(c) /\ Refused(c)
    BY <1>1, <2>2 DEF BytesOK, InFile, SeesKeys, Refused, Runs
  <2>5. Vouched(c) = Vouched(o) /\ \A n : Assembled(c, n) = Assembled(o, n)
    BY <2>2 DEF Vouched, Assembled, FrameGives, Saw
  <2>6. Peeled(c)
    <3> DEFINE ks == Packing[e].locks[i]
    <3>1. PICK b \in Seq(Plain) :
            /\ cells = B!Seal(b, ks, i)
            /\ o.from = "intact" \/ ~Packing[e].opts.single => b = Frame(e, i)
      <4>1. Packing[e].opts.single => o.cursor = 0
        BY <1>2, PieceTypes
      <4>2. B!FrameError(Blob(e, o.from), i, o.cursor) = "none"
        BY <1>2, <1>4 DEF error
      <4>3. \E b \in Seq(Plain) :
              /\ B!Encoded(Blob(e, o.from), i, o.cursor) = B!Seal(b, ks, i)
              /\ o.from = "intact" \/ ~Packing[e].opts.single => b = Frame(e, i)
        BY <1>2, <4>1, <4>2, FrameReads
      <4> QED
        BY <1>2, <4>3 DEF cells
    <3>2. ks \in Seq(KeyName)
      BY <1>2, PieceTypes
    <3> HIDE DEF ks
    <3>3. SubSeq(ks, 1, Len(ks)) = ks /\ Len(ks) \in 0..Len(ks)
      BY <3>2, SubSeqFull
    <3>4. Vouched(c) => b = Frame(e, i)
      BY <2>2, <3>1 DEF Vouched
    <3>5. c.cells = B!Seal(b, SubSeq(ks, 1, Len(ks)), c.frame)
      BY <2>2, <3>1, <3>3
    <3> QED
      BY <2>2, <3>3, <3>4, <3>5 DEF Peeled, ks
  <2>7. Decoding(c)
    BY <1>1, <2>2, <2>5, <2>6 DEF BytesOK, Decoding, Decodes
  <2> QED
    BY <2>1, <2>3, <2>4, <2>7, SetBytes DEF BytesOK
<1> QED
  BY <1>3, <1>4

(* The bytes of a frame, put behind those of the frames before it: the last  *)
(* frame makes a File.                                                      *)
LEMMA FrameDoneBytes ==
  ASSUME BytesInv, LookupInv, ApiInv, NEW p \in Proc, call[p].pc = "step",
         NEW bytes \in Seq(Plain), FrameDone(p, bytes),
         Vouched(call[p]) => bytes \in FrameGives(call[p], call[p].frame)
  PROVE  BytesInv'
<1> DEFINE o == call[p]
           e == o.ekey
           n == Len(Packing[e].locks)
           i == o.frame
           out == o.out \o bytes
<1>1. BytesOK(o) /\ DOMAIN o = DOMAIN Idle
  BY BytesType, LookupType
<1>2. /\ e \in EKey /\ i \in 1..n /\ n \in Nat /\ Len(B!FrameTable(Stream(p))) = n
      /\ o.out \in Seq(Plain) /\ out \in Seq(Plain)
  <2>1. e \in EKey /\ i <= n /\ i \in Nat \ {0} /\ o.out \in Seq(Plain)
    BY <1>1 DEF BytesOK, Decoding, Typed, Decodes
  <2>2. n \in Nat /\ Len(B!FrameTable(Stream(p))) = n
    BY <2>1, PieceTypes, TableShape DEF Stream
  <2>3. out \in Seq(Plain)
    BY <2>1, ConcatProperties
  <2> HIDE DEF e, i, n, out
  <2> QED
    BY <2>1, <2>2, <2>3
<1>3. Vouched(o) => Assembled(o, i - 1)
  BY <1>1 DEF BytesOK, Decoding, Decodes
<1>4. ASSUME NEW c, c.ekey = o.ekey, c.seen = o.seen, c.from = o.from, c.out = out
      PROVE  Vouched(c) => Assembled(c, i)
  <2> SUFFICES ASSUME Vouched(c) PROVE Assembled(c, i)
    OBVIOUS
  <2>1. Vouched(o)
    BY <1>4 DEF Vouched, Saw
  <2>2. i \in Nat \ {0}
    BY <1>2
  <2> QED
    BY <1>2, <1>3, <1>4, <2>1, <2>2, AssembledNext
<1>5. CASE i = n
  <2> DEFINE c == Opened(o, out)
  <2>1. Set(p, c)
    BY <1>2, <1>5 DEF FrameDone
  <2>2. /\ c.pc = "file" /\ c.op = o.op /\ c.status = "ok" /\ c.from = o.from /\ c.ekey = o.ekey
        /\ c.seen = o.seen /\ c.out = out /\ c.frame = 1 /\ c.cursor = 0 /\ c.depth = 0
        /\ c.pos = 0 /\ c.base = 0 /\ c.got = <<>> /\ c.todo = {}
    <3> HIDE DEF out
    <3> QED
      BY Fields, IdleFresh DEF Opened, Ends
  <2> HIDE DEF c, out
  <2>3. Typed(c)
    BY <1>1, <1>2, <2>2 DEF BytesOK, Typed, PCs, B!MaxDepth
  <2>4. InFile(c)
    <3>1. SubSeq(out, 1, 0) = <<>> /\ Len(out) \in Nat
      BY <1>2, SubSeqEmpty
    <3> QED
      BY <2>2, <3>1 DEF InFile
  <2>5. SeesKeys(c) /\ Refused(c)
    BY <2>2 DEF SeesKeys, Refused, Runs
  <2>6. Decoding(c)
    BY <1>2, <1>4, <1>5, <2>2 DEF Decoding, Decodes
  <2> QED
    BY <2>1, <2>3, <2>4, <2>5, <2>6, SetBytes DEF BytesOK
<1>6. CASE i # n
  <2> DEFINE c == NextFrame(p, out)
  <2>1. Set(p, c)
    BY <1>2, <1>6 DEF FrameDone
  <2>2. /\ c.pc = "decode" /\ c.op = o.op /\ c.status = o.status /\ c.from = o.from
        /\ c.frame = i + 1 /\ c.depth = o.depth /\ c.out = out
        /\ c.pos = o.pos /\ c.base = o.base /\ c.got = o.got /\ c.seen = o.seen
        /\ c.ekey = o.ekey /\ c.todo = o.todo
    <3> HIDE DEF out
    <3> QED
      BY <1>1, Fields DEF NextFrame
  <2> HIDE DEF c, out
  <2>3. Typed(c)
    BY <1>1, <1>2, <2>2 DEF BytesOK, Typed, PCs
  <2>4. InFile(c) /\ SeesKeys(c) /\ Refused(c)
    <3>1. SubSeq(out, 1, 0) = <<>> /\ SubSeq(o.out, 1, 0) = <<>> /\ Len(out) \in Nat
      BY <1>2, SubSeqEmpty
    <3>2. o.pos = 0 /\ o.base = 0 /\ o.got = <<>>
      BY <1>1, <3>1 DEF BytesOK, InFile
    <3>3. InFile(c)
      BY <2>2, <3>1, <3>2 DEF InFile
    <3> QED
      BY <1>1, <2>2, <3>3 DEF BytesOK, SeesKeys, Refused, Runs
  <2>5. Decoding(c)
    <3>1. Vouched(c) => Assembled(c, c.frame - 1)
      <4>1. c.frame - 1 = i
        BY <1>2, <2>2
      <4> QED
        BY <1>4, <2>2, <4>1
    <3>2. c.frame # 1 /\ c.frame <= n
      BY <1>2, <1>6, <2>2
    <3> QED
      BY <1>2, <2>2, <3>1, <3>2 DEF Decoding, Decodes
  <2> QED
    BY <2>1, <2>3, <2>4, <2>5, SetBytes DEF BytesOK
<1> QED
  BY <1>5, <1>6

LEMMA DecodeStepBytes ==
  ASSUME BytesInv, LookupInv, ApiInv, NEW p \in Proc, DecodeStep(p)
  PROVE  BytesInv'
<1> DEFINE o == call[p]
           e == o.ekey
           i == o.frame
           ks == Packing[e].locks[i]
           fr == B!FrameTable(Stream(p))[i]
<1>1. BytesOK(o) /\ DOMAIN o = DOMAIN Idle /\ o.pc = "step"
  BY BytesType, LookupType DEF DecodeStep, At
<1>2. e \in EKey /\ i \in 1..Len(Packing[e].locks) /\ i \in Frames(e)
  <2>1. e \in EKey /\ i <= Len(Packing[e].locks) /\ i \in Nat \ {0}
    BY <1>1 DEF BytesOK, Decoding, Typed, Decodes
  <2>2. Len(Packing[e].locks) \in Nat /\ Frames(e) = 1..Len(Packing[e].locks)
    BY <2>1, PieceTypes
  <2> HIDE DEF e, i
  <2> QED
    BY <2>1, <2>2
<1>3. fr.content = IF Packing[e].opts.single THEN 0 ELSE Len(Piece(e, i))
  <2>1. Stream(p) = Blob(e, o.from)
    BY DEF Stream
  <2>2. CASE Packing[e].opts.single
    <3>1. i = 1
      BY <1>2, <2>2, PieceTypes
    <3>2. B!FrameTable(Blob(e, o.from)) =
            <<[encoded |-> Len(Blob(e, o.from).data), content |-> 0, hash |-> B!NoHash]>>
      BY <1>2, <2>2, TableShape
    <3> QED
      BY <2>1, <2>2, <3>1, <3>2
  <2>3. CASE ~Packing[e].opts.single
    <3>1. \A j \in 1..Len(Packing[e].locks) :
            B!FrameTable(Blob(e, o.from))[j].content = Len(Piece(e, j))
      BY <1>2, <2>3, TableShape
    <3> QED
      BY <1>2, <2>1, <2>3, <3>1
  <2> QED
    BY <2>2, <2>3
<1>4. PICK b \in Seq(Plain), m \in 0..Len(ks) :
        /\ o.cells = B!Seal(b, SubSeq(ks, 1, m), i)
        /\ Vouched(o) => b = Frame(e, i)
  BY <1>1 DEF BytesOK, Decoding, Peeled
<1>5. PICK r \in B!DecodeStep(fr, i, o.cells, o.depth, keys, opts.overcome) :
        CASE r.end = "none"   -> FrameDone(p, r.out)
          [] r.end = "sealed" -> Set(p, [o EXCEPT !.cells = r.out, !.depth = @ + 1])
          [] OTHER            -> Return(p, r.end)
  BY DEF DecodeStep
<1>6. /\ o.depth \in 0..(B!MaxDepth + 1) /\ keys \in [KeyName -> KeyValue] /\ opts.overcome \in BOOLEAN
      /\ \A k \in KeyName : keys[k] \in o.seen[k]
  BY <1>1 DEF BytesOK, Typed, BytesInv, StoreOK, SeesKeys, Runs
<1>7. ks \in Seq(KeyName) /\ ToSet(ks) \subseteq KeyName
  <2>1. ks \in Seq(KeyName)
    BY <1>2, PieceTypes
  <2> HIDE DEF ks
  <2> QED
    BY <2>1 DEF ToSet
<1> HIDE DEF fr
<1>8. \A v : (\E k \in ToSet(ks) : keys[k] = v) => Saw(o, i, v)
  BY <1>6, <1>7 DEF Saw
<1>9. \/ r.end \in {"corrupt", "badformat", "unsupported"}
      \/ r.end = "encrypted" /\ ~opts.overcome /\ \E k \in ToSet(ks) : keys[k] = "none"
      \/ /\ r.end = "sealed" /\ o.depth <= B!MaxDepth
         /\ \E c \in Seq(Plain), l \in 0..Len(ks) :
              /\ r.out = B!Seal(c, SubSeq(ks, 1, l), i)
              /\ c = b \/ \E k \in ToSet(ks) : keys[k] = "wrong"
      \/ /\ r.end = "none" /\ r.out \in Seq(Plain)
         /\ \/ opts.overcome /\ r.out = B!Zeros(fr.content) /\ \E k \in ToSet(ks) : keys[k] = "none"
            \/ b = Frame(e, i) => r.out = Piece(e, i)
  <2>1. (fr.content = 0 \/ fr.content = Len(Piece(e, i))) /\ o.depth \in Nat
    BY <1>3, <1>6 DEF B!MaxDepth
  <2>2. r \in B!DecodeStep(fr, i, B!Seal(b, SubSeq(ks, 1, m), i), o.depth, keys, opts.overcome)
    BY <1>4, <1>5
  <2>3. /\ e \in EKey /\ i \in 1..Len(Packing[e].locks) /\ ks = Packing[e].locks[i]
        /\ b \in Seq(Plain) /\ m \in 0..Len(ks)
        /\ \A k \in KeyName : keys[k] \in KeyValue
    BY <1>2, <1>4, <1>6
  <2> DEFINE depth == o.depth
             over == opts.overcome
  <2>4. depth \in Nat /\ r \in B!DecodeStep(fr, i, B!Seal(b, SubSeq(ks, 1, m), i), depth, keys, over)
    BY <2>1, <2>2
  <2>5. fr.content = 0 \/ fr.content = Len(Piece(e, i))
    BY <2>1, <2>3
  <2>6. depth <= B!MaxDepth <=> o.depth <= B!MaxDepth
    OBVIOUS
  <2> HIDE DEF o, e, i, ks, depth, over
  <2>7. StepEnds(r, b, e, i, ks, fr, depth, keys, over)
    BY <2>3, <2>4, <2>5, StepGives
  <2> QED
    BY <2>7 DEF depth, over, StepEnds
<1>10. CASE r.end \in {"corrupt", "badformat", "unsupported"}
  <2>1. Return(p, r.end)
    BY <1>5, <1>10
  <2> QED
    BY <1>10, <2>1, ReturnsBytes DEF Errors
<1>11. CASE r.end = "encrypted" /\ ~opts.overcome /\ \E k \in ToSet(ks) : keys[k] = "none"
  <2> DEFINE c == Ends(o, "encrypted")
  <2>1. Set(p, c)
    BY <1>5, <1>11 DEF Return
  <2>2. Saw(o, i, "none") /\ c.pc = "idle"
    BY <1>8, <1>11, Fields, IdleValues DEF Ends
  <2> HIDE DEF c
  <2>3. /\ c.pc = "idle" /\ o.ekey \in EKey /\ ~opts.overcome
        /\ \E j \in Frames(o.ekey) : Saw(o, j, "none")
    BY <1>2, <1>11, <2>2
  <2> QED
    BY <2>1, <2>3, ReturnBytes DEF Errors, c
<1>12. CASE /\ r.end = "sealed" /\ o.depth <= B!MaxDepth
            /\ \E c \in Seq(Plain), l \in 0..Len(ks) :
                 /\ r.out = B!Seal(c, SubSeq(ks, 1, l), i)
                 /\ c = b \/ \E k \in ToSet(ks) : keys[k] = "wrong"
  <2> DEFINE c == [o EXCEPT !.cells = r.out, !.depth = @ + 1]
  <2>1. Set(p, c)
    BY <1>5, <1>12
  <2>2. /\ c.pc = "step" /\ c.op = o.op /\ c.status = o.status /\ c.from = o.from
        /\ c.frame = o.frame /\ c.cursor = o.cursor /\ c.depth = o.depth + 1 /\ c.out = o.out
        /\ c.pos = o.pos /\ c.base = o.base /\ c.got = o.got /\ c.seen = o.seen
        /\ c.ekey = o.ekey /\ c.todo = o.todo /\ c.cells = r.out
    BY <1>1, Fields
  <2> HIDE DEF c
  <2>3. Typed(c)
    BY <1>1, <1>12, <2>2, SMTT(60) DEF BytesOK, Typed, B!MaxDepth
  <2>4. InFile(c) /\ SeesKeys(c) /\ Refused(c)
    BY <1>1, <2>2 DEF BytesOK, InFile, SeesKeys, Refused, Runs
  <2>5. Vouched(c) = Vouched(o) /\ \A n : Assembled(c, n) = Assembled(o, n)
    BY <2>2 DEF Vouched, Assembled, FrameGives, Saw
  <2>6. Peeled(c)
    <3>1. PICK d \in Seq(Plain), l \in 0..Len(ks) :
            /\ r.out = B!Seal(d, SubSeq(ks, 1, l), i)
            /\ d = b \/ \E k \in ToSet(ks) : keys[k] = "wrong"
      BY <1>12
    <3>2. Vouched(c) => d = Frame(e, i)
      BY <1>2, <1>4, <1>8, <2>5, <3>1 DEF Vouched
    <3>3. c.cells = B!Seal(d, SubSeq(ks, 1, l), c.frame)
      BY <2>2, <3>1
    <3> QED
      BY <2>2, <3>1, <3>2, <3>3 DEF Peeled
  <2>7. Decoding(c)
    BY <1>1, <2>2, <2>5, <2>6 DEF BytesOK, Decoding, Decodes
  <2> QED
    BY <2>1, <2>3, <2>4, <2>7, SetBytes DEF BytesOK
<1>13. CASE /\ r.end = "none" /\ r.out \in Seq(Plain)
            /\ \/ opts.overcome /\ r.out = B!Zeros(fr.content) /\ \E k \in ToSet(ks) : keys[k] = "none"
               \/ b = Frame(e, i) => r.out = Piece(e, i)
  <2>1. FrameDone(p, r.out)
    BY <1>5, <1>13
  <2>2. B!Zeros(0) = <<>>
    BY ZerosType
  <2>3. Vouched(o) => r.out \in FrameGives(o, i)
    <3>1. CASE opts.overcome /\ r.out = B!Zeros(fr.content) /\ \E k \in ToSet(ks) : keys[k] = "none"
      BY <1>3, <1>8, <2>2, <3>1 DEF FrameGives
    <3>2. CASE b = Frame(e, i) => r.out = Piece(e, i)
      BY <1>4, <3>2 DEF FrameGives
    <3> QED
      BY <1>13, <3>1, <3>2
  <2> QED
    BY <1>1, <1>13, <2>1, <2>3, FrameDoneBytes
<1> QED
  BY <1>9, <1>10, <1>11, <1>12, <1>13

(* Read goes on where the last one ended.                                   *)
LEMMA FileBytes ==
  ASSUME BytesInv, LookupInv, ApiInv, NEW p \in Proc, UseFile(p)
  PROVE  BytesInv'
<1> DEFINE o == call[p]
<1>1. BytesOK(o) /\ DOMAIN o = DOMAIN Idle /\ (o.pc = "file" => o.out \in Seq(Plain))
  BY BytesType, LookupType DEF BytesOK, Typed
<1>2. ASSUME NEW c, Set(p, c), o.pc = "file", c.status \in {"ok", "eof", "invalid"},
             \A f \in DOMAIN Idle \ {"status", "pos", "base", "got"} : c[f] = o[f],
             c.pos \in Nat, c.base \in Nat, InFile(c)
      PROVE  BytesInv'
  <2>1. /\ c.pc = o.pc /\ c.op = o.op /\ c.from = o.from /\ c.frame = o.frame
        /\ c.cursor = o.cursor /\ c.depth = o.depth /\ c.out = o.out /\ c.seen = o.seen
        /\ c.ekey = o.ekey /\ c.todo = o.todo
    BY <1>2, Fields
  <2> HIDE DEF o
  <2>2. Typed(c) /\ SeesKeys(c) /\ Refused(c)
    BY <1>1, <1>2, <2>1 DEF BytesOK, Typed, SeesKeys, Refused, Runs, Errors
  <2>3. Vouched(c) = Vouched(o) /\ \A n : Assembled(c, n) = Assembled(o, n)
    BY <2>1 DEF Vouched, Assembled, FrameGives, Saw
  <2>4. Decoding(c)
    BY <1>1, <1>2, <2>1, <2>3 DEF BytesOK, Decoding, Decodes
  <2> QED
    BY <1>2, <2>2, <2>4, SetBytes DEF BytesOK
<1>3. CASE CloseFile(p)
  BY <1>3, IdleBytes, SetBytes DEF CloseFile
<1>4. ASSUME NEW status \in {"eof", "invalid"}, Set(p, [o EXCEPT !.status = status]), o.pc = "file"
      PROVE  BytesInv'
  <2> DEFINE c == [o EXCEPT !.status = status]
  <2>1. /\ \A f \in DOMAIN Idle \ {"status"} : c[f] = o[f]
        /\ c.status = status /\ Set(p, c)
    BY <1>1, <1>4, Fields
  <2>2. c.pc = o.pc /\ c.out = o.out /\ c.pos = o.pos /\ c.base = o.base /\ c.got = o.got
    BY <2>1, Fields
  <2> HIDE DEF c
  <2>3. c.pos \in Nat /\ c.base \in Nat /\ InFile(c)
    BY <1>1, <2>2 DEF BytesOK, Typed, InFile
  <2> QED
    BY <1>2, <1>4, <2>1, <2>3
<1>5. CASE ReadEOF(p)
  BY <1>4, <1>5 DEF ReadEOF, At
<1>6. CASE Read(p)
  <2> DEFINE len == Len(o.out)
             n == IF len - o.pos < ReadSize THEN len - o.pos ELSE ReadSize
             part == SubSeq(o.out, o.pos + 1, o.pos + n)
             c == [o EXCEPT !.pos = @ + n, !.status = "ok", !.got = @ \o part]
  <2>1. Set(p, c) /\ o.pc = "file" /\ o.pos < len
    BY <1>6 DEF Read, At
  <2>2. /\ o.base \in Nat /\ o.pos \in Nat /\ len \in Nat /\ o.out \in Seq(Plain)
        /\ o.base <= o.pos /\ o.got = SubSeq(o.out, o.base + 1, o.pos)
    BY <1>1, <2>1 DEF BytesOK, Typed, InFile
  <2>3. n \in Nat /\ o.pos + n <= len
    BY <2>1, <2>2, CallsAssumption, SMTT(60)
  <2> HIDE DEF n
  <2>4. o.got \o part = SubSeq(o.out, o.base + 1, o.pos + n)
    <3> DEFINE x == o.base
               y == o.pos
    <3>0. /\ x \in Nat /\ y \in Nat /\ len \in Nat /\ n \in Nat
          /\ x <= y /\ y < len /\ y + n <= len
      BY <2>1, <2>2, <2>3
    <3> HIDE DEF len, x, y
    <3>1. x + 1 \in 1..(len + 1) /\ y \in ((x + 1) - 1)..len /\ y + n \in y..len
      BY <3>0
    <3> USE DEF len, x, y
    <3> QED
      BY <2>2, <3>1, ConcatAdjacentSubSeq
  <2>5. /\ \A f \in DOMAIN Idle \ {"status", "pos", "got"} : c[f] = o[f]
        /\ c.status = "ok" /\ c.pos = o.pos + n /\ c.got = o.got \o part
    BY <1>1, Fields
  <2>6. c.base = o.base /\ c.out = o.out /\ c.pc = o.pc
    BY <2>5, Fields
  <2> HIDE DEF c, part, len
  <2>7. InFile(c)
    BY <2>1, <2>2, <2>3, <2>4, <2>5, <2>6 DEF InFile, len
  <2>8. c.pos \in Nat /\ c.base \in Nat
    <3>1. o.pos + n \in Nat
      BY <2>2, <2>3
    <3> QED
      BY <2>2, <2>5, <2>6, <3>1
  <2> QED
    BY <1>2, <2>1, <2>5, <2>7, <2>8
<1>7. ASSUME NEW to \in SeekTo, Seek(p, to) PROVE BytesInv'
  <2>1. o.pc = "file" /\ to \in Int
    BY <1>7, CallsAssumption DEF Seek, At
  <2>2. CASE to < 0
    BY <1>4, <1>7, <2>1, <2>2 DEF Seek
  <2>3. CASE ~(to < 0)
    <3> DEFINE c == [o EXCEPT !.pos = to, !.base = to, !.got = <<>>, !.status = "ok"]
    <3>1. Set(p, c)
      BY <1>7, <2>3 DEF Seek
    <3>2. /\ \A f \in DOMAIN Idle \ {"status", "pos", "base", "got"} : c[f] = o[f]
          /\ c.status = "ok" /\ c.pos = to /\ c.base = to /\ c.got = <<>>
      BY <1>1, Fields
    <3>3. c.out = o.out /\ c.pc = o.pc
      BY <3>2, Fields
    <3> HIDE DEF c
    <3>4. SubSeq(o.out, to + 1, to) = <<>>
      BY <2>1, SubSeqEmpty
    <3>5. to \in Nat
      BY <2>1, <2>3
    <3>6. InFile(c)
      BY <2>1, <3>2, <3>3, <3>4, <3>5 DEF InFile
    <3> QED
      BY <1>2, <2>1, <3>1, <3>2, <3>5, <3>6
  <2> QED
    BY <2>2, <2>3
<1> QED
  BY <1>3, <1>5, <1>6, <1>7 DEF UseFile

(* Close marks the calls; what they have in hand it leaves alone.           *)
LEMMA CloseBytes ==
  ASSUME BytesInv, LookupInv, ApiInv, NEW p \in Proc, Close(p)
  PROVE  BytesInv'
<1>1. StoreOK'
  BY DEF BytesInv, StoreOK, Close
<1>2. ASSUME NEW q \in Proc, q # p PROVE BytesOK(call[q])'
  <2> DEFINE o == call[q]
             closed == o.closed \/ Running(q)
             c == [o EXCEPT !.closed = closed]
  <2>1. call'[q] = c /\ opts' = opts /\ keys' = keys
    BY <1>2 DEF Close, ApiInv, CallsOK
  <2>2. BytesOK(o) /\ DOMAIN o = DOMAIN Idle
    BY BytesType, LookupType
  <2>3. \A f \in DOMAIN Idle \ {"closed"} : c[f] = o[f]
    BY <2>2
  <2>4. /\ c.pc = o.pc /\ c.op = o.op /\ c.status = o.status /\ c.from = o.from
        /\ c.frame = o.frame /\ c.cursor = o.cursor /\ c.depth = o.depth /\ c.out = o.out
        /\ c.pos = o.pos /\ c.base = o.base /\ c.got = o.got /\ c.seen = o.seen
        /\ c.ekey = o.ekey /\ c.cells = o.cells /\ c.todo = o.todo
    BY <2>3, Fields
  <2> HIDE DEF c, o
  <2>5. Typed(c) /\ InFile(c) /\ SeesKeys(c) /\ Refused(c)
    BY <2>2, <2>4 DEF BytesOK, Typed, InFile, SeesKeys, Refused, Runs, Saw
  <2>6. Vouched(c) = Vouched(o) /\ \A n : Assembled(c, n) = Assembled(o, n)
    BY <2>4 DEF Vouched, Assembled, FrameGives, Saw
  <2>7. Peeled(o) => Peeled(c)
    BY <2>4, <2>6 DEF Peeled
  <2>8. Decoding(c)
    BY <2>2, <2>4, <2>6, <2>7 DEF BytesOK, Decoding
  <2>9. BytesOK(c)
    BY <2>5, <2>8 DEF BytesOK
  <2> QED
    BY <2>1, <2>9, StaysBytes
<1>3. BytesOK(call[p])'
  <2>1. PICK c : call'[p] = c /\ c = [Idle EXCEPT !.pc = "close", !.op = "close"]
    BY DEF Close, ApiInv, CallsOK
  <2>2. /\ c.frame = 1 /\ c.cursor = 0 /\ c.depth = 0 /\ c.from = "none" /\ c.ekey = NoKey
        /\ c.out = <<>> /\ c.pos = 0 /\ c.base = 0 /\ c.got = <<>> /\ c.todo = {}
        /\ c.status = "none" /\ c.seen = [k \in KeyName |-> {}]
        /\ c.pc = "close" /\ c.op = "close"
    BY <2>1, Fields, IdleFresh, IdleValues
  <2>3. BytesOK(c)
    BY <2>2, ClosingBytes
  <2> QED
    BY <2>1, <2>3, StaysBytes DEF Close
<1> QED
  BY <1>1, <1>2, <1>3 DEF BytesInv

LEMMA ClearBytes ==
  ASSUME BytesInv, LookupInv, ApiInv, NEW p \in Proc, CloseEncoding(p) \/ CloseRoot(p)
  PROVE  BytesInv'
<1>1. StoreOK' /\ opts' = opts /\ keys' = keys
  BY DEF BytesInv, StoreOK, CloseEncoding, CloseRoot
<1>2. ASSUME NEW q \in Proc PROVE BytesOK(call'[q])
  <2> DEFINE o == call[p]
             c == [o EXCEPT !.pc = "clear"]
  <2>1. /\ o.pc \in {"close", "clear"}
        /\ call'[q] = IF q # p THEN call[q] ELSE IF CloseRoot(p) THEN Idle ELSE c
    BY DEF CloseEncoding, CloseRoot, At, ApiInv, CallsOK
  <2>2. BytesOK(o) /\ DOMAIN o = DOMAIN Idle /\ BytesOK(call[q])
    BY BytesType, LookupType
  <2>3. /\ c.pc = "clear" /\ c.op = o.op /\ c.status = o.status /\ c.from = o.from
        /\ c.frame = o.frame /\ c.cursor = o.cursor /\ c.depth = o.depth /\ c.out = o.out
        /\ c.pos = o.pos /\ c.base = o.base /\ c.got = o.got /\ c.seen = o.seen
        /\ c.ekey = o.ekey /\ c.todo = o.todo
    BY <2>2, Fields
  <2> HIDE DEF c, o
  <2>4. Typed(c) /\ InFile(c) /\ SeesKeys(c) /\ Refused(c)
    BY <2>1, <2>2, <2>3 DEF BytesOK, Typed, InFile, SeesKeys, Refused, Runs, PCs
  <2>5. Decoding(c)
    BY <2>1, <2>2, <2>3 DEF BytesOK, Decoding, Decodes
  <2> QED
    BY <2>1, <2>2, <2>4, <2>5, IdleBytes DEF BytesOK
<1> QED
  BY <1>1, <1>2, StaysBytes DEF BytesInv

(* What a running call has seen of a key includes the value it gets.        *)
LEMMA KeyBytes ==
  ASSUME BytesInv, LookupInv, ApiInv, NEW p \in Proc, NEW a \in Added, AddEncryptionKey(p, a[1], a[2])
  PROVE  BytesInv'
<1> DEFINE k == a[1]
           value == a[2]
<1>1. k \in KeyName /\ value \in KeyValue
  BY CallsAssumption DEF KeyValue
<1> HIDE DEF k, value
<1>2. keys' = [keys EXCEPT ![k] = value] /\ UNCHANGED <<opts, phase, encoding>>
  BY DEF AddEncryptionKey, k, value
<1>3. StoreOK'
  BY <1>1, <1>2 DEF BytesInv, StoreOK
<1>4. ASSUME NEW q \in Proc PROVE BytesOK(call[q])'
  <2> DEFINE o == call[q]
  <2>1. BytesOK(o) /\ DOMAIN o = DOMAIN Idle /\ DOMAIN o.seen = KeyName
    BY BytesType, LookupType DEF BytesOK, Typed
  <2>2. PICK c : /\ call'[q] = c
                 /\ c = IF Running(q) THEN [o EXCEPT !.seen[k] = @ \cup {value}] ELSE o
    BY DEF AddEncryptionKey, ApiInv, CallsOK, k, value
  <2>3. /\ \A f \in DOMAIN Idle \ {"seen"} : c[f] = o[f]
        /\ DOMAIN c.seen = KeyName /\ \A j \in KeyName : o.seen[j] \subseteq c.seen[j]
        /\ Running(q) => \A j \in KeyName :
                           c.seen[j] = IF j = k THEN o.seen[j] \cup {value} ELSE o.seen[j]
    <3>1. CASE Running(q)
      <4>1. c = [o EXCEPT !.seen = [o.seen EXCEPT ![k] = @ \cup {value}]]
        BY <2>1, <2>2, <3>1
      <4> QED
        BY <1>1, <2>1, <3>1, <4>1, Fields
    <3>2. CASE ~Running(q)
      BY <2>1, <2>2, <3>2
    <3> QED
      BY <3>1, <3>2
  <2>4. /\ c.pc = o.pc /\ c.op = o.op /\ c.status = o.status /\ c.from = o.from
        /\ c.frame = o.frame /\ c.cursor = o.cursor /\ c.depth = o.depth /\ c.out = o.out
        /\ c.pos = o.pos /\ c.base = o.base /\ c.got = o.got
        /\ c.ekey = o.ekey /\ c.cells = o.cells /\ c.todo = o.todo
    BY <2>3, Fields
  <2>5. Runs(o) => Running(q)
    BY DEF Runs, Running
  <2> HIDE DEF o
  <2>6. SeesKeys(call[q])'
    <3>1. Runs(c) => \A j \in KeyName : keys'[j] \in c.seen[j]
      <4>1. Runs(c) => Runs(o)
        BY <2>4 DEF Runs
      <4> QED
        BY <1>1, <1>2, <2>1, <2>3, <2>5, <4>1 DEF BytesOK, SeesKeys, BytesInv, StoreOK
    <3> QED
      BY <2>2, <3>1 DEF SeesKeys, Runs
  <2>7. Typed(c) /\ InFile(c)
    BY <2>1, <2>3, <2>4 DEF BytesOK, Typed, InFile
  <2>8. ASSUME o.ekey \in EKey
        PROVE  /\ \A i \in Frames(o.ekey) : \A v : Saw(o, i, v) => Saw(c, i, v)
               /\ Vouched(c) => Vouched(o)
               /\ \A n \in 0..Len(Packing[o.ekey].locks) : Assembled(o, n) => Assembled(c, n)
    BY <2>3, <2>4, <2>8, SeenGrows
  <2>9. Refused(c)
    BY <2>1, <2>4, <2>8 DEF BytesOK, Refused
  <2>10. Decoding(c)
    <3>1. CASE o.pc \notin {"pool", "local", "file"} \cup Decodes
      BY <2>1, <2>4, <3>1 DEF BytesOK, Decoding, Decodes
    <3>2. CASE o.pc \in {"pool", "local", "file"} \cup Decodes
      <4>1. o.ekey \in EKey
        BY <2>1, <3>2 DEF BytesOK, Decoding
      <4>2. Len(Packing[o.ekey].locks) \in Nat
        BY <4>1, PieceTypes
      <4>3. o.pc = "file" /\ Vouched(c) => Assembled(c, Len(Packing[o.ekey].locks))
        BY <2>1, <2>8, <4>1, <4>2 DEF BytesOK, Decoding
      <4>4. o.pc \in Decodes /\ Vouched(c) => Assembled(c, o.frame - 1)
        <5>1. o.pc \in Decodes => o.frame - 1 \in 0..Len(Packing[o.ekey].locks)
          BY <2>1, <4>2 DEF BytesOK, Decoding, Typed
        <5> QED
          BY <2>1, <2>8, <4>1, <5>1 DEF BytesOK, Decoding
      <4>5. Peeled(o) => Peeled(c)
        BY <2>4, <2>8, <4>1 DEF Peeled
      <4> QED
        BY <2>1, <2>4, <4>1, <4>3, <4>4, <4>5 DEF BytesOK, Decoding
    <3> QED
      BY <3>1, <3>2
  <2> QED
    BY <1>2, <2>2, <2>6, <2>7, <2>9, <2>10, KeysBytes
<1> QED
  BY <1>3, <1>4 DEF BytesInv

LEMMA StepBytes == BytesInv /\ LookupInv /\ ApiInv /\ [Next]_vars => BytesInv'
<1> SUFFICES ASSUME BytesInv, LookupInv, ApiInv, [Next]_vars PROVE BytesInv'
  OBVIOUS
<1>1. CASE LoadEncoding \/ LoadRoot
  BY <1>1, LoadBytes
<1>2. ASSUME NEW p \in Proc, NEW o \in Op, NEW arg \in Args(o), Start(p, o, arg)
      PROVE  BytesInv'
  BY <1>2, StartBytes
<1>3. ASSUME NEW p \in Proc, Get(p) PROVE BytesInv'
  BY <1>3, EnterBytes, SpanBytes, DecodeFrameBytes, DecodeStepBytes DEF Get
<1>4. ASSUME NEW p \in Proc, \/ Cancel(p) \/ UseFile(p) \/ Find(p) \/ GetInfo(p)
                              \/ Close(p) \/ CloseEncoding(p) \/ CloseRoot(p)
      PROVE  BytesInv'
  BY <1>4, CancelBytes, FileBytes, FindBytes, EnterBytes, CloseBytes, ClearBytes
<1>5. ASSUME NEW p \in Proc, NEW a \in Added, AddEncryptionKey(p, a[1], a[2])
      PROVE  BytesInv'
  BY <1>5, KeyBytes
<1>6. CASE UNCHANGED vars
  <2>1. UNCHANGED <<phase, opts, encoding, keys, call>>
    BY <1>6 DEF vars
  <2>2. StoreOK'
    BY <2>1 DEF BytesInv, StoreOK
  <2>3. ASSUME NEW q \in Proc PROVE BytesOK(call[q])'
    BY <2>1, StaysBytes DEF BytesInv
  <2> QED
    BY <2>2, <2>3 DEF BytesInv
<1> QED
  BY <1>1, <1>2, <1>3, <1>4, <1>5, <1>6 DEF Next

LEMMA BytesTypes == BytesInv /\ LookupInv => TypeOK
<1> SUFFICES ASSUME BytesInv, LookupInv PROVE TypeOK
  OBVIOUS
<1>1. /\ build.root \in Roots /\ build.disk \in Disks /\ build.data \in BOOLEAN
      /\ ekeys \subseteq EKey /\ root \in Roots \cup {NoRoot}
  BY DEF LookupInv, BuildOK
<1>2. /\ opts.overcome \in BOOLEAN /\ opts.online \in BOOLEAN /\ encoding \in BOOLEAN
      /\ phase \in {"created", "encoding", "root", "open", "closing", "closed"}
      /\ keys \in [KeyName -> KeyValue]
  BY DEF BytesInv, StoreOK
<1>3. ASSUME NEW p \in Proc
      PROVE  LET c == call[p]
             IN /\ DOMAIN c = DOMAIN Idle
                /\ c.pc \in PCs /\ c.op \in Op \cup {"none", "close"}
                /\ c.status \in Errors \cup {"none", "ok", "eof"}
                /\ c.ekey \in EKey \cup {NoKey} /\ c.from \in {"none"} \cup Condition
                /\ c.pos \in Nat /\ c.frame \in Nat \ {0} /\ c.depth \in 0..(B!MaxDepth + 1)
                /\ c.pc \in {"decode", "step"} => c.frame <= Len(B!FrameTable(Span[c.ekey]))
                /\ Len(c.got) <= Len(c.out) /\ c.todo \subseteq Name
  <2> DEFINE c == call[p]
  <2>1. BytesOK(c) /\ LookupOK(c)
    BY DEF BytesInv, LookupInv
  <2>2. c.ekey \in EKey \cup {NoKey}
    <3>1. CASE c.pc \in {"locate", "remote"}
      <4>1. Located(c) /\ c.arg \in Args(c.op)
        BY <2>1, <3>1 DEF LookupOK, Reading
      <4> QED
        BY <4>1, ResolvedKey DEF Located
    <3>2. CASE c.pc \notin {"locate", "remote"}
      BY <2>1, <3>2 DEF BytesOK, Typed
    <3> QED
      BY <3>1, <3>2
  <2>3. c.pc \in {"decode", "step"} => c.frame <= Len(B!FrameTable(Span[c.ekey]))
    <3> SUFFICES ASSUME c.pc \in {"decode", "step"}
                 PROVE  c.frame <= Len(B!FrameTable(Span[c.ekey]))
      OBVIOUS
    <3>1. c.ekey \in EKey /\ c.frame <= Len(Packing[c.ekey].locks)
      BY <2>1 DEF BytesOK, Decoding, Decodes
    <3>2. Len(B!FrameTable(Span[c.ekey])) = Len(Packing[c.ekey].locks)
      BY <3>1, TableShape
    <3> QED
      BY <3>1, <3>2
  <2>4. Len(c.got) <= Len(c.out)
    <3>1. /\ c.base \in Nat /\ c.pos \in Nat /\ c.out \in Seq(Plain) /\ c.base <= c.pos
          /\ c.pos <= Len(c.out) \/ c.pos = c.base
          /\ c.got = SubSeq(c.out, c.base + 1, c.pos)
      BY <2>1 DEF BytesOK, Typed, InFile
    <3>2. Len(SubSeq(c.out, c.base + 1, c.pos)) = c.pos - c.base
      <4>1. CASE c.pos = c.base
        BY <3>1, <4>1
      <4>2. CASE c.pos <= Len(c.out)
        BY <3>1, <4>2
      <4> QED
        BY <3>1, <4>1, <4>2
    <3> QED
      BY <3>1, <3>2
  <2> QED
    BY <2>1, <2>2, <2>3, <2>4 DEF BytesOK, Typed, LookupOK
<1> QED
  BY <1>1, <1>2, <1>3 DEF TypeOK

LEMMA BytesMeans == BytesInv => RightBytes /\ EncryptedIsTrue
<1> SUFFICES ASSUME BytesInv PROVE RightBytes /\ EncryptedIsTrue
  OBVIOUS
<1>1. ASSUME NEW p \in Proc, call[p].pc = "file"
      PROVE  LET c == call[p]
             IN /\ Vouched(c) => Assembled(c, Len(Packing[c.ekey].locks))
                /\ c.got = SubSeq(c.out, c.base + 1, IF c.base > c.pos THEN c.base ELSE c.pos)
  <2> DEFINE c == call[p]
  <2>1. BytesOK(c) /\ c.pc = "file"
    BY <1>1, BytesType
  <2> HIDE DEF c
  <2>2. Vouched(c) => Assembled(c, Len(Packing[c.ekey].locks))
    BY <2>1 DEF BytesOK, Decoding
  <2>3. ~(c.base > c.pos) /\ c.got = SubSeq(c.out, c.base + 1, c.pos)
    BY <2>1 DEF BytesOK, InFile, Typed
  <2> QED
    BY <2>2, <2>3 DEF c
<1>2. EncryptedIsTrue
  BY BytesType DEF EncryptedIsTrue, BytesOK, Refused
<1> QED
  BY <1>1, <1>2 DEF RightBytes

LEMMA BytesInvariant == Spec => []BytesInv
  BY ApiInvariant, LookupInvariant, InitBytes, StepBytes, PTL DEF Spec

(* The variables of a storage and of its calls keep their types, for any    *)
(* build, damage and number of goroutines: the frame that is read is one of *)
(* the frame table's (blte.go DecodeSpanWithOptions), and a File never gives *)
(* more than it has (casc.go File.Read).                                    *)
THEOREM ApiTypeCorrect == Spec => []TypeOK
  BY BytesInvariant, LookupInvariant, BytesTypes, PTL

(* What a File gives is what was encoded, frame by frame, whatever keys are *)
(* added while it is decoded, and however it is read (blte.go               *)
(* DecodeSpanWithOptions, casc.go File.Read and File.Seek).                 *)
THEOREM GivesTheRightBytes == Spec => []RightBytes
  BY BytesInvariant, BytesMeans, PTL

(* ErrEncrypted is true of a key of the span at some time during the call,  *)
(* and never returned when the caller asked for zeros (blte.go decodeFrame, *)
(* decrypt.go).                                                             *)
THEOREM LacksAKeyTruly == Spec => []EncryptedIsTrue
  BY BytesInvariant, BytesMeans, PTL
=============================================================================
