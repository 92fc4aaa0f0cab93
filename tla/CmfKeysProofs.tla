---------------------------- MODULE CmfKeysProofs ----------------------------
(***************************************************************************)
(* Every known build but 39103 derives a key and an IV from any header,    *)
(* keytable and digest, and no IV but those of two builds ignores the      *)
(* name of the file (CmfKeys).                                             *)
(*                                                                         *)
(* The proof has three layers: what the 32-bit arithmetic returns; what    *)
(* each form of a seed, a step and a mix computes, whatever its            *)
(* parameters; and the 358 recipes, each made of forms of those.  The      *)
(* invariant of the call then needs no recipe by name.                     *)
(*                                                                         *)
(* A bound of 32 bits is cited through WordBounds, as inequalities: the    *)
(* provers unfold a range with numerals for ends into its members.         *)
(***************************************************************************)
EXTENDS CmfKeys, TLAPS

------------------------------------------------------------------------------
(* Arithmetic. *)

LEMMA WordBounds ==
  /\ MaxInt32 \in Int /\ 2147483646 < MaxInt32 /\ MaxInt32 < 2147483648
  /\ MinInt32 \in Int /\ MinInt32 = -MaxInt32 - 1
BY SMT DEF MaxInt32, MinInt32

LEMMA InWord == \A x : x \in Word <=> (x \in Int /\ MinInt32 <= x /\ x <= MaxInt32)
BY SMT, WordBounds DEF Word

LEMMA WordInt == \A x \in Word : x \in Int
BY InWord

Small(x) == x \in Int /\ -1000000000 <= x /\ x <= 1000000000

LEMMA SmallInWord == \A x : Small(x) => x \in Word
BY SMT, WordBounds, InWord DEF Small

LEMMA PlusWord == \A a, b \in Word : Plus(a, b) \in Word
BY SMT, WordBounds, InWord DEF Plus

LEMMA MinusWord == \A a, b \in Word : Minus(a, b) \in Word
<1>1. \A b \in Word : -1 - b \in Word /\ 1 \in Word
  BY SMT, WordBounds, InWord
<1> QED
  BY <1>1, PlusWord DEF Minus

LEMMA FromBytesWord ==
  ASSUME NEW b0 \in Int, NEW b1 \in Int, NEW b2 \in Int, NEW b3 \in Int,
         0 <= b0, b0 < 256, 0 <= b1, b1 < 256, 0 <= b2, b2 < 256, 0 <= b3, b3 < 256
  PROVE  FromBytes(b0, b1, b2, b3) \in Word
BY SMT, WordBounds, InWord DEF FromBytes

(* The product is four bytes whatever the carries are.                      *)
LEMMA TimesWord == \A a, b \in Int : Times(a, b) \in Word
<1> SUFFICES ASSUME NEW a \in Int, NEW b \in Int PROVE Times(a, b) \in Word
  OBVIOUS
<1> DEFINE x  == Bytes(a)
           y  == Bytes(b)
           c0 == x[1] * y[1]
           c1 == x[1] * y[2] + x[2] * y[1] + (c0 \div 256)
           c2 == x[1] * y[3] + x[2] * y[2] + x[3] * y[1] + (c1 \div 256)
           c3 == x[1] * y[4] + x[2] * y[3] + x[3] * y[2] + x[4] * y[1] + (c2 \div 256)
<1>1. ASSUME NEW z \in Int
      PROVE  /\ Bytes(z)[1] \in Int /\ Bytes(z)[2] \in Int
             /\ Bytes(z)[3] \in Int /\ Bytes(z)[4] \in Int
  BY SMT DEF Bytes
<1>2. Times(a, b) = FromBytes(c0 % 256, c1 % 256, c2 % 256, c3 % 256)
  BY DEF Times
<1>3. c0 \in Int /\ c1 \in Int /\ c2 \in Int /\ c3 \in Int
  <2>1. /\ x[1] \in Int /\ x[2] \in Int /\ x[3] \in Int /\ x[4] \in Int
        /\ y[1] \in Int /\ y[2] \in Int /\ y[3] \in Int /\ y[4] \in Int
    BY <1>1
  <2> HIDE DEF x, y
  <2>2. c0 \in Int
    BY <2>1
  <2> HIDE DEF c0
  <2>3. c1 \in Int
    BY <2>1, <2>2
  <2> HIDE DEF c1
  <2>4. c2 \in Int
    BY <2>1, <2>3
  <2> HIDE DEF c2
  <2> QED
    BY <2>1, <2>2, <2>3, <2>4
<1> HIDE DEF c0, c1, c2, c3
<1>4. \A c \in Int : c % 256 \in Int /\ 0 <= c % 256 /\ c % 256 < 256
  BY SMT
<1> QED
  BY <1>2, <1>3, <1>4, FromBytesWord

LEMMA UModRange ==
  ASSUME NEW x \in Int, NEW m \in Int, 0 < m
  PROVE  UMod(x, m) \in Int /\ 0 <= UMod(x, m) /\ UMod(x, m) < m
BY SMT, WordBounds DEF UMod

LEMMA SignedModRange ==
  ASSUME NEW x \in Int, NEW m \in Int, 0 < m
  PROVE  signedMod(x, m) \in Int /\ 0 <= signedMod(x, m) /\ signedMod(x, m) < m
BY SMT DEF signedMod, GoRem

LEMMA ModRange ==
  ASSUME NEW s, NEW x \in Int, NEW m \in Int, 0 < m
  PROVE  Mod(s, x, m) \in Int /\ 0 <= Mod(s, x, m) /\ Mod(s, x, m) < m
BY UModRange, SignedModRange DEF Mod

LEMMA ConstrainWord == \A x \in Word : constrain(x) \in Word
BY SMT, WordBounds, InWord DEF constrain

LEMMA AndWord == \A x, y \in Int : Small(And(x, y))
<1> SUFFICES ASSUME NEW x \in Int, NEW y \in Int PROVE Small(And(x, y))
  OBVIOUS
<1> DEFINE bit(w) == IF (x \div w) % 2 = 1 /\ (y \div w) % 2 = 1 THEN w ELSE 0
<1>1. \A w : bit(w) = w \/ bit(w) = 0
  OBVIOUS
<1>2. And(x, y) = bit(1) + bit(2) + bit(4) + bit(8) + bit(16) + bit(32)
  BY DEF And
<1> HIDE DEF bit
<1> QED
  BY SMT, <1>1, <1>2 DEF Small

------------------------------------------------------------------------------
(* Indices and bytes, without numerals for the ends of a range. *)

Slot(x)  == x \in Int /\ 0 <= x /\ x < 512
Digit(x) == x \in Int /\ 0 <= x /\ x < 20
Octet(x) == x \in Int /\ 0 <= x /\ x < 256

LEMMA Ranges ==
  /\ \A x : x \in TableSlots <=> Slot(x)
  /\ \A x : x \in DigestSlots <=> Digit(x)
  /\ \A x : x \in Octets <=> Octet(x)
BY SMT DEF TableSlots, DigestSlots, Octets, Slot, Digit, Octet

LEMMA SmallOnes == \A x : Slot(x) \/ Digit(x) \/ Octet(x) => Small(x)
BY DEF Slot, Digit, Octet, Small

(* What a call is given: any header, keytable and digest of their types.    *)
Called(e) ==
  /\ Small(e.BuildVersion) /\ 0 < e.BuildVersion
  /\ e.DataCount \in Word /\ e.EntryCount \in Word /\ Octet(e.version)
  /\ \A i : Slot(i) => Octet(e.keytable[i])
  /\ \A i : Digit(i) => Octet(e.digest[i])
  /\ e.length = 32 \/ e.length = 16

LEMMA CalledWords ==
  ASSUME NEW e, Called(e)
  PROVE  /\ e.BuildVersion \in Word /\ e.BuildVersion \in Int
         /\ e.DataCount \in Word /\ e.DataCount \in Int
         /\ e.EntryCount \in Word /\ e.EntryCount \in Int
         /\ e.version \in Int /\ e.length \in Int /\ e.length \in Word
         /\ \A i : Slot(i) => e.keytable[i] \in Int /\ e.keytable[i] \in Word
         /\ \A i : Digit(i) => e.digest[i] \in Int /\ e.digest[i] \in Word
<1>1. Small(e.length)
  BY DEF Called, Small
<1> QED
  BY <1>1, SmallInWord, SmallOnes, WordInt DEF Called, Small, Octet

LEMMA SlotOfMod == \A x \in Int : Slot(UMod(x, 512)) /\ Slot(signedMod(x, 512))
BY UModRange, SignedModRange DEF Slot

LEMMA DigitOfMod == \A s : \A x \in Int : Digit(Mod(s, x, 20))
BY ModRange DEF Digit

LEMMA SmallUMod ==
  ASSUME NEW x \in Int, NEW m \in Int, 0 < m, m <= 512 PROVE UMod(x, m) \in Word
<1>1. Small(UMod(x, m))
  BY UModRange DEF Small
<1> QED
  BY <1>1, SmallInWord

------------------------------------------------------------------------------
(* Seeds. *)

(* The index a seed reads is one of the keytable, ...                       *)
SeedInTable(f) == \A e : Called(e) /\ ReadsTable(f) => Slot(SeedIndex(e, f))

(* ... and if it is then the cursor the loop begins with has 32 bits.       *)
SeedTyped(f) ==
  \A e : Called(e) /\ (ReadsTable(f) => Slot(SeedIndex(e, f))) => SeedValue(e, f) \in Word

SeedOK(f) == SeedInTable(f) /\ SeedTyped(f)

LEMMA TableSeedTyped == ASSUME NEW f, ReadsTable(f) PROVE SeedTyped(f)
<1> SUFFICES ASSUME NEW e, Called(e), Slot(SeedIndex(e, f)) PROVE SeedValue(e, f) \in Word
  BY DEF SeedTyped
<1>1. SeedValue(e, f) = e.keytable[SeedIndex(e, f)]
  BY DEF SeedValue, ReadsTable
<1> QED
  BY <1>1, CalledWords

LEMMA TableSeed ==
  ASSUME NEW f, ReadsTable(f), \A e : Called(e) => Slot(SeedIndex(e, f))
  PROVE  SeedOK(f)
BY TableSeedTyped DEF SeedInTable, SeedOK

LEMMA OtherSeed ==
  ASSUME NEW f, ~ReadsTable(f), \A e : Called(e) => SeedValue(e, f) \in Word
  PROVE  SeedOK(f)
BY DEF SeedInTable, SeedTyped, SeedOK

LEMMA TableSeeds ==
  /\ SeedOK(AtData) /\ SeedOK(AtBuild) /\ SeedOK(AtBuildTimesLength) /\ SeedOK(AtLength(256))
  /\ \A n : Slot(n) => SeedOK(At(n)) /\ SeedOK(AtTable(n)) /\ SeedOK(AtLengthTimes(n))
  /\ \A d, n : Digit(d) /\ Slot(n) => SeedOK(AtDigestTimes(d, n))
  /\ \A c, d : c \in Int /\ Digit(d) =>
       SeedOK(AtTimesDigest(c, d)) /\ SeedOK(AtTimesDigestLessLength(c, d))
  /\ \A c, d : SeedTyped(AtTimesDigestLessLengthUnmasked(c, d))
<1>1. SeedOK(AtData)
  BY TableSeed, CalledWords, SlotOfMod DEF ReadsTable, SeedIndex, AtData
<1>2. SeedOK(AtBuild)
  BY TableSeed, CalledWords, SlotOfMod DEF ReadsTable, SeedIndex, AtBuild
<1>3. SeedOK(AtBuildTimesLength)
  BY TableSeed, CalledWords, SlotOfMod, TimesWord, WordInt
     DEF ReadsTable, SeedIndex, AtBuildTimesLength
<1>4. SeedOK(AtLength(256))
  <2>1. \A e : Called(e) => Slot(e.length + 256)
    BY DEF Called, Slot
  <2> QED
    BY <2>1, TableSeed DEF ReadsTable, SeedIndex, AtLength
<1>5. ASSUME NEW n, Slot(n) PROVE SeedOK(At(n))
  BY <1>5, TableSeed DEF ReadsTable, SeedIndex, At
<1>6. ASSUME NEW n, Slot(n) PROVE SeedOK(AtTable(n))
  BY <1>6, TableSeed, CalledWords, SlotOfMod DEF ReadsTable, SeedIndex, AtTable
<1>7. ASSUME NEW n, Slot(n) PROVE SeedOK(AtLengthTimes(n))
  BY <1>7, TableSeed, CalledWords, SlotOfMod DEF ReadsTable, SeedIndex, AtLengthTimes
<1>8. ASSUME NEW d, NEW n, Digit(d), Slot(n) PROVE SeedOK(AtDigestTimes(d, n))
  BY <1>8, TableSeed, CalledWords, SlotOfMod DEF ReadsTable, SeedIndex, AtDigestTimes
<1>9. ASSUME NEW c \in Int, NEW d, Digit(d) PROVE SeedOK(AtTimesDigest(c, d))
  BY <1>9, TableSeed, CalledWords, SlotOfMod DEF ReadsTable, SeedIndex, AtTimesDigest
<1>10. ASSUME NEW c \in Int, NEW d, Digit(d) PROVE SeedOK(AtTimesDigestLessLength(c, d))
  BY <1>10, TableSeed, CalledWords, SlotOfMod DEF ReadsTable, SeedIndex, AtTimesDigestLessLength
<1>11. \A c, d : ReadsTable(AtTimesDigestLessLengthUnmasked(c, d))
  BY DEF ReadsTable, AtTimesDigestLessLengthUnmasked
<1> QED
  BY <1>1, <1>2, <1>3, <1>4, <1>5, <1>6, <1>7, <1>8, <1>9, <1>10, <1>11, TableSeedTyped

LEMMA OtherSeeds ==
  /\ SeedOK(TheLength) /\ SeedOK(BuildTimesLength) /\ SeedOK(ConstrainedBuildTimesLength)
  /\ SeedOK(Unused)
  /\ \A c : Small(c) => SeedOK(Fixed(c)) /\ SeedOK(DigestOfData(c))
  /\ \A d : Digit(d) => /\ SeedOK(TimesDigest(2, d)) /\ SeedOK(DigestPlusData(d))
                        /\ SeedOK(DigestPlusMaskedData(d)) /\ SeedOK(DataPlusDigest(d))
<1>1. SeedOK(TheLength)
  BY OtherSeed, CalledWords DEF ReadsTable, SeedValue, TheLength
<1>2. SeedOK(BuildTimesLength)
  BY OtherSeed, CalledWords, TimesWord DEF ReadsTable, SeedValue, BuildTimesLength
<1>3. SeedOK(ConstrainedBuildTimesLength)
  BY OtherSeed, CalledWords, TimesWord, ConstrainWord
     DEF ReadsTable, SeedValue, ConstrainedBuildTimesLength
<1>4. SeedOK(Unused)
  BY OtherSeed, SmallInWord DEF ReadsTable, SeedValue, Unused, Small
<1>5. ASSUME NEW c, Small(c) PROVE SeedOK(Fixed(c))
  BY <1>5, OtherSeed, SmallInWord DEF ReadsTable, SeedValue, Fixed
<1>6. ASSUME NEW c, Small(c) PROVE SeedOK(DigestOfData(c))
  <2>1. ASSUME NEW e, Called(e) PROVE e.digest[signedMod(Plus(e.DataCount, c), 20)] \in Word
    <3>1. Plus(e.DataCount, c) \in Int
      BY <1>6, <2>1, CalledWords, SmallInWord, PlusWord, WordInt
    <3>2. Digit(signedMod(Plus(e.DataCount, c), 20))
      BY <3>1, SignedModRange DEF Digit
    <3> QED
      BY <2>1, <3>2, CalledWords
  <2> QED
    BY <2>1, OtherSeed DEF ReadsTable, SeedValue, DigestOfData
<1>7. ASSUME NEW d, Digit(d) PROVE SeedOK(TimesDigest(2, d))
  <2>1. ASSUME NEW e, Called(e) PROVE 2 * e.digest[d] \in Word
    <3>1. Small(2 * e.digest[d])
      BY <1>7, <2>1 DEF Called, Octet, Small
    <3> QED
      BY <3>1, SmallInWord
  <2> QED
    BY <2>1, OtherSeed DEF ReadsTable, SeedValue, TimesDigest
<1>8. ASSUME NEW d, Digit(d) PROVE SeedOK(DigestPlusData(d))
  BY <1>8, OtherSeed, CalledWords, PlusWord, WordInt, SmallUMod
     DEF ReadsTable, SeedValue, DigestPlusData
<1>9. ASSUME NEW d, Digit(d) PROVE SeedOK(DigestPlusMaskedData(d))
  <2>1. ASSUME NEW e, Called(e) PROVE UMod(e.DataCount, 512) + e.digest[d] \in Word
    <3>1. Slot(UMod(e.DataCount, 512)) /\ Octet(e.digest[d])
      BY <1>9, <2>1, CalledWords, SlotOfMod DEF Called
    <3>2. Small(UMod(e.DataCount, 512) + e.digest[d])
      BY <3>1 DEF Slot, Octet, Small
    <3> QED
      BY <3>2, SmallInWord
  <2> QED
    BY <2>1, OtherSeed DEF ReadsTable, SeedValue, DigestPlusMaskedData
<1>10. ASSUME NEW d, Digit(d) PROVE SeedOK(DataPlusDigest(d))
  BY <1>10, OtherSeed, CalledWords, PlusWord DEF ReadsTable, SeedValue, DataPlusDigest
<1> QED
  BY <1>1, <1>2, <1>3, <1>4, <1>5, <1>6, <1>7, <1>8, <1>9, <1>10

------------------------------------------------------------------------------
(* Steps. *)

(* An amount that is not IfOdd, and what a step adds or subtracts.          *)
PlainTyped(a) ==
  /\ a[1] # "IfOdd"
  /\ \A e, s : Called(e) /\ s \in Word => PlainAmount(e, s, a) \in Word

AmountTyped(a) == \A e, s : Called(e) /\ s \in Word => Amount(e, s, a) \in Word

StepTyped(f) ==
  \A e, s, k : Called(e) /\ s \in Word /\ k \in Word => Step(e, s, k, f) \in Word

LEMMA PlusDigest ==
  ASSUME NEW e, Called(e), NEW x \in Word, NEW s, NEW c \in Int, 0 < c, c <= 20
  PROVE  Plus(x, e.digest[Mod(s, x, c)]) \in Word
<1>1. Digit(Mod(s, x, c))
  BY ModRange, WordInt DEF Digit
<1> QED
  BY <1>1, CalledWords, PlusWord

LEMMA HeaderAmounts ==
  /\ PlainTyped(Build) /\ PlainTyped(BuildMasked) /\ PlainTyped(Data) /\ PlainTyped(Entries)
  /\ \A c : Small(c) => PlainTyped(Const(c))
  /\ \A c : Slot(c) /\ 0 < c => /\ PlainTyped(SeedMod(c)) /\ PlainTyped(BuildTimesDataMod(c))
                                /\ PlainTyped(BuildPlusDataMod(c))
  /\ \A c \in Int : PlainTyped(SeedAnd(c))
<1>1. PlainTyped(Build)
  BY CalledWords DEF PlainTyped, PlainAmount, Build
<1>2. PlainTyped(BuildMasked)
  BY CalledWords, SmallUMod DEF PlainTyped, PlainAmount, BuildMasked
<1>3. PlainTyped(Data)
  BY CalledWords DEF PlainTyped, PlainAmount, Data
<1>4. PlainTyped(Entries)
  BY CalledWords DEF PlainTyped, PlainAmount, Entries
<1>5. ASSUME NEW c, Small(c) PROVE PlainTyped(Const(c))
  BY <1>5, SmallInWord DEF PlainTyped, PlainAmount, Const
<1>6. ASSUME NEW c, Slot(c), 0 < c
      PROVE  c \in Int /\ \A x \in Int : UMod(x, c) \in Word
  BY <1>6, SmallUMod DEF Slot
<1>7. ASSUME NEW c, Slot(c), 0 < c PROVE PlainTyped(SeedMod(c))
  BY <1>6, <1>7, WordInt DEF PlainTyped, PlainAmount, SeedMod
<1>8. ASSUME NEW c, Slot(c), 0 < c PROVE PlainTyped(BuildTimesDataMod(c))
  BY <1>6, <1>8, CalledWords, TimesWord, WordInt DEF PlainTyped, PlainAmount, BuildTimesDataMod
<1>9. ASSUME NEW c, Slot(c), 0 < c PROVE PlainTyped(BuildPlusDataMod(c))
  <2>1. ASSUME NEW e, Called(e) PROVE e.BuildVersion + UMod(e.DataCount, c) \in Word
    <3>1. /\ UMod(e.DataCount, c) \in Int /\ 0 <= UMod(e.DataCount, c) /\ UMod(e.DataCount, c) < c
          /\ c \in Int /\ c < 512
      BY <1>9, <2>1, CalledWords, UModRange DEF Slot
    <3>2. e.BuildVersion \in Int /\ 0 < e.BuildVersion /\ e.BuildVersion <= 1000000000
      BY <2>1 DEF Called, Small
    <3> QED
      BY SMT, <3>1, <3>2, WordBounds, InWord
  <2> QED
    BY <2>1 DEF PlainTyped, PlainAmount, BuildPlusDataMod
<1>10. ASSUME NEW c \in Int PROVE PlainTyped(SeedAnd(c))
  <2>1. \A x \in Word : And(UMod(x, 64), c) \in Word
    BY UModRange, WordInt, AndWord, SmallInWord
  <2> QED
    BY <2>1 DEF PlainTyped, PlainAmount, SeedAnd
<1> QED
  BY <1>1, <1>2, <1>3, <1>4, <1>5, <1>7, <1>8, <1>9, <1>10

LEMMA DigestAmounts ==
  /\ \A s : PlainTyped(EntriesPlusDigest(s, 20)) /\ PlainTyped(DataPlusItsDigest(s))
  /\ \A s, c : Slot(c) /\ 0 < c => PlainTyped(DataPlusItsDigestMod(s, c))
  /\ \A d, c : Digit(d) /\ Slot(c) /\ 0 < c => PlainTyped(TimesDigestMod(2, d, c))
<1>1. ASSUME NEW s PROVE PlainTyped(EntriesPlusDigest(s, 20))
  <2>1. ASSUME NEW e, Called(e)
        PROVE  Plus(e.EntryCount, e.digest[Mod(s, e.EntryCount, 20)]) \in Word
    BY <2>1, CalledWords, PlusDigest
  <2> QED
    BY <2>1 DEF PlainTyped, PlainAmount, EntriesPlusDigest
<1>2. ASSUME NEW s, NEW e, Called(e)
      PROVE  Plus(e.DataCount, e.digest[Mod(s, e.DataCount, 20)]) \in Word
  BY <1>2, CalledWords, PlusDigest
<1>3. ASSUME NEW s PROVE PlainTyped(DataPlusItsDigest(s))
  BY <1>2 DEF PlainTyped, PlainAmount, DataPlusItsDigest
<1>4. ASSUME NEW s, NEW c, Slot(c), 0 < c PROVE PlainTyped(DataPlusItsDigestMod(s, c))
  <2>1. \A x \in Word : UMod(x, c) \in Word
    BY <1>4, SmallUMod, WordInt DEF Slot
  <2> QED
    BY <1>2, <2>1 DEF PlainTyped, PlainAmount, DataPlusItsDigestMod
<1>5. ASSUME NEW d, NEW c, Digit(d), Slot(c), 0 < c PROVE PlainTyped(TimesDigestMod(2, d, c))
  <2>1. ASSUME NEW x \in Int PROVE (2 * x) % c \in Word
    <3>1. Small((2 * x) % c)
      BY <1>5 DEF Slot, Small
    <3> QED
      BY <3>1, SmallInWord
  <2> QED
    BY <1>5, <2>1, CalledWords DEF PlainTyped, PlainAmount, TimesDigestMod
<1> QED
  BY <1>1, <1>3, <1>4, <1>5

LEMMA PlainAmounts == \A a : PlainTyped(a) => AmountTyped(a)
BY DEF PlainTyped, AmountTyped, Amount

LEMMA OddAmounts ==
  \A d, a, b : PlainTyped(a) /\ PlainTyped(b) => AmountTyped(IfOdd(d, a, b))
BY DEF PlainTyped, AmountTyped, Amount, IfOdd

LEMMA Steps ==
  /\ \A a : AmountTyped(a) => StepTyped(Add(a)) /\ StepTyped(Sub(a))
  /\ StepTyped(BuildMinus) /\ StepTyped(ConstrainedBuildMinus)
  /\ StepTyped(ToBuild) /\ StepTyped(Stay)
  /\ \A s, t : StepTyped(Three(s, 103, t, 4))
<1>1. ASSUME NEW a, AmountTyped(a) PROVE StepTyped(Add(a))
  BY <1>1, PlusWord DEF AmountTyped, StepTyped, Step, Add
<1>2. ASSUME NEW a, AmountTyped(a) PROVE StepTyped(Sub(a))
  BY <1>2, MinusWord DEF AmountTyped, StepTyped, Step, Sub
<1>3. StepTyped(BuildMinus)
  BY CalledWords, MinusWord DEF StepTyped, Step, BuildMinus
<1>4. StepTyped(ConstrainedBuildMinus)
  BY CalledWords, MinusWord, ConstrainWord DEF StepTyped, Step, ConstrainedBuildMinus
<1>5. StepTyped(ToBuild)
  BY CalledWords DEF StepTyped, Step, ToBuild
<1>6. StepTyped(Stay)
  BY DEF StepTyped, Step, Stay
<1>7. ASSUME NEW s, NEW t PROVE StepTyped(Three(s, 103, t, 4))
  <2> SUFFICES ASSUME NEW e, NEW g, NEW k, Called(e), g \in Word, k \in Word
               PROVE  Step(e, g, k, Three(s, 103, t, 4)) \in Word
    BY DEF StepTyped
  <2> DEFINE r == Mod(s, k, 3)
             m == Mod(t, Times(k, 4), e.BuildVersion)
  <2>1. r = 0 \/ r = 1 \/ r = 2
    BY ModRange, WordInt
  <2>2. Small(m)
    <3>1. Times(k, 4) \in Int
      BY TimesWord, WordInt
    <3>2. /\ e.BuildVersion \in Int /\ 0 < e.BuildVersion /\ e.BuildVersion <= 1000000000
      BY DEF Called, Small
    <3>3. m \in Int /\ 0 <= m /\ m < e.BuildVersion
      BY <3>1, <3>2, ModRange
    <3> HIDE DEF m
    <3> QED
      BY <3>2, <3>3 DEF Small
  <2>3. Plus(k, 103) \in Word /\ m \in Word /\ Minus(k, 1) \in Word
    <3>1. 103 \in Word /\ 1 \in Word
      BY SmallInWord DEF Small
    <3> QED
      BY <2>2, <3>1, SmallInWord, PlusWord, MinusWord
  <2>4. Step(e, g, k, Three(s, 103, t, 4)) =
          CASE r = 0 -> Plus(k, 103) [] r = 1 -> m [] r = 2 -> Minus(k, 1)
    BY DEF Step, Three
  <2> HIDE DEF r, m
  <2> QED
    BY <2>1, <2>3, <2>4
<1> QED
  BY <1>1, <1>2, <1>3, <1>4, <1>5, <1>6, <1>7

------------------------------------------------------------------------------
(* Mixes. *)

PositionTyped(p) ==
  \A e, k, i : Called(e) /\ k \in Word /\ Slot(i) => Position(e, k, i, p) \in Int

(* The index a mix reads is one of the digest.                              *)
MixInDigest(m) ==
  \A e, k, i : Called(e) /\ k \in Word /\ Slot(i) /\ UsesDigest(m) =>
                 Digit(DigestIndex(e, k, i, m))

LEMMA Positions ==
  /\ PositionTyped(Cursor) /\ PositionTyped(CursorMinusI) /\ PositionTyped(CursorPlusI)
  /\ PositionTyped(CursorPlusData) /\ PositionTyped(CursorPlusEntries)
  /\ PositionTyped(CursorPlusBuild) /\ PositionTyped(CursorPlusMagic)
  /\ PositionTyped(BuildPlusI)
  /\ \A c : Small(c) => PositionTyped(CursorMinus(c)) /\ PositionTyped(CursorPlus(c))
<1>1. \A a, b \in Word : Plus(a, b) \in Int /\ Minus(a, b) \in Int
  BY PlusWord, MinusWord, WordInt
<1>2. \A i : Slot(i) => i \in Word
  BY SmallOnes, SmallInWord
<1>3. PositionTyped(Cursor)
  BY WordInt DEF PositionTyped, Position, Cursor
<1>4. PositionTyped(CursorMinusI)
  BY <1>1, <1>2 DEF PositionTyped, Position, CursorMinusI
<1>5. PositionTyped(CursorPlusI)
  BY <1>1, <1>2 DEF PositionTyped, Position, CursorPlusI
<1>6. PositionTyped(CursorPlusData)
  BY <1>1, CalledWords DEF PositionTyped, Position, CursorPlusData
<1>7. PositionTyped(CursorPlusEntries)
  BY <1>1, CalledWords DEF PositionTyped, Position, CursorPlusEntries
<1>8. PositionTyped(CursorPlusBuild)
  BY <1>1, CalledWords DEF PositionTyped, Position, CursorPlusBuild
<1>9. PositionTyped(CursorPlusMagic)
  <2>1. ASSUME NEW e, Called(e) PROVE nonEncryptedMagic(e.version) \in Word
    <3>1. 6712675 \in Word
      BY SmallInWord DEF Small
    <3>2. Times(16777216, e.version) \in Word
      BY <2>1, CalledWords, TimesWord
    <3> QED
      BY <3>1, <3>2, PlusWord DEF nonEncryptedMagic
  <2> QED
    BY <1>1, <2>1 DEF PositionTyped, Position, CursorPlusMagic
<1>10. PositionTyped(BuildPlusI)
  <2>1. \A e, i : Called(e) /\ Slot(i) => e.BuildVersion + i \in Int
    BY CalledWords DEF Slot
  <2> QED
    BY <2>1 DEF PositionTyped, Position, BuildPlusI
<1>11. ASSUME NEW c, Small(c) PROVE PositionTyped(CursorMinus(c))
  BY <1>1, <1>11, SmallInWord DEF PositionTyped, Position, CursorMinus
<1>12. ASSUME NEW c, Small(c) PROVE PositionTyped(CursorPlus(c))
  BY <1>1, <1>12, SmallInWord DEF PositionTyped, Position, CursorPlus
<1> QED
  BY <1>3, <1>4, <1>5, <1>6, <1>7, <1>8, <1>9, <1>10, <1>11, <1>12

LEMMA Mixes ==
  /\ MixInDigest(Zero) /\ MixInDigest(Plain) /\ UsesTable(Plain) /\ ~UsesDigest(Plain)
  /\ \A s, p : PositionTyped(p) => /\ MixInDigest(Set(s, p)) /\ UsesDigest(Set(s, p))
                                   /\ MixInDigest(SetOver(s, p)) /\ UsesDigest(SetOver(s, p))
                                   /\ MixInDigest(Mix(s, p)) /\ UsesDigest(Mix(s, p))
                                   /\ MixInDigest(MixAlone(s, p)) /\ UsesDigest(MixAlone(s, p))
<1>1. MixInDigest(Zero) /\ MixInDigest(Plain) /\ UsesTable(Plain) /\ ~UsesDigest(Plain)
  BY DEF MixInDigest, UsesDigest, UsesTable, Zero, Plain
<1>2. \A s, p : /\ UsesDigest(Set(s, p)) /\ UsesDigest(SetOver(s, p))
                /\ UsesDigest(Mix(s, p)) /\ UsesDigest(MixAlone(s, p))
  BY DEF UsesDigest, Set, SetOver, Mix, MixAlone
<1>3. ASSUME NEW m, PositionTyped(m[3]) PROVE MixInDigest(m)
  BY <1>3, DigitOfMod DEF PositionTyped, MixInDigest, DigestIndex
<1>4. \A s, p : /\ Set(s, p)[3] = p /\ SetOver(s, p)[3] = p
                /\ Mix(s, p)[3] = p /\ MixAlone(s, p)[3] = p
  BY DEF Set, SetOver, Mix, MixAlone
<1> QED
  BY <1>1, <1>2, <1>3, <1>4

------------------------------------------------------------------------------
(* The recipes: the forms with the parameters they give them, then each. *)

BuildOK(r) == Small(r.build) /\ 0 < r.build

KeyRecipeOK(r) == BuildOK(r) /\ SeedOK(r.seed) /\ StepTyped(r.step) /\ r.mix = Plain

IVRecipeOK(r) ==
  /\ BuildOK(r) /\ SeedTyped(r.seed) /\ StepTyped(r.step) /\ MixInDigest(r.mix)
  /\ r.build \notin Unmasked => SeedInTable(r.seed)
  /\ r.build \notin IgnoreName => UsesDigest(r.mix)

LEMMA RecipeSeeds ==
  /\ SeedOK(At(398)) /\ SeedOK(AtTable(0)) /\ SeedOK(AtData) /\ SeedOK(AtBuild)
  /\ SeedOK(AtLength(256)) /\ SeedOK(AtLengthTimes(0)) /\ SeedOK(AtBuildTimesLength)
  /\ SeedOK(AtDigestTimes(7, 0)) /\ SeedOK(AtTimesDigest(13, 7))
  /\ SeedOK(AtTimesDigestLessLength(2, 7)) /\ SeedOK(AtTimesDigestLessLength(2, 13))
  /\ SeedTyped(AtTimesDigestLessLengthUnmasked(2, 13))
  /\ SeedOK(Fixed(31)) /\ SeedOK(Fixed(130)) /\ SeedOK(Fixed(193)) /\ SeedOK(TheLength)
  /\ SeedOK(BuildTimesLength) /\ SeedOK(ConstrainedBuildTimesLength)
  /\ SeedOK(TimesDigest(2, 1)) /\ SeedOK(TimesDigest(2, 5)) /\ SeedOK(DigestPlusData(7))
  /\ SeedOK(DigestPlusMaskedData(7)) /\ SeedOK(DataPlusDigest(7)) /\ SeedOK(DigestOfData(7))
  /\ SeedOK(Unused)
<1>1. /\ Slot(0) /\ Slot(398) /\ Digit(1) /\ Digit(5) /\ Digit(7) /\ Digit(13)
      /\ Small(7) /\ Small(31) /\ Small(130) /\ Small(193) /\ 2 \in Int /\ 13 \in Int
  BY DEF Slot, Digit, Small
<1> QED
  BY <1>1, TableSeeds, OtherSeeds

LEMMA RecipeSteps ==
  /\ StepTyped(Add(Const(3))) /\ StepTyped(Add(Data)) /\ StepTyped(Add(Entries))
  /\ \A c \in {13, 29, 61} : StepTyped(Add(SeedMod(c)))
  /\ StepTyped(Add(BuildTimesDataMod(7))) /\ StepTyped(Add(BuildPlusDataMod(7)))
  /\ StepTyped(Add(TimesDigestMod(2, 5, 29)))
  /\ \A s : /\ StepTyped(Add(EntriesPlusDigest(s, 20))) /\ StepTyped(Add(DataPlusItsDigest(s)))
            /\ StepTyped(Add(DataPlusItsDigestMod(s, 17)))
  /\ \A d : /\ StepTyped(Add(IfOdd(d, Const(37), SeedMod(61))))
            /\ StepTyped(Add(IfOdd(d, SeedMod(61), Const(37))))
            /\ StepTyped(Add(IfOdd(d, Const(37), SeedAnd(61))))
  /\ StepTyped(Sub(Build)) /\ StepTyped(Sub(BuildMasked))
  /\ \A c : Slot(c) => StepTyped(Sub(Const(c)))
  /\ StepTyped(BuildMinus) /\ StepTyped(ConstrainedBuildMinus)
  /\ StepTyped(ToBuild) /\ StepTyped(Stay)
  /\ \A s, t : StepTyped(Three(s, 103, t, 4))
<1>1. /\ Slot(7) /\ Slot(13) /\ Slot(17) /\ Slot(29) /\ Slot(61) /\ Digit(5) /\ 61 \in Int
      /\ Small(3) /\ Small(37) /\ 0 < 7 /\ 0 < 13 /\ 0 < 17 /\ 0 < 29 /\ 0 < 61
  BY DEF Slot, Digit, Small
<1>2. \A c : Slot(c) => Small(c)
  BY SmallOnes
<1>3. PlainTyped(Const(37)) /\ PlainTyped(SeedMod(61)) /\ PlainTyped(SeedAnd(61))
  BY <1>1, HeaderAmounts
<1>4. /\ AmountTyped(Const(3)) /\ AmountTyped(Data) /\ AmountTyped(Entries)
      /\ AmountTyped(SeedMod(13)) /\ AmountTyped(SeedMod(29)) /\ AmountTyped(SeedMod(61))
      /\ AmountTyped(BuildTimesDataMod(7)) /\ AmountTyped(BuildPlusDataMod(7))
      /\ AmountTyped(Build) /\ AmountTyped(BuildMasked)
  BY <1>1, HeaderAmounts, PlainAmounts
<1>5. \A c : Slot(c) => AmountTyped(Const(c))
  BY <1>2, HeaderAmounts, PlainAmounts
<1>6. /\ AmountTyped(TimesDigestMod(2, 5, 29))
      /\ \A s : /\ AmountTyped(EntriesPlusDigest(s, 20)) /\ AmountTyped(DataPlusItsDigest(s))
                /\ AmountTyped(DataPlusItsDigestMod(s, 17))
  BY <1>1, DigestAmounts, PlainAmounts
<1>7. \A d : /\ AmountTyped(IfOdd(d, Const(37), SeedMod(61)))
             /\ AmountTyped(IfOdd(d, SeedMod(61), Const(37)))
             /\ AmountTyped(IfOdd(d, Const(37), SeedAnd(61)))
  BY <1>3, OddAmounts
<1> QED
  BY <1>4, <1>5, <1>6, <1>7, Steps

LEMMA RecipeMixes ==
  \A s, p :
    p \in { Cursor, CursorMinusI, CursorPlusI, CursorPlusData, CursorPlusEntries,
            CursorPlusBuild, CursorPlusMagic, BuildPlusI, CursorMinus(73),
            CursorPlus(342256995), CursorPlus(359034211), CursorPlus(375811427) } =>
      /\ MixInDigest(Set(s, p)) /\ UsesDigest(Set(s, p))
      /\ MixInDigest(SetOver(s, p)) /\ UsesDigest(SetOver(s, p))
      /\ MixInDigest(Mix(s, p)) /\ UsesDigest(Mix(s, p))
      /\ MixInDigest(MixAlone(s, p)) /\ UsesDigest(MixAlone(s, p))
<1>1. Small(73) /\ Small(342256995) /\ Small(359034211) /\ Small(375811427)
  BY DEF Small
<1> QED
  BY <1>1, Positions, Mixes

(* No key recipe reads the digest. *)
LEMMA KeyRecipesOK == \A r \in KeyRecipes : KeyRecipeOK(r)
<1>1. \A r \in KeyFuncs_35328 : KeyRecipeOK(r)
  BY RecipeSeeds, RecipeSteps DEF KeyFuncs_35328, Recipe, KeyRecipeOK, BuildOK, Small, Slot
<1>2. \A r \in KeyFuncs_37254 : KeyRecipeOK(r)
  BY RecipeSeeds, RecipeSteps DEF KeyFuncs_37254, Recipe, KeyRecipeOK, BuildOK, Small, Slot
<1>3. \A r \in KeyFuncs_37793 : KeyRecipeOK(r)
  BY RecipeSeeds, RecipeSteps DEF KeyFuncs_37793, Recipe, KeyRecipeOK, BuildOK, Small, Slot
<1>4. \A r \in KeyFuncs_39023 : KeyRecipeOK(r)
  BY RecipeSeeds, RecipeSteps DEF KeyFuncs_39023, Recipe, KeyRecipeOK, BuildOK, Small, Slot
<1>5. \A r \in KeyFuncs_39935 : KeyRecipeOK(r)
  BY RecipeSeeds, RecipeSteps DEF KeyFuncs_39935, Recipe, KeyRecipeOK, BuildOK, Small, Slot
<1>6. \A r \in KeyFuncs_42539 : KeyRecipeOK(r)
  BY RecipeSeeds, RecipeSteps DEF KeyFuncs_42539, Recipe, KeyRecipeOK, BuildOK, Small, Slot
<1>7. \A r \in KeyFuncs_45420 : KeyRecipeOK(r)
  BY RecipeSeeds, RecipeSteps DEF KeyFuncs_45420, Recipe, KeyRecipeOK, BuildOK, Small, Slot
<1>8. \A r \in KeyFuncs_49656 : KeyRecipeOK(r)
  BY RecipeSeeds, RecipeSteps DEF KeyFuncs_49656, Recipe, KeyRecipeOK, BuildOK, Small, Slot
<1>9. \A r \in KeyFuncs_54052 : KeyRecipeOK(r)
  BY RecipeSeeds, RecipeSteps DEF KeyFuncs_54052, Recipe, KeyRecipeOK, BuildOK, Small, Slot
<1>10. \A r \in KeyFuncs_57796 : KeyRecipeOK(r)
  BY RecipeSeeds, RecipeSteps DEF KeyFuncs_57796, Recipe, KeyRecipeOK, BuildOK, Small, Slot
<1>11. \A r \in KeyFuncs_61542 : KeyRecipeOK(r)
  BY RecipeSeeds, RecipeSteps DEF KeyFuncs_61542, Recipe, KeyRecipeOK, BuildOK, Small, Slot
<1>12. \A r \in KeyFuncs_65302 : KeyRecipeOK(r)
  BY RecipeSeeds, RecipeSteps DEF KeyFuncs_65302, Recipe, KeyRecipeOK, BuildOK, Small, Slot
<1>13. \A r \in KeyFuncs_69340 : KeyRecipeOK(r)
  BY RecipeSeeds, RecipeSteps DEF KeyFuncs_69340, Recipe, KeyRecipeOK, BuildOK, Small, Slot
<1>14. \A r \in KeyFuncs_74102 : KeyRecipeOK(r)
  BY RecipeSeeds, RecipeSteps DEF KeyFuncs_74102, Recipe, KeyRecipeOK, BuildOK, Small, Slot
<1>15. \A r \in KeyFuncs_80550 : KeyRecipeOK(r)
  BY RecipeSeeds, RecipeSteps DEF KeyFuncs_80550, Recipe, KeyRecipeOK, BuildOK, Small, Slot
<1>16. \A r \in KeyFuncs_86739 : KeyRecipeOK(r)
  BY RecipeSeeds, RecipeSteps DEF KeyFuncs_86739, Recipe, KeyRecipeOK, BuildOK, Small, Slot
<1>17. \A r \in KeyFuncs_92111 : KeyRecipeOK(r)
  BY RecipeSeeds, RecipeSteps DEF KeyFuncs_92111, Recipe, KeyRecipeOK, BuildOK, Small, Slot
<1>18. \A r \in KeyFuncs_99843 : KeyRecipeOK(r)
  BY RecipeSeeds, RecipeSteps DEF KeyFuncs_99843, Recipe, KeyRecipeOK, BuildOK, Small, Slot
<1>19. \A r \in KeyFuncs_106400 : KeyRecipeOK(r)
  BY RecipeSeeds, RecipeSteps DEF KeyFuncs_106400, Recipe, KeyRecipeOK, BuildOK, Small, Slot
<1>20. \A r \in KeyFuncs_111387 : KeyRecipeOK(r)
  BY RecipeSeeds, RecipeSteps DEF KeyFuncs_111387, Recipe, KeyRecipeOK, BuildOK, Small, Slot
<1>21. \A r \in KeyFuncs_115001 : KeyRecipeOK(r)
  BY RecipeSeeds, RecipeSteps DEF KeyFuncs_115001, Recipe, KeyRecipeOK, BuildOK, Small, Slot
<1> QED
  BY <1>1, <1>2, <1>3, <1>4, <1>5, <1>6, <1>7, <1>8, <1>9, <1>10, <1>11, <1>12, <1>13,
     <1>14, <1>15, <1>16, <1>17, <1>18, <1>19, <1>20, <1>21 DEF KeyRecipes

(* The IV recipe of the one build that does not mask its index is the exception. *)
LEMMA IVRecipesOK == \A r \in IVRecipes : IVRecipeOK(r)
<1>1. \A r \in IVFuncs_35328 : IVRecipeOK(r)
  BY RecipeSeeds, RecipeSteps, RecipeMixes, Mixes
     DEF IVFuncs_35328, Recipe, IVRecipeOK, BuildOK, Small, Slot, SeedOK, Unmasked, IgnoreName
<1>2. \A r \in IVFuncs_37254 : IVRecipeOK(r)
  BY RecipeSeeds, RecipeSteps, RecipeMixes, Mixes
     DEF IVFuncs_37254, Recipe, IVRecipeOK, BuildOK, Small, Slot, SeedOK, Unmasked, IgnoreName
<1>3. \A r \in IVFuncs_37793 : IVRecipeOK(r)
  BY RecipeSeeds, RecipeSteps, RecipeMixes, Mixes
     DEF IVFuncs_37793, Recipe, IVRecipeOK, BuildOK, Small, Slot, SeedOK, Unmasked, IgnoreName
<1>4. \A r \in IVFuncs_39023 : IVRecipeOK(r)
  BY RecipeSeeds, RecipeSteps, RecipeMixes, Mixes
     DEF IVFuncs_39023, Recipe, IVRecipeOK, BuildOK, Small, Slot, SeedOK, Unmasked, IgnoreName
<1>5. \A r \in IVFuncs_39935 : IVRecipeOK(r)
  BY RecipeSeeds, RecipeSteps, RecipeMixes, Mixes
     DEF IVFuncs_39935, Recipe, IVRecipeOK, BuildOK, Small, Slot, SeedOK, Unmasked, IgnoreName
<1>6. \A r \in IVFuncs_42539 : IVRecipeOK(r)
  BY RecipeSeeds, RecipeSteps, RecipeMixes, Mixes
     DEF IVFuncs_42539, Recipe, IVRecipeOK, BuildOK, Small, Slot, SeedOK, Unmasked, IgnoreName
<1>7. \A r \in IVFuncs_45420 : IVRecipeOK(r)
  BY RecipeSeeds, RecipeSteps, RecipeMixes, Mixes
     DEF IVFuncs_45420, Recipe, IVRecipeOK, BuildOK, Small, Slot, SeedOK, Unmasked, IgnoreName
<1>8. \A r \in IVFuncs_49656 : IVRecipeOK(r)
  BY RecipeSeeds, RecipeSteps, RecipeMixes, Mixes
     DEF IVFuncs_49656, Recipe, IVRecipeOK, BuildOK, Small, Slot, SeedOK, Unmasked, IgnoreName
<1>9. \A r \in IVFuncs_54052 : IVRecipeOK(r)
  BY RecipeSeeds, RecipeSteps, RecipeMixes, Mixes
     DEF IVFuncs_54052, Recipe, IVRecipeOK, BuildOK, Small, Slot, SeedOK, Unmasked, IgnoreName
<1>10. \A r \in IVFuncs_57796 : IVRecipeOK(r)
  BY RecipeSeeds, RecipeSteps, RecipeMixes, Mixes
     DEF IVFuncs_57796, Recipe, IVRecipeOK, BuildOK, Small, Slot, SeedOK, Unmasked, IgnoreName
<1>11. \A r \in IVFuncs_61542 : IVRecipeOK(r)
  BY RecipeSeeds, RecipeSteps, RecipeMixes, Mixes
     DEF IVFuncs_61542, Recipe, IVRecipeOK, BuildOK, Small, Slot, SeedOK, Unmasked, IgnoreName
<1>12. \A r \in IVFuncs_65302 : IVRecipeOK(r)
  BY RecipeSeeds, RecipeSteps, RecipeMixes, Mixes
     DEF IVFuncs_65302, Recipe, IVRecipeOK, BuildOK, Small, Slot, SeedOK, Unmasked, IgnoreName
<1>13. \A r \in IVFuncs_69340 : IVRecipeOK(r)
  BY RecipeSeeds, RecipeSteps, RecipeMixes, Mixes
     DEF IVFuncs_69340, Recipe, IVRecipeOK, BuildOK, Small, Slot, SeedOK, Unmasked, IgnoreName
<1>14. \A r \in IVFuncs_74102 : IVRecipeOK(r)
  BY RecipeSeeds, RecipeSteps, RecipeMixes, Mixes
     DEF IVFuncs_74102, Recipe, IVRecipeOK, BuildOK, Small, Slot, SeedOK, Unmasked, IgnoreName
<1>15. \A r \in IVFuncs_80550 : IVRecipeOK(r)
  BY RecipeSeeds, RecipeSteps, RecipeMixes, Mixes
     DEF IVFuncs_80550, Recipe, IVRecipeOK, BuildOK, Small, Slot, SeedOK, Unmasked, IgnoreName
<1>16. \A r \in IVFuncs_86739 : IVRecipeOK(r)
  BY RecipeSeeds, RecipeSteps, RecipeMixes, Mixes
     DEF IVFuncs_86739, Recipe, IVRecipeOK, BuildOK, Small, Slot, SeedOK, Unmasked, IgnoreName
<1>17. \A r \in IVFuncs_92111 : IVRecipeOK(r)
  BY RecipeSeeds, RecipeSteps, RecipeMixes, Mixes
     DEF IVFuncs_92111, Recipe, IVRecipeOK, BuildOK, Small, Slot, SeedOK, Unmasked, IgnoreName
<1>18. \A r \in IVFuncs_99843 : IVRecipeOK(r)
  BY RecipeSeeds, RecipeSteps, RecipeMixes, Mixes
     DEF IVFuncs_99843, Recipe, IVRecipeOK, BuildOK, Small, Slot, SeedOK, Unmasked, IgnoreName
<1>19. \A r \in IVFuncs_106400 : IVRecipeOK(r)
  BY RecipeSeeds, RecipeSteps, RecipeMixes, Mixes
     DEF IVFuncs_106400, Recipe, IVRecipeOK, BuildOK, Small, Slot, SeedOK, Unmasked, IgnoreName
<1>20. \A r \in IVFuncs_111387 : IVRecipeOK(r)
  BY RecipeSeeds, RecipeSteps, RecipeMixes, Mixes
     DEF IVFuncs_111387, Recipe, IVRecipeOK, BuildOK, Small, Slot, SeedOK, Unmasked, IgnoreName
<1>21. \A r \in IVFuncs_115001 : IVRecipeOK(r)
  BY RecipeSeeds, RecipeSteps, RecipeMixes, Mixes
     DEF IVFuncs_115001, Recipe, IVRecipeOK, BuildOK, Small, Slot, SeedOK, Unmasked, IgnoreName
<1> QED
  BY <1>1, <1>2, <1>3, <1>4, <1>5, <1>6, <1>7, <1>8, <1>9, <1>10, <1>11, <1>12, <1>13,
     <1>14, <1>15, <1>16, <1>17, <1>18, <1>19, <1>20, <1>21 DEF IVRecipes

(* Every build that has a keytable has both recipes; a row of builtinKeytables at *)
(* a time.                                                                   *)
LEMMA SameBuilds == \A b \in KnownBuilds : b \in KeyBuilds /\ b \in IVBuilds
<1> DEFINE R_35328 == {35328, 35455, 35780, 36473, 36859, 37104, 37130, 37218}
           R_37254 == {37254, 37275, 37415, 37456, 37636, 37646, 37664,
                       37703, 37734, 37755}
           R_37793 == {37793, 37865, 37962, 38044, 38058, 38125, 38170,
                       38248, 38459, 38765, 38882}
           R_39023 == {39023, 39028, 39083, 39103, 39241, 39362, 39425,
                       39484, 39823}
           R_39935 == {39935, 39974, 40407, 40570, 40763, 40990, 41350,
                       41713, 42076, 42210}
           R_42539 == {42539, 42563, 42665, 42936, 43036, 43435, 43515,
                       43605, 44022, 44916, 45214}
           R_45420 == {45420, 45752, 46137, 46510, 46823, 46836, 47161,
                       47452, 47946, 49154}
           R_49656 == {49656, 50148, 50483, 51575, 51948, 52717, 52926,
                       53537, 54011}
           R_54052 == {54052, 54255, 54983, 55290, 55918, 56957, 57230}
           R_57796 == {57796, 57979, 58155, 58625, 59008, 59573, 60038,
                       60360, 60547, 60993}
           R_61542 == {61542, 62065, 62591, 62906, 63372, 63568, 63778,
                       63869, 64346, 64719}
           R_65302 == {65302, 65513, 66302, 66607, 67071, 67664, 68126, 68780}
           R_69340 == {69340, 69939, 70250, 70665, 71213, 71620, 72127,
                       73258, 73677}
           R_74102 == {74102, 75428, 76333, 77262, 78040, 78777, 79605, 80111}
           R_80550 == {80550, 81410, 82693, 82920, 83050, 83584, 84186,
                       84997, 85660}
           R_86739 == {86739, 87506, 88423, 88742, 89353, 90193, 90774}
           R_92111 == {92111, 93519, 94717, 96081, 96894, 98315, 98576, 98845}
           R_99843 == {99843, 100672, 101600, 102337, 102773, 104319, 105760,
                       106110}
           R_106400 == {106400, 107076, 107804, 108097, 109168, 109670,
                        109691, 109912, 110340}
           R_111387 == {111387, 111774, 112214, 112724, 113596, 114357,
                        114579}
           R_115001 == {115001}
<1>0. KnownBuilds = R_35328 \cup R_37254 \cup R_37793 \cup R_39023 \cup R_39935 \cup
                    R_42539 \cup R_45420 \cup R_49656 \cup R_54052 \cup R_57796 \cup
                    R_61542 \cup R_65302 \cup R_69340 \cup R_74102 \cup R_80550 \cup
                    R_86739 \cup R_92111 \cup R_99843 \cup R_106400 \cup R_111387
                    \cup R_115001
  BY DEF KnownBuilds, builtinKeytables
<1> HIDE DEF R_35328, R_37254, R_37793, R_39023, R_39935, R_42539, R_45420, R_49656,
             R_54052, R_57796, R_61542, R_65302, R_69340, R_74102, R_80550, R_86739,
             R_92111, R_99843, R_106400, R_111387, R_115001
<1>1. \A b \in R_35328 : (\E r \in KeyFuncs_35328 : r.build = b) /\ (\E r \in IVFuncs_35328 : r.build = b)
  BY DEF R_35328, KeyFuncs_35328, IVFuncs_35328, Recipe
<1>2. \A b \in R_37254 : (\E r \in KeyFuncs_37254 : r.build = b) /\ (\E r \in IVFuncs_37254 : r.build = b)
  BY DEF R_37254, KeyFuncs_37254, IVFuncs_37254, Recipe
<1>3. \A b \in R_37793 : (\E r \in KeyFuncs_37793 : r.build = b) /\ (\E r \in IVFuncs_37793 : r.build = b)
  BY DEF R_37793, KeyFuncs_37793, IVFuncs_37793, Recipe
<1>4. \A b \in R_39023 : (\E r \in KeyFuncs_39023 : r.build = b) /\ (\E r \in IVFuncs_39023 : r.build = b)
  BY DEF R_39023, KeyFuncs_39023, IVFuncs_39023, Recipe
<1>5. \A b \in R_39935 : (\E r \in KeyFuncs_39935 : r.build = b) /\ (\E r \in IVFuncs_39935 : r.build = b)
  BY DEF R_39935, KeyFuncs_39935, IVFuncs_39935, Recipe
<1>6. \A b \in R_42539 : (\E r \in KeyFuncs_42539 : r.build = b) /\ (\E r \in IVFuncs_42539 : r.build = b)
  BY DEF R_42539, KeyFuncs_42539, IVFuncs_42539, Recipe
<1>7. \A b \in R_45420 : (\E r \in KeyFuncs_45420 : r.build = b) /\ (\E r \in IVFuncs_45420 : r.build = b)
  BY DEF R_45420, KeyFuncs_45420, IVFuncs_45420, Recipe
<1>8. \A b \in R_49656 : (\E r \in KeyFuncs_49656 : r.build = b) /\ (\E r \in IVFuncs_49656 : r.build = b)
  BY DEF R_49656, KeyFuncs_49656, IVFuncs_49656, Recipe
<1>9. \A b \in R_54052 : (\E r \in KeyFuncs_54052 : r.build = b) /\ (\E r \in IVFuncs_54052 : r.build = b)
  BY DEF R_54052, KeyFuncs_54052, IVFuncs_54052, Recipe
<1>10. \A b \in R_57796 : (\E r \in KeyFuncs_57796 : r.build = b) /\ (\E r \in IVFuncs_57796 : r.build = b)
  BY DEF R_57796, KeyFuncs_57796, IVFuncs_57796, Recipe
<1>11. \A b \in R_61542 : (\E r \in KeyFuncs_61542 : r.build = b) /\ (\E r \in IVFuncs_61542 : r.build = b)
  BY DEF R_61542, KeyFuncs_61542, IVFuncs_61542, Recipe
<1>12. \A b \in R_65302 : (\E r \in KeyFuncs_65302 : r.build = b) /\ (\E r \in IVFuncs_65302 : r.build = b)
  BY DEF R_65302, KeyFuncs_65302, IVFuncs_65302, Recipe
<1>13. \A b \in R_69340 : (\E r \in KeyFuncs_69340 : r.build = b) /\ (\E r \in IVFuncs_69340 : r.build = b)
  BY DEF R_69340, KeyFuncs_69340, IVFuncs_69340, Recipe
<1>14. \A b \in R_74102 : (\E r \in KeyFuncs_74102 : r.build = b) /\ (\E r \in IVFuncs_74102 : r.build = b)
  BY DEF R_74102, KeyFuncs_74102, IVFuncs_74102, Recipe
<1>15. \A b \in R_80550 : (\E r \in KeyFuncs_80550 : r.build = b) /\ (\E r \in IVFuncs_80550 : r.build = b)
  BY DEF R_80550, KeyFuncs_80550, IVFuncs_80550, Recipe
<1>16. \A b \in R_86739 : (\E r \in KeyFuncs_86739 : r.build = b) /\ (\E r \in IVFuncs_86739 : r.build = b)
  BY DEF R_86739, KeyFuncs_86739, IVFuncs_86739, Recipe
<1>17. \A b \in R_92111 : (\E r \in KeyFuncs_92111 : r.build = b) /\ (\E r \in IVFuncs_92111 : r.build = b)
  BY DEF R_92111, KeyFuncs_92111, IVFuncs_92111, Recipe
<1>18. \A b \in R_99843 : (\E r \in KeyFuncs_99843 : r.build = b) /\ (\E r \in IVFuncs_99843 : r.build = b)
  BY DEF R_99843, KeyFuncs_99843, IVFuncs_99843, Recipe
<1>19. \A b \in R_106400 : (\E r \in KeyFuncs_106400 : r.build = b) /\ (\E r \in IVFuncs_106400 : r.build = b)
  BY DEF R_106400, KeyFuncs_106400, IVFuncs_106400, Recipe
<1>20. \A b \in R_111387 : (\E r \in KeyFuncs_111387 : r.build = b) /\ (\E r \in IVFuncs_111387 : r.build = b)
  BY DEF R_111387, KeyFuncs_111387, IVFuncs_111387, Recipe
<1>21. \A b \in R_115001 : (\E r \in KeyFuncs_115001 : r.build = b) /\ (\E r \in IVFuncs_115001 : r.build = b)
  BY DEF R_115001, KeyFuncs_115001, IVFuncs_115001, Recipe
<1>22. \A b \in KnownBuilds : (\E r \in KeyRecipes : r.build = b) /\ (\E r \in IVRecipes : r.build = b)
  BY <1>0, <1>1, <1>2, <1>3, <1>4, <1>5, <1>6, <1>7, <1>8, <1>9, <1>10, <1>11, <1>12,
     <1>13, <1>14, <1>15, <1>16, <1>17, <1>18, <1>19, <1>20, <1>21
     DEF KeyRecipes, IVRecipes
<1> QED
  BY <1>22 DEF KeyBuilds, IVBuilds

------------------------------------------------------------------------------
(* The call. *)

(* What a Key and an IV function leave at a byte.                           *)
OfKey(x)   == x.table # NoByte /\ x.digest = NoByte
OfIV(b, x) == b \notin IgnoreName => x.digest # NoByte

CallInv ==
  /\ pc \in {"lookup", "seed", "loop", "done", "error", "panic"} /\ phase \in {"key", "iv"}
  /\ call.build \in KnownBuilds /\ call.hdr \in Headers
  /\ call.keytable \in DOMAIN Keytables /\ call.digest \in DOMAIN Digests
  /\ kidx \in Word /\ seed \in Word

(* The function that runs is that of the phase, and it has written the buffer. *)
FunctionInv ==
  /\ pc \in {"seed", "loop"} =>
       func = IF phase = "key" THEN builtinKeyFuncs[call.build] ELSE builtinIVFuncs[call.build]
  /\ pc \in {"lookup", "seed"} => buffer = <<>>
  /\ pc = "lookup" => phase = "key"

(* A byte of a buffer. *)
Entry == [table : TableSlots \cup {NoByte}, digest : DigestSlots \cup {NoByte}]

BytesInv ==
  /\ buffer \in Seq(Entry) /\ Len(buffer) <= Env.length
  /\ \A j \in 1..Len(buffer) :
       IF phase = "key" THEN OfKey(buffer[j]) ELSE OfIV(call.build, buffer[j])
  /\ phase = "iv" => Len(key) = KeySize /\ \A j \in 1..Len(key) : OfKey(key[j])
  /\ pc = "done" => phase = "iv" /\ Len(buffer) = IVSize

KeysInv == CallInv /\ FunctionInv /\ BytesInv /\ Derives

LEMMA Functions ==
  ASSUME NEW b \in KnownBuilds
  PROVE  /\ builtinKeyFuncs[b].build = b /\ KeyRecipeOK(builtinKeyFuncs[b])
         /\ builtinIVFuncs[b].build = b /\ IVRecipeOK(builtinIVFuncs[b])
<1>1. b \in KeyBuilds /\ b \in IVBuilds
  BY SameBuilds
<1>2. ASSUME NEW R, \E r \in R : r.build = b
      PROVE  RecipeOf(b, R) \in R /\ RecipeOf(b, R).build = b
  BY <1>2 DEF RecipeOf
<1>3. RecipeOf(b, KeyRecipes) \in KeyRecipes /\ RecipeOf(b, KeyRecipes).build = b
  BY <1>1, <1>2 DEF KeyBuilds
<1>4. RecipeOf(b, IVRecipes) \in IVRecipes /\ RecipeOf(b, IVRecipes).build = b
  BY <1>1, <1>2 DEF IVBuilds
<1>5. builtinKeyFuncs[b] = RecipeOf(b, KeyRecipes) /\ builtinIVFuncs[b] = RecipeOf(b, IVRecipes)
  BY <1>1 DEF builtinKeyFuncs, builtinIVFuncs
<1> QED
  BY <1>3, <1>4, <1>5, KeyRecipesOK, IVRecipesOK

LEMMA EnvCalled == CallInv => Called(Env)
<1> SUFFICES ASSUME CallInv PROVE Called(Env)
  OBVIOUS
<1> DEFINE t == Keytables[call.keytable]
           d == Digests[call.digest]
<1>1. Small(call.build) /\ 0 < call.build
  BY Functions DEF CallInv, KeyRecipeOK, BuildOK
<1>2. /\ call.hdr.DataCount \in Word /\ call.hdr.EntryCount \in Word /\ Octet(call.hdr.version)
  BY HeadersAssumption, Ranges DEF CallInv
<1>3. t \in [TableSlots -> Octets] /\ d \in [DigestSlots -> Octets]
  BY ArraysAssumption DEF CallInv
<1> HIDE DEF t, d
<1>4. \A i : Slot(i) => Octet(t[i])
  BY <1>3, Ranges
<1>5. \A i : Digit(i) => Octet(d[i])
  BY <1>3, Ranges
<1>6. /\ Env.BuildVersion = call.build /\ Env.DataCount = call.hdr.DataCount
      /\ Env.EntryCount = call.hdr.EntryCount /\ Env.version = call.hdr.version
      /\ Env.keytable = t /\ Env.digest = d
      /\ Env.length = 32 \/ Env.length = 16
  BY DEF Env, KeySize, IVSize, t, d
<1> QED
  BY <1>1, <1>2, <1>4, <1>5, <1>6 DEF Called

LEMMA EnvLength ==
  Env.length = IF phase = "key" THEN 32 ELSE 16
BY DEF Env, KeySize, IVSize

LEMMA EnvSame == call' = call /\ phase' = phase => Env' = Env
BY DEF Env

LEMMA InitKeys == Init => KeysInv
<1> SUFFICES ASSUME Init PROVE KeysInv
  OBVIOUS
<1>1. PICK b \in KnownBuilds, h \in Headers, t \in DOMAIN Keytables, d \in DOMAIN Digests :
        call = [build |-> b, hdr |-> h, keytable |-> t, digest |-> d]
  BY DEF Init
<1>2. CallInv
  <2>1. 0 \in Word
    BY SmallInWord DEF Small
  <2> QED
    BY <1>1, <2>1 DEF Init, CallInv
<1>3. FunctionInv /\ Derives
  BY DEF Init, FunctionInv, Derives
<1>4. BytesInv
  <2>1. buffer = <<>> /\ phase = "key" /\ pc = "lookup"
    BY DEF Init
  <2>2. Len(buffer) = 0 /\ buffer \in Seq(Entry)
    BY <2>1
  <2> QED
    BY <2>1, <2>2, EnvLength DEF BytesInv
<1> QED
  BY <1>2, <1>3, <1>4 DEF KeysInv

LEMMA LookupKeys == KeysInv /\ Lookup => KeysInv'
<1> SUFFICES ASSUME KeysInv, Lookup PROVE KeysInv'
  OBVIOUS
<1>1. call.build \in builtinKeytables \cap KeyBuilds \cap IVBuilds
  BY SameBuilds DEF KeysInv, CallInv, KnownBuilds
<1>2. /\ pc = "lookup" /\ pc' = "seed" /\ func' = builtinKeyFuncs[call.build]
      /\ call' = call /\ phase' = phase /\ kidx' = kidx /\ seed' = seed
      /\ buffer' = buffer /\ key' = key
  BY <1>1 DEF Lookup
<1>3. CallInv' /\ FunctionInv' /\ Derives'
  BY <1>2 DEF KeysInv, CallInv, FunctionInv, Derives
<1>4. BytesInv'
  BY <1>2, EnvSame DEF KeysInv, BytesInv, OfIV, OfKey
<1> QED
  BY <1>3, <1>4 DEF KeysInv

LEMMA SeedKeys == KeysInv /\ Seed => KeysInv'
<1> SUFFICES ASSUME KeysInv, Seed PROVE KeysInv'
  OBVIOUS
<1> DEFINE f == func.seed
<1>1. Called(Env)
  BY EnvCalled DEF KeysInv
<1>2. SeedTyped(f) /\ (call.build \notin Unmasked => SeedInTable(f))
  BY Functions DEF KeysInv, CallInv, FunctionInv, Seed, KeyRecipeOK, IVRecipeOK, SeedOK
<1> HIDE DEF f
<1>3. /\ pc = "seed" /\ call' = call /\ phase' = phase /\ func' = func
      /\ buffer' = buffer /\ key' = key
  BY DEF Seed
<1>4. CASE ReadsTable(f) /\ SeedIndex(Env, f) \notin TableSlots
  <2>1. call.build \in Unmasked
    BY <1>1, <1>2, <1>4, Ranges DEF SeedInTable
  <2>2. pc' = "panic" /\ kidx' = kidx /\ seed' = seed
    BY <1>4 DEF Seed, f
  <2>3. CallInv' /\ FunctionInv' /\ Derives'
    BY <1>3, <2>1, <2>2 DEF KeysInv, CallInv, FunctionInv, Derives
  <2>4. BytesInv'
    BY <1>3, <2>2, EnvSame DEF KeysInv, BytesInv, OfIV, OfKey
  <2> QED
    BY <2>3, <2>4 DEF KeysInv
<1>5. CASE ~(ReadsTable(f) /\ SeedIndex(Env, f) \notin TableSlots)
  <2>1. pc' = "loop" /\ kidx' = SeedValue(Env, f) /\ seed' = kidx'
    BY <1>5 DEF Seed, f
  <2>2. SeedValue(Env, f) \in Word
    BY <1>1, <1>2, <1>5, Ranges DEF SeedTyped
  <2>3. CallInv' /\ FunctionInv' /\ Derives'
    BY <1>3, <2>1, <2>2 DEF KeysInv, CallInv, FunctionInv, Derives
  <2>4. BytesInv'
    BY <1>3, <2>1, EnvSame DEF KeysInv, BytesInv, OfIV, OfKey
  <2> QED
    BY <2>3, <2>4 DEF KeysInv
<1> QED
  BY <1>4, <1>5

LEMMA IterateKeys == KeysInv /\ Iterate => KeysInv'
<1> SUFFICES ASSUME KeysInv, Iterate PROVE KeysInv'
  OBVIOUS
<1> DEFINE next   == Step(Env, seed, kidx, func.step)
           table  == IF UsesTable(func.mix) THEN signedMod(kidx, 512) ELSE NoByte
           digest == IF UsesDigest(func.mix)
                     THEN DigestIndex(Env, next, Len(buffer), func.mix) ELSE NoByte
           x      == [table |-> table, digest |-> digest]
<1>1. Called(Env) /\ kidx \in Word /\ seed \in Word
  BY EnvCalled DEF KeysInv, CallInv
<1>2. /\ pc = "loop" /\ call' = call /\ phase' = phase /\ func' = func /\ seed' = seed /\ key' = key
      /\ Len(buffer) < Env.length /\ buffer \in Seq(Entry) /\ phase \in {"key", "iv"}
  BY DEF Iterate, KeysInv, BytesInv, CallInv
<1>3. /\ StepTyped(func.step)
      /\ phase = "key" => func.mix = Plain
      /\ phase = "iv" => /\ MixInDigest(func.mix)
                         /\ call.build \notin IgnoreName => UsesDigest(func.mix)
  BY <1>2, Functions DEF KeysInv, CallInv, FunctionInv, KeyRecipeOK, IVRecipeOK
<1>4. next \in Word
  BY <1>1, <1>3 DEF StepTyped
<1> HIDE DEF next
<1>5. Slot(Len(buffer))
  BY <1>1, <1>2 DEF Called, Slot
<1>6. table \in TableSlots \cup {NoByte} /\ digest \in DigestSlots \cup {NoByte}
  <2>1. Slot(signedMod(kidx, 512))
    BY <1>1, WordInt, SlotOfMod
  <2>2. UsesDigest(func.mix) => Digit(DigestIndex(Env, next, Len(buffer), func.mix))
    BY <1>1, <1>2, <1>3, <1>4, <1>5, Mixes DEF MixInDigest
  <2> QED
    BY <2>1, <2>2, Ranges, Zenon
<1>7. IF phase = "key" THEN OfKey(x) ELSE OfIV(call.build, x)
  <2>1. signedMod(kidx, 512) # NoByte
    BY <1>1, WordInt, SlotOfMod, Ranges, NoByteAssumption
  <2>2. Digit(DigestIndex(Env, next, Len(buffer), func.mix)) =>
          DigestIndex(Env, next, Len(buffer), func.mix) # NoByte
    BY Ranges, NoByteAssumption DEF Digit, Slot
  <2>3. UsesDigest(func.mix) /\ phase = "iv" =>
          Digit(DigestIndex(Env, next, Len(buffer), func.mix))
    BY <1>1, <1>3, <1>4, <1>5 DEF MixInDigest
  <2>4. CASE phase = "key"
    BY <1>3, <2>1, <2>4, Mixes DEF OfKey
  <2>5. CASE phase = "iv"
    BY <1>3, <2>2, <2>3, <2>5 DEF OfIV
  <2> QED
    BY <1>2, <2>4, <2>5
<1>8. /\ kidx' = next /\ buffer' = Append(buffer, x) /\ pc' = "loop"
  BY <1>2, <1>6, Zenon DEF Iterate, next
<1>9. x \in Entry
  BY <1>6 DEF Entry
<1> HIDE DEF x, table, digest
<1>10. /\ buffer' \in Seq(Entry) /\ Len(buffer') = Len(buffer) + 1 /\ Len(buffer) \in Nat
       /\ \A j \in 1..Len(buffer) : buffer'[j] = buffer[j]
       /\ buffer'[Len(buffer) + 1] = x
  BY <1>2, <1>8, <1>9
<1>11. CallInv' /\ FunctionInv' /\ Derives'
  BY <1>2, <1>4, <1>8 DEF KeysInv, CallInv, FunctionInv, Derives
<1>12. BytesInv'
  <2>1. Len(buffer') <= Env'.length
    BY <1>1, <1>2, <1>10, EnvSame DEF Called
  <2>2. ASSUME NEW j \in 1..Len(buffer')
        PROVE  IF phase' = "key" THEN OfKey(buffer'[j]) ELSE OfIV(call'.build, buffer'[j])
    <3>1. j \in 1..Len(buffer) \/ j = Len(buffer) + 1
      BY <1>10
    <3>2. CASE j = Len(buffer) + 1
      BY <1>2, <1>7, <1>10, <3>2
    <3>3. CASE j \in 1..Len(buffer)
      BY <1>2, <1>10, <3>3 DEF KeysInv, BytesInv
    <3> QED
      BY <3>1, <3>2, <3>3
  <2>3. phase' = "iv" => Len(key') = KeySize /\ \A j \in 1..Len(key') : OfKey(key'[j])
    BY <1>2 DEF KeysInv, BytesInv
  <2> QED
    BY <1>2, <1>8, <1>10, <2>1, <2>2, <2>3 DEF BytesInv
<1> QED
  BY <1>11, <1>12 DEF KeysInv

LEMMA ReturnKeys == KeysInv /\ Return => KeysInv'
<1> SUFFICES ASSUME KeysInv, Return PROVE KeysInv'
  OBVIOUS
<1>1. /\ pc = "loop" /\ Len(buffer) = Env.length /\ call' = call /\ kidx' = kidx /\ seed' = seed
  BY DEF Return
<1>2. CASE phase = "key"
  <2>1. /\ phase' = "iv" /\ pc' = "seed" /\ func' = builtinIVFuncs[call.build]
        /\ key' = buffer /\ buffer' = <<>>
    BY <1>2 DEF Return
  <2>2. CallInv' /\ FunctionInv' /\ Derives'
    BY <1>1, <2>1 DEF KeysInv, CallInv, FunctionInv, Derives
  <2>3. Len(key') = KeySize /\ \A j \in 1..Len(key') : OfKey(key'[j])
    BY <1>1, <1>2, <2>1, EnvLength DEF KeysInv, BytesInv, KeySize
  <2>4. Len(buffer') = 0 /\ buffer' \in Seq(Entry) /\ 0 <= Env'.length
    <3>1. Env'.length = 16
      BY <2>1 DEF Env, IVSize
    <3> QED
      BY <2>1, <3>1
  <2>5. BytesInv'
    BY <2>1, <2>3, <2>4 DEF BytesInv, OfKey
  <2> QED
    BY <2>2, <2>5 DEF KeysInv
<1>3. CASE phase # "key"
  <2>1. pc' = "done" /\ phase' = phase /\ func' = func /\ buffer' = buffer /\ key' = key
    BY <1>3 DEF Return
  <2>2. phase = "iv" /\ Len(buffer) = IVSize
    BY <1>1, <1>3, EnvLength DEF KeysInv, CallInv, IVSize
  <2>3. CallInv' /\ FunctionInv' /\ Derives'
    BY <1>1, <2>1 DEF KeysInv, CallInv, FunctionInv, Derives
  <2>4. BytesInv'
    BY <1>1, <2>1, <2>2, EnvSame DEF KeysInv, BytesInv, OfKey, OfIV
  <2> QED
    BY <2>3, <2>4 DEF KeysInv
<1> QED
  BY <1>2, <1>3

(* The inductive invariant of a call.                                       *)
THEOREM KeysInvariant == Spec => []KeysInv
<1>1. KeysInv /\ [Next]_vars => KeysInv'
  <2> SUFFICES ASSUME KeysInv, [Next]_vars PROVE KeysInv'
    OBVIOUS
  <2>1. CASE UNCHANGED vars
    <3>1. Env' = Env
      BY <2>1, EnvSame DEF vars
    <3> QED
      BY <2>1, <3>1 DEF vars, KeysInv, CallInv, FunctionInv, BytesInv, Derives, OfKey, OfIV
  <2>2. CASE Next
    BY <2>2, LookupKeys, SeedKeys, IterateKeys, ReturnKeys DEF Next
  <2> QED
    BY <2>1, <2>2
<1> QED
  BY InitKeys, <1>1, PTL DEF Spec

(* Whatever the header, the keytable and the name of the file are, the      *)
(* cursor keeps to 32 bits and no buffer is written past its end            *)
(* (keyfuncs_generated.go).                                                 *)
THEOREM KeysTypeCorrect == Spec => []TypeOK
<1>1. KeysInv => TypeOK
  BY DEF KeysInv, CallInv, BytesInv, TypeOK
<1> QED
  BY KeysInvariant, <1>1, PTL

(* For every build but 39103, no header, keytable or name makes an index    *)
(* leave its array: no call panics, and none is for a build without         *)
(* functions (makeProvider, keyfuncs_generated.go).                         *)
THEOREM EveryBuildDerives == Spec => []Derives
<1>1. KeysInv => Derives
  BY DEF KeysInv
<1> QED
  BY KeysInvariant, <1>1, PTL

(* For every build but two, each of the 16 bytes of the IV is mixed with a  *)
(* byte of the digest of the name, and no byte of the 32 of the key is.     *)
THEOREM IVsMixTheName == Spec => []IVTellsFilesApart
<1>1. KeysInv => IVTellsFilesApart
  <2> SUFFICES ASSUME KeysInv, pc = "done" PROVE IVTellsFilesApart
    BY DEF IVTellsFilesApart
  <2> QED
    BY DEF KeysInv, BytesInv, IVTellsFilesApart, OfKey, OfIV
<1> QED
  BY KeysInvariant, <1>1, PTL
==============================================================================
