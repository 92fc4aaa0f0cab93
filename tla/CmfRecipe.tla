------------------------------ MODULE CmfRecipe ------------------------------
(***************************************************************************)
(* The arithmetic the generated Key and IV functions of the Overwatch CMF  *)
(* key table are made of (runtime.go, keyfuncs_generated.go).              *)
(*                                                                         *)
(* Every one of the 358 functions has the shape                            *)
(*     kidx := <seed>                                                      *)
(*     for i := 0; i != length; i++ {                                      *)
(*         buffer[i] = keytable[kidx mod 512]; kidx <step>;                *)
(*         buffer[i] ^= digest[<position> mod 20]  }                       *)
(* so a function is a record of a seed, a step and a mix, each a tuple     *)
(* whose first member names its form.  A uint32 is the integer of          *)
(* -2^31 .. 2^31-1 with the same bits, i.e. what int32(x) gives: TLC has   *)
(* no wider integers.  The constant some functions add to the digest byte  *)
(* is left out: the model says which bytes are read, not what they are.    *)
(***************************************************************************)
EXTENDS Integers

MaxInt32 == 2147483647
MinInt32 == -MaxInt32 - 1
Word     == MinInt32..MaxInt32

------------------------------------------------------------------------------
(* uint32 arithmetic: + - * wrap, % is unsigned. *)

Plus(a, b) ==
  IF a >= 0 /\ b > MaxInt32 - a THEN (a + MinInt32) + (b + MinInt32)
  ELSE IF a < 0 /\ b < MinInt32 - a THEN (a - MinInt32) + (b - MinInt32)
  ELSE a + b

Minus(a, b) == Plus(Plus(a, -1 - b), 1)

Bytes(x) == <<x % 256, (x \div 256) % 256, (x \div 65536) % 256, (x \div 16777216) % 256>>

FromBytes(b0, b1, b2, b3) ==
  b0 + 256 * b1 + 65536 * b2 + 16777216 * (IF b3 >= 128 THEN b3 - 256 ELSE b3)

(* Byte by byte, with carries: no intermediate value is wider than TLC's.   *)
Times(a, b) ==
  LET x  == Bytes(a)
      y  == Bytes(b)
      c0 == x[1] * y[1]
      c1 == x[1] * y[2] + x[2] * y[1] + (c0 \div 256)
      c2 == x[1] * y[3] + x[2] * y[2] + x[3] * y[1] + (c1 \div 256)
      c3 == x[1] * y[4] + x[2] * y[3] + x[3] * y[2] + x[4] * y[1] + (c2 \div 256)
  IN FromBytes(c0 % 256, c1 % 256, c2 % 256, c3 % 256)

(* x & y of two numbers below 64. *)
And(x, y) ==
  LET bit(w) == IF (x \div w) % 2 = 1 /\ (y \div w) % 2 = 1 THEN w ELSE 0
  IN bit(1) + bit(2) + bit(4) + bit(8) + bit(16) + bit(32)

UMod(x, m) ==
  IF x >= 0 THEN x % m
  ELSE (((x - MinInt32) % m) + (MaxInt32 % m) + 1) % m

(* Go's % on int32: the remainder has the sign of the dividend. *)
GoRem(a, b) == IF a < 0 /\ a % b # 0 THEN (a % b) - b ELSE a % b

(* Mutant: a negative remainder is left as it is.                           *)
signedModOfGo(p1, p2) == GoRem(p1, p2)

signedMod(p1, p2) ==
  LET r == GoRem(p1, p2) IN IF r < 0 THEN r + p2 ELSE r

(* value % 0xFFFFFFFF of a uint32 widened to int64. *)
constrain(value) == IF value = -1 THEN 0 ELSE value

Mod(sign, x, m) == IF sign = "s" THEN signedMod(x, m) ELSE UMod(x, m)

(* 0x00666D63 | version << 24 *)
nonEncryptedMagic(version) == Plus(6712675, Times(16777216, version))

------------------------------------------------------------------------------
(* The forms.  At... seeds read the keytable, the others do not. *)

Recipe(build, seed, step, mix) == [build |-> build, seed |-> seed, step |-> step, mix |-> mix]

RecipeOf(b, recipes) == CHOOSE r \in recipes : r.build = b

At(n)                  == <<"At", n>>
AtTable(n)             == <<"AtTable", n>>
AtData                 == <<"AtData">>
AtBuild                == <<"AtBuild">>
AtLength(n)            == <<"AtLength", n>>
AtLengthTimes(n)       == <<"AtLengthTimes", n>>
AtBuildTimesLength     == <<"AtBuildTimesLength">>
AtDigestTimes(d, n)    == <<"AtDigestTimes", d, n>>
AtTimesDigest(c, d)    == <<"AtTimesDigest", c, d>>
AtTimesDigestLessLength(c, d)         == <<"AtTimesDigestLessLength", c, d>>
AtTimesDigestLessLengthUnmasked(c, d) == <<"AtTimesDigestLessLengthUnmasked", c, d>>

Fixed(c)               == <<"Fixed", c>>
TheLength              == <<"TheLength">>
BuildTimesLength       == <<"BuildTimesLength">>
ConstrainedBuildTimesLength == <<"ConstrainedBuildTimesLength">>
TimesDigest(c, d)      == <<"TimesDigest", c, d>>
DigestPlusData(d)      == <<"DigestPlusData", d>>
DigestPlusMaskedData(d) == <<"DigestPlusMaskedData", d>>
DataPlusDigest(d)      == <<"DataPlusDigest", d>>
DigestOfData(n)        == <<"DigestOfData", n>>
Unused                 == <<"Unused">>

Const(c)               == <<"Const", c>>
SeedMod(c)             == <<"SeedMod", c>>
SeedAnd(c)             == <<"SeedAnd", c>>
Build                  == <<"Build">>
BuildMasked            == <<"BuildMasked">>
Data                   == <<"Data">>
Entries                == <<"Entries">>
BuildTimesDataMod(c)   == <<"BuildTimesDataMod", c>>
BuildPlusDataMod(c)    == <<"BuildPlusDataMod", c>>
TimesDigestMod(a, d, c) == <<"TimesDigestMod", a, d, c>>
EntriesPlusDigest(s, c) == <<"EntriesPlusDigest", s, c>>
DataPlusItsDigest(s)   == <<"DataPlusItsDigest", s>>
DataPlusItsDigestMod(s, c) == <<"DataPlusItsDigestMod", s, c>>
IfOdd(d, odd, even)    == <<"IfOdd", d, odd, even>>

Add(amount)            == <<"Add", amount>>
Sub(amount)            == <<"Sub", amount>>
BuildMinus             == <<"BuildMinus">>
ConstrainedBuildMinus  == <<"ConstrainedBuildMinus">>
ToBuild                == <<"ToBuild">>
Three(s, c0, t, c1)    == <<"Three", s, c0, t, c1>>
Stay                   == <<"Stay">>

Plain                  == <<"Plain">>
Set(s, p)              == <<"Set", s, p>>
SetOver(s, p)          == <<"SetOver", s, p>>
Mix(s, p)              == <<"Mix", s, p>>
MixAlone(s, p)         == <<"MixAlone", s, p>>
Zero                   == <<"Zero">>

Cursor                 == <<"Cursor">>
CursorMinusI           == <<"CursorMinusI">>
CursorPlusI            == <<"CursorPlusI">>
CursorPlusData         == <<"CursorPlusData">>
CursorPlusEntries      == <<"CursorPlusEntries">>
CursorPlusBuild        == <<"CursorPlusBuild">>
CursorPlusMagic        == <<"CursorPlusMagic">>
CursorMinus(c)         == <<"CursorMinus", c>>
CursorPlus(c)          == <<"CursorPlus", c>>
BuildPlusI             == <<"BuildPlusI">>

------------------------------------------------------------------------------
(***************************************************************************)
(* What the forms compute.  e is the call: the header fields               *)
(* BuildVersion, DataCount, EntryCount and version, the keytable, the      *)
(* digest and length.                                                      *)
(***************************************************************************)

(* The index of the keytable an At... seed reads, as the code masks it. *)
SeedIndex(e, f) ==
  CASE f[1] = "At"                 -> f[2]
    [] f[1] = "AtTable"            -> UMod(e.keytable[f[2]], 512)
    [] f[1] = "AtData"             -> UMod(e.DataCount, 512)
    [] f[1] = "AtBuild"            -> UMod(e.BuildVersion, 512)
    [] f[1] = "AtLength"           -> e.length + f[2]
    [] f[1] = "AtLengthTimes"      -> UMod(e.length * e.keytable[f[2]], 512)
    [] f[1] = "AtBuildTimesLength" -> signedMod(Times(e.BuildVersion, e.length), 512)
    [] f[1] = "AtDigestTimes"      -> UMod(e.digest[f[2]] * e.keytable[f[3]], 512)
    [] f[1] = "AtTimesDigest"      -> UMod(f[2] * e.digest[f[3]], 512)
    [] f[1] = "AtTimesDigestLessLength" -> UMod(f[2] * e.digest[f[3]] - e.length, 512)
    [] f[1] = "AtTimesDigestLessLengthUnmasked" -> f[2] * e.digest[f[3]] - e.length

ReadsTable(f) ==
  f[1] \in {"At", "AtTable", "AtData", "AtBuild", "AtLength", "AtLengthTimes",
            "AtBuildTimesLength", "AtDigestTimes", "AtTimesDigest",
            "AtTimesDigestLessLength", "AtTimesDigestLessLengthUnmasked"}

SeedValue(e, f) ==
  CASE ReadsTable(f)               -> e.keytable[SeedIndex(e, f)]
    [] f[1] = "Fixed"              -> f[2]
    [] f[1] = "TheLength"          -> e.length
    [] f[1] = "BuildTimesLength"   -> Times(e.BuildVersion, e.length)
    [] f[1] = "ConstrainedBuildTimesLength" -> constrain(Times(e.BuildVersion, e.length))
    [] f[1] = "TimesDigest"        -> f[2] * e.digest[f[3]]
    [] f[1] = "DigestPlusData"     -> UMod(Plus(e.DataCount, e.digest[f[2]]), 512)
    [] f[1] = "DigestPlusMaskedData" -> UMod(e.DataCount, 512) + e.digest[f[2]]
    [] f[1] = "DataPlusDigest"     -> Plus(e.DataCount, e.digest[f[2]])
    [] f[1] = "DigestOfData"       -> e.digest[signedMod(Plus(e.DataCount, f[2]), 20)]
    [] f[1] = "Unused"             -> 0

------------------------------------------------------------------------------
(* What a step adds or subtracts; seed is the kidx the loop began with. *)
PlainAmount(e, seed, a) ==
  LET PlusDigest(x, s, c) == Plus(x, e.digest[Mod(s, x, c)])
  IN CASE a[1] = "Const"       -> a[2]
       [] a[1] = "SeedMod"     -> UMod(seed, a[2])
       [] a[1] = "SeedAnd"     -> And(UMod(seed, 64), a[2])
       [] a[1] = "Build"       -> e.BuildVersion
       [] a[1] = "BuildMasked" -> UMod(e.BuildVersion, 512)
       [] a[1] = "Data"        -> e.DataCount
       [] a[1] = "Entries"     -> e.EntryCount
       [] a[1] = "BuildTimesDataMod" -> UMod(Times(e.DataCount, e.BuildVersion), a[2])
       [] a[1] = "BuildPlusDataMod"  -> e.BuildVersion + UMod(e.DataCount, a[2])
       [] a[1] = "TimesDigestMod"    -> (a[2] * e.digest[a[3]]) % a[4]
       [] a[1] = "EntriesPlusDigest" -> PlusDigest(e.EntryCount, a[2], a[3])
       [] a[1] = "DataPlusItsDigest" -> PlusDigest(e.DataCount, a[2], 20)
       [] a[1] = "DataPlusItsDigestMod" -> UMod(PlusDigest(e.DataCount, a[2], 20), a[3])

Amount(e, seed, a) ==
  IF a[1] = "IfOdd" THEN PlainAmount(e, seed, IF e.digest[a[2]] % 2 = 1 THEN a[3] ELSE a[4])
  ELSE PlainAmount(e, seed, a)

Step(e, seed, kidx, f) ==
  CASE f[1] = "Add"        -> Plus(kidx, Amount(e, seed, f[2]))
    [] f[1] = "Sub"        -> Minus(kidx, Amount(e, seed, f[2]))
    [] f[1] = "BuildMinus" -> Minus(e.BuildVersion, kidx)
    [] f[1] = "ConstrainedBuildMinus" -> constrain(Minus(e.BuildVersion, kidx))
    [] f[1] = "ToBuild"    -> e.BuildVersion
    [] f[1] = "Stay"       -> kidx
    [] f[1] = "Three"      ->
         LET r == Mod(f[2], kidx, 3)
         IN CASE r = 0 -> Plus(kidx, f[3])
              [] r = 1 -> Mod(f[4], Times(kidx, f[5]), e.BuildVersion)
              [] r = 2 -> Minus(kidx, 1)

(* The position of the digest a mix reads before it is reduced mod 20; kidx *)
(* has taken its step.                                                      *)
Position(e, kidx, i, p) ==
  CASE p[1] = "Cursor"            -> kidx
    [] p[1] = "CursorMinusI"      -> Minus(kidx, i)
    [] p[1] = "CursorPlusI"       -> Plus(kidx, i)
    [] p[1] = "CursorPlusData"    -> Plus(kidx, e.DataCount)
    [] p[1] = "CursorPlusEntries" -> Plus(kidx, e.EntryCount)
    [] p[1] = "CursorPlusBuild"   -> Plus(kidx, e.BuildVersion)
    [] p[1] = "CursorPlusMagic"   -> Plus(kidx, nonEncryptedMagic(e.version))
    [] p[1] = "CursorMinus"       -> Minus(kidx, p[2])
    [] p[1] = "CursorPlus"        -> Plus(kidx, p[2])
    [] p[1] = "BuildPlusI"        -> e.BuildVersion + i

UsesTable(mix)  == mix[1] \in {"Plain", "SetOver", "Mix"}
UsesDigest(mix) == mix[1] \in {"Set", "SetOver", "Mix", "MixAlone"}
DigestIndex(e, kidx, i, mix) == Mod(mix[2], Position(e, kidx, i, mix[3]), 20)
==============================================================================
