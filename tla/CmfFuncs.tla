------------------------------- MODULE CmfFuncs -------------------------------
(***************************************************************************)
(* The builds of the 179 keytables (keytables_generated.go), and           *)
(* builtinKeyFuncs and builtinIVFuncs, one recipe per build, in the order  *)
(* of the source (keyfuncs_generated.go).                                  *)
(***************************************************************************)
EXTENDS CmfRecipe

(* The keys of the map; what a table holds is a parameter of CmfKeys.        *)
builtinKeytables ==
  {35328, 35455, 35780, 36473, 36859, 37104, 37130, 37218} \cup
  {37254, 37275, 37415, 37456, 37636, 37646, 37664, 37703, 37734, 37755} \cup
  {37793, 37865, 37962, 38044, 38058, 38125, 38170, 38248, 38459, 38765,
   38882} \cup
  {39023, 39028, 39083, 39103, 39241, 39362, 39425, 39484, 39823} \cup
  {39935, 39974, 40407, 40570, 40763, 40990, 41350, 41713, 42076, 42210} \cup
  {42539, 42563, 42665, 42936, 43036, 43435, 43515, 43605, 44022, 44916,
   45214} \cup
  {45420, 45752, 46137, 46510, 46823, 46836, 47161, 47452, 47946, 49154} \cup
  {49656, 50148, 50483, 51575, 51948, 52717, 52926, 53537, 54011} \cup
  {54052, 54255, 54983, 55290, 55918, 56957, 57230} \cup
  {57796, 57979, 58155, 58625, 59008, 59573, 60038, 60360, 60547, 60993} \cup
  {61542, 62065, 62591, 62906, 63372, 63568, 63778, 63869, 64346, 64719} \cup
  {65302, 65513, 66302, 66607, 67071, 67664, 68126, 68780} \cup
  {69340, 69939, 70250, 70665, 71213, 71620, 72127, 73258, 73677} \cup
  {74102, 75428, 76333, 77262, 78040, 78777, 79605, 80111} \cup
  {80550, 81410, 82693, 82920, 83050, 83584, 84186, 84997, 85660} \cup
  {86739, 87506, 88423, 88742, 89353, 90193, 90774} \cup
  {92111, 93519, 94717, 96081, 96894, 98315, 98576, 98845} \cup
  {99843, 100672, 101600, 102337, 102773, 104319, 105760, 106110} \cup
  {106400, 107076, 107804, 108097, 109168, 109670, 109691, 109912, 110340} \cup
  {111387, 111774, 112214, 112724, 113596, 114357, 114579} \cup
  {115001}

------------------------------------------------------------------------------
(* The Key functions. *)

KeyFuncs_35328 == {
  Recipe(35328, AtData, Add(Const(3)), Plain),
  Recipe(35455, Fixed(193), Sub(Const(319)), Plain),
  Recipe(35780, Fixed(193), Sub(Const(319)), Plain),
  Recipe(36473, ConstrainedBuildTimesLength, BuildMinus, Plain),
  Recipe(36859, Fixed(31), Sub(Const(393)), Plain),
  Recipe(37104, AtLength(256), Add(BuildTimesDataMod(7)), Plain),
  Recipe(37130, Fixed(130), Sub(Const(266)), Plain),
  Recipe(37218, ConstrainedBuildTimesLength, Add(SeedMod(61)), Plain)
}

KeyFuncs_37254 == {
  Recipe(37254, AtLength(256), Add(Const(3)), Plain),
  Recipe(37275, AtBuild, Add(Const(3)), Plain),
  Recipe(37415, AtBuild, Add(Const(3)), Plain),
  Recipe(37456, AtData, Add(SeedMod(61)), Plain),
  Recipe(37636, AtData, Add(BuildTimesDataMod(7)), Plain),
  Recipe(37646, AtData, Add(Const(3)), Plain),
  Recipe(37664, AtLength(256), Add(BuildTimesDataMod(7)), Plain),
  Recipe(37703, ConstrainedBuildTimesLength, Add(Entries), Plain),
  Recipe(37734, AtLength(256), Three("u", 103, "u", 4), Plain),
  Recipe(37755, AtBuild, Add(BuildTimesDataMod(7)), Plain)
}

KeyFuncs_37793 == {
  Recipe(37793, ConstrainedBuildTimesLength, Add(Const(3)), Plain),
  Recipe(37865, AtBuild, Sub(Const(489)), Plain),
  Recipe(37962, AtLengthTimes(0), Add(Entries), Plain),
  Recipe(38044, AtLength(256), Add(Const(3)), Plain),
  Recipe(38058, ConstrainedBuildTimesLength, Add(SeedMod(61)), Plain),
  Recipe(38125, AtBuild, Sub(Build), Plain),
  Recipe(38170, AtBuild, Add(SeedMod(61)), Plain),
  Recipe(38248, ConstrainedBuildTimesLength, Add(Const(3)), Plain),
  Recipe(38459, AtLength(256), Add(Entries), Plain),
  Recipe(38765, AtBuild, Add(SeedMod(61)), Plain),
  Recipe(38882, AtLengthTimes(0), Add(BuildTimesDataMod(7)), Plain)
}

KeyFuncs_39023 == {
  Recipe(39023, ConstrainedBuildTimesLength, Three("u", 103, "u", 4), Plain),
  Recipe(39028, ConstrainedBuildTimesLength, ConstrainedBuildMinus, Plain),
  Recipe(39083, ConstrainedBuildTimesLength, Sub(BuildMasked), Plain),
  Recipe(39103, ConstrainedBuildTimesLength, Add(Entries), Plain),
  Recipe(39241, AtData, Add(SeedMod(61)), Plain),
  Recipe(39362, AtLengthTimes(0), Add(Entries), Plain),
  Recipe(39425, AtBuild, Add(Entries), Plain),
  Recipe(39484, AtLength(256), Add(BuildTimesDataMod(7)), Plain),
  Recipe(39823, BuildTimesLength, Add(Const(3)), Plain)
}

KeyFuncs_39935 == {
  Recipe(39935, AtBuild, Add(Const(3)), Plain),
  Recipe(39974, AtLength(256), Add(BuildTimesDataMod(7)), Plain),
  Recipe(40407, AtLengthTimes(0), BuildMinus, Plain),
  Recipe(40570, AtBuild, Three("u", 103, "u", 4), Plain),
  Recipe(40763, BuildTimesLength, Sub(BuildMasked), Plain),
  Recipe(40990, AtBuild, Three("u", 103, "u", 4), Plain),
  Recipe(41350, AtBuild, Add(Entries), Plain),
  Recipe(41713, BuildTimesLength, Add(Const(3)), Plain),
  Recipe(42076, AtData, Add(SeedMod(61)), Plain),
  Recipe(42210, AtBuild, Add(Const(3)), Plain)
}

KeyFuncs_42539 == {
  Recipe(42539, AtLength(256), Add(Const(3)), Plain),
  Recipe(42563, BuildTimesLength, BuildMinus, Plain),
  Recipe(42665, AtBuild, Add(Const(3)), Plain),
  Recipe(42936, AtData, Three("s", 103, "s", 4), Plain),
  Recipe(43036, AtData, Add(Const(3)), Plain),
  Recipe(43435, AtBuild, Add(Const(3)), Plain),
  Recipe(43515, AtBuild, BuildMinus, Plain),
  Recipe(43605, AtBuild, Sub(Const(85)), Plain),
  Recipe(44022, AtLengthTimes(0), Add(SeedMod(61)), Plain),
  Recipe(44916, AtData, Add(BuildTimesDataMod(7)), Plain),
  Recipe(45214, AtLength(256), Add(Entries), Plain)
}

KeyFuncs_45420 == {
  Recipe(45420, AtBuild, Add(BuildTimesDataMod(7)), Plain),
  Recipe(45752, AtLengthTimes(0), Add(Const(3)), Plain),
  Recipe(46137, AtLengthTimes(0), Add(Const(3)), Plain),
  Recipe(46510, AtLengthTimes(0), Three("s", 103, "s", 4), Plain),
  Recipe(46823, BuildTimesLength, Add(Const(3)), Plain),
  Recipe(46836, AtData, Add(SeedMod(61)), Plain),
  Recipe(47161, AtData, Sub(Const(57)), Plain),
  Recipe(47452, AtLengthTimes(0), Add(SeedMod(61)), Plain),
  Recipe(47946, AtData, BuildMinus, Plain),
  Recipe(49154, AtLength(256), Add(Const(3)), Plain)
}

KeyFuncs_49656 == {
  Recipe(49656, AtData, Three("s", 103, "s", 4), Plain),
  Recipe(50148, BuildTimesLength, Add(Const(3)), Plain),
  Recipe(50483, BuildTimesLength, Add(SeedMod(61)), Plain),
  Recipe(51575, AtBuild, Add(SeedMod(61)), Plain),
  Recipe(51948, BuildTimesLength, Add(Entries), Plain),
  Recipe(52717, AtLengthTimes(0), Add(Const(3)), Plain),
  Recipe(52926, AtData, Add(SeedMod(61)), Plain),
  Recipe(53537, AtLengthTimes(0), Add(Entries), Plain),
  Recipe(54011, AtData, Add(SeedMod(61)), Plain)
}

KeyFuncs_54052 == {
  Recipe(54052, AtLengthTimes(0), Three("s", 103, "s", 4), Plain),
  Recipe(54255, AtBuild, Three("s", 103, "s", 4), Plain),
  Recipe(54983, BuildTimesLength, Three("s", 103, "s", 4), Plain),
  Recipe(55290, AtBuild, Add(BuildTimesDataMod(7)), Plain),
  Recipe(55918, BuildTimesLength, Sub(Const(110)), Plain),
  Recipe(56957, AtLengthTimes(0), Three("s", 103, "s", 4), Plain),
  Recipe(57230, At(398), Three("s", 103, "s", 4), Plain)
}

KeyFuncs_57796 == {
  Recipe(57796, AtData, Add(BuildTimesDataMod(7)), Plain),
  Recipe(57979, AtLength(256), Three("s", 103, "u", 4), Plain),
  Recipe(58155, AtBuild, Add(SeedMod(61)), Plain),
  Recipe(58625, AtBuild, Add(Const(3)), Plain),
  Recipe(59008, BuildTimesLength, Three("s", 103, "s", 4), Plain),
  Recipe(59573, BuildTimesLength, BuildMinus, Plain),
  Recipe(60038, BuildTimesLength, Add(SeedMod(61)), Plain),
  Recipe(60360, AtBuild, Add(SeedMod(61)), Plain),
  Recipe(60547, AtLengthTimes(0), Add(BuildTimesDataMod(7)), Plain),
  Recipe(60993, TheLength, Sub(BuildMasked), Plain)
}

KeyFuncs_61542 == {
  Recipe(61542, AtLengthTimes(0), Three("s", 103, "s", 4), Plain),
  Recipe(62065, AtBuild, BuildMinus, Plain),
  Recipe(62591, AtData, Add(BuildTimesDataMod(7)), Plain),
  Recipe(62906, AtData, Add(BuildTimesDataMod(7)), Plain),
  Recipe(63372, AtLengthTimes(0), Add(Entries), Plain),
  Recipe(63568, BuildTimesLength, Add(Entries), Plain),
  Recipe(63778, BuildTimesLength, Add(Entries), Plain),
  Recipe(63869, AtLength(256), Add(Entries), Plain),
  Recipe(64346, AtData, Sub(BuildMasked), Plain),
  Recipe(64719, AtLength(256), Add(BuildTimesDataMod(7)), Plain)
}

KeyFuncs_65302 == {
  Recipe(65302, AtLengthTimes(0), Add(SeedMod(61)), Plain),
  Recipe(65513, BuildTimesLength, Add(Const(3)), Plain),
  Recipe(66302, AtBuildTimesLength, Three("s", 103, "s", 4), Plain),
  Recipe(66607, AtLengthTimes(0), Sub(BuildMasked), Plain),
  Recipe(67071, AtData, Add(BuildTimesDataMod(7)), Plain),
  Recipe(67664, AtLength(256), Sub(BuildMasked), Plain),
  Recipe(68126, AtData, Sub(BuildMasked), Plain),
  Recipe(68780, AtBuild, Three("s", 103, "s", 4), Plain)
}

KeyFuncs_69340 == {
  Recipe(69340, AtBuild, Three("s", 103, "s", 4), Plain),
  Recipe(69939, AtLength(256), Sub(BuildMasked), Plain),
  Recipe(70250, AtBuild, Three("s", 103, "s", 4), Plain),
  Recipe(70665, AtBuild, Add(Const(3)), Plain),
  Recipe(71213, BuildTimesLength, Sub(BuildMasked), Plain),
  Recipe(71620, AtBuild, BuildMinus, Plain),
  Recipe(72127, AtLengthTimes(0), Add(SeedMod(61)), Plain),
  Recipe(73258, BuildTimesLength, BuildMinus, Plain),
  Recipe(73677, AtLengthTimes(0), Sub(BuildMasked), Plain)
}

KeyFuncs_74102 == {
  Recipe(74102, AtLengthTimes(0), Add(Const(3)), Plain),
  Recipe(75428, BuildTimesLength, BuildMinus, Plain),
  Recipe(76333, BuildTimesLength, Three("s", 103, "s", 4), Plain),
  Recipe(77262, AtLengthTimes(0), BuildMinus, Plain),
  Recipe(78040, AtBuild, Add(BuildTimesDataMod(7)), Plain),
  Recipe(78777, AtLengthTimes(0), Add(SeedMod(61)), Plain),
  Recipe(79605, AtBuild, Add(Data), Plain),
  Recipe(80111, AtData, BuildMinus, Plain)
}

KeyFuncs_80550 == {
  Recipe(80550, AtBuild, Add(Data), Plain),
  Recipe(81410, AtBuild, Add(Const(3)), Plain),
  Recipe(82693, BuildTimesLength, Sub(BuildMasked), Plain),
  Recipe(82920, AtBuild, Three("s", 103, "s", 4), Plain),
  Recipe(83050, AtBuild, Sub(BuildMasked), Plain),
  Recipe(83584, AtLength(256), Add(BuildTimesDataMod(7)), Plain),
  Recipe(84186, AtData, Add(BuildTimesDataMod(7)), Plain),
  Recipe(84997, AtLengthTimes(0), BuildMinus, Plain),
  Recipe(85660, AtBuild, Add(Data), Plain)
}

KeyFuncs_86739 == {
  Recipe(86739, AtLength(256), Sub(BuildMasked), Plain),
  Recipe(87506, AtData, Add(SeedMod(61)), Plain),
  Recipe(88423, BuildTimesLength, Add(SeedMod(61)), Plain),
  Recipe(88742, AtLengthTimes(0), BuildMinus, Plain),
  Recipe(89353, BuildTimesLength, Three("s", 103, "s", 4), Plain),
  Recipe(90193, BuildTimesLength, Three("s", 103, "s", 4), Plain),
  Recipe(90774, AtLength(256), Three("s", 103, "s", 4), Plain)
}

KeyFuncs_92111 == {
  Recipe(92111, AtData, Three("s", 103, "s", 4), Plain),
  Recipe(93519, AtLength(256), Add(SeedMod(61)), Plain),
  Recipe(94717, AtLengthTimes(0), Sub(BuildMasked), Plain),
  Recipe(96081, AtData, Add(SeedMod(61)), Plain),
  Recipe(96894, AtLength(256), Add(Const(3)), Plain),
  Recipe(98315, AtBuild, Add(Const(3)), Plain),
  Recipe(98576, AtData, Sub(BuildMasked), Plain),
  Recipe(98845, AtBuild, Three("s", 103, "s", 4), Plain)
}

KeyFuncs_99843 == {
  Recipe(99843, BuildTimesLength, Sub(BuildMasked), Plain),
  Recipe(100672, AtLengthTimes(0), Three("s", 103, "s", 4), Plain),
  Recipe(101600, AtTable(0), Sub(BuildMasked), Plain),
  Recipe(102337, AtLengthTimes(0), Add(BuildTimesDataMod(7)), Plain),
  Recipe(102773, BuildTimesLength, Add(SeedMod(61)), Plain),
  Recipe(104319, AtLength(256), Three("s", 103, "s", 4), Plain),
  Recipe(105760, AtLength(256), Add(BuildTimesDataMod(7)), Plain),
  Recipe(106110, AtBuild, Add(BuildTimesDataMod(7)), Plain)
}

KeyFuncs_106400 == {
  Recipe(106400, AtBuild, Add(Const(3)), Plain),
  Recipe(107076, AtData, Add(BuildTimesDataMod(7)), Plain),
  Recipe(107804, AtLength(256), Add(BuildTimesDataMod(7)), Plain),
  Recipe(108097, AtLengthTimes(0), BuildMinus, Plain),
  Recipe(109168, BuildTimesLength, BuildMinus, Plain),
  Recipe(109670, AtBuild, Add(Data), Plain),
  Recipe(109691, AtData, Add(Data), Plain),
  Recipe(109912, AtLengthTimes(0), Three("s", 103, "s", 4), Plain),
  Recipe(110340, AtBuild, Add(SeedMod(61)), Plain)
}

KeyFuncs_111387 == {
  Recipe(111387, AtLengthTimes(0), BuildMinus, Plain),
  Recipe(111774, AtLength(256), Three("s", 103, "s", 4), Plain),
  Recipe(112214, AtLength(256), Add(BuildTimesDataMod(7)), Plain),
  Recipe(112724, AtLength(256), BuildMinus, Plain),
  Recipe(113596, AtData, Add(Const(3)), Plain),
  Recipe(114357, AtLengthTimes(0), Three("s", 103, "s", 4), Plain),
  Recipe(114579, AtLength(256), BuildMinus, Plain)
}

KeyFuncs_115001 == {
  Recipe(115001, AtData, Three("s", 103, "s", 4), Plain)
}

KeyRecipes == UNION {
  KeyFuncs_35328, KeyFuncs_37254, KeyFuncs_37793, KeyFuncs_39023,
  KeyFuncs_39935, KeyFuncs_42539, KeyFuncs_45420, KeyFuncs_49656,
  KeyFuncs_54052, KeyFuncs_57796, KeyFuncs_61542, KeyFuncs_65302,
  KeyFuncs_69340, KeyFuncs_74102, KeyFuncs_80550, KeyFuncs_86739,
  KeyFuncs_92111, KeyFuncs_99843, KeyFuncs_106400, KeyFuncs_111387,
  KeyFuncs_115001 }

KeyBuilds == {r.build : r \in KeyRecipes}

builtinKeyFuncs == [b \in KeyBuilds |-> RecipeOf(b, KeyRecipes)]

------------------------------------------------------------------------------
(* The IV functions. *)

IVFuncs_35328 == {
  Recipe(35328, ConstrainedBuildTimesLength, Add(SeedMod(61)), Mix("u", CursorMinusI)),
  Recipe(35455, AtData, Add(EntriesPlusDigest("u", 20)), Set("u", Cursor)),
  Recipe(35780, AtData, Add(EntriesPlusDigest("u", 20)), Set("u", Cursor)),
  Recipe(36473, AtBuild, Add(SeedMod(29)), Mix("u", CursorPlusEntries)),
  Recipe(36859, AtData, Three("u", 103, "u", 4), Mix("u", CursorPlusBuild)),
  Recipe(37104, AtTimesDigest(13, 7), Add(EntriesPlusDigest("u", 20)), Set("u", Cursor)),
  Recipe(37130, AtData, Three("u", 103, "u", 4), Mix("u", CursorPlusBuild)),
  Recipe(37218, DigestPlusMaskedData(7), Three("u", 103, "u", 4), Mix("u", CursorPlusBuild))
}

IVFuncs_37254 == {
  Recipe(37254, ConstrainedBuildTimesLength, Add(SeedMod(29)), Mix("u", CursorPlusEntries)),
  Recipe(37275, ConstrainedBuildTimesLength, Add(SeedMod(13)), Mix("u", CursorPlus(342256995))),
  Recipe(37415, ConstrainedBuildTimesLength, Add(BuildTimesDataMod(7)), Mix("u", CursorMinus(73))),
  Recipe(37456, DigestPlusMaskedData(7), Add(EntriesPlusDigest("u", 20)), Set("u", Cursor)),
  Recipe(37636, AtDigestTimes(7, 0), Three("u", 103, "u", 4), Mix("u", CursorPlusBuild)),
  Recipe(37646, ConstrainedBuildTimesLength, Add(BuildTimesDataMod(7)), Mix("u", CursorMinus(73))),
  Recipe(37664, AtDigestTimes(7, 0), Add(Const(3)), Mix("u", CursorMinusI)),
  Recipe(37703, Unused, Stay, Zero),
  Recipe(37734, TimesDigest(2, 5), Add(BuildTimesDataMod(7)), Mix("u", CursorMinus(73))),
  Recipe(37755, AtDigestTimes(7, 0), BuildMinus, Mix("u", CursorPlusI))
}

IVFuncs_37793 == {
  Recipe(37793, ConstrainedBuildTimesLength, Add(SeedMod(29)), Mix("u", CursorPlusEntries)),
  Recipe(37865, AtData, BuildMinus, Mix("u", CursorPlusI)),
  Recipe(37962, AtTimesDigestLessLength(2, 13), Add(EntriesPlusDigest("u", 20)), Set("u", Cursor)),
  Recipe(38044, ConstrainedBuildTimesLength, Add(SeedMod(29)), Mix("u", CursorPlusEntries)),
  Recipe(38058, DigestPlusMaskedData(7), Add(EntriesPlusDigest("u", 20)), Mix("u", BuildPlusI)),
  Recipe(38125, AtBuild, Sub(Const(43)), Mix("u", CursorPlusData)),
  Recipe(38170, DigestPlusData(7), Add(Const(3)), Mix("u", CursorMinusI)),
  Recipe(38248, ConstrainedBuildTimesLength, Add(EntriesPlusDigest("u", 20)), Set("u", Cursor)),
  Recipe(38459, AtTimesDigestLessLength(2, 13), Stay, SetOver("u", CursorPlusI)),
  Recipe(38765, DigestPlusData(7), Add(EntriesPlusDigest("u", 20)), Set("u", Cursor)),
  Recipe(38882, AtDigestTimes(7, 0), Add(SeedMod(29)), Mix("u", CursorPlusEntries))
}

IVFuncs_39023 == {
  Recipe(39023, TimesDigest(2, 5), Add(IfOdd(6, Const(37), SeedMod(61))), Mix("u", CursorMinusI)),
  Recipe(39028, AtBuild, Add(Const(3)), Mix("u", CursorMinusI)),
  Recipe(39083, AtData, Add(Const(3)), Mix("u", CursorMinusI)),
  Recipe(39103, AtTimesDigestLessLengthUnmasked(2, 13), Add(EntriesPlusDigest("u", 20)),
         Mix("u", BuildPlusI)),
  Recipe(39241, DataPlusDigest(7), Add(BuildPlusDataMod(7)), Mix("u", CursorMinus(73))),
  Recipe(39362, AtTimesDigestLessLength(2, 13), Add(BuildTimesDataMod(7)),
         Mix("u", CursorMinus(73))),
  Recipe(39425, AtTimesDigestLessLength(2, 13), Add(EntriesPlusDigest("u", 20)), Set("u", Cursor)),
  Recipe(39484, AtDigestTimes(7, 0), Three("u", 103, "u", 4), Mix("u", CursorPlusBuild)),
  Recipe(39823, BuildTimesLength, BuildMinus, Mix("u", CursorPlusI))
}

IVFuncs_39935 == {
  Recipe(39935, BuildTimesLength, Three("u", 103, "u", 4), Mix("u", CursorPlusBuild)),
  Recipe(39974, AtDigestTimes(7, 0), Add(Const(3)), Mix("u", CursorMinusI)),
  Recipe(40407, AtBuild, Add(BuildTimesDataMod(7)), Mix("u", CursorMinus(73))),
  Recipe(40570, TimesDigest(2, 5), Sub(BuildMasked), Mix("u", CursorPlusBuild)),
  Recipe(40763, AtData, Add(SeedMod(29)), Mix("u", CursorPlusEntries)),
  Recipe(40990, TimesDigest(2, 5), Add(BuildTimesDataMod(7)), Mix("u", CursorMinus(73))),
  Recipe(41350, AtTimesDigestLessLength(2, 13), Add(EntriesPlusDigest("u", 20)), Set("u", Cursor)),
  Recipe(41713, BuildTimesLength, Add(EntriesPlusDigest("u", 20)), Set("u", Cursor)),
  Recipe(42076, DigestPlusData(7), Add(EntriesPlusDigest("u", 20)), Set("u", Cursor)),
  Recipe(42210, BuildTimesLength, ToBuild, Mix("s", CursorPlusI))
}

IVFuncs_42539 == {
  Recipe(42539, BuildTimesLength, Sub(Const(43)), Mix("s", CursorPlusBuild)),
  Recipe(42563, AtBuild, Add(BuildTimesDataMod(7)), Mix("s", CursorMinus(73))),
  Recipe(42665, BuildTimesLength, Add(SeedMod(13)), Mix("s", CursorPlus(359034211))),
  Recipe(42936, TimesDigest(2, 5), BuildMinus, Mix("s", CursorPlusI)),
  Recipe(43036, BuildTimesLength, Add(BuildTimesDataMod(7)), Mix("s", CursorMinus(73))),
  Recipe(43435, BuildTimesLength, Add(SeedMod(13)), Mix("s", CursorPlus(359034211))),
  Recipe(43515, AtBuild, Sub(Const(43)), Mix("s", CursorPlusData)),
  Recipe(43605, AtData, Add(EntriesPlusDigest("s", 20)), MixAlone("s", Cursor)),
  Recipe(44022, DigestPlusData(7), Add(Const(3)), Mix("s", CursorMinusI)),
  Recipe(44916, AtDigestTimes(7, 0), BuildMinus, Mix("s", CursorPlusI)),
  Recipe(45214, AtTimesDigestLessLength(2, 13), Add(BuildTimesDataMod(7)),
         Mix("s", CursorMinus(73)))
}

IVFuncs_45420 == {
  Recipe(45420, AtDigestTimes(7, 0), Add(EntriesPlusDigest("u", 20)), MixAlone("s", Cursor)),
  Recipe(45752, BuildTimesLength, BuildMinus, Mix("s", CursorPlusI)),
  Recipe(46137, BuildTimesLength, BuildMinus, Mix("s", CursorPlusI)),
  Recipe(46510, TimesDigest(2, 1), Add(BuildTimesDataMod(7)), Mix("s", CursorMinus(73))),
  Recipe(46823, BuildTimesLength, Add(SeedMod(13)), Mix("s", CursorPlus(375811427))),
  Recipe(46836, DigestPlusData(7), Add(EntriesPlusDigest("s", 20)), Mix("s", BuildPlusI)),
  Recipe(47161, AtData, Add(BuildTimesDataMod(7)), Mix("s", CursorMinus(73))),
  Recipe(47452, DigestPlusData(7), Add(EntriesPlusDigest("s", 20)), Mix("s", BuildPlusI)),
  Recipe(47946, AtBuild, Add(SeedMod(29)), Mix("s", CursorPlusEntries)),
  Recipe(49154, BuildTimesLength, Add(IfOdd(6, SeedMod(61), Const(37))), Mix("s", CursorMinusI))
}

IVFuncs_49656 == {
  Recipe(49656, TimesDigest(2, 5), Sub(Const(504)), Mix("s", CursorPlusBuild)),
  Recipe(50148, BuildTimesLength, Sub(Const(43)), Plain),
  Recipe(50483, DigestPlusData(7), Add(BuildTimesDataMod(7)), Mix("s", CursorMinus(73))),
  Recipe(51575, DigestPlusData(7), Add(SeedMod(13)), Mix("s", CursorPlus(375811427))),
  Recipe(51948, AtTimesDigestLessLength(2, 7), Add(IfOdd(6, Const(37), SeedMod(61))),
         Mix("s", CursorMinusI)),
  Recipe(52717, BuildTimesLength, Three("s", 103, "u", 4), Mix("s", CursorPlusBuild)),
  Recipe(52926, DigestPlusData(7), Three("s", 103, "u", 4), Mix("s", CursorPlusBuild)),
  Recipe(53537, AtTimesDigestLessLength(2, 13), Add(Const(3)), Mix("s", CursorMinusI)),
  Recipe(54011, DigestPlusData(7), Add(EntriesPlusDigest("u", 20)), Set("s", Cursor))
}

IVFuncs_54052 == {
  Recipe(54052, TimesDigest(2, 5), Add(EntriesPlusDigest("u", 20)), Mix("s", BuildPlusI)),
  Recipe(54255, TimesDigest(2, 5), BuildMinus, Mix("s", CursorPlusI)),
  Recipe(54983, TimesDigest(2, 5), Three("s", 103, "s", 4), Mix("s", CursorPlusBuild)),
  Recipe(55290, AtDigestTimes(7, 0), Add(BuildTimesDataMod(7)), Mix("s", CursorMinus(73))),
  Recipe(55918, AtData, Three("s", 103, "s", 4), Mix("s", CursorPlusBuild)),
  Recipe(56957, TimesDigest(2, 5), Sub(Const(43)), Mix("s", CursorPlusData)),
  Recipe(57230, TimesDigest(2, 5), Add(TimesDigestMod(2, 5, 29)), Mix("s", CursorPlusEntries))
}

IVFuncs_57796 == {
  Recipe(57796, AtDigestTimes(7, 0), Sub(Const(452)), Mix("s", CursorPlusBuild)),
  Recipe(57979, TimesDigest(2, 5), Add(EntriesPlusDigest("u", 20)), Mix("u", BuildPlusI)),
  Recipe(58155, DigestPlusData(7), Add(EntriesPlusDigest("s", 20)), Mix("s", BuildPlusI)),
  Recipe(58625, BuildTimesLength, Add(IfOdd(6, Const(37), SeedAnd(61))), Mix("s", CursorMinusI)),
  Recipe(59008, TimesDigest(2, 5), Add(BuildTimesDataMod(7)), Mix("s", CursorMinus(73))),
  Recipe(59573, AtBuild, Add(SeedMod(29)), Mix("s", CursorPlusEntries)),
  Recipe(60038, DigestPlusData(7), Add(Const(3)), Mix("s", CursorMinusI)),
  Recipe(60360, DigestPlusData(7), BuildMinus, Mix("s", CursorPlusI)),
  Recipe(60547, AtDigestTimes(7, 0), BuildMinus, Mix("s", CursorPlusI)),
  Recipe(60993, AtData, Add(EntriesPlusDigest("s", 20)), Mix("s", BuildPlusI))
}

IVFuncs_61542 == {
  Recipe(61542, TimesDigest(2, 5), Add(SeedMod(29)), Mix("s", CursorPlusEntries)),
  Recipe(62065, AtBuild, BuildMinus, Mix("s", CursorPlusI)),
  Recipe(62591, AtDigestTimes(7, 0), Add(EntriesPlusDigest("s", 20)), SetOver("s", Cursor)),
  Recipe(62906, AtDigestTimes(7, 0), Add(SeedMod(29)), Mix("s", CursorPlusEntries)),
  Recipe(63372, AtTimesDigestLessLength(2, 13), Add(EntriesPlusDigest("s", 20)),
         SetOver("s", Cursor)),
  Recipe(63568, AtTimesDigestLessLength(2, 13), Sub(Const(43)), Mix("s", CursorPlusData)),
  Recipe(63778, AtTimesDigestLessLength(2, 13), Add(Const(3)), Mix("s", CursorMinusI)),
  Recipe(63869, AtTimesDigestLessLength(2, 13), BuildMinus, Mix("s", CursorPlusI)),
  Recipe(64346, AtData, Add(SeedMod(13)), Mix("s", CursorPlusMagic)),
  Recipe(64719, AtDigestTimes(7, 0), Add(IfOdd(6, Const(37), SeedMod(61))), Mix("s", CursorMinusI))
}

IVFuncs_65302 == {
  Recipe(65302, DigestPlusData(7), Add(IfOdd(6, Const(37), SeedMod(61))), Mix("s", CursorMinusI)),
  Recipe(65513, BuildTimesLength, Add(SeedMod(29)), Mix("s", CursorPlusEntries)),
  Recipe(66302, TimesDigest(2, 5), Three("s", 103, "s", 4), Mix("s", CursorPlusBuild)),
  Recipe(66607, AtData, Sub(BuildMasked), Mix("s", CursorPlusBuild)),
  Recipe(67071, AtDigestTimes(7, 0), Add(BuildTimesDataMod(7)), Mix("s", CursorMinus(73))),
  Recipe(67664, AtData, BuildMinus, Mix("s", CursorPlusI)),
  Recipe(68126, AtData, BuildMinus, Mix("s", CursorPlusI)),
  Recipe(68780, TimesDigest(2, 5), Add(SeedMod(29)), Mix("s", CursorPlusData))
}

IVFuncs_69340 == {
  Recipe(69340, TimesDigest(2, 5), Add(SeedMod(13)), Mix("s", CursorPlusMagic)),
  Recipe(69939, AtData, Add(DataPlusItsDigestMod("u", 17)), SetOver("s", Cursor)),
  Recipe(70250, TimesDigest(2, 5), Add(BuildTimesDataMod(7)), Mix("s", CursorMinus(73))),
  Recipe(70665, BuildTimesLength, Add(DataPlusItsDigestMod("s", 17)), SetOver("s", Cursor)),
  Recipe(71213, AtData, Sub(Const(43)), Mix("s", CursorPlusData)),
  Recipe(71620, AtBuild, Sub(Const(43)), Mix("s", CursorPlusData)),
  Recipe(72127, DigestOfData(7), Add(Const(3)), Mix("s", CursorMinusI)),
  Recipe(73258, AtBuild, Add(DataPlusItsDigest("s")), Mix("s", BuildPlusI)),
  Recipe(73677, AtData, Sub(Const(43)), Mix("s", CursorPlusData))
}

IVFuncs_74102 == {
  Recipe(74102, BuildTimesLength, Add(IfOdd(6, Const(37), SeedMod(61))), Mix("s", CursorMinusI)),
  Recipe(75428, AtBuild, Add(DataPlusItsDigestMod("s", 17)), SetOver("s", Cursor)),
  Recipe(76333, TimesDigest(2, 5), Add(Const(3)), Mix("s", CursorMinus(73))),
  Recipe(77262, AtBuild, Add(DataPlusItsDigest("s")), Mix("s", BuildPlusI)),
  Recipe(78040, AtDigestTimes(7, 0), Add(IfOdd(6, Const(37), SeedMod(61))), Mix("s", CursorMinusI)),
  Recipe(78777, DigestPlusData(7), Add(IfOdd(3, Const(37), SeedMod(61))), Mix("s", CursorMinusI)),
  Recipe(79605, AtTimesDigestLessLength(2, 13), Add(DataPlusItsDigest("s")), Mix("s", BuildPlusI)),
  Recipe(80111, AtBuild, Add(DataPlusItsDigest("s")), Mix("s", BuildPlusI))
}

IVFuncs_80550 == {
  Recipe(80550, AtTimesDigestLessLength(2, 13), Add(SeedMod(29)), Mix("s", CursorPlusData)),
  Recipe(81410, BuildTimesLength, Sub(Const(43)), Mix("s", CursorPlusData)),
  Recipe(82693, AtData, Add(IfOdd(3, Const(37), SeedMod(61))), Mix("s", CursorMinusI)),
  Recipe(82920, TimesDigest(2, 5), Sub(BuildMasked), Mix("s", CursorPlusBuild)),
  Recipe(83050, AtData, Add(Const(3)), Mix("s", CursorMinusI)),
  Recipe(83584, AtDigestTimes(7, 0), Add(IfOdd(3, Const(37), SeedMod(61))), Mix("s", CursorMinusI)),
  Recipe(84186, AtDigestTimes(7, 0), BuildMinus, Mix("s", CursorPlusI)),
  Recipe(84997, AtBuild, Add(Const(3)), Mix("s", CursorMinusI)),
  Recipe(85660, AtTimesDigestLessLength(2, 13), BuildMinus, Mix("s", CursorPlusI))
}

IVFuncs_86739 == {
  Recipe(86739, AtData, Add(Const(3)), Mix("s", CursorMinus(73))),
  Recipe(87506, DigestPlusData(7), Add(DataPlusItsDigestMod("s", 17)), SetOver("s", Cursor)),
  Recipe(88423, DigestPlusData(7), Three("s", 103, "s", 4), Mix("s", CursorPlusBuild)),
  Recipe(88742, AtBuild, Three("s", 103, "s", 4), Mix("s", CursorPlusBuild)),
  Recipe(89353, TimesDigest(2, 5), Add(Const(3)), Mix("s", CursorMinusI)),
  Recipe(90193, TimesDigest(2, 5), Add(BuildTimesDataMod(7)), Mix("s", CursorMinus(73))),
  Recipe(90774, TimesDigest(2, 5), Sub(BuildMasked), Mix("s", CursorPlusBuild))
}

IVFuncs_92111 == {
  Recipe(92111, TimesDigest(2, 5), Add(SeedMod(29)), Mix("s", CursorPlusData)),
  Recipe(93519, DigestPlusData(7), Add(SeedMod(29)), Mix("s", CursorPlusData)),
  Recipe(94717, BuildTimesLength, Add(SeedMod(13)), Mix("s", CursorMinus(73))),
  Recipe(96081, DigestPlusData(7), Add(SeedMod(13)), Mix("s", CursorMinus(73))),
  Recipe(96894, BuildTimesLength, Add(IfOdd(3, Const(37), SeedMod(61))), Mix("s", CursorMinusI)),
  Recipe(98315, BuildTimesLength, Add(SeedMod(29)), Mix("s", CursorPlusData)),
  Recipe(98576, AtData, Three("s", 103, "s", 4), Mix("s", CursorPlusBuild)),
  Recipe(98845, TimesDigest(2, 5), Sub(Const(43)), Mix("s", CursorPlusData))
}

IVFuncs_99843 == {
  Recipe(99843, AtData, Add(SeedMod(13)), Mix("s", CursorMinus(73))),
  Recipe(100672, TimesDigest(2, 5), Add(Const(3)), Mix("s", CursorMinusI)),
  Recipe(101600, AtData, Add(BuildTimesDataMod(7)), Mix("s", CursorMinus(73))),
  Recipe(102337, AtDigestTimes(7, 0), Add(BuildTimesDataMod(7)), Mix("s", CursorMinus(73))),
  Recipe(102773, DigestPlusData(7), Add(Const(3)), Mix("s", CursorMinusI)),
  Recipe(104319, TimesDigest(2, 5), Add(IfOdd(6, Const(37), SeedMod(61))), Mix("s", CursorMinusI)),
  Recipe(105760, AtDigestTimes(7, 0), Add(IfOdd(6, Const(37), SeedMod(61))),
         Mix("s", CursorMinusI)),
  Recipe(106110, AtDigestTimes(7, 0), Add(BuildTimesDataMod(7)), Mix("s", CursorMinus(73)))
}

IVFuncs_106400 == {
  Recipe(106400, BuildTimesLength, Add(SeedMod(29)), Mix("s", CursorPlusData)),
  Recipe(107076, AtDigestTimes(7, 0), Sub(BuildMasked), Mix("s", CursorPlusBuild)),
  Recipe(107804, AtDigestTimes(7, 0), Add(BuildTimesDataMod(7)), Mix("s", CursorMinus(73))),
  Recipe(108097, AtBuild, Add(Const(3)), Mix("s", CursorMinusI)),
  Recipe(109168, AtBuild, Add(BuildTimesDataMod(7)), Mix("s", CursorMinus(73))),
  Recipe(109670, AtTimesDigestLessLength(2, 13), Add(Const(3)), Mix("s", CursorMinusI)),
  Recipe(109691, AtTimesDigestLessLength(2, 13), Sub(Const(43)), Mix("s", CursorPlusData)),
  Recipe(109912, TimesDigest(2, 5), Add(Const(3)), Mix("s", CursorMinusI)),
  Recipe(110340, DigestPlusData(7), Sub(Const(43)), Mix("s", CursorPlusData))
}

IVFuncs_111387 == {
  Recipe(111387, AtBuild, Add(DataPlusItsDigestMod("s", 17)), SetOver("s", Cursor)),
  Recipe(111774, TimesDigest(2, 5), BuildMinus, Mix("s", CursorPlusI)),
  Recipe(112214, AtDigestTimes(7, 0), BuildMinus, Mix("s", CursorPlusI)),
  Recipe(112724, AtBuild, Add(SeedMod(13)), Mix("s", CursorMinus(73))),
  Recipe(113596, BuildTimesLength, Sub(Const(43)), Mix("s", CursorPlusData)),
  Recipe(114357, TimesDigest(2, 5), Add(DataPlusItsDigestMod("s", 17)), SetOver("s", Cursor)),
  Recipe(114579, AtBuild, BuildMinus, Mix("s", CursorPlusI))
}

IVFuncs_115001 == {
  Recipe(115001, TimesDigest(2, 5), Add(SeedMod(13)), Mix("s", CursorMinus(73)))
}

IVRecipes == UNION {
  IVFuncs_35328, IVFuncs_37254, IVFuncs_37793, IVFuncs_39023,
  IVFuncs_39935, IVFuncs_42539, IVFuncs_45420, IVFuncs_49656,
  IVFuncs_54052, IVFuncs_57796, IVFuncs_61542, IVFuncs_65302,
  IVFuncs_69340, IVFuncs_74102, IVFuncs_80550, IVFuncs_86739,
  IVFuncs_92111, IVFuncs_99843, IVFuncs_106400, IVFuncs_111387,
  IVFuncs_115001 }

IVBuilds == {r.build : r \in IVRecipes}

builtinIVFuncs == [b \in IVBuilds |-> RecipeOf(b, IVRecipes)]
==============================================================================
