CONSTANTS
  Docs <- MCWowDocs
  KeyLen = 5
  Kilo = 32
  EKeySize = 5
  FileOffsBits = 3
  PageSize = 96
  MinPaged = 200
  NameLen <- MCNameLen
  Folded <- MCFolded
  Lower <- MCLower
  Comments <- MCComments
  Semicolons <- MCSemicolons
  KnownBuilds = {47161, 57229, 57230, 68310}
  ByteBits = 8
  MaxTrieSteps = 65536
SPECIFICATION Spec
INVARIANTS ReadsBack
CHECK_DEADLOCK FALSE
