CONSTANTS
  Proc = {"reader", "owner"}
  Name = {"n1", "n2", "n3"}
  Id = {"i1", "i2"}
  CKey <- MCCKey
  EKey <- MCEKey
  KeyName = {"k1", "k2"}
  NoKey = "no key"
  NoRoot = NoRoot
  Roots <- MCRoots
  Encoding <- MCEncoding
  EncodingEKey = "eEnc"
  RootCKey = "cRoot"
  Content <- MCContent
  Packing <- MCPacking
  Disks <- MCDisks
  Emptied <- MCEmptied
  Overcome = {FALSE, TRUE}
  Online = {FALSE, TRUE}
  Mounted = {FALSE, TRUE}
  Workload <- MCWorkload
  Asked <- MCAsked
  Added <- MCAdded
  ReadSize = 2
  SeekTo <- MCSeekTo
SPECIFICATION Spec
INVARIANTS NotFoundByIdIsTrue
CHECK_DEADLOCK FALSE
