CONSTANTS
  k1 = k1
  k2 = k2
  data0 = data0
  p1 = p1
  p2 = p2
  i1 = i1
  i2 = i2
  w1 = w1
  w2 = w2
  Proc = {p1, p2}
  EKey = {k1, k2}
  Archive = {data0}
  LocalIndex <- InData
  Pool = {i1, i2}
  NoPool = NoPool
  Worker = {w1, w2}
  CdnArchives <- ThreeArchives
  NoArchive = NoArchive
  NHosts = 2
  Behaviour = {"good", "down", "garbage", "norange"}
  FirstOf <- FirstSpans
  Garbage = Garbage
  Nothing = Nothing
  Torn = Torn
  Online = {TRUE, FALSE}
SYMMETRY Symmetry
SPECIFICATION Spec
INVARIANTS TypeOK NoOrphan ReadsOpenFile NeverBlocksOnSend EachOnce CacheComplete
PROPERTIES RightContent TriesEveryHost
