CONSTANTS
  w1 = w1
  w2 = w2
  k1 = k1
  k2 = k2
  Writer = {w1, w2}
  Key = {k1, k2}
  NoKey = NoKey
  Old = Old
  BlteLen = {1, 2}
  HeaderSize = 1
  SegmentSize = 4
  Segment = {0, 1}
  Addr = {0, 1, 2, 3, 4, 5, 6, 7, 8}
  Serial = TRUE
  AbortOnError = TRUE
  OldSizes = {0, 3, 4}
SPECIFICATION Spec
INVARIANTS TypeOK EntriesIntact WriterInv
PROPERTIES AppendOnly
CHECK_DEADLOCK FALSE
SYMMETRY Spans
