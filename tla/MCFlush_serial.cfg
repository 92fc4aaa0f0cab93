CONSTANTS
  a = a
  b = b
  d1 = d1
  d2 = d2
  Name = {a, b}
  Data = {d1, d2}
  Absent = Absent
  None = None
  MaxFlushes = 2
  Serial = TRUE
  HeaderSize = 1
  SpanLen = 1
  SegmentSize = 16
  Segment = {0, 1}
  Addr = {0, 1, 2, 3, 4, 5, 6, 7, 8, 9, 10, 11, 12, 13, 14, 15, 16}
  OffsBits = 4
  StoreBits = 6
SPECIFICATION Spec
INVARIANTS TypeOK RoundTrip NoMixture
SYMMETRY Contents2
