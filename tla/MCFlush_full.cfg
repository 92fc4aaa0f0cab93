CONSTANTS
  a = a
  b = b
  d1 = d1
  d2 = d2
  Name = {a}
  Data = {d1}
  Absent = Absent
  None = None
  MaxFlushes = 2
  Serial = TRUE
  HeaderSize = 1
  SpanLen = 1
  SegmentSize = 4
  Segment = {0, 1, 2, 3}
  Addr = {0, 1, 2, 3, 4, 5, 6, 7, 8, 9, 10, 11, 12}
  OffsBits = 2
  StoreBits = 4
SPECIFICATION Spec
INVARIANTS RoundTrip
