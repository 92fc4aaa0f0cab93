CONSTANTS
  a = a
  b = b
  c = c
  d1 = d1
  d2 = d2
  p1 = p1
  p2 = p2
  Name = {a, b, c}
  Data = {d1, d2}
  Absent = Absent
  Proc = {p1, p2}
  NoProc = NoProc
  Workload <- WriterAndReader
  AddNames = {a, c}
  RemoveNames = {a}
  RenameFrom = {a, b}
  RenameTo = {c}
  Created = {TRUE, FALSE}
SPECIFICATION Spec
INVARIANTS TypeOK Disjoint SerialInv
PROPERTIES Atomic
SYMMETRY Contents
CHECK_DEADLOCK FALSE
