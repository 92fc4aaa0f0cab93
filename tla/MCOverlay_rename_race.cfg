CONSTANTS
  a = a
  b = b
  c = c
  d1 = d1
  d2 = d2
  p1 = p1
  p2 = p2
  Name = {a, b}
  Data = {d1}
  Absent = Absent
  Proc = {p1, p2}
  NoProc = NoProc
  Workload <- RenamerAndAdder
  AddNames = {a}
  RemoveNames = {}
  RenameFrom = {a}
  RenameTo = {b}
  Created = {FALSE}
SPECIFICATION Spec
INVARIANTS Disjoint
