CONSTANTS
  a = a
  b = b
  c = c
  d1 = d1
  d2 = d2
  p1 = p1
  p2 = p2
  Name = {a, b}
  Data = {d1}
  Absent = Absent
  Proc = {p1, p2}
  NoProc = NoProc
  Workload <- TwoWriters
  AddNames = {a, b}
  RemoveNames = {a, b}
  RenameFrom = {a, b}
  RenameTo = {a, b}
  Created = {FALSE}
SPECIFICATION HFairSpec
PROPERTIES ShadowStable CallsReturn ListsWhatStayed OpensWhatWasThere
