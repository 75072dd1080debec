CONSTANTS
  o1 = o1
  o2 = o2
  o3 = o3
  m = m
  w1 = w1
  Obj = {o1, o2, o3}
  Embedded = {}
  Owner <- MCOwner
  Inst = NoObj
  Main = m
  Worker = {w1}
  NoObj = NoObj
  MaxAllocs = 3
  MaxTempRoots = 1
SYMMETRY Interchangeable
SPECIFICATION Spec
INVARIANTS TypeOK ReachableAllocated CountAgrees NoStaleMarks
PROPERTIES AbstractHeap
