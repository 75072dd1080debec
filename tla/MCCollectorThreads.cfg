CONSTANTS
  inst = inst
  dict = dict
  str = str
  m = m
  w1 = w1
  w2 = w2
  Obj = {inst, dict, str}
  Embedded = {dict}
  Owner <- MCOwner
  Inst = inst
  Main = m
  Worker = {w1, w2}
  NoObj = NoObj
  MaxAllocs = 2
  MaxTempRoots = 0
SPECIFICATION FairSpec
INVARIANTS IInv LinkedRefsAllocated NoTracingOfGarbage TasksCounted ExitOnlyWhenDone OneTracerPerObject
PROPERTIES CollectionEnds UnreachableReclaimed
