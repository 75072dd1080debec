CONSTANTS
  Obj = {o1, o2, o3, o4, o5}
  Kind = {"list", "dict", "instance"}
  MaxContents = 2
  MaxHeld = 1
  ObjectFloor = 2
  ObjectSlack = 1
  BytesFloor = 6
  Memory = 65536
  Hosts = {TRUE, FALSE}
  TestObjects = {}
  TestBytes = {1}
SYMMETRY Interchangeable
SPECIFICATION Spec
INVARIANTS TypeOK BytesExact BytesNeverWrap HeapBounded
PROPERTY Amortised
