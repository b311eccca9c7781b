CONSTANTS
  o1 = o1 o2 = o2 h1 = h1 h2 = h2
  Obj = {o1}
  Hash = {h1, h2}
  Kind <- KeysVals
  MaxEntries = 2
  MaxCount = 2
SPECIFICATION Spec
INVARIANTS NoDangling LapsedExactly
PROPERTIES WeakKeepsNothing
