CONSTANTS
  b1 = b1 e1 = e1
  Tag = {b1}
  Exc = {e1}
  nil = nil
  MaxDepth = 3
SPECIFICATION TrailerSpec
CHECK_DEADLOCK FALSE
INVARIANTS TrailerEnds
