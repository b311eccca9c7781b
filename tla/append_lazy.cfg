CONSTANTS
  CNUM_BIT = 6
  RAND_BIT = 2
  CHAR_MAX = 5
  Operands <- MCOperands
  Floats <- MCFloats
  MaxResult = 24
  k1 = k1 k2 = k2 k3 = k3
  Key = {k1, k2, k3}
  Value = {v1, v2}
  HashFun <- MCHashFun
  Modulus0 = 1
  MaxModulus = 2
  Serial = {0, 1, 2, 3}
SPECIFICATION LibrarySpec
PROPERTY AppendCopies
CHECK_DEADLOCK FALSE
