CONSTANTS
  b1 = b1 b2 = b2 e1 = e1 e2 = e2
  error = error query_error = query_error a1 = a1 a2 = a2
  Tag = {b1, b2}
  Exc = {e1, e2}
  nil = nil
  MaxDepth = 5
  t = t
  Type = {error, query_error, a1, a2}
  Builtin <- MCBuiltin
  MaxChain = 3
  b11 = b11 b12 = b12 b13 = b13 b21 = b21 b22 = b22 b23 = b23
  Blocks <- MCBlocks
  HEAP_SIZE = 3
  MaxDead = 1
SPECIFICATION RuntimeSpec
SYMMETRY UnwindSymmetry
CHECK_DEADLOCK FALSE
INVARIANTS StacksAgree TargetsOpen PartialOrder ListIsFree
PROPERTIES CleanupRuns DefexRelates
