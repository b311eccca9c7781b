CONSTANTS
  Cell = {c1, c2, c3}
  nil = nil
  Field = {car}
  Root = {r1, r2}
  Prot = {}
  HEAP_SIZE = 1
  FRESHOBJ_VEC_SIZE = 2
  CHECKOBJ_VEC_SIZE = 2
  FULL_GC_INTERVAL = 3
  opt_gc_debug = FALSE
  Conservative = FALSE
SPECIFICATION MutatorSpec
SYMMETRY CellSymmetry
INVARIANTS NoDangling
