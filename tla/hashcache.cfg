CONSTANTS
  a = a b = b c = c
  Str = {s1, s2}
  Flo = {f1, f2}
  Pair = {p}
  Content = {a, b, c}
  ContentHash <- MCContentHash
  nil = nil
  Free = Free
SPECIFICATION Spec
INVARIANTS NeverWrong
