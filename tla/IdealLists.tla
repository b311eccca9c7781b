----------------------------- MODULE IdealLists -----------------------------
\* Two variables that hold lists, as sequences of tokens: what a call promises.
EXTENDS SeqSpec

VARIABLES val, call

Promised(c, p, q, r) ==
  CASE c.op \in {"copy_list", "look"} -> r = p
    [] c.op \in {"reverse", "nreverse"} -> r = Reverse(p)
    [] c.op \in {"append2", "nappend2", "append*"} -> r = p \o q
    [] c.op = "sub_list" -> r = Sub(p, c.arg[1], c.arg[2])
    [] c.op = "replace_list" -> r \in Replace(p, q, c.arg[1], c.arg[2])
    [] c.op \in {"remq", "remq*"} -> r = Removed(p, c.arg)
    [] c.op = "ldiff" -> r = p \/ r \o q = p
    [] c.op = "sort" -> SortOf(p, r, c.arg)
    [] c.op \in {"flatten", "flatten*"} -> r = Removed(p, {0, 100, 101})

Next ==
  LET b == CHOOSE w \in {"x", "y"} : w # call'.a
  IN  \A w \in {"x", "y"} : IF w = call'.dst THEN Promised(call', val[call'.a], val[b], val'[w]) ELSE val'[w] = val[w]

Spec == [][Next]_<<val, call>>
=============================================================================
