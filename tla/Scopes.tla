------------------------------- MODULE Scopes --------------------------------
\* What the directives of Bindings promise. Clauses and functions are scopes on a
\* stack. A scope has variables of its own, hides some of those outside of it,
\* and sees the rest; a store into a variable is one into the scope whose own it
\* is, and stays when scopes further in fail. What a scope had of its own goes
\* to the one outside when clauses match, into lists for a collect, and for a
\* function nowhere but to the unbound arguments.
EXTENDS Trees, Functions

VARIABLES stack, did

None == [x \in {} |-> NilList]
Without(f, S) == Restrict(f, DOMAIN f \ S)

\* The variables that scope n sees.
RECURSIVE Seen(_, _)
Seen(s, n) == IF n = 0 THEN None ELSE s[n].own @@ Without(Seen(s, n - 1), s[n].hide)

Env(s) == Seen(s, Len(s))
Owner(s, x) == Max({n \in DOMAIN s : x \in DOMAIN s[n].own})

Assign(s, x, v) == [s EXCEPT ![Owner(s, x)].own[x] = v]
New(s, x, v) == [s EXCEPT ![Len(s)].own = (x :> v) @@ @]
Put(s, x, v) == IF x \in DOMAIN Env(s) THEN Assign(s, x, v) ELSE New(s, x, v)

\* Scope n without the variables in X: what it sees of them it hides.
Hide(s, X) == LET n == Len(s)
              IN [s EXCEPT ![n].own = Without(@, X), ![n].hide = @ \cup (X \cap DOMAIN Seen(s, n - 1))]

\* A value for the variable x, if it has none or one that agrees.
Agrees(s, x, v) == x \notin DOMAIN Env(s) \/ tree_find(v, Env(s)[x]) \/ tree_find(Env(s)[x], v)
Give(s, x, v) == IF x \in DOMAIN Env(s) THEN s ELSE New(s, x, v)

Values(s, form) ==
  IF form.op = "literal" THEN {form.value}
  ELSE IF form.sym \notin DOMAIN Env(s) THEN {}
  ELSE {IF form.op = "symbol" THEN Env(s)[form.sym] ELSE List(<<Env(s)[form.sym]>>)}

-----------------------------------------------------------------------------
\* A scope that does not match, or is left by an exception, with all inside of
\* it: up to the next clause, or the next match of a collect.
Scope(kind, ub) == [kind |-> kind, own |-> None, hide |-> {}, ub |-> ub, coll |-> <<>>]
Gone(s, kinds) ==
  LET S == {n \in DOMAIN s : s[n].kind \in kinds}
      n == Max(S)
  IN IF S = {} THEN <<>>
     ELSE IF s[n].kind = "collect" THEN [SubSeq(s, 1, n) EXCEPT ![n].own = None, ![n].hide = {}]
     ELSE SubSeq(s, 1, n - 1)
NoMatch(s) == Gone(s, {"clause", "collect"})
SemError(s) == Gone(s, {"clause"})

-----------------------------------------------------------------------------
\* What comes of a directive: the changes one by one, up to one that fails.
OneByOne(Op(_, _), s, items) == FoldLeft(LAMBDA r, x : IF r.kind = "go" THEN Op(r.s, x) ELSE r, [kind |-> "go", s |-> s], items)
Go(s) == [kind |-> "go", s |-> s]
If(holds, kind, s, next) == IF holds THEN Go(next) ELSE [kind |-> kind, s |-> s]

Given(s, x, v) == If(Agrees(s, x, v), "nomatch", s, Give(s, x, v))
Stored(s, x, v) == If(x \in DOMAIN Env(s), "error", s, Assign(s, x, v))
Items(syms, v) == [n \in DOMAIN syms |-> <<syms[n], ItemAt(v, n)>>]
Changed(s, x, Change(_)) == Stored(s, x, Change(Env(s)[x]))

Bind(s, d, v) ==
  IF ~d.pattern.list THEN Given(s, d.pattern.syms[1], v)
  ELSE IF stringp(v) \/ Len(v[2]) # Len(d.pattern.syms) THEN [kind |-> "nomatch", s |-> s]
  ELSE OneByOne(LAMBDA k, x : Given(k, x[1], x[2]), s, Items(d.pattern.syms, v))

Set(s, d, v) ==
  IF ~d.pattern.list THEN Stored(s, d.pattern.syms[1], v)
  ELSE IF stringp(v) THEN [kind |-> "error", s |-> s]
  ELSE OneByOne(LAMBDA k, x : Stored(k, x[1], x[2]), s, Items(d.pattern.syms, v))

Merge(s, d) ==
  LET V == [n \in DOMAIN d.args |-> Values(s, d.args[n])]
      merged == FoldLeft(LAMBDA v, W : IF v = NilList THEN CHOOSE w \in W : TRUE ELSE weird_merge(v, CHOOSE w \in W : TRUE), NilList, V)
  IN If({} \notin Range(V), "error", s, Put(s, d.sym, merged))

Output(s, d) ==
  Go(Put(s, d.sym, IF d.append /\ d.sym \in DOMAIN Env(s) THEN Append2(flatten(Env(s)[d.sym]), d.lines) ELSE d.lines))

\* A function has its parameters for its own, or hides what has their names.
Call(s, d) ==
  LET V == [n \in DOMAIN d.args |-> Values(s, d.args[n])]
      free == {n \in DOMAIN d.args : V[n] = {}}
      bound == DOMAIN d.args \ free
      Latest(p) == Max({n \in DOMAIN d.args : d.params[n] = p})
      own == [p \in {d.params[n] : n \in bound} |-> CHOOSE v \in V[Latest(p)] : TRUE]
      ub == FoldLeft(LAMBDA u, n : IF n \in free THEN <<[param |-> d.params[n], arg |-> d.args[n].sym]>> \o u ELSE u,
                     <<>>, [n \in DOMAIN d.args |-> n])
      inner == Append(s, Scope("function", ub))
  IN If(\A n \in free : d.args[n].op = "symbol", "error", s,
        [Hide(inner, Range(d.params)) EXCEPT ![Len(inner)].own = own])

Directive(s, d) ==
  LET V == IF d.op \in {"bind", "set", "rebind"} THEN Values(s, d.form) ELSE {}
      v == CHOOSE v \in V : TRUE
  IN CASE d.op \in {"bind", "set", "rebind"} /\ V = {} -> [kind |-> "error", s |-> s]
       [] d.op = "bind" /\ V # {} -> Bind(s, d, v)
       [] d.op = "set" /\ V # {} -> Set(s, d, v)
       [] d.op = "rebind" /\ V # {} -> Go(New(Hide(s, {d.sym}), d.sym, v))
       [] d.op = "forget" -> Go(Hide(s, d.syms))
       [] d.op = "merge" -> Merge(s, d)
       [] d.op = "flatten" -> OneByOne(LAMBDA k, x : IF x \in DOMAIN Env(k) THEN Changed(k, x, flatten) ELSE Go(k), s, d.syms)
       [] d.op = "cat" -> Changed(s, d.sym, LAMBDA w : cat_str(flatten(w), d.sep))
       [] d.op = "filter" -> OneByOne(LAMBDA k, x : Changed(k, x, filter_string_tree), s, d.syms)
       [] d.op = "output" -> Output(s, d)
       [] d.op = "call" -> Call(s, d)
       [] d.op \in {"clause", "collect"} -> Go(Append(s, Scope(d.op, <<>>)))

-----------------------------------------------------------------------------
\* The ends of scopes.
top == stack[Len(stack)]
outer == SubSeq(stack, 1, Len(stack) - 1)

Inherit(s, scope) == [Hide(s, scope.hide) EXCEPT ![Len(s)].own = scope.own @@ @]

Returned ==
  LET values == Env(stack)
  IN OneByOne(LAMBDA k, u : IF u.param \in DOMAIN values THEN Given(k, u.arg, values[u.param]) ELSE Go(k), outer, top.ub)

Lists == [x \in DOMAIN top.own \cup DOMAIN top.coll |->
            (IF x \in DOMAIN top.coll THEN top.coll[x] ELSE <<>>) \o (IF x \in DOMAIN top.own THEN <<top.own[x]>> ELSE <<>>)]

Matched ==
  CASE top.kind = "clause" -> Go(Inherit(outer, top))
    [] top.kind = "function" -> Returned
    [] top.kind = "collect" -> Go(Append(outer, [Scope("collect", <<>>) EXCEPT !.coll = Lists]))

Collected == Go(Inherit(outer, [own |-> [x \in DOMAIN top.coll |-> List(top.coll[x])], hide |-> DOMAIN top.coll]))

Result(r) == CASE r.kind = "go" -> r.s [] r.kind = "nomatch" -> NoMatch(r.s) [] r.kind = "error" -> SemError(r.s)

Next == stack' = CASE did'.op = "matched" -> Result(Matched)
                   [] did'.op = "collected" -> Result(Collected)
                   [] did'.op = "failed" -> NoMatch(stack)
                   [] OTHER -> Result(Directive(stack, did'))
=============================================================================
