------------------------------- MODULE Lists -------------------------------
\* The lists of lib.c, as the conses they are made of, which lists may share
\* and which may be lazy: the first look at a lazy cons runs a function that
\* fills it in. Two variables of a program hold lists; a step is one call.
EXTENDS SeqSpec

CONSTANTS Lists0,   \* the programs: what x and y hold at first, and how many calls follow
          Removes,  \* the atoms that remq removes
          Orders,   \* the functions sort is given, as sets of pairs
          Ranges(_),\* the pairs of indices, for programs of so many calls
          MaxLen    \* bound: the length of a list that is given to a call

VARIABLES h,        \* the conses, c, and the environments of their functions, e
          var,      \* what x and y hold
          value,    \* what they stand for: the tokens of their lists
          call      \* the last call, and how many there were of all

vars == <<h, var, value, call>>

\* A value is nil, a cons by its number, or an atom, a negative number.
nil == 0
Atom(v) == v <= 0
Cell(a, d, fn) == [car |-> a, cdr |-> d, fn |-> fn]
With(heap, v) == [h |-> heap, v |-> v]
NewCons(heap, a, d, fn) == With([heap EXCEPT !.c = Append(@, Cell(a, d, fn))], Len(heap.c) + 1)
SetCar(heap, p, v) == [heap EXCEPT !.c[p].car = v]
SetCdr(heap, p, v) == [heap EXCEPT !.c[p].cdr = v]

RECURSIVE See(_, _), LastCons(_, _, _), SkipRem(_, _, _), Scan(_, _, _), Descend(_, _, _)

\* ltail: the last cons of a list and the one before it.
LastCons(heap, before, p) ==
  LET seen(s) == IF s.c[p].cdr = nil THEN [h |-> s, last |-> p, before |-> before] ELSE LastCons(s, p, s.c[p].cdr)
  IN  seen(See(heap, p))

\* A list whose last cons has given way to a lazy one, which will hold the same
\* item and what comes after it.
Extended(heap, p, fn) ==
  LET given(end, new) ==
        [h |-> IF end.before = nil THEN new.h ELSE SetCdr(new.h, end.before, new.v),
         v |-> IF end.before = nil THEN new.v ELSE p, item |-> end.h.c[end.last].car]
      ends(end) == given(end, NewCons(end.h, nil, nil, fn))
  IN  ends(LastCons(heap, nil, p))

NonEmpty(lists) == {i \in DOMAIN lists : lists[i] # nil}
FirstOf(S) == CHOOSE i \in S : \A j \in S : i <= j
After(lists, i) == SubSeq(lists, i + 1, Len(lists))

lazy_appendv(heap, lists) ==
  LET i == FirstOf(NonEmpty(lists))
      begun(e) == With([e.h EXCEPT !.e = Append(@, [kind |-> "append", last |-> e.item, lists |-> After(lists, i)])], e.v)
  IN  IF NonEmpty(lists) = {} THEN With(heap, nil) ELSE begun(Extended(heap, lists[i], Len(heap.e) + 1))

lazy_appendv_func(heap, p, fn) ==
  LET env == heap.e[fn]
      i == FirstOf(NonEmpty(env.lists))
      next(e) == SetCdr([e.h EXCEPT !.e[fn].last = e.item, !.e[fn].lists = After(env.lists, i)], p, e.v)
  IN  IF NonEmpty(env.lists) = {} THEN SetCdr(SetCar(heap, p, env.last), p, nil)
      ELSE next(Extended(SetCar(heap, p, env.last), env.lists[i], fn))

\* rem_lazy_rec: fn is 0 in the call that makes the function.
SkipRem(heap, pred, p) ==
  LET seen(s) == IF s.c[p].car \in pred THEN SkipRem(s, pred, s.c[p].cdr) ELSE With(s, p)
  IN  IF p = nil THEN With(heap, nil) ELSE seen(See(heap, p))
rem_lazy_rec(heap, pred, p, fn) ==
  LET env(s) == [kind |-> "rem", pred |-> pred, list |-> s.h.c[s.v].cdr]
      found(s) == IF s.v = nil THEN s
                  ELSE IF fn = 0 THEN NewCons([s.h EXCEPT !.e = Append(@, env(s))], s.h.c[s.v].car, nil, Len(s.h.e) + 1)
                  ELSE NewCons([s.h EXCEPT !.e[fn] = env(s)], s.h.c[s.v].car, nil, fn)
  IN  found(SkipRem(heap, pred, p))
rem_lazy_func(heap, p, fn) ==
  LET linked(r) == SetCdr(r.h, p, r.v) IN linked(rem_lazy_rec(heap, heap.e[fn].pred, heap.e[fn].list, fn))

\* lazy_flatten_scan: the list whose first item is the next atom, and the lists
\* to go on with after it. It goes down to the first item of a list of lists
\* and takes that, be it nil.
Descend(heap, p, escape) ==
  LET down(s, a, lists) == IF Atom(s.c[a].car) THEN [h |-> s, v |-> a, escape |-> lists] ELSE Descend(s, a, lists)
      seen(s) == down(See(s, s.c[p].car), s.c[p].car, <<s.c[p].cdr>> \o escape)
  IN  seen(See(heap, p))
Scan(heap, p, escape) ==
  LET seen(s) == CASE s.c[p].car = nil -> Scan(s, s.c[p].cdr, escape)
                   [] s.c[p].car < nil -> [h |-> s, v |-> p, escape |-> escape]
                   [] s.c[p].car > nil -> Descend(s, p, escape)
  IN  IF p # nil THEN seen(See(heap, p))
      ELSE IF escape # <<>> THEN Scan(heap, Head(escape), Tail(escape))
      ELSE [h |-> heap, v |-> nil, escape |-> escape]

lazy_flatten_func(heap, p, fn) ==
  LET env == heap.e[fn]
      linked(new) == SetCdr(new.h, p, new.v)
      found(n, item) ==
        LET kept == [SetCar(n.h, p, item) EXCEPT !.e[fn].list = n.v, !.e[fn].escape = n.escape]
        IN  IF n.v = nil THEN kept ELSE linked(NewCons(kept, nil, nil, fn))
      seen(s) == found(Scan(s, s.c[env.list].cdr, env.escape), s.c[env.list].car)
  IN  seen(See(heap, env.list))

lazy_flatten(heap, v) ==
  LET found(n) == IF n.v = nil THEN With(n.h, nil)
                  ELSE NewCons([n.h EXCEPT !.e = Append(@, [kind |-> "flatten", list |-> n.v, escape |-> n.escape])], nil, nil, Len(n.h.e) + 1)
  IN  IF Atom(v) THEN NewCons(heap, v, nil, 0) ELSE found(Scan(heap, v, <<>>))

\* car and cdr look at a cons in this way.
See(heap, p) ==
  LET fn == heap.c[p].fn
      kind == heap.e[fn].kind
      ran == CASE kind = "append" -> lazy_appendv_func(heap, p, fn)
               [] kind = "rem" -> rem_lazy_func(heap, p, fn)
               [] kind = "flatten" -> lazy_flatten_func(heap, p, fn)
  IN  IF p = nil THEN heap ELSE IF fn = 0 THEN heap ELSE [ran EXCEPT !.c[p].fn = 0]

-----------------------------------------------------------------------------
\* The conses of a list, all looked at. The functions that go through the whole
\* of a list have it as this.
RECURSIVE Spine(_, _)
Spine(heap, p) ==
  LET linked(rest) == [h |-> rest.h, at |-> <<p>> \o rest.at]
      seen(s) == linked(Spine(s, s.c[p].cdr))
  IN  IF p = nil THEN [h |-> heap, at |-> <<>>] ELSE seen(See(heap, p))
Part(s, i, j) == [k \in 1 .. j - i + 1 |-> s.h.c[s.at[i + k - 1]].car]
Items(s) == Part(s, 1, Len(s.at))
Nth(s, i) == IF i \in DOMAIN s.at THEN s.at[i] ELSE nil

\* list_collect of the items, and list_collect_nconc of what comes after.
Collect(heap, items, end) ==
  LET n == Len(heap.c)
      cell(i) == Cell(items[i], IF i < Len(items) THEN n + i + 1 ELSE end, 0)
  IN  With([heap EXCEPT !.c = @ \o [i \in DOMAIN items |-> cell(i)]], IF items = <<>> THEN end ELSE n + 1)

copy_list(s) == Collect(s.h, Items(s), nil)
reverse(s) == Collect(s.h, Reverse(Items(s)), nil)
nreverse(s) ==
  LET before(c) == Nth(s, (CHOOSE i \in DOMAIN s.at : s.at[i] = c) - 1)
      turned(c) == IF \E i \in DOMAIN s.at : s.at[i] = c THEN [s.h.c[c] EXCEPT !.cdr = before(c)] ELSE s.h.c[c]
  IN  With([s.h EXCEPT !.c = [c \in DOMAIN @ |-> turned(c)]], Nth(s, Len(s.at)))
append2(s, q) == Collect(s.h, Items(s), q)
nappend2(s, q) == IF s.at = <<>> THEN With(s.h, q) ELSE With(SetCdr(s.h, s.at[Len(s.at)], q), s.at[1])
ldiff(s, q) ==
  LET here == {i \in DOMAIN s.at : s.at[i] = q}
  IN  Collect(s.h, Part(s, 1, IF here = {} THEN Len(s.at) ELSE FirstOf(here) - 1), nil)

\* A list that ends where the argument does shares what it can with it.
sub_list(s, from, to) ==
  LET len == Len(s.at)
      low == CASE from = Nil -> 0 [] from < 0 -> from + len [] OTHER -> from
      high == IF to = T \/ (from < 0 /\ to = 0) THEN Nil ELSE IF to < 0 THEN to + len ELSE to
      open == high = Nil \/ ((from < 0 \/ to < 0) /\ high >= len)
  IN  CASE len = 0 \/ from = T \/ (high # Nil /\ low > high) -> With(s.h, nil)
        [] len > 0 /\ from # T /\ (high = Nil \/ low <= high) ->
             IF open THEN With(s.h, Nth(s, Clamp(low, len) + 1))
             ELSE Collect(s.h, Part(s, Clamp(low, len) + 1, Clamp(high, len)), nil)

\* Slip: the list goes on after the item the range ends before.
ReplaceShort(s, items, from, to) ==
  LET len == Len(s.at)
      linked(r) == Collect(r.h, Part(s, 1, Start(len, from)), r.v)
  IN  linked(append2(Spine(s.h, items), Nth(s, Stop(len, from, to) + 2)))

\* The range t .. 1 is one of those that keep nothing before it.
replace_list(s, items, from, to) ==
  LET len == Len(s.at)
      low == CASE from = Nil -> 0 [] from < 0 -> from + len [] OTHER -> from
      high == IF to = T THEN Nil ELSE IF from < 0 /\ to = 0 THEN len ELSE IF to < 0 THEN to + len ELSE to
      known == from < 0 \/ to < 0
      kept == IF from = T THEN 0 ELSE Clamp(low, Clamp(high, len))
      linked(r) == Collect(r.h, Part(s, 1, kept), r.v)
  IN  CASE len = 0 -> With(s.h, items)
        [] len > 0 /\ (high = Nil \/ (known /\ high >= len)) ->
             Collect(s.h, Part(s, 1, IF from = T THEN len ELSE Clamp(low, len)), items)
        [] OTHER -> linked(append2(Spine(s.h, items), Nth(s, Clamp(high, len) + 1)))

\* remq, remql, remqual, remove_if and keep_if.
remq(S, s) ==
  LET hits == {i \in DOMAIN s.at : s.h.c[s.at[i]].car \in S}
      last == CHOOSE i \in hits \cup {0} : \A j \in hits : i >= j
  IN  Collect(s.h, Removed(Part(s, 1, last), S), Nth(s, last + 1))

\* merge: what it collects it copies, but for what is left when one list ends.
RECURSIVE merge(_, _, _, _, _)
merge(heap, out, s1, s2, less) ==
  LET a == heap.c[s1[1]].car
      b == heap.c[s2[1]].car
  IN  IF s1 = <<>> THEN Collect(heap, out, s2[1])
      ELSE IF s2 = <<>> THEN Collect(heap, out, s1[1])
      ELSE IF <<a, b>> \in less THEN merge(heap, Append(out, a), Tail(s1), s2, less)
      ELSE merge(heap, Append(out, b), s1, Tail(s2), less)
RECURSIVE sort_list(_, _)
sort_list(s, less) ==
  LET n == Len(s.at)
      half == (n + 1) \div 2
      first == Nth(s, 1)
      merged(l, r) == merge(r.h, <<>>, l.at, r.at, less)
      second(l, right) == merged(l, Spine(l.h, right))
      sorted(left, right) == second(Spine(right.h, left), right.v)
      rest(left) == sorted(left.v, sort_list(Spine(left.h, s.at[half + 1]), less))
  IN  CASE n < 2 -> With(s.h, first)
        [] n = 2 -> IF <<s.h.c[first].car, s.h.c[s.at[2]].car>> \in less THEN With(s.h, first)
                    ELSE With(SetCdr(SetCdr(s.h, s.at[2], first), first, nil), s.at[2])
        [] n > 2 -> rest(sort_list(Spine(SetCdr(s.h, s.at[half], nil), first), less))

\* What a list stands for: the atoms, and lists in brackets.
RECURSIVE Tokens(_, _)
Tokens(heap, p) ==
  LET token(s, v) == IF Atom(v) THEN <<v>> ELSE <<100>> \o Tokens(s.h, v) \o <<101>>
      all(s, items) == FlattenSeq([i \in DOMAIN items |-> token(s, items[i])])
      seen(s) == all(s, Items(s))
  IN  seen(Spine(heap, p))
flatten(s, tokens) == Collect(s.h, Removed(tokens, {0, 100, 101}), nil)

-----------------------------------------------------------------------------
Vars == {"x", "y"}
Other(v) == CHOOSE w \in Vars : w # v

\* What can be reached from a value, through functions of lazy conses too.
Points(heap, p) ==
  LET cell == heap.c[p]
      env == heap.e[cell.fn]
      of == CASE cell.fn = 0 -> {}
              [] cell.fn # 0 /\ env.kind = "append" -> {env.last} \cup {env.lists[i] : i \in DOMAIN env.lists}
              [] cell.fn # 0 /\ env.kind = "rem" -> {env.list}
              [] cell.fn # 0 /\ env.kind = "flatten" -> {env.list} \cup {env.escape[i] : i \in DOMAIN env.escape}
  IN  {v \in {cell.car, cell.cdr} \cup of : v > nil}
RECURSIVE Reach(_, _)
Reach(heap, S) == LET more == UNION {Points(heap, p) : p \in S} \ S IN IF more = {} THEN S ELSE Reach(heap, S \cup more)
From(heap, v) == Reach(heap, {v} \ {nil})
Apart == From(h, var["x"]) \cap From(h, var["y"]) = {}

\* The trees of Lists0 as conses: a tree is an atom or a sequence of trees, and
\* a pair may say that y is a tail of x.
Plain(v) == \A i \in DOMAIN value[v] : value[v][i] < 100
Short(v) == Len(value[v]) <= MaxLen

Init ==
  /\ \E program \in Lists0 :
       LET Nest(heap, x) == IF Len(x) = 1 THEN With(heap, x[1]) ELSE Collect(heap, Tail(x), nil)
           Build(heap, l) == FoldLeft(LAMBDA r, x : LET n == Nest(r.h, x) IN [h |-> n.h, s |-> Append(r.s, n.v)], [h |-> heap, s |-> <<>>], l)
           bx == Build([c |-> <<>>, e |-> <<>>], program[1])
           x == Collect(bx.h, bx.s, nil)
           by == Build(x.h, program[2])
           y == Collect(by.h, by.s, nil)
           shared == [i \in DOMAIN program[1] |-> x.v + i - 1]
       IN  /\ call = [n |-> 0, of |-> program[3], op |-> "none"]
           /\ \/ h = y.h /\ var = [v \in Vars |-> IF v = "x" THEN x.v ELSE y.v]
              \/ program[2] = <<>> /\ \E i \in DOMAIN shared : h = x.h /\ var = [v \in Vars |-> IF v = "x" THEN x.v ELSE shared[i]]
  /\ value = [v \in Vars |-> Tokens(h, var[v])]

\* A call with its arguments: the variables a and, where it has two, the other
\* one; its result goes to dst.
Called(op, a, dst, arg, r) ==
  /\ call.n < call.of /\ Short(a)
  /\ call' = [n |-> call.n + 1, of |-> call.of, op |-> op, a |-> a, dst |-> dst, arg |-> arg]
  /\ h' = r.h /\ var' = [var EXCEPT ![dst] = r.v] /\ value' = [w \in Vars |-> Tokens(h', var'[w])]

All(a) == Spine(h, var[a])

CopyList == \E a \in Vars : Plain(a) /\ Called("copy_list", a, Other(a), 0, copy_list(All(a)))
ReverseList == \E a \in Vars : Plain(a) /\ Called("reverse", a, Other(a), 0, reverse(All(a)))
Nreverse == \E a \in Vars : Plain(a) /\ Apart /\ Called("nreverse", a, a, 0, nreverse(All(a)))
Append2 == \E a, dst \in Vars : Plain(a) /\ Called("append2", a, dst, 0, append2(All(a), var[Other(a)]))
Nappend2 == \E a \in Vars : Plain(a) /\ Apart /\ Called("nappend2", a, a, 0, nappend2(All(a), var[Other(a)]))
AppendLazy == \E a, dst \in Vars : Plain(a) /\ Apart /\ Called("append*", a, dst, 0, lazy_appendv(h, <<var[a], var[Other(a)]>>))
SubList == \E a \in Vars, r \in Ranges(call.of) : Plain(a) /\ Called("sub_list", a, Other(a), r, sub_list(All(a), r[1], r[2]))
ReplaceList ==
  \E a, dst \in Vars, r \in Ranges(call.of) :
    Plain(a) /\ Plain(Other(a)) /\ Called("replace_list", a, dst, r, replace_list(All(a), var[Other(a)], r[1], r[2]))
Remq == \E a, dst \in Vars, S \in Removes : Plain(a) /\ Called("remq", a, dst, S, remq(S, All(a)))
RemqLazy == \E a, dst \in Vars, S \in Removes : Plain(a) /\ Called("remq*", a, dst, S, rem_lazy_rec(h, S, var[a], 0))
Ldiff == \E a \in Vars : Plain(a) /\ Plain(Other(a)) /\ Called("ldiff", a, a, 0, ldiff(All(a), var[Other(a)]))
SortList == \E a \in Vars, less \in Orders : Plain(a) /\ Apart /\ Called("sort", a, a, less, sort_list(All(a), less))
Flatten == \E a \in Vars : Called("flatten", a, a, 0, flatten(All(a), Tokens(h, var[a])))
FlattenLazy == \E a \in Vars : Called("flatten*", a, Other(a), 0, lazy_flatten(h, var[a]))

\* A program that goes through the first conses of a list looks at them.
Look ==
  \E a \in Vars : LET s == See(h, var[a])
                      two == See(s, s.c[var[a]].cdr)
                  IN  /\ var[a] # nil /\ two # h
                      /\ Called("look", a, a, 0, With(two, var[a]))

Next == CopyList \/ ReverseList \/ Nreverse \/ Append2 \/ Nappend2 \/ AppendLazy \/ SubList \/ ReplaceList
        \/ Remq \/ RemqLazy \/ Ldiff \/ SortList \/ Flatten \/ FlattenLazy \/ Look

Spec == Init /\ [][Next]_vars

Ideal == INSTANCE IdealLists WITH val <- value

\* The two that do not do what IdealLists says. append* extends the list it is
\* given, if that has more than one item, and the result is that list.
AppendExtends ==
  LET a == call'.a
  IN  /\ call'.op = "append*" /\ call'.dst # a /\ Len(value[a]) > 1
      /\ value' = [v \in Vars |-> value[a] \o value[Other(a)]]

\* flatten* leaves a nil in that is the first item of a list in the list, or all
\* there is.
FlattenLeavesNil ==
  LET a == call'.a
      tokens == value[a]
  IN  /\ call'.op = "flatten*" /\ value'[a] = tokens
      /\ tokens = <<>> \/ \E i \in 1 .. Len(tokens) - 1 : tokens[i] = 100 /\ tokens[i + 1] = 0
      /\ Removed(value'[call'.dst], {0}) = Removed(tokens, {0, 100, 101})

\* Whatever lists share, and whichever are lazy and how much of them has been
\* looked at, a call gives its result the items the manual promises and changes
\* no other list, unless it is one of those that take their argument apart; but
\* for append* of a list of several items and flatten* of a nil that comes first,
\* which do this instead.
Promise == Ideal!Next \/ AppendExtends \/ FlattenLeavesNil
ImplementsLists == [][Promise]_<<value, call>>

\* "The append* function works like append", by which "copies of these lists are
\* catenated" (txr.1:6122-6131): it changes none of its arguments.
AppendAsPromised == call'.op = "append*" => Ideal!Next
AppendCopies == [][AppendAsPromised]_<<value, call>>
=============================================================================
