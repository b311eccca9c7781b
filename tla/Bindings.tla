------------------------------ MODULE Bindings ------------------------------
(***************************************************************************)
(* The variables of a query (match.c).  They are kept in an association    *)
(* list, and a directive that matches clauses, or calls a function, hands  *)
(* on the list that it has: a longer list shares its tail with the one     *)
(* before, and a shorter one is a copy that shares its pairs.  Some        *)
(* directives make a new list, others store into a pair, which whoever has *)
(* that pair in its list will see.  Module Scopes says what that comes to. *)
(*                                                                         *)
(* A behaviour is a sequence of directives, and of ends of the clauses and *)
(* functions that some of them open, in any order.                         *)
(***************************************************************************)
EXTENDS Trees

CONSTANTS Plans,     \* sets of directives that queries are made of
          Firsts,    \* the variables to begin with
          MaxSteps   \* how many directives a query has

VARIABLES may, steps, pair, bindings, frames, did

vars == <<may, steps, pair, bindings, frames, did>>

-----------------------------------------------------------------------------
\* A store m has the pairs, and an association list b of them.
Existing(m, sym) == {p \in ToSet(m.b) : m.pair[p].sym = sym}
The(S) == CHOOSE x \in S : TRUE

acons(m, sym, value) == [pair |-> Append(m.pair, [sym |-> sym, value |-> value]), b |-> <<Len(m.pair) + 1>> \o m.b]

StoreAt(m, p, value) == [m EXCEPT !.pair[p].value = value]

acons_new(m, sym, value) ==
  LET E == Existing(m, sym) IN IF E = {} THEN acons(m, sym, value) ELSE StoreAt(m, The(E), value)

alist_remove(m, keys) == [m EXCEPT !.b = SelectSeq(@, LAMBDA p : m.pair[p].sym \notin keys)]

\* What a form evaluates to, if its variables are bound.
txeval(m, form) ==
  IF form.op = "literal" THEN {form.value}
  ELSE {IF form.op = "symbol" THEN m.pair[p].value ELSE List(<<m.pair[p].value>>) : p \in Existing(m, form.sym)}

\* The outcomes of a directive: the next one (next_spec_k), no match, or an
\* exception; in each case with the pairs as they are by then.
Go(m) == [kind |-> "go", m |-> m]
NoMatch(m) == [kind |-> "nomatch", m |-> m]
SemError(m) == [kind |-> "error", m |-> m]

\* dest_bind for one variable, and for a list of them.
BindOne(m, sym, value) ==
  LET E == Existing(m, sym)
      old == m.pair[The(E)].value
  IN IF E = {} THEN Go(acons(m, sym, value))
     ELSE IF tree_find(value, old) \/ tree_find(old, value) THEN Go(m) ELSE NoMatch(m)

\* The outcome of Op for each item in turn, as long as the directive goes on.
InTurn(Op(_, _), m, s) == FoldLeft(LAMBDA r, x : IF r.kind = "go" THEN Op(r.m, x) ELSE r, Go(m), s)

Positions(s) == [n \in DOMAIN s |-> n]

dest_bind(m, pattern, value) ==
  LET syms == pattern.syms IN
  IF ~pattern.list THEN BindOne(m, syms[1], value)
  ELSE IF stringp(value) \/ Len(syms) # Len(value[2]) THEN NoMatch(m)
  ELSE InTurn(LAMBDA k, n : BindOne(k, syms[n], value[2][n]), m, Positions(syms))

SetOne(m, sym, value) ==
  LET E == Existing(m, sym) IN IF E = {} THEN SemError(m) ELSE Go(StoreAt(m, The(E), value))

dest_set(m, pattern, value) ==
  IF ~pattern.list THEN SetOne(m, pattern.syms[1], value)
  ELSE IF stringp(value) THEN SemError(m)
  ELSE InTurn(LAMBDA k, n : SetOne(k, pattern.syms[n], ItemAt(value, n)), m, Positions(pattern.syms))
-----------------------------------------------------------------------------
\* The directives.
Evaluated(m, form, Then(_)) == LET V == txeval(m, form) IN IF V = {} THEN SemError(m) ELSE Then(The(V))

v_bind(m, d) == Evaluated(m, d.form, LAMBDA v : dest_bind(m, d.pattern, v))
v_set(m, d) == Evaluated(m, d.form, LAMBDA v : dest_set(m, d.pattern, v))

\* Slip: the variable is given its new value in place.
RebindStores(m, d) ==
  LET V == txeval(m, d.form) IN IF V = {} THEN SemError(m) ELSE Go(acons_new(m, d.sym, The(V)))

\* The keys that are removed are the arguments: the variable, but also the form
\* where that is a symbol.
v_rebind(m, d) ==
  Evaluated(m, d.form, LAMBDA v :
    BindOne(alist_remove(m, {d.sym} \cup (IF d.form.op = "symbol" THEN {d.form.sym} ELSE {})), d.sym, v))

v_forget_local(m, d) == Go(alist_remove(m, d.syms))

v_merge(m, d) ==
  LET V(n) == txeval(m, d.args[n])
      merged == FoldLeft(LAMBDA v, n : IF v = NilList THEN The(V(n)) ELSE weird_merge(v, The(V(n))), NilList, Positions(d.args))
  IN IF \E n \in DOMAIN d.args : V(n) = {} THEN SemError(m) ELSE Go(acons_new(m, d.sym, merged))

\* Stores what Change makes of its value into a variable.
Changed(m, sym, Change(_)) ==
  LET E == Existing(m, sym) IN IF E = {} THEN SemError(m) ELSE Go(StoreAt(m, The(E), Change(m.pair[The(E)].value)))

v_flatten(m, d) == InTurn(LAMBDA k, x : IF Existing(k, x) = {} THEN Go(k) ELSE Changed(k, x, flatten), m, d.syms)
v_cat(m, d) == Changed(m, d.sym, LAMBDA v : cat_str(flatten(v), d.sep))
v_filter(m, d) == InTurn(LAMBDA k, x : Changed(k, x, filter_string_tree), m, d.syms)

\* @(output :into): the lines that were put out become the value, or, with
\* :append, the end of it.
v_output(m, d) ==
  IF Existing(m, d.sym) = {} THEN Go(acons(m, d.sym, d.lines))
  ELSE Changed(m, d.sym, LAMBDA old : IF d.append THEN Append2(flatten(old), d.lines) ELSE d.lines)

-----------------------------------------------------------------------------
\* Functions and clauses. A frame is a match_files that waits for another one:
\* the list it has, and how the one inside was called.

\* A parameter of a function is bound in its list, a copy of the caller's, to
\* the value of the argument, or removed from it if the argument is unbound.
GiveOne(r, caller, param, arg) ==
  LET V == txeval([r.m EXCEPT !.b = caller], arg)
  IN IF r.kind # "go" THEN r
     ELSE IF V # {} THEN [r EXCEPT !.m = acons_new(@, param, The(V))]
     ELSE IF arg.op = "symbol"
     THEN [r EXCEPT !.m = alist_remove(@, {param}), !.ub = <<[param |-> param, arg |-> arg.sym]>> \o @]
     ELSE [r EXCEPT !.kind = "error"]

Given(m, d) == FoldLeft(LAMBDA r, n : GiveOne(r, m.b, d.params[n], d.args[n]),
                        [kind |-> "go", m |-> m, ub |-> <<>>], Positions(d.args))

\* The arguments that were unbound get the values of their parameters.
Returned(m, caller, ub) ==
  InTurn(LAMBDA k, u : LET E == Existing(m, u.param)
                       IN IF E = {} THEN Go(k) ELSE BindOne(k, u.arg, m.pair[The(E)].value),
         [m EXCEPT !.b = caller], ub)

\* One match of the clauses of a collect: the new pairs are those that were not
\* in the list, as eq tells them apart.
Collated(coll, m, before) ==
  LET Add(l, p) ==
        LET x == m.pair[p]
            at == {n \in DOMAIN l : l[n].sym = x.sym}
        IN IF at = {} THEN <<[sym |-> x.sym, values |-> <<x.value>>]>> \o l
           ELSE [l EXCEPT ![The(at)].values = <<x.value>> \o @]
  IN FoldLeft(Add, coll, SelectSeq(m.b, LAMBDA p : p \notin ToSet(before)))

\* The lists of values take the places of the variables.
Gathered(m, coll) ==
  FoldLeft(LAMBDA k, x : acons(k, x.sym, List(Reverse(x.values))),
           alist_remove(m, {x.sym : x \in ToSet(coll)}), coll)

-----------------------------------------------------------------------------
\* Where a failure and an exception lead: a function that fails makes its caller
\* fail, and a collect goes on to the next line; exceptions end at a clause,
\* as if of a @(try).
Stops(fs, kinds) == {n \in DOMAIN fs : fs[n].kind \in kinds}
LeftAt(m, S) ==
  IF S = {} THEN may' = {} /\ frames' = <<>> /\ pair' = m.pair /\ UNCHANGED bindings
  ELSE LET n == Max(S)
       IN /\ frames' = SubSeq(frames, 1, IF frames[n].kind = "collect" THEN n ELSE n - 1)
          /\ bindings' = frames[n].bindings /\ pair' = m.pair /\ UNCHANGED may

Outcome(r, fs) ==
  CASE r.kind = "go" -> /\ pair' = r.m.pair /\ bindings' = r.m.b /\ frames' = fs /\ UNCHANGED may
    [] r.kind = "nomatch" -> LeftAt(r.m, Stops(fs, {"clause", "collect"}))
    [] r.kind = "error" -> LeftAt(r.m, Stops(fs, {"clause"}))

here == [pair |-> pair, b |-> bindings]
Frame(kind, ub) == [kind |-> kind, bindings |-> bindings, ub |-> ub, coll |-> <<>>]
top == frames[Len(frames)]
outer == SubSeq(frames, 1, Len(frames) - 1)
Inside(kind) == frames # <<>> /\ top.kind = kind

Init == /\ \E plan \in Plans : may = plan
        /\ \E first \in Firsts : pair = first /\ bindings = Positions(first)
        /\ steps = 0 /\ frames = <<>> /\ did = [op |-> "none"]

Does(op, d) == may # {} /\ steps < MaxSteps /\ d.op = op /\ steps' = steps + 1 /\ did' = d

Bind == \E d \in may : Does("bind", d) /\ Outcome(v_bind(here, d), frames)
Set == \E d \in may : Does("set", d) /\ Outcome(v_set(here, d), frames)
Rebind == \E d \in may : Does("rebind", d) /\ Outcome(v_rebind(here, d), frames)
Forget == \E d \in may : Does("forget", d) /\ Outcome(v_forget_local(here, d), frames)
Merge == \E d \in may : Does("merge", d) /\ Outcome(v_merge(here, d), frames)
Flatten == \E d \in may : Does("flatten", d) /\ Outcome(v_flatten(here, d), frames)
Cat == \E d \in may : Does("cat", d) /\ Outcome(v_cat(here, d), frames)
Filter == \E d \in may : Does("filter", d) /\ Outcome(v_filter(here, d), frames)
Output == \E d \in may : Does("output", d) /\ Outcome(v_output(here, d), frames)

Call == \E d \in may : /\ Does("call", d)
                       /\ LET r == Given(here, d)
                          IN Outcome(r, IF r.kind = "go" THEN Append(frames, Frame("function", r.ub)) ELSE frames)

Open == \E d \in may : /\ d.op \in {"clause", "collect"} /\ Does(d.op, d)
                       /\ Outcome(Go(here), Append(frames, Frame(d.op, <<>>)))

Ends(op) == may # {} /\ frames # <<>> /\ did' = [op |-> op] /\ UNCHANGED steps

ClauseMatches == Inside("clause") /\ Ends("matched") /\ Outcome(Go(here), outer)
FunctionMatches == Inside("function") /\ Ends("matched") /\ Outcome(Returned(here, top.bindings, top.ub), outer)
CollectMatches == /\ Inside("collect") /\ Ends("matched")
                  /\ Outcome(Go([here EXCEPT !.b = top.bindings]),
                             Append(outer, [top EXCEPT !.coll = Collated(@, here, top.bindings)]))
CollectEnds == /\ Inside("collect") /\ bindings = top.bindings /\ Ends("collected")
               /\ Outcome(Go(Gathered(here, top.coll)), outer)
Fails == Ends("failed") /\ Outcome(NoMatch(here), frames)

Next == \/ Bind \/ Set \/ Rebind \/ Forget \/ Merge \/ Flatten \/ Cat \/ Filter \/ Output
        \/ Call \/ Open \/ ClauseMatches \/ FunctionMatches \/ CollectMatches \/ CollectEnds \/ Fails

Spec == Init /\ [][Next]_vars

-----------------------------------------------------------------------------
\* The scopes: what the list of one has over that of the scope outside is its
\* own, and what it lacks of that is hidden.
Depth == Len(frames) + 1
ListOf(n) == IF n = 0 THEN <<>> ELSE IF n = Depth THEN bindings ELSE frames[n].bindings
Pairs(S) == [x \in {pair[p].sym : p \in S} |-> pair[CHOOSE p \in S : pair[p].sym = x].value]
ScopeAt(n) ==
  LET mine == ToSet(ListOf(n))
      outside == ToSet(ListOf(n - 1))
      frame == IF n = 1 THEN [kind |-> "query", ub |-> <<>>, coll |-> <<>>] ELSE frames[n - 1]
      coll == frame.coll
  IN [kind |-> frame.kind, ub |-> frame.ub, own |-> Pairs(mine \ outside), hide |-> {pair[p].sym : p \in outside \ mine},
      coll |-> [x \in {coll[i].sym : i \in DOMAIN coll} |-> Reverse(coll[CHOOSE i \in DOMAIN coll : coll[i].sym = x].values)]]

Scoped == INSTANCE Scopes WITH stack <- IF may = {} THEN <<>> ELSE [n \in 1 .. Depth |-> ScopeAt(n)]

\* Calls that give a value to a parameter that has one already where the call
\* is, and the forms of rebind that are variables: see CallsKeep.
Bound(sym) == Existing(here, sym) # {}
Clobbers == \/ did'.op = "call" /\ \E n \in DOMAIN did'.params : Bound(did'.params[n])
            \/ did'.op = "rebind" /\ did'.form.op = "symbol" /\ did'.form.sym # did'.sym

\* The sharing of pairs implements scopes: an assignment is seen as far out as
\* the variable is the same one, and no farther; what a clause, a collect or
\* a function binds or removes is its own, and gone when it fails.
Scopes == may # {} /\ ~Clobbers => Scoped!Next
ImplementsScopes == [][Scopes]_vars

\* A call changes no variable of the caller.
CallsKeep == [][ did'.op = "call" /\ Len(frames') > Len(frames) =>
                   \A p \in ToSet(bindings) : pair'[p] = pair[p] ]_vars
=============================================================================
