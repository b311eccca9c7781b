------------------------------- MODULE Match --------------------------------
(***************************************************************************)
(* The vertical directives of the pattern language (match.c): how a query  *)
(* is matched against the lines of its data sources.                       *)
(*                                                                         *)
(* match_files walks over the items of a query with a context c: the items *)
(* that are left (spec), the sources (files), the bindings of variables    *)
(* (b), the lines that are left (d, nil when they have run out) and the    *)
(* number of the first of them (l).  Each directive is an operator that    *)
(* maps the context to a result, and most call MatchFiles again on their   *)
(* clauses.  How a line is matched is reduced to two kinds of pattern: a   *)
(* text, and a variable that spans the line.  A value is a line or a list. *)
(*                                                                         *)
(* The C stack is part of the context as the blocks that are open and the  *)
(* exceptions that someone catches; a transfer of control is a result that *)
(* the directives in between hand on.                                      *)
(***************************************************************************)
EXTENDS Integers, Sequences, FiniteSets, Functions, TLC

CONSTANTS
  Text,      \* the lines that occur in data and in queries
  Width,     \* the length of each
  Fun,       \* the functions defined by @(define): name -> [params, body]
  t, nil,
  Message,   \* the text of an error message
  Cases      \* queries, sources and first bindings: sets of each, to combine

VARIABLES
  query,     \* the context that matching began with
  c,         \* the context of the loop of the outermost match_files
  result     \* what it returns, once it does

vars == <<query, c, result>>

-----------------------------------------------------------------------------
\* Results of match_files: bindings and a position, which is t after the last
\* line; or nil; or a transfer of control on its way.  "go" is next_spec_k.

Ok(b, pos) == [kind |-> "ok", b |-> b, pos |-> pos]
Fail == [kind |-> "fail"]
Exit(tag, payload) == [kind |-> "exit", tag |-> tag, payload |-> payload]
Died == [kind |-> "died"]                 \* exit without unwinding, or abort
Go(k) == [kind |-> "go", c |-> [k EXCEPT !.spec = Tail(@)]]
Leaves(r) == r.kind \in {"exit", "throw", "died"}

Standard == {"query_error", "file_error", "type_error", "internal_error"}

\* uw_exception_subtype_p, as far as the types that come up here.
IsA(sym, type) == type \in {sym, t} \/ (type = "error" /\ sym \in Standard)

\* uw_throw looks for a catch before it unwinds anything.
Throw(k, sym, args) ==
  IF \E type \in k.exc : IsA(sym, type) THEN [kind |-> "throw", sym |-> sym, args |-> args] ELSE Died

Error(k, sym) == Throw(k, sym, <<Message>>)

\* What arrives at a block (uw_block_end).
Landed(r, tag) == IF r.kind = "exit" /\ r.tag = tag THEN r.payload ELSE r

HasData(k) == k.d = t \/ k.d # <<>>
Here(k) == [d |-> k.d, l |-> k.l]
Position(k) == IF HasData(k) THEN Here(k) ELSE t

Move(k, pos) == IF pos = t THEN [k EXCEPT !.d = <<>>] ELSE [k EXCEPT !.d = pos.d, !.l = pos.l]
Take(k, r) == [Move(k, r.pos) EXCEPT !.b = r.b]
Sub(k, spec) == [k EXCEPT !.spec = spec]
InBlock(k, tag) == [k EXCEPT !.blocks = @ \cup {tag}]
NextLine(k) == [k EXCEPT !.d = IF @ = <<>> THEN @ ELSE Tail(@), !.l = @ + 1]

Without(b, V) == [v \in DOMAIN b \ V |-> b[v]]

\* The bindings t, which stand for a contradiction, and which one directive
\* (CatchClause) leaves in the context.  They are no list: to look something up
\* in them is a type error.
Contradiction == t :> t
Spoilt(b) == t \in DOMAIN b

-----------------------------------------------------------------------------
\* Values.

Atom == Text \cup {Message}

RECURSIVE TreeFind(_, _), Flat(_)
TreeFind(obj, tree) == \/ obj = tree
                       \/ tree \notin Atom /\ \E i \in DOMAIN tree : TreeFind(obj, tree[i])

Flat(v) == IF v \in Atom THEN <<v>> ELSE IF v = <<>> THEN <<>> ELSE Flat(Head(v)) \o Flat(Tail(v))

\* Slip: the binding is replaced.
DestBindOver(b, var, value) == {(var :> value) @@ b}

\* The bindings with var bound to value, if they do not contradict that.
DestBind(b, var, value) ==
  IF var \notin DOMAIN b THEN {b @@ (var :> value)}
  ELSE IF TreeFind(value, b[var]) \/ TreeFind(b[var], value) THEN {b} ELSE {}

MatchLine(k, pat) ==
  LET line == Head(k.d)
      Bound(B) == IF B = {} THEN Fail ELSE Go(NextLine([k EXCEPT !.b = CHOOSE b \in B : TRUE]))
  IN IF pat \in Text THEN Bound(IF pat = line THEN {k.b} ELSE {})
     ELSE IF pat \notin DOMAIN k.b THEN Bound({k.b @@ (pat :> line)})
     ELSE IF k.b[pat] = <<>> THEN Error(k, "query_error")
     ELSE Bound(IF TreeFind(line, k.b[pat]) THEN {k.b} ELSE {})

Line(k, i) == IF k.d = t THEN Error(k, "type_error")
              ELSE IF k.d = <<>> THEN Fail ELSE MatchLine(k, i.pat)

Eof(k, i) == IF HasData(k) THEN Fail ELSE Go(k)

Bind(k, i) == LET B == DestBind(k.b, i.var, i.value)
              IN IF B = {} THEN Fail ELSE Go([k EXCEPT !.b = CHOOSE b \in B : TRUE])

ThrowItem(k, i) == Throw(k, i.sym, i.args)

\* Slip: all data are taken for consumed.
AcceptAll(k, i) ==
  IF i.block \notin k.blocks THEN Error(k, "query_error")
  ELSE Exit(i.block, IF i.accept THEN Ok(k.b, t) ELSE Fail)

AcceptFail(k, i) ==
  IF i.block \notin k.blocks THEN Error(k, "query_error")
  ELSE Exit(i.block, IF i.accept THEN Ok(k.b, Position(k)) ELSE Fail)

-----------------------------------------------------------------------------
RECURSIVE MatchFiles(_)

\* Slip: the end of the data is no place to match at.
TriesShort(k, i) == IF i.max = nil \/ i.greedy THEN Len(k.d) ELSE i.max

\* How many lines a skip tries from here.
Tries(k, i) == IF i.max = nil \/ i.greedy THEN Len(k.d) + 1 ELSE i.max

\* The rest of the query at the first line it matches at, or at the last one.
RECURSIVE Search(_, _, _, _)
Search(k, greedy, tries, best) ==
  LET After(raw) ==
        LET r == Landed(raw, nil)
            good == IF r.kind = "ok" THEN r ELSE best
        IN IF Leaves(r) \/ (r.kind = "ok" /\ ~greedy) THEN r
           ELSE IF Leaves(raw) \/ ~HasData(k) THEN good
           ELSE IF k.d = t THEN Error(k, "type_error")
           ELSE Search(NextLine(k), greedy, tries - 1, good)
  IN IF tries = 0 THEN best ELSE After(MatchFiles(k))

Skip(k0, i) ==
  LET k == [InBlock(k0, nil) EXCEPT !.spec = Tail(@)]
      min == IF i.min = nil THEN 0 ELSE i.min
  IN IF k.spec = <<>> THEN Ok(k.b, Here(k))
     ELSE IF k.d = t THEN IF min > 0 THEN Error(k, "type_error") ELSE Search(k, i.greedy, 2, Fail)
     ELSE IF Len(k.d) < min THEN Fail
     ELSE LET skipped == [k EXCEPT !.d = SubSeq(@, min + 1, Len(@)), !.l = @ + min]
          IN Search(skipped, i.greedy, Tries(skipped, i), Fail)

\* At least i.m of the next i.n items match, each at a line of its own.
RECURSIVE FuzzFrom(_, _, _, _)
FuzzFrom(k, i, reps, good0) ==
  LET next == [NextLine(k) EXCEPT !.spec = Tail(@)]
      After(r) ==
        LET good == good0 + (IF r.kind = "ok" THEN 1 ELSE 0)
        IN IF Leaves(r) THEN r
           ELSE IF ~HasData(k) THEN MatchFiles(k)
           ELSE IF k.d = t THEN Error(k, "type_error")
           ELSE IF next.spec # <<>> THEN FuzzFrom(next, i, reps + 1, good)
           ELSE IF good >= i.m THEN MatchFiles(next) ELSE Fail
  IN IF reps < i.n THEN After(MatchFiles(Sub(k, <<Head(k.spec)>>)))
     ELSE IF good0 < i.m THEN Fail ELSE MatchFiles(k)

Fuzz(k0, i) ==
  LET k == Sub(k0, Tail(k0.spec))
  IN IF k.spec = <<>> THEN Ok(k.b, Here(k)) ELSE FuzzFrom(k, i, 0, 0)

Block(k, i) ==
  LET After(r) == IF r.kind = "ok" THEN Go(Take(k, r)) ELSE r
  IN After(Landed(MatchFiles(InBlock(Sub(k, i.body), i.name)), i.name))

\* The rest of the query is matched against another source, but the position
\* stays in this one. The source is the next file or one that is named; or
\* lines that are given: what a variable or a form stands for, the environment,
\* or the names of the files, which are no lines of the data (Message).
NextItem(k0, i) ==
  LET k == Sub(k0, Tail(k0.spec))
      Back(r) == IF r.kind = "ok" THEN Ok(r.b, Position(k)) ELSE r
      Opening(files) == Back(MatchFiles([k EXCEPT !.files = files, !.d = t, !.l = 0]))
      Given(files, lines) == Back(MatchFiles([k EXCEPT !.files = files, !.d = lines, !.l = 1]))
      var == <<[nothrow |-> FALSE, lines |-> nil]>> \o k.files
  IN IF k.spec = <<>> THEN Ok(k.b, Here(k))
     ELSE CASE i.from = "args"  -> Given(k.files, [n \in DOMAIN k.files |-> Message])
            [] i.from = "env"   -> Given(k.files, i.lines)
            [] i.from = "value" -> Given(var, i.lines)
            [] i.from = "var"   -> IF i.var \in DOMAIN k.b THEN Given(var, Flat(k.b[i.var])) ELSE Error(k, "query_error")
            [] i.from = "named" -> Opening(<<[nothrow |-> i.nothrow, lines |-> i.lines]>> \o k.files)
            [] i.from = "next"  -> IF i.nothrow \/ Len(k.files) < 2 THEN Error(k, "query_error") ELSE Opening(Tail(k.files))

-----------------------------------------------------------------------------
\* Parallel directives.  The furthest position of the clauses so far: d is t
\* once one has consumed everything, nil as long as there is none.

NoData == [d |-> nil, l |-> 0]

\* Slip: the clause that matched last decides.
FurthestLast(m, pos) ==
  IF pos = t THEN [m EXCEPT !.d = t] ELSE [d |-> IF pos.d = <<>> THEN nil ELSE pos.d, l |-> pos.l]

Furthest(m, pos) ==
  IF pos = t THEN [m EXCEPT !.d = t]
  ELSE IF m.d # t /\ pos.l > m.l THEN [d |-> IF pos.d = <<>> THEN nil ELSE pos.d, l |-> pos.l]
  ELSE m

\* Slip: the line number is left behind.
AdvanceData(k, m) == IF m.d = nil THEN k ELSE IF m.d = t THEN Move(k, t) ELSE [k EXCEPT !.d = m.d]

Advance(k, m) == IF m.d = nil THEN k ELSE IF m.d = t THEN Move(k, t) ELSE Move(k, m)

\* s.b: bindings for the next clause; s.max: where to go on; s.resolved: the
\* variables of :resolve; s.best, s.at, s.length: the choice of @(choose).
RECURSIVE Clauses(_, _, _)
Clauses(k, i, s) ==
  LET After(r) ==
        LET hidden == {v \in i.resolve : v \notin DOMAIN k.b}
            b == Without(r.b, hidden)
            rest == IF i.sym \in {"cases", "none"} THEN <<>> ELSE Tail(s.left)
            next == [s EXCEPT !.left = rest, !.some = TRUE, !.max = Furthest(@, r.pos),
                              !.resolved = [v \in hidden \cap DOMAIN r.b |-> r.b[v]] @@ @]
            Better == i.var \in DOMAIN b /\ b[i.var] # <<>>
                      /\ IF i.longest THEN Width[b[i.var]] > s.length ELSE Width[b[i.var]] < s.length
        IN IF Leaves(r) THEN [s EXCEPT !.out = r]
           ELSE IF r.kind = "ok" /\ Spoilt(r.b) /\ i.sym = "choose" THEN [s EXCEPT !.out = Error(k, "type_error")]
           ELSE IF r.kind = "fail"
           THEN Clauses(k, i, [s EXCEPT !.left = IF i.sym = "all" THEN <<>> ELSE Tail(@), !.all = FALSE])
           ELSE IF i.sym # "choose" THEN Clauses(k, i, [next EXCEPT !.b = b])
           ELSE IF ~Better THEN Clauses(k, i, next)
           ELSE Clauses(k, i, [next EXCEPT !.best = b, !.at = Furthest(NoData, r.pos), !.length = Width[b[i.var]]])
  IN IF s.left = <<>> THEN s ELSE After(MatchFiles([Sub(k, Head(s.left)) EXCEPT !.b = s.b]))

Parallel(k, i) ==
  LET After(s) ==
        IF Leaves(s.out) THEN s.out
        ELSE IF \/ i.sym = "all" /\ ~s.all
                \/ i.sym \in {"some", "cases"} /\ ~s.some
                \/ i.sym = "none" /\ s.some
        THEN Fail
        ELSE IF i.sym = "choose" THEN Go([Advance(k, s.at) EXCEPT !.b = s.best])
        ELSE Go([Advance(k, s.max) EXCEPT !.b = s.resolved @@ s.b])
  IN After(Clauses(k, i, [left |-> i.clauses, out |-> Fail, b |-> k.b, some |-> FALSE, all |-> TRUE,
                          max |-> NoData, resolved |-> <<>>, best |-> k.b, at |-> NoData,
                          length |-> IF i.longest THEN -1 ELSE 1000000]))

-----------------------------------------------------------------------------
\* One round of gather: every clause that is left, at the same position.
RECURSIVE Round(_, _)
Round(k, s) ==
  LET next == [s EXCEPT !.todo = Tail(@)]
      After(r) ==
        IF Leaves(r) THEN [s EXCEPT !.out = r]
        ELSE IF r.kind = "fail" THEN Round(k, [next EXCEPT !.left = Append(@, Head(s.todo))])
        ELSE IF r.pos # t /\ s.max.d = t THEN Round(k, next)
        ELSE Round(k, [next EXCEPT !.b = r.b, !.max = Furthest(@, r.pos)])
  IN IF s.todo = <<>> THEN s ELSE After(MatchFiles([Sub(k, Head(s.todo)) EXCEPT !.b = s.b]))

\* What @(until) and @(last) do to the position.
EndAt(k, sym, r) == IF sym = "until" THEN k
                    ELSE IF r.pos = t THEN [k EXCEPT !.d = t] ELSE Move(k, r.pos)

RECURSIVE Rounds(_, _, _)
Rounds(k, i, left) ==
  LET Ends(out) == [k |-> k, left |-> left, out |-> out]
      Advanced(s) ==
        LET here == [k EXCEPT !.b = s.b]
        IN IF s.max.d = nil /\ k.d = t THEN Ends(Error(k, "type_error"))
           ELSE Rounds(IF s.max.d # nil THEN Advance(here, s.max) ELSE NextLine(here), i, s.left)
      Until(s, u) ==
        IF Leaves(u) THEN Ends(u)
        ELSE IF u.kind = "fail" THEN Advanced(s)
        ELSE [Ends(Fail) EXCEPT
                !.k = [EndAt(k, i.until.sym, u) EXCEPT
                         !.b = IF i.until.sym = "until" THEN s.b ELSE Without(u.b, DOMAIN s.b) @@ k.b]]
      After(s) ==
        IF Leaves(s.out) THEN Ends(s.out)
        ELSE IF i.until = nil THEN Advanced(s)
        ELSE Until(s, MatchFiles([Sub(k, i.until.spec) EXCEPT !.b = s.b]))
  IN IF left = <<>> \/ ~HasData(k) THEN Ends(Fail)
     ELSE After(Round(k, [todo |-> left, left |-> <<>>, b |-> k.b, max |-> NoData, out |-> Fail]))

\* Slip: clauses that are left over are not looked at.
GatherLoose(k0, i) ==
  LET After(g) == IF Leaves(g.out) THEN g.out
                  ELSE IF \E v \in i.vars : v[1] \notin DOMAIN g.k.b /\ v[2] = nil THEN Fail ELSE Go(g.k)
  IN After(Rounds(k0, i, i.clauses))

\* The variables of :vars are <<name, default>>, with nil for no default.
Gather(k0, i) ==
  LET After(g) ==
        LET unbound == {v \in i.vars : v[1] \notin DOMAIN g.k.b}
            defaults == [x \in {v[1] : v \in unbound} |-> (CHOOSE v \in unbound : v[1] = x)[2]]
        IN IF Leaves(g.out) THEN g.out
           ELSE IF i.vars # {} /\ Spoilt(g.k.b) THEN Error(k0, "type_error")
           ELSE IF IF i.vars = {} THEN g.left # <<>> ELSE \E v \in unbound : v[2] = nil THEN Fail
           ELSE Go([g.k EXCEPT !.b = @ @@ defaults])
  IN After(Rounds(k0, i, i.clauses))

-----------------------------------------------------------------------------
\* Collect.  s.coll: the lists so far; s.last: what @(last) has bound; s.min
\* and s.max: mincounter and maxcounter; s.out: "go" while the loop is left
\* in the normal way.

Limit(n, m) == IF n # nil THEN n ELSE IF m # nil THEN m ELSE 0

KeptVars(i) == {v[1] : v \in i.vars}

\* The bindings that a match of the body contributes, and those it lacks.
Fresh(k, i, b) == Without(b, DOMAIN k.b) @@ [x \in KeptVars(i) \ DOMAIN b |-> (CHOOSE v \in i.vars : v[1] = x)[2]]
Lacks(k, i, b) == DOMAIN b # DOMAIN k.b /\ \E v \in i.vars : v[1] \notin DOMAIN b /\ v[2] = nil
Keeps(i, x) == i.vars = {} \/ x \in KeptVars(i)

Collate(coll, i, new) ==
  LET V == {x \in DOMAIN new : Keeps(i, x) /\ new[x] # nil}
  IN [x \in V |-> (IF x \in DOMAIN coll THEN coll[x] ELSE <<>>) \o <<new[x]>>] @@ coll

\* Slip: a line is passed over after every match.
BeyondOne(k, pos) == IF pos = t THEN Move(k, t) ELSE NextLine(Move(k, pos))

\* After a match that took no line, the line it stands at is passed over.
Beyond(k, pos) == IF pos # t /\ pos.l = k.l THEN NextLine(Move(k, pos)) ELSE Move(k, pos)

RECURSIVE Repeat(_, _)
Repeat(i, s) ==
  LET k == s.k
      Missed(lines) ==
        LET z == [s EXCEPT !.min = @ + 1, !.max = @ + 1, !.lines = @ + lines]
        IN IF (i.gap # nil \/ i.maxgap # nil) /\ z.max > Limit(i.gap, i.maxgap) THEN z
           ELSE IF k.d = t THEN [z EXCEPT !.out = Error(k, "type_error")]
           ELSE Repeat(i, [z EXCEPT !.k = NextLine(@)])
      Hit(r) ==
        LET z == [s EXCEPT !.k = Beyond(k, r.pos), !.coll = Collate(@, i, Fresh(k, i, r.b)),
                           !.lines = @ + 1, !.min = 0, !.max = 0, !.times = @ + 1]
        IN IF i.vars # {} /\ Spoilt(r.b) THEN [s EXCEPT !.out = Error(k, "type_error")]
           ELSE IF Lacks(k, i, r.b) THEN [s EXCEPT !.out = Error(k, "query_error")]
           ELSE IF r.pos # t /\ r.pos.l < k.l THEN [s EXCEPT !.out = Error(k, "internal_error")]
           ELSE IF (i.times # nil \/ i.maxtimes # nil) /\ z.times >= Limit(i.times, i.maxtimes) THEN z
           ELSE Repeat(i, z)
      Goes(r) == IF r.kind = "fail" THEN Missed(1) ELSE Hit(r)
      Until(r, b, u) ==
        IF Leaves(u) THEN [s EXCEPT !.out = u]
        ELSE IF u.kind = "fail" THEN Goes(r)
        ELSE [s EXCEPT !.k = EndAt(k, i.until.sym, u),
                       !.last = IF i.until.sym = "last" THEN Without(u.b, DOMAIN b) ELSE <<>>]
      Tested(r, b) == Until(r, b, MatchFiles([Sub(k, i.until.spec) EXCEPT !.b = b]))
      After(r) == IF Leaves(r) THEN [s EXCEPT !.out = r]
                  ELSE IF i.until = nil THEN Goes(r)
                  ELSE Tested(r, IF r.kind = "ok" THEN r.b ELSE <<>>)
  IN IF ~HasData(k) THEN s
     ELSE IF s.min < Limit(i.gap, i.mingap) THEN Missed(0)
     ELSE IF i.lines # nil /\ s.lines >= i.lines THEN s
     ELSE After(MatchFiles(Sub(k, i.body)))

Collect(k0, i) ==
  LET s0 == [k |-> InBlock(k0, nil), coll |-> <<>>, last |-> <<>>, min |-> Limit(i.gap, i.mingap),
             max |-> 0, times |-> 0, lines |-> 0, out |-> Go(k0)]
      After(s) ==
        LET out == Landed(s.out, nil)
            empty == [x \in {x \in KeptVars(i) : s.coll = <<>>} |-> <<>>]
        IN IF out.kind = "fail" \/ Leaves(out) THEN out
           ELSE IF (i.times # nil \/ i.mintimes # nil) /\ s.times < Limit(i.times, i.mintimes) THEN Fail
           ELSE IF Spoilt(k0.b) THEN Error(k0, "type_error")
           ELSE Go([s.k EXCEPT !.b = s.last @@ s.coll @@ k0.b @@ empty, !.blocks = k0.blocks])
  IN IF i.gap # nil /\ (i.mingap # nil \/ i.maxgap # nil) THEN Error(k0, "query_error")
     ELSE IF i.times = 0 \/ i.lines = 0 THEN Go(k0)
     ELSE After(Repeat(i, s0))

-----------------------------------------------------------------------------
\* Try.  s.out is the result of the body, and Go after a clause that matched,
\* as result = t in the code.  The clauses run with the catch closed.

Bound(b, params, args) ==
  LET n == IF Len(params) < Len(args) THEN Len(params) ELSE Len(args)
      Step[j \in 0 .. n] == IF j = 0 THEN {b} ELSE UNION {DestBind(d, params[j], args[j]) : d \in Step[j - 1]}
  IN Step[n]

Matched(k, r) == [k |-> Take(k, r), out |-> Go(k)]

\* The parameters take the arguments; if one contradicts what it is bound to,
\* the clause fails, and the contradiction is left for @(finally) to start from.
CatchClause(k, i, r) ==
  LET j == CHOOSE j \in DOMAIN i.catches : /\ IsA(r.sym, i.catches[j].type)
                                           /\ \A h \in 1 .. j - 1 : ~IsA(r.sym, i.catches[h].type)
      params == i.catches[j].params
      B == Bound(k.b, params, r.args)
      bound == [k EXCEPT !.b = CHOOSE b \in B : TRUE]
      After(m) == IF m.kind = "ok" THEN Matched(bound, m) ELSE [k |-> bound, out |-> m]
  IN IF Spoilt(k.b) /\ params # <<>> /\ r.args # <<>> THEN [k |-> k, out |-> Error(k, "type_error")]
     ELSE IF B = {} THEN [k |-> [k EXCEPT !.b = Contradiction], out |-> Fail]
     ELSE After(MatchFiles(Sub(bound, i.catches[j].body)))

\* Slip: a transfer of control goes past the clause.
FinallyNormal(i, s) ==
  LET here == IF s.out.kind = "ok" THEN Take(s.k, s.out) ELSE s.k
      After(m) == IF Leaves(m) THEN [k |-> here, out |-> m]
                  ELSE IF m.kind = "fail" THEN [s EXCEPT !.k = here] ELSE Matched(here, m)
  IN IF i.finally = nil \/ Leaves(s.out) THEN [s EXCEPT !.k = here] ELSE After(MatchFiles(Sub(here, i.finally)))

Finally(i, s) ==
  LET here == IF s.out.kind = "ok" THEN Take(s.k, s.out) ELSE s.k
      After(m) == IF Leaves(m) THEN [k |-> here, out |-> m]
                  ELSE IF m.kind = "fail" THEN [s EXCEPT !.k = here]
                  ELSE [k |-> Take(here, m), out |-> IF Leaves(s.out) THEN s.out ELSE Go(here)]
  IN IF i.finally = nil \/ s.out.kind = "died" THEN [s EXCEPT !.k = here] ELSE After(MatchFiles(Sub(here, i.finally)))

Try(k0, i) ==
  LET k == InBlock(k0, nil)
      types == {i.catches[j].type : j \in DOMAIN i.catches}
      Caught(r) == IF r.kind = "throw" /\ (\E type \in types : IsA(r.sym, type))
                   THEN CatchClause(k, i, r) ELSE [k |-> k, out |-> r]
      After(s) == LET out == Landed(s.out, nil)
                  IN IF out.kind = "fail" \/ Leaves(out) THEN out ELSE Go([s.k EXCEPT !.blocks = k0.blocks])
  IN After(Finally(i, Caught(MatchFiles([Sub(k, i.body) EXCEPT !.exc = @ \cup types]))))

-----------------------------------------------------------------------------

\* The caller's bindings with those the function has given to the parameters
\* in free, which become those of the arguments, from the last one to the first.
Returns(k, args, params, free, b) ==
  LET Step[j \in 1 .. Len(params) + 1] ==
        IF j > Len(params) THEN {k.b}
        ELSE IF j \notin free \/ params[j] \notin DOMAIN b THEN Step[j + 1]
        ELSE UNION {DestBind(d, args[j], b[params[j]]) : d \in Step[j + 1]}
  IN Step[1]

\* A call of a function: its parameters are bound to the arguments that have
\* values; an argument without one it can bind.
Call(k, i) ==
  LET params == Fun[i.fun].params
      P == DOMAIN params
      free == {j \in P : i.args[j] \notin Text /\ i.args[j] \notin DOMAIN k.b}
      Value(arg) == IF arg \in Text THEN arg ELSE k.b[arg]
      given == [p \in {params[j] : j \in P \ free} |-> Value(i.args[CHOOSE j \in P : params[j] = p])]
      b == given @@ Without(k.b, {params[j] : j \in free})
      After(r) ==
        LET B == Returns(k, i.args, params, free, r.b)
        IN IF r.kind = "fail" \/ Leaves(r) THEN r
           ELSE IF free # {} /\ Spoilt(r.b) THEN Error(k, "type_error")
           ELSE IF B = {} THEN Fail
           ELSE Go([Take(k, r) EXCEPT !.b = CHOOSE d \in B : TRUE])
  IN IF Len(i.args) # Len(params) THEN Error(k, "query_error")
     ELSE After(Landed(MatchFiles([Sub(InBlock(k, nil), Fun[i.fun].body) EXCEPT !.b = b]), nil))

\* A query that has been loaded, unless the parser found errors in it. When it
\* consumes everything its bindings are not taken over.
Load(k, i) ==
  LET After(r) == IF r.kind # "ok" THEN r
                  ELSE IF r.pos = t THEN Go([k EXCEPT !.d = <<>>]) ELSE Go(Take(k, r))
  IN IF i.body = nil THEN Error(k, "query_error") ELSE After(MatchFiles(Sub(k, i.body)))

-----------------------------------------------------------------------------
\* The items that look up a variable before they do anything else.
Looks(i) ==
  \/ i.op = "line" /\ i.pat \notin Text
  \/ i.op = "bind"
  \/ i.op = "next" /\ i.from = "var"
  \/ i.op = "parallel" /\ i.resolve # {}
  \/ i.op = "call" /\ Fun[i.fun].params # <<>> /\ Len(i.args) = Len(Fun[i.fun].params)

\* With the bindings t such an item is a type error.
Refuses(k) == Spoilt(k.b) /\ Looks(Head(k.spec))

Item(k) ==
  LET i == Head(k.spec) IN
  IF Refuses(k) THEN Error(k, "type_error") ELSE
  CASE i.op = "line" -> Line(k, i)         [] i.op = "eof" -> Eof(k, i)
    [] i.op = "bind" -> Bind(k, i)         [] i.op = "skip" -> Skip(k, i)
    [] i.op = "fuzz" -> Fuzz(k, i)         [] i.op = "block" -> Block(k, i)
    [] i.op = "accept" -> AcceptFail(k, i) [] i.op = "next" -> NextItem(k, i)
    [] i.op = "parallel" -> Parallel(k, i) [] i.op = "gather" -> Gather(k, i)
    [] i.op = "collect" -> Collect(k, i)   [] i.op = "try" -> Try(k, i)
    [] i.op = "throw" -> ThrowItem(k, i)   [] i.op = "call" -> Call(k, i)
    [] i.op = "load" -> Load(k, i)

\* Data of t stand for the first of the files, which is opened now; not if the
\* query begins with @(next), which will open another one.
Opens(k) == k.d = t /\ k.files # <<>> /\ (k.spec = <<>> \/ Head(k.spec).op # "next")

Open(k) ==
  LET source == Head(k.files)
  IN IF k.d # t THEN k
     ELSE IF k.files = <<>> THEN [k EXCEPT !.d = <<>>]
     ELSE IF ~Opens(k) THEN k
     ELSE [k EXCEPT !.d = source.lines, !.l = IF source.lines = <<>> THEN @ ELSE 1,
                    !.files = [@ EXCEPT ![1].nothrow = FALSE]]

CannotOpen(k) == Opens(k) /\ Head(k.files).lines = nil

RECURSIVE Loop(_)
Loop(k) ==
  LET After(r) == IF r.kind = "go" THEN Loop(r.c) ELSE r
  IN IF k.spec = <<>> THEN Ok(k.b, Position(k)) ELSE After(Item(k))

MatchFiles(k) ==
  IF CannotOpen(k) THEN IF Head(k.files).nothrow THEN Fail ELSE Error(k, "file_error")
  ELSE Loop(Open(k))

-----------------------------------------------------------------------------
\* The loop of the outermost match_files, an item at a time.
Pending == [kind |-> "none"]

Init ==
  /\ \E k \in Cases : \E spec \in k.specs, files \in k.files, b \in k.b :
       query = [spec |-> spec, files |-> files, b |-> b, d |-> t, l |-> 0, blocks |-> {}, exc |-> {}]
  /\ c = IF CannotOpen(query) THEN query ELSE Open(query)
  /\ result = IF CannotOpen(query) THEN MatchFiles(query) ELSE Pending

AtItem(op) == result = Pending /\ c.spec # <<>> /\ Head(c.spec).op = op

\* The first item comes to the result r.
Step(r) ==
  IF r.kind = "go" THEN c' = r.c /\ UNCHANGED <<query, result>> ELSE result' = r /\ UNCHANGED <<query, c>>

End ==
  /\ result = Pending /\ c.spec = <<>>
  /\ result' = Ok(c.b, Position(c))
  /\ UNCHANGED <<query, c>>

\* The item at hand is an op, and the bindings are none it refuses.
Takes(op) == AtItem(op) /\ ~Refuses(c)
item == Head(c.spec)

Next ==
  \/ result = Pending /\ c.spec # <<>> /\ Refuses(c) /\ Step(Error(c, "type_error"))
  \/ Takes("line") /\ Step(Line(c, item))
  \/ Takes("eof") /\ Step(Eof(c, item))
  \/ Takes("bind") /\ Step(Bind(c, item))
  \/ Takes("skip") /\ Step(Skip(c, item))
  \/ Takes("fuzz") /\ Step(Fuzz(c, item))
  \/ Takes("block") /\ Step(Block(c, item))
  \/ Takes("accept") /\ Step(AcceptFail(c, item))
  \/ Takes("next") /\ Step(NextItem(c, item))
  \/ Takes("parallel") /\ Step(Parallel(c, item))
  \/ Takes("gather") /\ Step(Gather(c, item))
  \/ Takes("collect") /\ Step(Collect(c, item))
  \/ Takes("try") /\ Step(Try(c, item))
  \/ Takes("throw") /\ Step(ThrowItem(c, item))
  \/ Takes("call") /\ Step(Call(c, item))
  \/ Takes("load") /\ Step(Load(c, item))
  \/ End

Spec == Init /\ [][Next]_vars

-----------------------------------------------------------------------------
Lines == Head(query.files).lines

\* Matching ends with bindings, in failure or with the process, and no directive
\* leaves behind the blocks that it has opened.
TypeOK ==
  /\ result.kind \in {"none", "ok", "fail", "died"}
  /\ c.blocks = query.blocks /\ c.exc = query.exc
  /\ \A v \in DOMAIN c.b \ {t} : \A n \in DOMAIN Flat(c.b[v]) : Flat(c.b[v])[n] \in Atom

\* Every directive keeps the line number and the data apart, and they belong
\* together: line l is the first of the lines that are left (data_lineno in
\* match_files_ctx, and the pairs that match_files returns). No transfer of
\* control gets past the last block or catch.
LineNumbersAgree ==
  LET Agree(pos) == pos # t /\ pos.d \notin {t, <<>>} => pos.d = SubSeq(Lines, pos.l, Len(Lines))
  IN TypeOK /\ Agree(Here(c)) /\ (result.kind = "ok" => Agree(result.pos))

\* The context at line n + 1 of the data, with the items of spec.
From(n, spec) == [Sub(c, spec) EXCEPT !.d = SubSeq(@, n + 1, Len(@)), !.l = @ + n]

\* What is bound stays bound, to the same value, whatever matches afterwards;
\* and of the bindings a function makes only those of its arguments come out.
\* There are two exceptions in the code. (1) Where the body of a collect fails,
\* its @(last) is matched with no bindings at all, those from before the collect
\* not seen either, and what it then binds takes their place. (2) A catch clause
\* whose parameter contradicts what it is bound to spoils the bindings, for good
\* if @(finally) matches.
Extends(b, a) == DOMAIN a \subseteq DOMAIN b /\ \A v \in DOMAIN a : b[v] = a[v]

\* What @(last) binds anew: (1).
Rebound ==
  LET i == Head(c.spec)
      Alone(n) == MatchFiles([From(n, i.until.spec) EXCEPT !.b = <<>>])
      ends == {n \in 0 .. Len(c.d) - 1 : MatchFiles(From(n, i.body)).kind = "fail" /\ Alone(n).kind = "ok"}
  IN IF AtItem("collect") /\ i.until # nil /\ i.until.sym = "last" /\ c.d # t
     THEN UNION {DOMAIN Alone(n).b : n \in ends} ELSE {}

\* The body throws to a clause that contradicts the bindings: (2).
Contradicted ==
  LET i == Head(c.spec)
      types == {i.catches[j].type : j \in DOMAIN i.catches}
      r == MatchFiles([Sub(InBlock(c, nil), i.body) EXCEPT !.exc = @ \cup types])
  IN /\ AtItem("try") /\ r.kind = "throw"
     /\ \E j \in DOMAIN i.catches :
          /\ IsA(r.sym, i.catches[j].type) /\ Bound(c.b, i.catches[j].params, r.args) = {}
          /\ \A h \in 1 .. j - 1 : ~IsA(r.sym, i.catches[h].type)

BindingsKept ==
  [][/\ ~Spoilt(c'.b) => Extends(c'.b, Without(c.b, IF c'.b = c.b THEN {} ELSE Rebound))
     /\ Spoilt(c'.b) => Spoilt(c.b) \/ Contradicted
     /\ result'.kind = "ok" => Extends(result'.b, c.b)
     /\ AtItem("call") => DOMAIN c'.b \subseteq DOMAIN c.b \cup Range(Head(c.spec).args)]_vars

\* (Of a step.) @(skip) carries on at the first line where the rest of the query matches,
\* and at the last one if it is greedy; the arguments limit where it looks.
SkipFinds ==
  AtItem("skip") /\ Len(c.spec) > 1 /\ c.d # t =>
      LET i == Head(c.spec)
          At(n) == MatchFiles(From(n, Tail(c.spec)))
          from == IF i.min = nil THEN 0 ELSE i.min
          to == IF i.max = nil \/ i.greedy THEN Len(c.d) ELSE from + i.max - 1
          hits == {n \in from .. Len(c.d) : n <= to /\ At(n).kind = "ok"}
      IN (\A n \in 0 .. Len(c.d) : ~Leaves(At(n))) =>
           result' = IF hits = {} THEN Fail
                     ELSE At(CHOOSE n \in hits : \A m \in hits : IF i.greedy THEN m <= n ELSE n <= m)

\* (Of a step.) @(fuzz m n) on n single lines passes over n lines of data if at least m of
\* them match, each on its own.
FuzzCounts ==
  LET i == Head(c.spec)
      Fits(n) == MatchFiles(From(n - 1, <<c.spec[n + 1]>>)).kind = "ok"
  IN AtItem("fuzz") /\ i.n < Len(c.spec) /\ i.n <= Len(c.d)
       /\ (\A n \in 1 .. i.n : c.spec[n + 1].op = "line") =>
     result' = IF Cardinality({n \in 1 .. i.n : Fits(n)}) < i.m THEN Fail
               ELSE MatchFiles(From(i.n, SubSeq(c.spec, i.n + 2, Len(c.spec))))

\* The two directives that look for a place where the rest of the query matches
\* find what they should.
SearchesFind == [][SkipFinds /\ FuzzCounts]_vars

\* @(all), @(some) and @(maybe) move on by the longest of their matches.
\* (Not by that of a clause that ends in a bare @(skip) at the end of the
\* data, whose position has no lines and a number all the same.)
GoesFurthest ==
  [][ AtItem("parallel") /\ c' # c /\ Head(c.spec).resolve = {} /\ Head(c.spec).sym \in {"all", "some", "maybe"} =>
      LET Left(pos) == IF pos = t THEN 0 ELSE Len(pos.d)
          ends == {r \in {MatchFiles([Sub(c, s) EXCEPT !.b = c'.b]) : s \in Range(Head(c.spec).clauses)} :
                     r.kind = "ok" /\ (r.pos = t \/ r.pos.d # <<>>)}
      IN /\ \A r \in ends : Len(c'.d) <= Left(r.pos)
         /\ Len(c'.d) \in {Left(r.pos) : r \in ends} \cup {Len(c.d)} ]_vars

\* The lines at which a collect without @(until) matches its body, by what
\* its parameters mean: each match is the first one beyond the one before and
\* the gap, if it is no farther away than the largest gap and within :lines.
RECURSIVE Picks(_, _, _, _)
Picks(i, from, to, scanned) ==
  LET At(n) == MatchFiles(From(n, i.body))
      last == IF i.gap # nil \/ i.maxgap # nil THEN to + Limit(i.gap, i.maxgap) ELSE Len(c.d)
      hits == {n \in from .. Len(c.d) - 1 : /\ n <= last /\ At(n).kind = "ok"
                                            /\ i.lines # nil => scanned + n - from < i.lines}
      n == CHOOSE n \in hits : \A m \in hits : n <= m
      end == IF At(n).pos = t THEN Len(c.d) ELSE At(n).pos.l - c.l
      next == IF end > n THEN end ELSE n + 1
  IN IF hits = {} THEN <<>>
     ELSE <<n>> \o Picks(i, next + Limit(i.gap, i.mingap), next, scanned + n - from + 1)

CollectsGreedily ==
  [][ LET i == Head(c.spec)
          At(n) == MatchFiles(From(n, i.body))
          all == Picks(i, 0, 0, 0)
          most == IF i.times # nil \/ i.maxtimes # nil THEN Limit(i.times, i.maxtimes) ELSE Len(all)
          picks == SubSeq(all, 1, IF most < Len(all) THEN most ELSE Len(all))
          least == IF i.times # nil THEN i.times ELSE IF i.mintimes # nil THEN i.mintimes ELSE 0
          Values(v) == LET bind == SelectSeq(picks, LAMBDA n : v \in DOMAIN At(n).b)
                       IN [n \in DOMAIN bind |-> At(bind[n]).b[v]]
      IN AtItem("collect") /\ i.until = nil /\ i.vars = {} /\ 0 \notin {i.times, i.maxtimes, i.lines}
           /\ (i.gap = nil \/ (i.mingap = nil /\ i.maxgap = nil)) /\ c.d # t
           /\ (\A n \in 0 .. Len(c.d) : ~Leaves(At(n))) =>
         IF Len(picks) < least THEN result' = Fail
         ELSE c'.b = [v \in UNION {DOMAIN At(n).b : n \in Range(picks)} \ DOMAIN c.b |-> Values(v)] @@ c.b ]_vars

\* A gather that matches has found every clause in the data; and clauses that
\* are single texts it finds whatever their order.
GatherFindsAll ==
  [][ LET i == Head(c.spec)
          Found(s) == \E n \in 0 .. Len(c.d) - 1 : MatchFiles([From(n, s) EXCEPT !.b = c'.b]).kind = "ok"
          all == \A s \in Range(i.clauses) : Found(s)
      IN AtItem("gather") /\ i.until = nil /\ i.vars = {} =>
         /\ c' # c => all
         /\ (\A s \in Range(i.clauses) : Len(s) = 1 /\ s[1].op = "line" /\ s[1].pat \in Text) =>
              (c' # c <=> all) ]_vars

Same(r, s) == /\ r.kind = s.kind
              /\ r.kind = "go" => r.c.b = s.c.b /\ r.c.d = s.c.d /\ (r.c.d # <<>> => r.c.l = s.c.l)

\* (Of a step.) @(accept) ends its block as if the block ended there.
AcceptTruncates ==
  LET i == Head(c.spec)
      Cut(n) == Item([c EXCEPT !.spec[1].body = SubSeq(@, 1, n - 1)])
  IN AtItem("block") =>
     \A n \in DOMAIN i.body :
       /\ i.body[n].op = "accept" /\ i.body[n].accept /\ i.body[n].block = i.name
       /\ \A m \in 1 .. n - 1 : i.body[m].op \notin {"accept", "next"}
       => Same(Item(c), Cut(n))

\* (Of a step.) A query that is loaded matches as it would if it stood in the
\* place of the @(load), whatever follows; except that what it binds is lost if it
\* consumes all data.
LoadInserts ==
  LET i == Head(c.spec)
      loaded == MatchFiles(Sub(c, i.body))
  IN AtItem("load") /\ i.body # nil /\ (\A n \in DOMAIN i.body : i.body[n].op \notin {"skip", "fuzz", "next"}) =>
     IF loaded.kind = "ok" /\ loaded.pos = t
     THEN MatchFiles(c) = MatchFiles([c EXCEPT !.spec = Tail(@), !.d = <<>>])
     ELSE MatchFiles(c) = MatchFiles(Sub(c, i.body \o Tail(c.spec)))

\* What is true of the clauses of a directive is what would be of the same items
\* without it: those of a block up to an @(accept), and those of a @(load).
ClausesInline == [][AcceptTruncates /\ LoadInserts]_vars

\* However the body of a try ends, and its catch clause if there is one, the
\* @(finally) clause has been matched when the try succeeds: here one that
\* matches wherever it is, and binds a variable.
FinallyRuns ==
  [][ LET i == Head(c.spec)
      IN AtItem("try") /\ c' # c /\ i.finally # nil /\ Len(i.finally) = 1 =>
         \A n \in DOMAIN i.finally : i.finally[n].op = "bind" => i.finally[n].var \in DOMAIN c'.b ]_vars
=============================================================================
