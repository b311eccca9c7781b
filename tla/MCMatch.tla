------------------------------ MODULE MCMatch -------------------------------
\* Queries and data for Match: each family puts one directive first, with
\* clauses of a few lines and directives, in front of a few ends. A behavior is
\* about how a query is matched, or about its variables; it is checked with MCText.
EXTENDS Match

CONSTANTS LA, LB

VARIABLES part, may, steps, pair, bindings, frames, did

L(pat) == [op |-> "line", pat |-> pat]
Eof1 == [op |-> "eof"]
BindTo(v, w) == [op |-> "bind", var |-> v, value |-> w]
SkipBy(max, min) == [op |-> "skip", greedy |-> FALSE, max |-> max, min |-> min]
SkipFar == [op |-> "skip", greedy |-> TRUE, max |-> nil, min |-> nil]
FuzzOf(m, n) == [op |-> "fuzz", m |-> m, n |-> n]
BlockOf(name, body) == [op |-> "block", name |-> name, body |-> body]
AcceptTo(name) == [op |-> "accept", block |-> name, accept |-> TRUE]
FailTo(name) == [op |-> "accept", block |-> name, accept |-> FALSE]
NextFile == [op |-> "next", from |-> "next", nothrow |-> FALSE]
NextNothrow == [NextFile EXCEPT !.nothrow = TRUE]
NextNamed(lines, nothrow) == [op |-> "next", from |-> "named", lines |-> lines, nothrow |-> nothrow]
NextVar(v) == [op |-> "next", from |-> "var", var |-> v]
NextValue(lines) == [op |-> "next", from |-> "value", lines |-> lines]
NextEnv(lines) == [op |-> "next", from |-> "env", lines |-> lines]
NextArgs == [op |-> "next", from |-> "args"]
Par(sym, clauses) == [op |-> "parallel", sym |-> sym, clauses |-> clauses, resolve |-> {},
                      longest |-> TRUE, var |-> "x"]
Resolve(clauses) == [Par("some", clauses) EXCEPT !.resolve = {"x"}]
Choose(longest, clauses) == [Par("choose", clauses) EXCEPT !.longest = longest]
GatherOf(clauses) == [op |-> "gather", clauses |-> clauses, vars |-> {}, until |-> nil]
Coll(body) == [op |-> "collect", body |-> body, until |-> nil, maxgap |-> nil, mingap |-> nil, gap |-> nil,
               times |-> nil, mintimes |-> nil, maxtimes |-> nil, lines |-> nil, vars |-> {}]
Ul(sym, spec) == [sym |-> sym, spec |-> spec]
TryOf(body, catches, finally) == [op |-> "try", body |-> body, catches |-> catches, finally |-> finally]
Catch(type, params, body) == [type |-> type, params |-> params, body |-> body]
ThrowOf(sym, args) == [op |-> "throw", sym |-> sym, args |-> args]
CallOf(args) == [op |-> "call", fun |-> "f", args |-> args]
LoadOf(body) == [op |-> "load", body |-> body]

MCWidth == (LA :> 1) @@ (LB :> 2)

\* @(define f (p q)): binds p, and q to the line after next.
MCFun == [f |-> [params |-> <<"p", "q">>,
                 body |-> <<L("p"), L("s"), Par("maybe", <<<<L("q"), AcceptTo(nil)>>>>)>>]]

Pat == {LA, LB, "x", "y"}
One == {<<L(p)>> : p \in Pat}
Two == {<<L(p), L(q)>> : p \in {LA, "x"}, q \in {"x", "y"}}
Clause == One \cup Two \cup {<<SkipBy(nil, nil), L("x")>>, <<Coll(<<L("y")>>)>>, <<Eof1>>}
Rest == {<<>>, <<L("z")>>}

Skips ==
  {<<i>> \o r : i \in {SkipBy(max, min) : max \in {nil, 0, 1, 2}, min \in {nil, 1, 2}} \cup {SkipFar},
                r \in One \cup Two \cup {<<>>, <<Eof1>>, <<L(LB), Eof1>>, <<SkipBy(nil, nil), L(LA)>>, <<AcceptTo(nil)>>, <<L(LB), FailTo(nil)>>,
                                         <<Par("cases", <<<<L(LB)>>, <<L(LA), AcceptTo(nil)>>>>)>>}}

Fuzzes == {<<FuzzOf(m, n)>> \o r \o s : m \in 0 .. 2, n \in 0 .. 3, r \in Two, s \in {<<>>, <<L(LB)>>, <<L(LB), L("z")>>}}

Blocks ==
  {<<BlockOf(name, p \o <<i>> \o q)>> \o r :
     name \in {nil, "n"}, i \in {AcceptTo(nil), AcceptTo("n"), FailTo("n")},
     p \in Clause \cup {<<>>, <<SkipBy(nil, nil)>>}, q \in {<<>>, <<L("y")>>}, r \in Rest}
  \cup {<<BlockOf("n", <<Coll(<<L("x"), Par("maybe", <<<<L(LB), i>>>>)>>)>>)>> \o r :
          i \in {AcceptTo("n"), AcceptTo(nil), FailTo("n"), FailTo(nil)}, r \in Rest}

Parallels ==
  {<<Par(sym, <<p, q>>)>> \o r : sym \in {"all", "some", "maybe", "cases", "none"}, p \in Clause, q \in Clause, r \in Rest}
  \cup {<<i>> \o <<L("z")>> : i \in UNION {{Resolve(<<p, q>>), Choose(TRUE, <<p, q>>), Choose(FALSE, <<p, q>>)} :
                                             p \in One \cup Two, q \in One \cup Two}}

Gathers ==
  {<<GatherOf(s)>> \o r : s \in {<<p, q>> : p \in One \cup Two, q \in One} \cup {<<<<L(LA)>>, <<L(LB)>>, <<L(LA)>>>>}, r \in Rest}
  \cup {<<[GatherOf(<<p, q>>) EXCEPT !.vars = v, !.until = u], L("z")>> :
          p \in One, q \in One, v \in {{}, {<<"x", nil>>, <<"y", LA>>}},
          u \in {nil, Ul("until", <<L(LB)>>), Ul("last", <<L(LB), L("w")>>)}}

Collects ==
  {<<[Coll(p) EXCEPT !.maxgap = g[1], !.mingap = g[2], !.gap = g[3], !.times = n[1], !.mintimes = n[2], !.maxtimes = n[3], !.lines = l]>> :
     p \in {<<L(LA)>>, <<L(LB)>>, <<L("x")>>, <<L(LB), L("x")>>, <<Par("maybe", <<<<L(LB), L("x")>>>>)>>},
     g \in {<<nil, nil, nil>>, <<0, nil, nil>>, <<1, nil, nil>>, <<nil, 1, nil>>, <<2, 1, nil>>, <<nil, nil, 1>>, <<1, nil, 1>>},
     n \in {<<nil, nil, nil>>, <<0, nil, nil>>, <<2, nil, nil>>, <<nil, 2, nil>>, <<nil, 1, 1>>}, l \in {nil, 0, 1, 2}}
  \cup {<<[Coll(p) EXCEPT !.until = u, !.vars = v]>> \o r :
          p \in Clause \ {<<Eof1>>}, u \in {nil, Ul("until", <<L(LB)>>), Ul("until", <<L("x"), L("x")>>), Ul("last", <<L(LB), L("w")>>)},
          v \in {{}, {<<"x", nil>>}, {<<"x", nil>>, <<"y", LB>>}}, r \in Rest}

Trys ==
  {<<TryOf(p \o q, c1, f)>> \o r :
     p \in {<<>>, <<L("x")>>, <<L(LB)>>},
     q \in {<<>>, <<ThrowOf("e", <<LA>>)>>, <<ThrowOf("u", <<>>)>>, <<AcceptTo(nil)>>, <<FailTo(nil)>>, <<AcceptTo("n")>>, <<FailTo("n")>>,
            <<NextVar("w"), L("y")>>},
     c1 \in {<<>>, <<Catch("e", <<"y">>, <<>>)>>,
             <<Catch("u", <<>>, <<L(LB), FailTo(nil)>>), Catch(t, <<"y">>, <<L(LA), ThrowOf("e", <<>>)>>)>>,
             <<Catch("error", <<"m">>, <<L("y")>>)>>},
     f \in {nil, <<BindTo("v", LA)>>, <<BindTo("v", LA), L("z")>>, <<L(LB), BindTo("v", LB), AcceptTo(nil)>>},
     r \in {<<>>, <<L("z")>>}}

\* Catch clauses whose parameter contradicts the variable, and what can follow.
Mismatches ==
  {<<BindTo("x", v), TryOf(<<ThrowOf("e", <<LA>>)>>, <<Catch("e", <<"x">>, <<>>)>>, f)>> \o r :
     v \in {LA, LB},
     f \in {nil, <<BindTo("y", LA)>>, <<L(LA)>>, <<TryOf(<<ThrowOf("e", <<LA>>)>>, <<Catch(t, <<"y">>, <<>>)>>, nil)>>},
     r \in {<<>>, <<L("z")>>, <<L(LB), NextVar("x"), L("y")>>, <<CallOf(<<"x", "y">>)>>, <<Coll(<<L(LB)>>)>>,
            <<Resolve(<<<<L(LB)>>>>)>>, <<Choose(TRUE, <<<<L(LB)>>>>)>>,
            <<[GatherOf(<<<<L(LB)>>>>) EXCEPT !.vars = {<<"y", LA>>}]>>, <<[Coll(<<L(LB)>>) EXCEPT !.vars = {<<"y", LA>>}]>>}}

\* Collects whose @(last) names a variable that may be bound.
Lasts == {<<[Coll(p) EXCEPT !.until = Ul("last", u)]>> \o r :
            p \in {<<L(LA)>>, <<L("y")>>, <<L("x")>>, <<L(LB), L("y")>>}, u \in {<<L("x")>>, <<L(LB), L("x")>>}, r \in Rest}

Calls == {<<i, CallOf(args)>> \o r : i \in {BindTo("x", LA), Coll(<<L("x"), L(LB)>>), Par("maybe", <<<<L("x")>>>>)},
                                     args \in {<<"x", "y">>, <<"y", "z">>, <<LA, "x">>, <<"y", "y">>, <<"z">>}, r \in Rest}

Nexts == {<<i>> \o p \o r : i \in {NextFile, NextArgs, L("x"), Coll(<<L("x")>>)},
                            p \in {<<NextFile>>, <<NextNothrow, L("y")>>, <<NextVar("x"), Coll(<<L("y")>>)>>,
                                   <<NextNamed(<<LB>>, FALSE), L("y")>>, <<NextNamed(nil, TRUE), L("y")>>,
                                   <<NextValue(<<LB, LA>>), L("y"), NextFile, L("w")>>, <<NextEnv(<<LA>>), L("y")>>,
                                   <<L("z"), NextArgs, Coll(<<L("y")>>)>>,
                                   <<Par("all", <<<<NextNamed(nil, TRUE), L("y")>>, <<L("z")>>>>)>>,
                                   <<TryOf(<<NextFile, NextFile, L("y")>>, <<Catch("error", <<>>, <<>>)>>, nil)>>,
                                   <<TryOf(<<NextNamed(nil, FALSE), L("y")>>, <<Catch("error", <<>>, <<>>)>>, nil)>>},
                            r \in Rest}

Loads == {p \o <<LoadOf(body)>> \o r :
            p \in {<<>>, <<L("x")>>}, r \in {<<>>, <<L("y")>>, <<Eof1>>, <<L("z"), SkipBy(nil, nil), L("x")>>},
            body \in Clause \cup {nil, <<>>, <<Par("all", <<<<L("x")>>, <<L("y"), L("z")>>>>)>>, <<AcceptTo("n")>>, <<ThrowOf("e", <<>>)>>}}

\* What no block or catch is there for, and the end of data in front.
Bare == {<<L("x"), i>> : i \in {Eof1, AcceptTo(nil), FailTo("n"), ThrowOf("e", <<LA>>)}}

Data == UNION {[1 .. n -> {LA, LB}] : n \in 0 .. 4}
File(lines) == [nothrow |-> FALSE, lines |-> lines]

One1 == {<<File(d)>> : d \in Data}
Case(specs, files, binds) == [specs |-> specs, files |-> files, b |-> binds]

MCCases ==
  {Case(Skips \cup Gathers \cup Calls \cup Lasts, One1, {<<>>, "x" :> LA}),
   Case(Loads \cup {<<BlockOf("n", q)>> : q \in Loads} \cup Fuzzes \cup Blocks \cup Parallels \cup Collects, One1, {<<>>}),
   Case(Bare \cup {<<L("x"), BindTo("x", v)>> : v \in {LA, LB}} \cup Mismatches \cup Trys \cup {<<BlockOf("n", q)>> : q \in Trys}, One1, {<<>>}),
   Case(Nexts, {<<File(d)>> \o fs : d \in Data, fs \in {<<>>, <<File(<<LB, LA>>)>>, <<File(nil)>>}}, {<<>>}),
   Case(Nexts, {<<>>, <<File(nil)>>}, {<<>>})}

-----------------------------------------------------------------------------
Plan == INSTANCE BindingPlans
Vars == INSTANCE Bindings WITH Plans <- Plan!AllPlans, Firsts <- Plan!AllFirsts, MaxSteps <- 4

variables == <<may, steps, pair, bindings, frames, did>>
NoVars == may = {} /\ steps = 0 /\ pair = <<>> /\ bindings = <<>> /\ frames = <<>> /\ did = [op |-> "none"]
NoMatch == /\ query = [spec |-> <<>>, files |-> <<>>, b |-> <<>>, d |-> t, l |-> 0, blocks |-> {}, exc |-> {}]
           /\ c = query /\ result = Fail

QueryInit ==
  \/ part = "match" /\ Init /\ NoVars
  \/ part = "variables" /\ Vars!Init /\ NoMatch
QueryNext ==
  \/ part = "match" /\ Next /\ UNCHANGED <<part, variables>>
  \/ part = "variables" /\ Vars!Next /\ UNCHANGED <<part, vars>>

\* The invariants of Match, whose other properties are about the items of a query.
LinesAgree == part = "match" => LineNumbersAgree
\* That of Bindings: sharing the pairs of association lists implements scopes.
ImplementsScopes == [][part = "variables" => Vars!Scopes]_<<part, variables>>
=============================================================================
