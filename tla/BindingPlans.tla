---------------------------- MODULE BindingPlans ----------------------------
\* Queries for Bindings: sets of directives, of which a query is made of a few
\* in any order, on two variables and on the parameters of a function.
EXTENDS Trees

a == Str(<<1>>)
b == Str(<<2>>)
ab == List(<<a, b>>)
Lit(v) == [op |-> "literal", value |-> v]
Var(x) == [op |-> "symbol", sym |-> x]
ListOf1(x) == [op |-> "list", sym |-> x]
To(x) == [list |-> FALSE, syms |-> <<x>>]
Both(x, y) == [list |-> TRUE, syms |-> <<x, y>>]
BindTo(p, f) == [op |-> "bind", pattern |-> p, form |-> f]
SetTo(p, f) == [op |-> "set", pattern |-> p, form |-> f]
RebindTo(x, f) == [op |-> "rebind", sym |-> x, form |-> f]
ForgetAll(S) == [op |-> "forget", syms |-> S]
MergeTo(x, args) == [op |-> "merge", sym |-> x, args |-> args]
FlattenAll(s) == [op |-> "flatten", syms |-> s]
CatOf(x) == [op |-> "cat", sym |-> x, sep |-> <<0>>]
FilterAll(s) == [op |-> "filter", syms |-> s]
OutputTo(x, app) == [op |-> "output", sym |-> x, append |-> app, lines |-> List(<<b>>)]
CallOf(params, args) == [op |-> "call", params |-> params, args |-> args]
Clause == [op |-> "clause"]
CollectOf == [op |-> "collect"]
Frames == {Clause, CollectOf}

AllPlans ==
  {Frames \cup {BindTo(To("x"), Lit(a)), SetTo(To("x"), Lit(b)), RebindTo("x", ListOf1("x")), ForgetAll({"x"}), CallOf(<<"p">>, <<Var("x")>>), BindTo(To("p"), Lit(b)), SetTo(To("p"), Lit(a))},
   Frames \cup {BindTo(Both("x", "y"), Lit(ab)), SetTo(Both("x", "y"), Var("y")), MergeTo("x", <<Var("x"), Var("y")>>), FlattenAll(<<"x", "y">>), CatOf("x"), FilterAll(<<"x", "y">>), OutputTo("y", TRUE)},
   Frames \cup {CallOf(<<"p", "q">>, <<Var("x"), Var("x")>>), CallOf(<<"p", "x">>, <<Var("x"), Lit(a)>>), BindTo(To("p"), Lit(a)), BindTo(To("q"), Lit(b)), BindTo(To("q"), Lit(ab)), SetTo(Both("p", "q"), Lit(ab)), OutputTo("q", FALSE)},
   {CollectOf, Clause, BindTo(To("x"), Lit(a)), BindTo(To("y"), Var("x")), RebindTo("y", Var("x")), SetTo(To("y"), ListOf1("y")), MergeTo("y", <<Var("x"), Lit(a)>>), FlattenAll(<<"y">>)}}
P(x, v) == [sym |-> x, value |-> v]
AllFirsts == {<<>>, <<P("x", a)>>, <<P("x", List(<<a, ab>>)), P("y", b)>>}
=============================================================================
