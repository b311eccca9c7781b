------------------------------ MODULE MCRegexes -----------------------------
\* Regular expressions over two letters, two operators deep.
EXTENDS RegexSyntax, CharSet

A == Chr(11)
B == Chr(12)

Atoms == {Nil, A, B, wild, Set(<<Range2(11, 12)>>, FALSE), Set(<<Chr(11)>>, TRUE)}
Unary(S) == {ZeroPlus(r) : r \in S} \cup {OnePlus(r) : r \in S} \cup {Optional(r) : r \in S} \cup {Compl(r) : r \in S}
Binary(R, S) == {Compound(<<r, s>>) : r \in R, s \in S} \cup {Or(r, s) : r \in R, s \in S}
                \cup {And(r, s) : r \in R, s \in S} \cup {NonGreedy(r, s) : r \in R, s \in S}
Once == Atoms \cup Unary(Atoms) \cup Binary({Nil, A, wild}, {Nil, A, B})
Some == {A, ZeroPlus(A), Optional(B), Or(A, Compound(<<B, B>>)), Compound(<<A, B>>), Compl(A), And(wild, A)}
MCRegexes == Once \cup Unary(Unary({Nil, A, wild})) \cup Unary(Binary({A, wild}, {Nil, B})) \cup Binary(Some, Some)
             \cup {Compound(<<>>), Compound(<<ZeroPlus(wild), A, B>>)}
             \cup {Or(r, B) : r \in {Compound(<<A, B, A>>), Compl(ZeroPlus(wild)), And(Compound(<<A, B>>), Compound(<<wild, A>>))}}
=============================================================================
