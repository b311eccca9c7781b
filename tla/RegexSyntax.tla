----------------------------- MODULE RegexSyntax ----------------------------
\* What the parser makes of a regular expression, which regex.c compiles. Nil is
\* the empty expression, T the one that matches nothing (nil and t there).
Nil == <<"nil">>
T == <<"t">>
wild == <<"wild">>
Set(items, comp) == <<"set", items, comp>>
Compound(l) == <<"compound", l>>
ZeroPlus(r) == <<"zeroplus", r>>
OnePlus(r) == <<"oneplus", r>>
Optional(r) == <<"optional", r>>
Or(r, s) == <<"or", r, s>>
And(r, s) == <<"and", r, s>>
Compl(r) == <<"compl", r>>
NonGreedy(r, s) == <<"nongreedy", r, s>>
ChSet(cs) == <<"chset", cs>>
=============================================================================
