------------------------------- MODULE Trees --------------------------------
\* The values of variables, and what the directives make of them (match.c and
\* lib.c): strings, which are sequences of letters, and lists.
EXTENDS Integers, Sequences, SequencesExt

Str(s) == <<"string", s>>
List(s) == <<"list", s>>
consp(v) == v[1] = "list" /\ v[2] # <<>>
stringp(v) == v[1] = "string"
NilList == List(<<>>)

\* The item at a position of a list, nil beyond its end (car of cdrs).
ItemAt(v, n) == IF n <= Len(v[2]) THEN v[2][n] ELSE NilList

RECURSIVE tree_find(_, _), flatten(_), depth(_), filter_string_tree(_)
tree_find(obj, tree) == obj = tree \/ (consp(tree) /\ \E i \in DOMAIN tree[2] : tree_find(obj, tree[2][i]))

flatten(v) == IF stringp(v) THEN List(<<v>>)
              ELSE List(FlattenSeq([i \in DOMAIN v[2] |-> flatten(v[2][i])[2]]))

depth(v) == IF v = NilList THEN 1 ELSE IF stringp(v) THEN 0
            ELSE 1 + Max({0} \cup {depth(v[2][i]) : i \in DOMAIN v[2]})

Append2(v, w) == List(v[2] \o w[2])

\* v in as many lists as it takes to be n deep.
RECURSIVE Deepen(_, _)
Deepen(v, n) == IF depth(v) >= n THEN v ELSE Deepen(List(<<v>>), n)

\* Two values brought to one depth, at least that of a list, and appended.
weird_merge(v, w) == LET n == Max({1, depth(v), depth(w)}) IN Append2(Deepen(v, n), Deepen(w, n))

\* The strings of a flat list with a separator in between.
cat_str(v, sep) == Str(FlattenSeq([i \in DOMAIN v[2] |-> IF i = 1 THEN v[2][i][2] ELSE sep \o v[2][i][2]]))

\* A filter applied to each string of a tree: here one that changes every letter.
filter_string_tree(v) == IF stringp(v) THEN Str([i \in DOMAIN v[2] |-> -v[2][i]])
                         ELSE List([i \in DOMAIN v[2] |-> filter_string_tree(v[2][i])])
=============================================================================
