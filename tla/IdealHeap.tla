------------------------------ MODULE IdealHeap ------------------------------
(***************************************************************************)
(* The heap the rest of the program believes in: memory is unbounded,      *)
(* nothing is ever reclaimed, and only an assignment changes an object.    *)
(* What no variable can lead to any more does not exist.                   *)
(***************************************************************************)
CONSTANTS Cell, nil, Field, Root

VARIABLES
  root,   \* contents of the variables
  obj     \* contents of every object the program can still reach

vars == <<root, obj>>

Values == {root[r] : r \in Root} \ {nil}

Closed(S, contents) ==
  \A p \in S, f \in Field : contents[p][f] \in S \cup {nil}

\* The part of contents that the variables in roots lead to.
Reached(roots, contents) ==
  LET From(S) == {roots[r] : r \in Root} \ {nil} \subseteq S /\ Closed(S, contents)
      S == {c \in DOMAIN contents : \A T \in SUBSET DOMAIN contents : From(T) => c \in T}
  IN  [c \in S |-> contents[c]]

\* What an expression can denote without allocating.
Denotable == {nil} \cup Values \cup {obj[c][f] : c \in Values, f \in Field}

Init == root = [r \in Root |-> nil] /\ obj = [c \in {} |-> nil]

\* r = cons(...), vector(...), ...: an object distinct from every other.
New(r, c, vals) ==
  /\ c \notin DOMAIN obj
  /\ root' = [root EXCEPT ![r] = c]
  /\ obj' = Reached(root', [o \in DOMAIN obj \cup {c} |-> IF o = c THEN vals ELSE obj[o]])

\* r = x
Assign(r, x) ==
  /\ root' = [root EXCEPT ![r] = x]
  /\ obj' = Reached(root', obj)

\* set(c->f, x)
Set(c, f, x) ==
  /\ UNCHANGED root
  /\ obj' = Reached(root, [obj EXCEPT ![c][f] = x])

Next ==
  \/ \E r \in Root, c \in Cell, vals \in [Field -> Denotable] : New(r, c, vals)
  \/ \E r \in Root, x \in Denotable : Assign(r, x)
  \/ \E c \in Values, f \in Field, x \in Denotable : Set(c, f, x)

Spec == Init /\ [][Next]_vars
=============================================================================
