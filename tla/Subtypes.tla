------------------------------ MODULE Subtypes ------------------------------
(***************************************************************************)
(* The hierarchy of exception types (unwind.c), and @(defex) (match.c).    *)
(*                                                                         *)
(* exception_subtypes is an association list.  Its entry for a type is a   *)
(* cons of the type and of the entry of its immediate supertype, so that   *)
(* as a list the entry holds the type and all its supertypes.  A type      *)
(* defined again has its entry repointed in place.                         *)
(***************************************************************************)
EXTENDS Integers, Sequences, FiniteSets

CONSTANTS
  Type,        \* the type symbols other than t and nil
  t, nil,
  Builtin,     \* <<sub, sup>> for the types registered when txr starts
  MaxChain     \* bound on the types in one @(defex)

VARIABLES
  exception_subtypes,   \* the entries, the oldest first, as [sym, sup], where
                        \* sup is the index of the entry of the supertype,
                        \* or 0
  outcome               \* of the latest @(defex): "done" or "threw"

vars == <<exception_subtypes, outcome>>

Symbol == Type \cup {t, nil}

\* t and nil are not among the other symbols, and a built-in type is registered
\* under one that is above it in some ranking of the types.
BuiltinsAreRanked ==
  /\ t \notin Type /\ nil \notin Type /\ t # nil /\ MaxChain \in Nat
  /\ Builtin \in Seq(Type \X Type)
  /\ \E rank \in [Type -> 0 .. Len(Builtin)] :
       \A i \in 1 .. Len(Builtin) : rank[Builtin[i][1]] > rank[Builtin[i][2]]

-----------------------------------------------------------------------------
\* assoc(): the index of the first entry for sym, or 0.
Entry(types, sym) ==
  LET entries == {i \in DOMAIN types : types[i].sym = sym}
  IN  IF entries = {} THEN 0 ELSE CHOOSE i \in entries : \A j \in entries : j <= i

\* The entries of the list from entry i on, over which memq() walks; in a
\* circular one it comes back to where it has been.
Tails(types, i) ==
  LET next == [j \in 0 .. Len(types) |-> IF j = 0 THEN 0 ELSE types[j].sup]
      after[n \in 0 .. Len(types)] == IF n = 0 THEN i ELSE next[after[n - 1]]
  IN  {after[n] : n \in 0 .. Len(types)} \ {0}

SubtypeP(types, sub, sup) ==
  \/ sub = nil \/ sup = t \/ sub = sup
  \/ /\ Entry(types, sub) # 0
     /\ \E j \in Tails(types, Entry(types, sub)) : types[j].sym = sup

\* Slip: a type may be put under one of its subtypes.
RefusedNoCircle(types, sub, sup) ==
  /\ sub # nil /\ ~(sub = t /\ sup = t)
  /\ sub = t \/ sup = nil \/ SubtypeP(types, sub, sup)

\* Is (sub, sup) refused?
Refused(types, sub, sup) ==
  /\ sub # nil /\ ~(sub = t /\ sup = t)
  /\ \/ sub = t \/ sup = nil
     \/ SubtypeP(types, sub, sup) \/ SubtypeP(types, sup, sub)

\* The entry for sup, made under that of t if there is none.
WithSup(types, sup) ==
  IF Entry(types, sup) # 0 THEN types
  ELSE Append(types, [sym |-> sup, sup |-> Entry(types, t)])

\* Slip: a type that has an entry gets another.
PointFresh(types, sub, sup) == Append(types, [sym |-> sub, sup |-> Entry(types, sup)])

\* The entry of sub made to point to that of sup.
Point(types, sub, sup) ==
  IF Entry(types, sub) # 0
  THEN [types EXCEPT ![Entry(types, sub)].sup = Entry(types, sup)]
  ELSE Append(types, [sym |-> sub, sup |-> Entry(types, sup)])

\* uw_register_subtype(), if it does not throw.
RegisterSubtype(types, sub, sup) ==
  IF sub = nil \/ sub = t THEN types ELSE Point(WithSup(types, sup), sub, sup)

\* What reduce_left() has done with the first i of the types of a @(defex):
\* those it has registered stay registered when a later one is refused.
Defined(types, chain) ==
  LET after[i \in 1 .. Len(chain)] ==
        IF i = 1 THEN [types |-> types, outcome |-> "done"]
        ELSE LET prev == after[i - 1]
             IN  IF prev.outcome = "threw" \/ Refused(prev.types, chain[i - 1], chain[i])
                 THEN [prev EXCEPT !.outcome = "threw"]
                 ELSE [prev EXCEPT !.types = RegisterSubtype(@, chain[i - 1], chain[i])]
  IN  after[Len(chain)]

\* v_defex()
Defex(chain) ==
  LET defined == Defined(exception_subtypes, chain)
  IN  exception_subtypes' = defined.types /\ outcome' = defined.outcome

Init ==
  /\ LET after[i \in 0 .. Len(Builtin)] ==
           IF i = 0 THEN <<[sym |-> t, sup |-> 0]>>
           ELSE RegisterSubtype(after[i - 1], Builtin[i][1], Builtin[i][2])
     IN  exception_subtypes = after[Len(Builtin)]
  /\ outcome = "done"

Chains == UNION {[1 .. n -> Symbol] : n \in 1 .. MaxChain}

Next == \E chain \in Chains : Defex(chain)

Spec == Init /\ [][Next]_vars

-----------------------------------------------------------------------------
IsSubtype(sub, sup) == SubtypeP(exception_subtypes, sub, sup)

\* Every list of supertypes ends, and with t.
EndsInT ==
  \A i \in DOMAIN exception_subtypes :
    LET e == exception_subtypes[i]
    IN  IF e.sup = 0 THEN e.sym = t
        ELSE i \notin Tails(exception_subtypes, e.sup)

\* Whatever has been defined, and in part defined, in whatever order, being a
\* subtype is a partial order with t at the top and nil at the bottom; and a
\* search for a type among the supertypes of another one ends.
PartialOrder ==
  /\ EndsInT
  /\ \A a \in Symbol : IsSubtype(a, a) /\ IsSubtype(a, t) /\ IsSubtype(nil, a)
  /\ \A a, b \in Symbol : IsSubtype(a, b) /\ IsSubtype(b, a) => a = b
  /\ \A a, b, c \in Symbol : IsSubtype(a, b) /\ IsSubtype(b, c) => IsSubtype(a, c)

\* Two types that are related stay so, unless a type from the one up to the
\* other is given a new supertype; which only happens to one that is then
\* below a type it had nothing to do with.
OnlyRedefinedMove ==
  \A a, b \in Type :
    IsSubtype(a, b) /\ ~IsSubtype(a, b)' =>
      \E c, d \in Type :
        /\ IsSubtype(a, c) /\ IsSubtype(c, b) /\ c # b
        /\ ~IsSubtype(c, d) /\ ~IsSubtype(d, c) /\ IsSubtype(c, d)'

\* A @(defex) of a type and its supertype that succeeds puts the first, with
\* all the subtypes it has had, below the second; and no directive, whether it
\* succeeds or throws half-way, parts types but those it moves.
Relates ==
  /\ OnlyRedefinedMove
  /\ outcome' = "done" =>
       \A sub, sup \in Symbol : Defex(<<sub, sup>>) =>
         \A a \in Symbol : IsSubtype(a, sub) => IsSubtype(a, sup)'
DefexRelates == [][Relates]_vars
=============================================================================
