------------------------------ MODULE Induction ------------------------------
(***************************************************************************)
(* Induction over the natural numbers in a form that the provers can use:  *)
(* about a set instead of a predicate.                                     *)
(***************************************************************************)
EXTENDS Integers, TLAPS, WellFoundedInduction

\* A well-founded relation has minimal elements (WFMin), with its parameters
\* quantified.
LEMMA Minimal ==
  \A R, S, T : IsWellFoundedOn(R, S) /\ T \subseteq S /\ T # {} =>
    \E x \in T : \A y \in T : <<y, x>> \notin R
BY WFMin, Zenon

\* A non-empty set of natural numbers has a least element.
LEMMA LeastNumber ==
  ASSUME NEW T \in SUBSET Nat, T # {}
  PROVE  \E x \in T : \A y \in T : x <= y
<1>1. IsWellFoundedOn({p \in Nat \X Nat : p[1] < p[2]}, Nat)
  BY NatLessThanWellFounded, Zenon DEF OpToRel
<1>2. PICK R : IsWellFoundedOn(R, Nat) /\ R = {p \in Nat \X Nat : p[1] < p[2]}
  BY <1>1
<1>3. \A x, y \in Nat : y < x => <<y, x>> \in R
  BY <1>2
<1>4. T \subseteq Nat
  OBVIOUS
<1>5. \E x \in T : \A y \in T : <<y, x>> \notin R
  BY <1>2, <1>4, Minimal, Zenon
<1>6. PICK x \in T : \A y \in T : <<y, x>> \notin R
  BY <1>5
<1>7. ASSUME NEW y \in T PROVE x <= y
  <2>1. x \in Nat /\ y \in Nat /\ <<y, x>> \notin R
    BY <1>6
  <2>2. QED
    BY <1>3, <2>1
<1>8. QED
  BY <1>7

\* A set with 0 and with the successor of each of its numbers has them all.
LEMMA SetInduction ==
  ASSUME NEW S, 0 \in S, \A n \in Nat : n \in S => n + 1 \in S
  PROVE  Nat \subseteq S
<1> SUFFICES ASSUME Nat \ S # {} PROVE FALSE
  OBVIOUS
<1>1. PICK x \in Nat \ S : \A y \in Nat \ S : x <= y
  BY LeastNumber
<1>2. x - 1 \in Nat /\ x - 1 \in S
  BY <1>1
<1>3. QED
  BY <1>1, <1>2

\* A recursion over 0 .. N in S: the value at n from n and the value before it.
Steps(N, S) == [(1 .. N) \X S -> S]
Solves(g, x, F, N, S) ==
  g \in [0 .. N -> S] /\ g[0] = x /\ \A n \in 1 .. N : g[n] = F[<<n, g[n - 1]>>]

\* Such a recursion has a solution.
LEMMA Recursion ==
  ASSUME NEW S, NEW x \in S, NEW N \in Nat, NEW F \in Steps(N, S)
  PROVE  \E g : Solves(g, x, F, N, S)
<1> DEFINE T == {M \in Nat : M <= N => \E g : Solves(g, x, F, M, S)}
<1> USE DEF Steps, Solves
<1>1. 0 \in T
  <2>1. Solves([n \in 0 .. 0 |-> x], x, F, 0, S)
    OBVIOUS
  <2>2. QED
    BY <2>1
<1>2. ASSUME NEW M \in Nat, M \in T PROVE M + 1 \in T
  <2>1. SUFFICES ASSUME M + 1 <= N PROVE \E h : Solves(h, x, F, M + 1, S)
    OBVIOUS
  <2>2. PICK g : Solves(g, x, F, M, S)
    BY <1>2, <2>1
  <2> DEFINE h == [n \in 0 .. M + 1 |-> IF n = M + 1 THEN F[<<M + 1, g[M]>>] ELSE g[n]]
  <2>3. F[<<M + 1, g[M]>>] \in S
    BY <2>1, <2>2
  <2>4. \A n \in 0 .. M : g[n] \in S
    BY <2>2
  <2>5. h \in [0 .. M + 1 -> S] /\ h[0] = x
    BY <2>2, <2>3, <2>4
  <2>6. ASSUME NEW n \in 1 .. M + 1 PROVE h[n] = F[<<n, h[n - 1]>>]
    <3>1. CASE n = M + 1
      BY <3>1
    <3>2. CASE n \in 1 .. M
      <4>1. h[n] = g[n] /\ h[n - 1] = g[n - 1]
        BY <3>2
      <4>2. QED
        BY <2>2, <3>2, <4>1
    <3>3. QED
      BY <3>1, <3>2
  <2>7. Solves(h, x, F, M + 1, S)
    BY <2>5, <2>6
  <2>8. QED
    BY <2>7
<1> HIDE DEF T
<1>3. N \in T
  BY <1>1, <1>2, SetInduction
<1>4. QED
  BY <1>3 DEF T

\* A recursion in which every step is the same.
Maps(S) == [S -> S]
Iterates(g, x, F, N) == g = [n \in 0 .. N |-> IF n = 0 THEN x ELSE F[g[n - 1]]]

\* It has a solution, and stays in S.
LEMMA Iteration ==
  ASSUME NEW S, NEW x \in S, NEW N \in Nat, NEW F \in Maps(S)
  PROVE  \E g : Iterates(g, x, F, N)
<1>1. PICK G \in Steps(N, S) : \A n \in 1 .. N, v \in S : G[<<n, v>>] = F[v]
  <2>1. [p \in (1 .. N) \X S |-> F[p[2]]] \in Steps(N, S)
    BY DEF Steps, Maps
  <2>2. QED
    BY <2>1
<1>2. PICK g : Solves(g, x, G, N, S)
  BY Recursion
<1>3. g \in [0 .. N -> S]
  BY <1>2 DEF Solves
<1>4. ASSUME NEW n \in 0 .. N PROVE g[n] = IF n = 0 THEN x ELSE F[g[n - 1]]
  <2>1. CASE n = 0
    BY <1>2, <2>1 DEF Solves
  <2>2. CASE n \in 1 .. N
    <3>1. g[n - 1] \in S
      BY <1>3, <2>2
    <3>2. QED
      BY <1>1, <1>2, <2>2, <3>1 DEF Solves
  <2>3. QED
    BY <2>1, <2>2
<1>5. QED
  BY <1>3, <1>4 DEF Iterates

LEMMA IterationStays ==
  ASSUME NEW S, NEW x \in S, NEW N \in Nat, NEW F \in Maps(S), NEW g, Iterates(g, x, F, N)
  PROVE  g \in [0 .. N -> S] /\ g[0] = x /\ \A n \in 1 .. N : g[n] = F[g[n - 1]]
<1>1. g[0] = x /\ \A n \in 1 .. N : g[n] = F[g[n - 1]]
  <2>1. \A n \in 0 .. N : g[n] = IF n = 0 THEN x ELSE F[g[n - 1]]
    BY DEF Iterates
  <2>2. QED
    BY <2>1
<1> DEFINE T == {n \in Nat : n <= N => g[n] \in S}
<1>2. 0 \in T
  BY <1>1
<1>3. ASSUME NEW n \in Nat, n \in T PROVE n + 1 \in T
  <2>1. SUFFICES ASSUME n + 1 <= N PROVE g[n + 1] \in S
    OBVIOUS
  <2>2. g[n] \in S /\ n + 1 \in 1 .. N /\ (n + 1) - 1 = n
    BY <1>3, <2>1
  <2>3. g[n + 1] = F[g[n]]
    BY <1>1, <2>2
  <2>4. QED
    BY <2>2, <2>3 DEF Maps
<1> HIDE DEF T
<1>4. Nat \subseteq T
  BY <1>2, <1>3, SetInduction
<1>5. \A n \in 0 .. N : g[n] \in S
  BY <1>4 DEF T
<1>6. QED
  BY <1>1, <1>5 DEF Iterates

\* An iteration without end has a solution as well.
LEMMA Orbit ==
  ASSUME NEW S, NEW x \in S, NEW F \in Maps(S)
  PROVE  \E g \in [Nat -> S] : g = [n \in Nat |-> IF n = 0 THEN x ELSE F[g[n - 1]]]
<1> DEFINE runs(N, g) == g \in [0 .. N -> S] /\ g[0] = x /\ \A n \in 1 .. N : g[n] = F[g[n - 1]]
<1>1. ASSUME NEW N \in Nat PROVE \E g : runs(N, g)
  <2>1. PICK g : Iterates(g, x, F, N)
    BY Iteration
  <2>2. QED
    BY <2>1, IterationStays
<1>2. ASSUME NEW N \in Nat, NEW M \in Nat, N <= M, NEW g, NEW h, runs(N, g), runs(M, h)
      PROVE  g[N] = h[N]
  <2> DEFINE T == {n \in Nat : n <= N => g[n] = h[n]}
  <2>1. 0 \in T
    BY <1>2
  <2>2. ASSUME NEW n \in Nat, n \in T PROVE n + 1 \in T
    <3>1. SUFFICES ASSUME n + 1 <= N PROVE g[n + 1] = h[n + 1]
      OBVIOUS
    <3>2. g[n] = h[n] /\ (n + 1) - 1 = n /\ n + 1 \in 1 .. N /\ n + 1 \in 1 .. M
      BY <1>2, <2>2, <3>1
    <3>3. QED
      BY <1>2, <3>2
  <2> HIDE DEF T
  <2>3. N \in T
    BY <2>1, <2>2, SetInduction
  <2>4. QED
    BY <2>3 DEF T
<1> DEFINE all == [N \in Nat |-> CHOOSE g : runs(N, g)]
           g == [n \in Nat |-> all[n][n]]
<1>3. \A N \in Nat : runs(N, all[N])
  BY <1>1
<1> HIDE DEF all
<1>4. g \in [Nat -> S]
  BY <1>3
<1>5. ASSUME NEW n \in Nat PROVE g[n] = IF n = 0 THEN x ELSE F[g[n - 1]]
  <2>1. CASE n = 0
    BY <1>3, <2>1
  <2>2. CASE n # 0
    <3>1. n - 1 \in Nat /\ n - 1 <= n /\ n \in 1 .. n
      BY <2>2
    <3>2. all[n - 1][n - 1] = all[n][n - 1]
      <4>1. runs(n - 1, all[n - 1]) /\ runs(n, all[n])
        BY <1>3, <3>1
      <4> HIDE DEF runs
      <4>2. QED
        BY <1>2, <3>1, <4>1
    <3>3. all[n][n] = F[all[n][n - 1]]
      BY <1>3, <3>1
    <3>4. QED
      BY <2>2, <3>1, <3>2, <3>3
  <2>3. QED
    BY <2>1, <2>2
<1>6. QED
  BY <1>4, <1>5
=============================================================================
