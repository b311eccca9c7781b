--------------------------- MODULE SubtypesProofs ---------------------------
(***************************************************************************)
(* Proofs about Subtypes, for any symbols, any built-in types and @(defex) *)
(* directives of any length.                                               *)
(*                                                                         *)
(* The links of the entries always lead to the entry of t, because the     *)
(* entries can be ranked so that each ranks above the one it links to.     *)
(* When an entry is made to point elsewhere, it and all those that lead to *)
(* it are raised above its new supertype, which is possible since that is  *)
(* not among them: it would have been refused.                             *)
(***************************************************************************)
EXTENDS Subtypes, FiniteSetTheorems, SequenceTheorems, Induction

Link == [sym : Type \cup {t}, sup : Nat]

\* Each type has one entry; all but that of t link to one.
Entries(types) ==
  /\ types \in Seq(Link) /\ Len(types) >= 1
  /\ types[1].sym = t /\ types[1].sup = 0
  /\ \A i \in 2 .. Len(types) : types[i].sup \in 1 .. Len(types)
  /\ \A i, j \in 1 .. Len(types) : types[i].sym = types[j].sym => i = j

\* Every entry ranks above the one it links to.
Ranked(types, rank) ==
  /\ rank \in [1 .. Len(types) -> Nat]
  /\ \A i \in 2 .. Len(types) : rank[types[i].sup] < rank[i]

Hierarchy(types) == Entries(types) /\ \E rank : Ranked(types, rank)

\* The inductive invariant.
IInv == Hierarchy(exception_subtypes) /\ outcome \in {"done", "threw"}

-----------------------------------------------------------------------------
\* assoc() finds the entry of a type, if it has one.
LEMMA EntryIs ==
  ASSUME NEW types, Entries(types), NEW sym
  PROVE  /\ Entry(types, sym) \in 0 .. Len(types)
         /\ Entry(types, sym) # 0 => types[Entry(types, sym)].sym = sym
         /\ \A i \in 1 .. Len(types) : types[i].sym = sym => Entry(types, sym) = i
<1> DEFINE found == {i \in DOMAIN types : types[i].sym = sym}
<1>1. DOMAIN types = 1 .. Len(types) /\ Len(types) \in Nat
  BY DEF Entries
<1>2. CASE found = {}
  <2>1. Entry(types, sym) = 0
    BY <1>2 DEF Entry
  <2>2. QED
    BY <1>1, <1>2, <2>1
<1>3. ASSUME NEW i \in found PROVE Entry(types, sym) = i
  <2>1. \A j \in found : j = i
    BY <1>1, <1>3 DEF Entries
  <2>2. \A j \in found : j <= i
    BY <1>1, <2>1
  <2>3. Entry(types, sym) = CHOOSE k \in found : \A j \in found : j <= k
    BY <1>3 DEF Entry
  <2>4. (CHOOSE k \in found : \A j \in found : j <= k) \in found
    <3> HIDE DEF found
    <3>1. QED
      BY <1>3, <2>2
  <2>5. QED
    BY <2>1, <2>3, <2>4
<1>4. QED
  BY <1>1, <1>2, <1>3

\* Where memq() is after n steps from entry i.
Path(types, i, at) ==
  /\ at \in [0 .. Len(types) -> 0 .. Len(types)] /\ at[0] = i
  /\ \A n \in 1 .. Len(types) : at[n] = IF at[n - 1] = 0 THEN 0 ELSE types[at[n - 1]].sup
  /\ Tails(types, i) = {at[n] : n \in 0 .. Len(types)} \ {0}

LEMMA PathExists ==
  ASSUME NEW types, Entries(types), NEW i \in 1 .. Len(types)
  PROVE  \E at : Path(types, i, at)
<1> DEFINE N == Len(types)
           next == [j \in 0 .. N |-> IF j = 0 THEN 0 ELSE types[j].sup]
           Is(at) == at = [n \in 0 .. N |-> IF n = 0 THEN i ELSE next[at[n - 1]]]
<1>1. N \in Nat /\ i \in 0 .. N
  BY DEF Entries
<1>2. \A j \in 1 .. N : types[j].sup \in 0 .. N
  BY <1>1 DEF Entries
<1>3. next \in Maps(0 .. N)
  BY <1>2 DEF Maps
<1>4. Tails(types, i) = {(CHOOSE at : Is(at))[n] : n \in 0 .. N} \ {0}
  BY DEF Tails
<1>5. \A j \in 0 .. N : next[j] = IF j = 0 THEN 0 ELSE types[j].sup
  OBVIOUS
<1> HIDE DEF next, N
<1>6. \E at : Iterates(at, i, next, N)
  BY <1>1, <1>3, Iteration
<1>7. PICK at : Iterates(at, i, next, N) /\ Tails(types, i) = {at[n] : n \in 0 .. N} \ {0}
  <2>1. PICK at : at = CHOOSE h : Is(h)
    OBVIOUS
  <2>2. Is(CHOOSE h : Is(h))
    BY <1>6, Zenon DEF Iterates
  <2>3. Tails(types, i) = {at[n] : n \in 0 .. N} \ {0}
    <3> HIDE DEF Is
    <3>1. QED
      BY <1>4, <2>1
  <2>4. Iterates(at, i, next, N)
    <3>1. Is(at)
      <4> HIDE DEF Is
      <4>1. QED
        BY <2>1, <2>2, Zenon
    <3>2. QED
      BY <3>1, Zenon DEF Iterates
  <2>5. QED
    BY <2>3, <2>4
<1>8. at \in [0 .. N -> 0 .. N] /\ at[0] = i /\ \A n \in 1 .. N : at[n] = next[at[n - 1]]
  <2>1. Iterates(at, i, next, N)
    BY <1>7
  <2>2. PICK S : S = 0 .. N
    OBVIOUS
  <2>3. i \in S /\ next \in Maps(S)
    BY <1>1, <1>3, <2>2
  <2>4. at \in [0 .. N -> S] /\ at[0] = i /\ \A n \in 1 .. N : at[n] = next[at[n - 1]]
    BY <1>1, <2>1, <2>3, IterationStays
  <2>5. QED
    BY <2>2, <2>4
<1>9. \A n \in 1 .. N : at[n] = IF at[n - 1] = 0 THEN 0 ELSE types[at[n - 1]].sup
  <2>1. SUFFICES ASSUME NEW n \in 1 .. N
                 PROVE  at[n] = IF at[n - 1] = 0 THEN 0 ELSE types[at[n - 1]].sup
    OBVIOUS
  <2>2. n - 1 \in 0 .. N
    BY <1>1
  <2>3. at[n - 1] \in 0 .. N
    BY <1>8, <2>2
  <2>4. next[at[n - 1]] = IF at[n - 1] = 0 THEN 0 ELSE types[at[n - 1]].sup
    BY <1>5, <2>3
  <2>5. QED
    BY <1>8, <2>4
<1>10. Path(types, i, at)
  BY <1>7, <1>8, <1>9 DEF Path, N
<1>11. QED
  BY <1>10

\* The ranks fall along a path until it has left the list of entries.
LEMMA PathEnds ==
  ASSUME NEW types, Entries(types), NEW rank, Ranked(types, rank),
         NEW i \in 1 .. Len(types), NEW at, Path(types, i, at)
  PROVE  at[Len(types)] = 0
<1> DEFINE N == Len(types)
           Falls(n) == at[n] # 0 => \A m \in 0 .. n - 1 : at[m] # 0 /\ rank[at[n]] < rank[at[m]]
           T == {n \in Nat : n <= N => Falls(n)}
<1>1. N \in Nat /\ at \in [0 .. N -> 0 .. N]
  BY DEF Entries, Path
<1>2. ASSUME NEW n \in 1 .. N, at[n] # 0
      PROVE  at[n - 1] # 0 /\ rank[at[n]] < rank[at[n - 1]]
  <2>1. at[n - 1] \in 0 .. N /\ at[n] = IF at[n - 1] = 0 THEN 0 ELSE types[at[n - 1]].sup
    BY <1>1 DEF Path
  <2>2. at[n - 1] # 0 /\ at[n] = types[at[n - 1]].sup
    BY <1>2, <2>1
  <2>3. at[n - 1] # 1
    BY <1>2, <2>2 DEF Entries
  <2>4. at[n - 1] \in 2 .. N
    BY <1>1, <2>1, <2>2, <2>3
  <2>5. QED
    BY <2>2, <2>4 DEF Ranked
<1>3. \A n \in 0 .. N : at[n] # 0 => rank[at[n]] \in Nat
  BY <1>1 DEF Ranked
<1>4. 0 \in T
  OBVIOUS
<1>5. ASSUME NEW n \in Nat, n \in T PROVE n + 1 \in T
  <2>1. SUFFICES ASSUME n + 1 <= N, at[n + 1] # 0, NEW m \in 0 .. n
                 PROVE  at[m] # 0 /\ rank[at[n + 1]] < rank[at[m]]
    BY <1>1
  <2>2. n \in 0 .. N /\ n + 1 \in 1 .. N /\ (n + 1) - 1 = n /\ m \in 0 .. N
    BY <1>1, <2>1
  <2>3. at[n] # 0 /\ rank[at[n + 1]] < rank[at[n]]
    BY <1>2, <2>1, <2>2
  <2>4. CASE m = n
    BY <2>3, <2>4
  <2>5. CASE m \in 0 .. n - 1
    <3>1. at[m] # 0 /\ rank[at[n]] < rank[at[m]]
      BY <1>5, <2>2, <2>3, <2>5
    <3>2. QED
      BY <1>3, <2>1, <2>2, <2>3, <3>1
  <2>6. QED
    BY <2>4, <2>5
<1> HIDE DEF T
<1>6. Nat \subseteq T
  BY <1>4, <1>5, SetInduction
<1>7. \A n \in 0 .. N : Falls(n)
  BY <1>1, <1>6 DEF T
<1>8. SUFFICES ASSUME at[N] # 0 PROVE FALSE
  BY DEF N
<1>9. \A n \in 0 .. N : at[n] # 0
  <2>1. \A n \in 0 .. N - 1 : at[n] # 0
    BY <1>1, <1>7, <1>8
  <2>2. QED
    BY <1>1, <1>8, <2>1
<1>10. \A m, n \in 0 .. N : m < n => rank[at[n]] < rank[at[m]]
  BY <1>1, <1>7, <1>9
<1> HIDE DEF N
<1>11. ASSUME NEW m \in 0 .. N, NEW n \in 0 .. N, at[m] = at[n] PROVE m = n
  <2>1. rank[at[m]] \in Nat /\ rank[at[m]] = rank[at[n]]
    BY <1>3, <1>9, <1>11
  <2>2. ~ (m < n) /\ ~ (n < m)
    BY <1>10, <2>1
  <2>3. QED
    BY <1>1, <2>2
<1>12. at \in Injection(0 .. N, 1 .. N)
  BY <1>1, <1>9, <1>11 DEF Injection, IsInjective
<1>13. Cardinality(0 .. N) = N + 1 /\ IsFiniteSet(1 .. N) /\ Cardinality(1 .. N) = N
  BY <1>1, FS_Interval
<1>14. Cardinality(0 .. N) <= Cardinality(1 .. N)
  BY <1>12, <1>13, FS_Injection
<1>15. QED
  BY <1>1, <1>13, <1>14

\* Tails are the entries that an entry leads to, and nothing else.
LEMMA TailsClosed ==
  ASSUME NEW types, Hierarchy(types), NEW i \in 1 .. Len(types)
  PROVE  /\ i \in Tails(types, i) /\ Tails(types, i) \subseteq 1 .. Len(types)
         /\ \A k \in Tails(types, i) : types[k].sup # 0 => types[k].sup \in Tails(types, i)
<1>1. PICK rank : Ranked(types, rank)
  BY DEF Hierarchy
<1>2. PICK at : Path(types, i, at)
  BY PathExists DEF Hierarchy
<1> DEFINE N == Len(types)
<1>3. N \in Nat /\ at[0] = i /\ at \in [0 .. N -> 0 .. N]
      /\ Tails(types, i) = {at[n] : n \in 0 .. N} \ {0}
  BY <1>2 DEF Path, Hierarchy, Entries
<1>4. at[N] = 0
  BY <1>1, <1>2, PathEnds DEF Hierarchy
<1>5. ASSUME NEW k \in Tails(types, i), types[k].sup # 0 PROVE types[k].sup \in Tails(types, i)
  <2>1. PICK n \in 0 .. N : at[n] = k /\ k # 0
    BY <1>3
  <2>2. n + 1 \in 1 .. N /\ (n + 1) - 1 = n
    BY <1>3, <1>4, <2>1
  <2>3. at[n + 1] = types[k].sup
    BY <1>2, <2>1, <2>2 DEF Path
  <2>4. QED
    BY <1>3, <1>5, <2>2, <2>3
<1>6. QED
  BY <1>3, <1>5

LEMMA TailsLeast ==
  ASSUME NEW types, Entries(types), NEW i \in 1 .. Len(types), NEW S, i \in S,
         \A k \in S : k \in 2 .. Len(types) => types[k].sup \in S
  PROVE  Tails(types, i) \subseteq S
<1>1. PICK at : Path(types, i, at)
  BY PathExists
<1> DEFINE N == Len(types)
           T == {n \in Nat : n <= N => at[n] \in S \cup {0}}
<1>2. N \in Nat /\ at[0] = i /\ at \in [0 .. N -> 0 .. N]
      /\ Tails(types, i) = {at[n] : n \in 0 .. N} \ {0}
  BY <1>1 DEF Path, Entries
<1>3. 0 \in T
  BY <1>2
<1>4. ASSUME NEW n \in Nat, n \in T PROVE n + 1 \in T
  <2>1. SUFFICES ASSUME n + 1 <= N PROVE at[n + 1] \in S \cup {0}
    OBVIOUS
  <2>2. at[n] \in S \cup {0} /\ at[n] \in 0 .. N /\ n + 1 \in 1 .. N /\ (n + 1) - 1 = n
    BY <1>2, <1>4, <2>1
  <2>3. at[n + 1] = IF at[n] = 0 THEN 0 ELSE types[at[n]].sup
    BY <1>1, <2>2 DEF Path
  <2>4. CASE at[n] \in 2 .. N
    BY <2>2, <2>3, <2>4
  <2>5. CASE at[n] = 1 \/ at[n] = 0
    BY <2>3, <2>5 DEF Entries
  <2>6. QED
    BY <1>2, <2>2, <2>4, <2>5
<1> HIDE DEF T
<1>5. Nat \subseteq T
  BY <1>3, <1>4, SetInduction
<1>6. QED
  BY <1>2, <1>5 DEF T

\* What an entry leads to leads no further; it ranks lower.
LEMMA TailsOrder ==
  ASSUME NEW types, Hierarchy(types), NEW i \in 1 .. Len(types), NEW k \in Tails(types, i)
  PROVE  /\ k \in 1 .. Len(types)
         /\ Tails(types, k) \subseteq Tails(types, i)
         /\ i \in Tails(types, k) => i = k
         /\ i # k => types[i].sup # 0 /\ k \in Tails(types, types[i].sup)
<1>1. Entries(types) /\ k \in 1 .. Len(types) /\ Len(types) \in Nat
  BY TailsClosed DEF Hierarchy, Entries
<1>2. PICK rank : Ranked(types, rank)
  BY DEF Hierarchy
<1>3. ASSUME NEW a \in 1 .. Len(types), NEW b \in Tails(types, a) PROVE b = a \/ rank[b] < rank[a]
  <2> DEFINE S == {c \in 1 .. Len(types) : c = a \/ rank[c] < rank[a]}
  <2>1. \A c \in S : c \in 2 .. Len(types) => types[c].sup \in S
    <3>1. ASSUME NEW c \in S, c \in 2 .. Len(types) PROVE types[c].sup \in S
      <4>1. /\ types[c].sup \in 1 .. Len(types) /\ rank[types[c].sup] < rank[c]
            /\ rank[types[c].sup] \in Nat /\ rank[c] \in Nat /\ rank[a] \in Nat
        BY <1>1, <1>2, <3>1 DEF Entries, Ranked
      <4>2. QED
        BY <3>1, <4>1
    <3>2. QED
      BY <3>1
  <2>2. a \in S
    OBVIOUS
  <2> HIDE DEF S
  <2>3. Tails(types, a) \subseteq S
    BY <1>1, <2>1, <2>2, TailsLeast
  <2>4. QED
    BY <2>3 DEF S
<1>4. Tails(types, k) \subseteq Tails(types, i)
  <2>1. \A c \in Tails(types, i) : c \in 2 .. Len(types) => types[c].sup \in Tails(types, i)
    BY <1>1, TailsClosed DEF Entries
  <2>2. QED
    BY <1>1, <2>1, TailsLeast
<1>5. i \in Tails(types, k) => i = k
  <2>1. rank[i] \in Nat /\ rank[k] \in Nat
    BY <1>1, <1>2 DEF Ranked
  <2>2. QED
    BY <1>1, <1>3, <2>1
<1>6. ASSUME i # k PROVE types[i].sup # 0 /\ k \in Tails(types, types[i].sup)
  <2>1. CASE i = 1
    <3> DEFINE S == {1}
    <3>1. \A c \in S : c \in 2 .. Len(types) => types[c].sup \in S
      OBVIOUS
    <3>2. i \in S
      BY <2>1
    <3> HIDE DEF S
    <3>3. Tails(types, i) \subseteq S
      BY <1>1, <3>1, <3>2, TailsLeast
    <3>4. QED
      BY <1>6, <2>1, <3>3 DEF S
  <2>2. CASE i # 1
    <3> DEFINE s == types[i].sup
               S == {i} \cup Tails(types, s)
    <3>1. s \in 1 .. Len(types)
      BY <1>1, <2>2 DEF Entries
    <3>2. s \in Tails(types, s) /\ Tails(types, s) \subseteq 1 .. Len(types)
          /\ \A c \in Tails(types, s) : types[c].sup # 0 => types[c].sup \in Tails(types, s)
      BY <3>1, TailsClosed
    <3>3. \A c \in S : c \in 2 .. Len(types) => types[c].sup \in S
      BY <1>1, <3>1, <3>2 DEF Entries
    <3>4. i \in S
      OBVIOUS
    <3> HIDE DEF S
    <3>5. Tails(types, i) \subseteq S
      BY <1>1, <3>3, <3>4, TailsLeast
    <3>6. QED
      BY <1>6, <3>1, <3>5 DEF S
  <2>3. QED
    BY <2>1, <2>2
<1>7. QED
  BY <1>1, <1>4, <1>5, <1>6

-----------------------------------------------------------------------------
\* The entry of a leads to that of b.
Leads(types, a, b) ==
  \E i, j \in 1 .. Len(types) :
    types[i].sym = a /\ types[j].sym = b /\ j \in Tails(types, i)

\* The searches in a hierarchy of types.
LEMMA SubtypeIs ==
  ASSUME BuiltinsAreRanked, NEW types, Hierarchy(types), NEW a \in Symbol, NEW b \in Symbol
  PROVE  SubtypeP(types, a, b) <=>
           \/ a = nil \/ b = t \/ a = b \/ Leads(types, a, b)
<1> DEFINE e == Entry(types, a)
<1>1. Entries(types) /\ Len(types) \in Nat
  BY DEF Hierarchy, Entries
<1>2. /\ e \in 0 .. Len(types) /\ (e # 0 => types[e].sym = a)
      /\ \A i \in 1 .. Len(types) : types[i].sym = a => e = i
  BY <1>1, EntryIs
<1> HIDE DEF e
<1>3. e # 0 => Tails(types, e) \subseteq 1 .. Len(types)
  BY <1>1, <1>2, TailsClosed
<1>4. (e # 0 /\ \E j \in Tails(types, e) : types[j].sym = b) <=>
        \E i, j \in 1 .. Len(types) :
          types[i].sym = a /\ types[j].sym = b /\ j \in Tails(types, i)
  <2>1. ASSUME e # 0, NEW j \in Tails(types, e), types[j].sym = b
        PROVE  \E i, k \in 1 .. Len(types) :
                 types[i].sym = a /\ types[k].sym = b /\ k \in Tails(types, i)
    BY <1>1, <1>2, <1>3, <2>1
  <2>2. ASSUME NEW i \in 1 .. Len(types), NEW j \in 1 .. Len(types),
               types[i].sym = a, types[j].sym = b, j \in Tails(types, i)
        PROVE  e # 0 /\ \E k \in Tails(types, e) : types[k].sym = b
    <3>1. e = i /\ i # 0
      BY <1>1, <1>2, <2>2
    <3>2. QED
      BY <2>2, <3>1
  <2>3. QED
    BY <2>1, <2>2
<1>5. QED
  BY <1>4 DEF SubtypeP, Leads, e

\* To lead to a type is a partial order.
LEMMA LeadsOrder ==
  ASSUME NEW types, Hierarchy(types), NEW a, NEW b, NEW c, Leads(types, a, b)
  PROVE  /\ Leads(types, b, a) => a = b
         /\ Leads(types, b, c) => Leads(types, a, c)
<1>1. Entries(types)
  BY DEF Hierarchy
<1>2. PICK i, j \in 1 .. Len(types) :
        types[i].sym = a /\ types[j].sym = b /\ j \in Tails(types, i)
  BY DEF Leads
<1>3. ASSUME Leads(types, b, a) PROVE a = b
  <2>1. PICK k, l \in 1 .. Len(types) :
          types[k].sym = b /\ types[l].sym = a /\ l \in Tails(types, k)
    BY <1>3 DEF Leads
  <2>2. k = j /\ l = i
    BY <1>1, <1>2, <2>1 DEF Entries
  <2>3. QED
    BY <1>2, <2>1, <2>2, TailsOrder
<1>4. ASSUME Leads(types, b, c) PROVE Leads(types, a, c)
  <2>1. PICK k, l \in 1 .. Len(types) :
          types[k].sym = b /\ types[l].sym = c /\ l \in Tails(types, k)
    BY <1>4 DEF Leads
  <2>2. k = j
    BY <1>1, <1>2, <2>1 DEF Entries
  <2>3. l \in Tails(types, i)
    BY <1>2, <2>1, <2>2, TailsOrder
  <2>4. QED
    BY <1>2, <2>1, <2>3 DEF Leads
<1>5. QED
  BY <1>3, <1>4

\* What the property says of a hierarchy.
LEMMA HierarchyIsOrdered ==
  ASSUME BuiltinsAreRanked, Hierarchy(exception_subtypes)
  PROVE  PartialOrder
<1> DEFINE types == exception_subtypes
<1>1. Entries(types) /\ Len(types) \in Nat /\ DOMAIN types = 1 .. Len(types)
  BY DEF Hierarchy, Entries
<1>2. t \notin Type /\ nil \notin Type /\ t # nil
  BY DEF BuiltinsAreRanked
<1>3. \A a, b \in Symbol :
        IsSubtype(a, b) <=> \/ a = nil \/ b = t \/ a = b \/ Leads(types, a, b)
  BY SubtypeIs DEF IsSubtype
<1>4. \A i \in 1 .. Len(types) : types[i].sym \in Type \cup {t}
  <2>1. \A i \in 1 .. Len(types) : types[i] \in Link
    BY <1>1 DEF Entries
  <2>2. QED
    BY <2>1 DEF Link
<1>5. EndsInT
  <2>1. ASSUME NEW i \in 1 .. Len(types), types[i].sup = 0 PROVE types[i].sym = t
    BY <1>1, <2>1 DEF Entries
  <2>2. ASSUME NEW i \in 1 .. Len(types), types[i].sup # 0, i \in Tails(types, types[i].sup)
        PROVE  FALSE
    <3>1. types[i].sup \in 1 .. Len(types) /\ i # 1
      BY <1>1, <2>2 DEF Entries
    <3>2. types[i].sup \in Tails(types, i)
      BY <2>2, TailsClosed
    <3>3. types[i].sup = i
      BY <2>2, <3>1, <3>2, TailsOrder
    <3>4. PICK rank : Ranked(types, rank)
      BY DEF Hierarchy
    <3>5. i \in 2 .. Len(types) /\ rank[i] \in Nat
      BY <1>1, <3>1, <3>4 DEF Ranked
    <3>6. QED
      BY <3>3, <3>4, <3>5 DEF Ranked
  <2>3. QED
    BY <1>1, <2>1, <2>2 DEF EndsInT
<1>6. \A a, b \in Symbol : Leads(types, a, b) => a # nil /\ b # nil
  BY <1>2, <1>4 DEF Leads
<1>7. ASSUME NEW b \in Symbol, Leads(types, t, b) PROVE b = t
  <2>1. PICK i, j \in 1 .. Len(types) :
          types[i].sym = t /\ types[j].sym = b /\ j \in Tails(types, i)
    BY <1>7 DEF Leads
  <2>2. i = 1
    BY <1>1, <2>1 DEF Entries
  <2>3. j = i
    BY <1>1, <2>1, <2>2, TailsOrder DEF Entries
  <2>4. QED
    BY <2>1, <2>3
<1> HIDE DEF types
<1>8. \A a, b, c : Leads(types, a, b) =>
        (Leads(types, b, a) => a = b) /\ (Leads(types, b, c) => Leads(types, a, c))
  BY LeadsOrder DEF types
<1>9. \A a \in Symbol : IsSubtype(a, a) /\ IsSubtype(a, t) /\ IsSubtype(nil, a)
  BY <1>3 DEF Symbol
<1>10. \A a, b \in Symbol : IsSubtype(a, b) /\ IsSubtype(b, a) => a = b
  BY <1>2, <1>3, <1>6, <1>7, <1>8 DEF Symbol
<1>11. \A a, b, c \in Symbol : IsSubtype(a, b) /\ IsSubtype(b, c) => IsSubtype(a, c)
  BY <1>2, <1>3, <1>6, <1>7, <1>8 DEF Symbol
<1>12. QED
  BY <1>5, <1>9, <1>10, <1>11 DEF PartialOrder

-----------------------------------------------------------------------------
\* A type without an entry gets one, which links to entry j.
Adds(new, types, a, j) == new = Append(types, [sym |-> a, sup |-> j])

LEMMA Appended ==
  ASSUME BuiltinsAreRanked, NEW types, Entries(types), NEW a \in Type, Entry(types, a) = 0,
         NEW j \in 1 .. Len(types), NEW new, Adds(new, types, a, j)
  PROVE  /\ Entries(new) /\ Len(new) = Len(types) + 1
         /\ new[Len(new)].sym = a /\ new[Len(new)].sup = j
         /\ \A i \in 1 .. Len(types) : new[i] = types[i]
<1> DEFINE e == [sym |-> a, sup |-> j]
           N == Len(types)
<1>1. types \in Seq(Link) /\ N \in Nat /\ N >= 1
  BY DEF Entries
<1>2. e \in Link /\ e.sym = a /\ e.sup = j
  BY <1>1 DEF Link
<1> HIDE DEF e
<1>3. new \in Seq(Link) /\ Len(new) = N + 1 /\ new[N + 1] = e
      /\ \A i \in 1 .. N : new[i] = types[i]
  BY <1>1, <1>2 DEF e, Adds
<1>4. \A i \in 1 .. N : types[i].sym # a
  BY EntryIs
<1>5. new[1].sym = t /\ new[1].sup = 0
  BY <1>1, <1>3 DEF Entries
<1>6. \A i \in 2 .. N + 1 : new[i].sup \in 1 .. N + 1
  BY <1>1, <1>2, <1>3 DEF Entries
<1>7. ASSUME NEW i \in 1 .. N + 1, NEW k \in 1 .. N + 1, new[i].sym = new[k].sym PROVE i = k
  <2>1. CASE i \in 1 .. N /\ k \in 1 .. N
    BY <1>3, <1>7, <2>1 DEF Entries
  <2>2. CASE i = N + 1 /\ k \in 1 .. N
    BY <1>2, <1>3, <1>4, <1>7, <2>2
  <2>3. CASE k = N + 1 /\ i \in 1 .. N
    BY <1>2, <1>3, <1>4, <1>7, <2>3
  <2>4. QED
    BY <2>1, <2>2, <2>3
<1>8. QED
  BY <1>1, <1>2, <1>3, <1>5, <1>6, <1>7 DEF Entries

LEMMA AppendedRanks ==
  ASSUME BuiltinsAreRanked, NEW types, Hierarchy(types), NEW a \in Type, Entry(types, a) = 0,
         NEW j \in 1 .. Len(types), NEW new, Adds(new, types, a, j)
  PROVE  Hierarchy(new)
<1> DEFINE N == Len(types)
<1>1. /\ Entries(new) /\ Len(new) = N + 1 /\ new[N + 1].sup = j
      /\ \A i \in 1 .. N : new[i] = types[i]
  <2>1. /\ Entries(new) /\ Len(new) = N + 1 /\ new[Len(new)].sup = j
        /\ \A i \in 1 .. N : new[i] = types[i]
    BY Appended DEF Hierarchy
  <2>2. QED
    BY <2>1
<1>2. PICK rank : Ranked(types, rank)
  BY DEF Hierarchy
<1>3. N \in Nat /\ rank \in [1 .. N -> Nat]
  BY <1>2 DEF Hierarchy, Entries, Ranked
<1> DEFINE rank2 == [i \in 1 .. N + 1 |-> IF i = N + 1 THEN rank[j] + 1 ELSE rank[i]]
<1>4. rank2 \in [1 .. N + 1 -> Nat] /\ rank2[N + 1] = rank[j] + 1
      /\ \A i \in 1 .. N : rank2[i] = rank[i]
  BY <1>3
<1> HIDE DEF rank2
<1>5. ASSUME NEW i \in 2 .. N + 1 PROVE rank2[new[i].sup] < rank2[i]
  <2>1. CASE i = N + 1
    BY <1>1, <1>3, <1>4, <2>1
  <2>2. CASE i \in 2 .. N
    <3>1. new[i] = types[i] /\ types[i].sup \in 1 .. N /\ rank[types[i].sup] < rank[i]
      BY <1>1, <1>2, <2>2 DEF Hierarchy, Entries, Ranked
    <3>2. QED
      BY <1>4, <2>2, <3>1
  <2>3. QED
    BY <2>1, <2>2
<1>6. Ranked(new, rank2)
  BY <1>1, <1>4, <1>5 DEF Ranked
<1>7. QED
  BY <1>1, <1>6 DEF Hierarchy

\* What is in the entries when that of index i is made to link to j.
LEMMA RepointedIs ==
  ASSUME NEW types \in Seq(Link), NEW i \in 1 .. Len(types), NEW j \in Nat,
         NEW new, new = [types EXCEPT ![i].sup = j]
  PROVE  /\ new \in Seq(Link) /\ Len(new) = Len(types)
         /\ \A k \in 1 .. Len(types) : new[k].sym = types[k].sym
         /\ \A k \in 1 .. Len(types) : new[k].sup = IF k = i THEN j ELSE types[k].sup
<1> DEFINE N == Len(types)
<1>1. \A k \in 1 .. N : types[k] \in Link
  OBVIOUS
<1>2. PICK e \in Link : e = types[i]
  BY <1>1
<1>3. [e EXCEPT !.sup = j] \in Link /\ [e EXCEPT !.sup = j].sym = e.sym
      /\ [e EXCEPT !.sup = j].sup = j
  BY DEF Link
<1>4. new = [types EXCEPT ![i] = [e EXCEPT !.sup = j]]
  BY <1>2
<1>5. new \in Seq(Link) /\ Len(new) = N
  BY <1>3, <1>4
<1>6. \A k \in 1 .. N : new[k] = IF k = i THEN [e EXCEPT !.sup = j] ELSE types[k]
  BY <1>4
<1>7. QED
  BY <1>1, <1>2, <1>3, <1>5, <1>6

\* An entry may be made to link to one that does not lead to it.
LEMMA Repointed ==
  ASSUME BuiltinsAreRanked, NEW types, Hierarchy(types),
         NEW i \in 2 .. Len(types), NEW j \in 1 .. Len(types), i \notin Tails(types, j)
  PROVE  Hierarchy([types EXCEPT ![i].sup = j])
<1> DEFINE new == [types EXCEPT ![i].sup = j]
           N == Len(types)
<1>1. Entries(types) /\ types \in Seq(Link) /\ N \in Nat
  BY DEF Hierarchy, Entries
<1>2. PICK rank : Ranked(types, rank)
  BY DEF Hierarchy
<1>3. rank \in [1 .. N -> Nat]
  BY <1>2 DEF Ranked
<1>4. /\ new \in Seq(Link) /\ Len(new) = N
      /\ \A k \in 1 .. N : new[k].sym = types[k].sym
      /\ \A k \in 1 .. N : new[k].sup = IF k = i THEN j ELSE types[k].sup
  <2>1. i \in 1 .. N /\ j \in Nat
    BY <1>1
  <2>2. PICK q : q = new
    OBVIOUS
  <2>3. q = [types EXCEPT ![i].sup = j]
    BY <2>2
  <2> HIDE DEF new
  <2>4. /\ q \in Seq(Link) /\ Len(q) = N
        /\ \A k \in 1 .. N : q[k].sym = types[k].sym
        /\ \A k \in 1 .. N : q[k].sup = IF k = i THEN j ELSE types[k].sup
    BY <1>1, <2>1, <2>3, RepointedIs
  <2>5. QED
    BY <2>2, <2>4
<1> HIDE DEF new
<1>5. Entries(new)
  <2>1. N >= 1 /\ 1 \in 1 .. N /\ 1 # i
    BY <1>1 DEF Entries
  <2>2. new[1].sym = t /\ new[1].sup = 0
    BY <1>1, <1>4, <2>1 DEF Entries
  <2>3. \A k \in 2 .. N : new[k].sup \in 1 .. N
    BY <1>1, <1>4 DEF Entries
  <2>4. QED
    BY <1>1, <1>4, <2>1, <2>2, <2>3 DEF Entries
<1> DEFINE Raised(k) == i \in Tails(types, k)
           rank2 == [k \in 1 .. N |-> IF Raised(k) THEN rank[k] + rank[j] + 1 ELSE rank[k]]
<1>6. rank2 \in [1 .. N -> Nat]
      /\ \A k \in 1 .. N : rank2[k] = IF Raised(k) THEN rank[k] + rank[j] + 1 ELSE rank[k]
  BY <1>3
<1>7. ASSUME NEW k \in 2 .. N, k # i
      PROVE  Raised(k) <=> Raised(types[k].sup)
  <2>1. types[k].sup \in 1 .. N /\ types[k].sup # 0 /\ types[k].sup \in Tails(types, k)
    BY <1>1, TailsClosed DEF Entries
  <2>2. Raised(types[k].sup) => Raised(k)
    BY <1>1, <2>1, TailsOrder
  <2>3. Raised(k) => Raised(types[k].sup)
    BY <1>1, <1>7, TailsOrder
  <2>4. QED
    BY <2>2, <2>3
<1>8. Raised(i) /\ ~ Raised(j)
  BY <1>1, TailsClosed
<1> HIDE DEF rank2, Raised
<1>9. ASSUME NEW k \in 2 .. N PROVE rank2[new[k].sup] < rank2[k]
  <2>1. CASE k = i
    BY <1>3, <1>4, <1>6, <1>8, <2>1
  <2>2. CASE k # i
    <3>1. types[k].sup \in 1 .. N /\ rank[types[k].sup] < rank[k]
          /\ new[k].sup = types[k].sup
      BY <1>1, <1>2, <1>4, <2>2 DEF Entries, Ranked
    <3>2. rank[types[k].sup] \in Nat /\ rank[k] \in Nat /\ rank[j] \in Nat
      BY <1>3, <3>1
    <3>3. CASE Raised(k)
      <4>1. Raised(types[k].sup)
        BY <1>7, <2>2, <3>3
      <4>2. QED
        <5>1. rank2[k] = rank[k] + rank[j] + 1
          BY <1>6, <3>3
        <5>2. rank2[types[k].sup] = rank[types[k].sup] + rank[j] + 1
          BY <1>6, <3>1, <4>1
        <5>3. QED
          BY <3>1, <3>2, <5>1, <5>2
    <3>4. CASE ~ Raised(k)
      <4>1. ~ Raised(types[k].sup)
        BY <1>7, <2>2, <3>4
      <4>2. QED
        BY <1>6, <3>1, <3>2, <3>4, <4>1
    <3>5. QED
      BY <3>3, <3>4
  <2>3. QED
    BY <2>1, <2>2
<1>10. Ranked(new, rank2)
  BY <1>4, <1>6, <1>9 DEF Ranked
<1>11. QED
  BY <1>5, <1>10 DEF Hierarchy, new

-----------------------------------------------------------------------------
\* The steps of uw_register_subtype(): first there is an entry for sup.
LEMMA WithSupIs ==
  ASSUME BuiltinsAreRanked, NEW types, Entries(types), NEW sup \in Type
  PROVE  LET w == WithSup(types, sup) IN
         /\ Entries(w) /\ Entry(w, sup) \in 1 .. Len(w) /\ w[Entry(w, sup)].sym = sup
         /\ \/ w = types
            \/ /\ Entry(types, sup) = 0 /\ Adds(w, types, sup, 1)
               /\ Entry(w, sup) = Len(types) + 1 /\ Len(w) = Len(types) + 1
               /\ w[Entry(w, sup)].sup = 1 /\ \A i \in 1 .. Len(types) : w[i] = types[i]
<1> DEFINE w == WithSup(types, sup)
<1>1. Len(types) \in Nat /\ 1 \in 1 .. Len(types) /\ types[1].sym = t
  BY DEF Entries
<1>2. CASE Entry(types, sup) # 0
  <2>1. w = types
    BY <1>2 DEF WithSup
  <2>2. Entry(types, sup) \in 1 .. Len(types) /\ types[Entry(types, sup)].sym = sup
    BY <1>1, <1>2, EntryIs
  <2>3. QED
    BY <2>1, <2>2
<1>3. CASE Entry(types, sup) = 0
  <2>1. Entry(types, t) = 1
    BY <1>1, EntryIs
  <2>2. Adds(w, types, sup, 1)
    BY <1>3, <2>1 DEF WithSup, Adds
  <2> HIDE DEF w
  <2>3. /\ Entries(w) /\ Len(w) = Len(types) + 1
        /\ w[Len(w)].sym = sup /\ w[Len(w)].sup = 1
        /\ \A i \in 1 .. Len(types) : w[i] = types[i]
    BY <1>1, <1>3, <2>2, Appended
  <2>4. Len(w) \in 1 .. Len(w)
    BY <1>1, <2>3
  <2>5. Entry(w, sup) = Len(w)
    BY <2>3, <2>4, EntryIs
  <2>6. QED
    BY <1>3, <2>2, <2>3, <2>4, <2>5 DEF w
<1>4. QED
  BY <1>2, <1>3

\* Then the entry of sub links to it.
LEMMA RegisterIs ==
  ASSUME BuiltinsAreRanked, NEW types, Entries(types), NEW sub \in Type, NEW sup \in Type
  PROVE  LET w == WithSup(types, sup)
             q == RegisterSubtype(types, sub, sup)
             i == Entry(w, sub)
         IN  IF i = 0 THEN Adds(q, w, sub, Entry(w, sup))
             ELSE /\ q = [w EXCEPT ![i].sup = Entry(w, sup)]
                  /\ i \in 2 .. Len(w) /\ w[i].sym = sub
<1> DEFINE w == WithSup(types, sup)
           q == RegisterSubtype(types, sub, sup)
           i == Entry(w, sub)
<1>1. sub # nil /\ sub # t
  BY DEF BuiltinsAreRanked
<1>2. Entries(w)
  BY WithSupIs
<1>3. q = Point(w, sub, sup)
  BY <1>1 DEF RegisterSubtype
<1> HIDE DEF w, q
<1>4. i \in 0 .. Len(w) /\ (i # 0 => w[i].sym = sub) /\ w[1].sym = t /\ Len(w) \in Nat
  BY <1>2, EntryIs DEF Entries
<1>5. i # 0 => i \in 2 .. Len(w)
  BY <1>1, <1>4
<1>6. IF i = 0 THEN Adds(q, w, sub, Entry(w, sup))
      ELSE q = [w EXCEPT ![i].sup = Entry(w, sup)]
  BY <1>3 DEF Point, Adds
<1>7. QED
  BY <1>4, <1>5, <1>6 DEF w, q

\* A type is put under another that is not below it.
LEMMA RegisterKeeps ==
  ASSUME BuiltinsAreRanked, NEW types, Hierarchy(types),
         NEW sub \in Type, NEW sup \in Type, sub # sup, ~ SubtypeP(types, sup, sub)
  PROVE  Hierarchy(RegisterSubtype(types, sub, sup))
<1> DEFINE w == WithSup(types, sup)
           q == RegisterSubtype(types, sub, sup)
           i == Entry(w, sub)
           j == Entry(w, sup)
<1>1. Entries(types) /\ Len(types) \in Nat /\ 1 \in 1 .. Len(types)
  BY DEF Hierarchy, Entries
<1>2. /\ Entries(w) /\ j \in 1 .. Len(w) /\ w[j].sym = sup
      /\ \/ w = types
         \/ /\ Entry(types, sup) = 0 /\ Adds(w, types, sup, 1)
            /\ j = Len(types) + 1 /\ Len(w) = Len(types) + 1
            /\ w[j].sup = 1 /\ \A k \in 1 .. Len(types) : w[k] = types[k]
  BY <1>1, WithSupIs
<1>3. IF i = 0 THEN Adds(q, w, sub, j)
      ELSE q = [w EXCEPT ![i].sup = j] /\ i \in 2 .. Len(w) /\ w[i].sym = sub
  BY <1>1, RegisterIs
<1> HIDE DEF w, q, i, j
<1>4. Hierarchy(w)
  <2>1. CASE w = types
    BY <2>1
  <2>2. CASE Entry(types, sup) = 0 /\ Adds(w, types, sup, 1)
    BY <1>1, <2>2, AppendedRanks
  <2>3. QED
    BY <1>2, <2>1, <2>2
<1>5. CASE i = 0
  <2>1. Entry(w, sub) = 0 /\ Adds(q, w, sub, j)
    BY <1>3, <1>5 DEF i
  <2>2. Hierarchy(q)
    BY <1>2, <1>4, <2>1, AppendedRanks
  <2>3. QED
    BY <2>2 DEF q
<1>6. CASE i # 0
  <2>1. i \in 2 .. Len(w) /\ w[i].sym = sub
    BY <1>3, <1>6
  <2>2. i \notin Tails(w, j)
    <3>1. CASE w = types
      <4>1. SubtypeP(types, sup, sub) <=>
              \/ sup = nil \/ sub = t \/ sup = sub
              \/ \E k, l \in 1 .. Len(types) :
                   types[k].sym = sup /\ types[l].sym = sub /\ l \in Tails(types, k)
        BY SubtypeIs DEF Symbol, Leads
      <4>2. i \in 1 .. Len(types)
        BY <1>1, <2>1, <3>1
      <4>3. QED
        BY <1>2, <2>1, <3>1, <4>1, <4>2
    <3>2. CASE w # types
      <4>1. i # 1 /\ i # j
        BY <1>2, <2>1
      <4>2. CASE i \in Tails(w, j)
        <5>1. w[j].sup = 1
          BY <1>2, <3>2
        <5>2. i \in Tails(w, 1)
          BY <1>2, <1>4, <4>1, <4>2, <5>1, TailsOrder
        <5>3. w[1].sup = 0 /\ 1 \in 1 .. Len(w)
          BY <1>2 DEF Entries
        <5>4. QED
          BY <1>4, <4>1, <5>2, <5>3, TailsOrder
      <4>3. QED
        BY <4>2
    <3>3. QED
      BY <3>1, <3>2
  <2>3. Hierarchy([w EXCEPT ![i].sup = j])
    BY <1>2, <1>4, <2>1, <2>2, Repointed
  <2>4. QED
    BY <1>3, <1>6, <2>3 DEF q
<1>7. QED
  BY <1>5, <1>6

-----------------------------------------------------------------------------
\* The entries of built-in types link to types that rank lower.
ByRank(types, rank) ==
  \A i \in 2 .. Len(types) :
    LET sup == types[types[i].sup].sym
    IN  sup = t \/ rank[sup] < rank[types[i].sym]

LEMMA ByRankBelow ==
  ASSUME BuiltinsAreRanked, NEW types, Hierarchy(types),
         NEW rank \in [Type -> Nat], ByRank(types, rank),
         NEW a \in Type, NEW b \in Type, SubtypeP(types, a, b)
  PROVE  a = b \/ rank[b] < rank[a]
<1>1. Entries(types) /\ a # nil /\ b # t
  BY DEF Hierarchy, BuiltinsAreRanked
<1>2. CASE a # b
  <2>1. PICK i, j \in 1 .. Len(types) :
          types[i].sym = a /\ types[j].sym = b /\ j \in Tails(types, i)
    BY <1>1, <1>2, SubtypeIs DEF Symbol, Leads
  <2> DEFINE S == {k \in 1 .. Len(types) :
                     types[k].sym = t \/ k = i \/ rank[types[k].sym] < rank[a]}
  <2>2. ASSUME NEW k \in S, k \in 2 .. Len(types) PROVE types[k].sup \in S
    <3>1. types[k].sup \in 1 .. Len(types) /\ types[k] \in Link /\ types[k].sym # t
      BY <1>1, <2>2 DEF Entries
    <3>2. types[types[k].sup] \in Link
      BY <1>1, <3>1 DEF Entries
    <3> DEFINE x == types[k].sym
               y == types[types[k].sup].sym
    <3>3. x \in Type /\ y \in Type \cup {t}
      BY <3>1, <3>2 DEF Link
    <3>4. y = t \/ rank[y] < rank[x]
      BY <2>2 DEF ByRank
    <3>5. x = a \/ rank[x] < rank[a]
      BY <2>1, <2>2, <3>1
    <3> HIDE DEF x
    <3>6. y = t \/ rank[y] < rank[a]
      <4> HIDE DEF y
      <4>1. y # t => rank[y] \in Nat /\ rank[x] \in Nat /\ rank[a] \in Nat
        BY <3>3
      <4>2. QED
        BY <3>4, <3>5, <4>1
    <3>7. QED
      BY <3>1, <3>6
  <2>3. i \in S
    OBVIOUS
  <2> HIDE DEF S
  <2>4. Tails(types, i) \subseteq S
    BY <1>1, <2>2, <2>3, TailsLeast
  <2>5. j \in S
    BY <2>1, <2>4
  <2>6. QED
    BY <1>1, <1>2, <2>1, <2>5 DEF S
<1>3. QED
  BY <1>2

LEMMA RegisterByRank ==
  ASSUME BuiltinsAreRanked, NEW types, Hierarchy(types), NEW rank, ByRank(types, rank),
         NEW sub \in Type, NEW sup \in Type, rank[sup] < rank[sub]
  PROVE  ByRank(RegisterSubtype(types, sub, sup), rank)
<1> DEFINE w == WithSup(types, sup)
           q == RegisterSubtype(types, sub, sup)
           i == Entry(w, sub)
           j == Entry(w, sup)
<1>1. Entries(types) /\ Len(types) \in Nat /\ types[1].sym = t
  BY DEF Hierarchy, Entries
<1>2. /\ Entries(w) /\ j \in 1 .. Len(w) /\ w[j].sym = sup
      /\ \/ w = types
         \/ /\ Entry(types, sup) = 0 /\ Adds(w, types, sup, 1)
            /\ j = Len(types) + 1 /\ Len(w) = Len(types) + 1
            /\ w[j].sup = 1 /\ \A k \in 1 .. Len(types) : w[k] = types[k]
  BY <1>1, WithSupIs
<1>3. IF i = 0 THEN Adds(q, w, sub, j)
      ELSE q = [w EXCEPT ![i].sup = j] /\ i \in 2 .. Len(w) /\ w[i].sym = sub
  BY <1>1, RegisterIs
<1> HIDE DEF w, q, j
<1>4. ByRank(w, rank)
  <2>1. CASE w = types
    BY <2>1
  <2>2. CASE w # types
    <3>1. ASSUME NEW k \in 2 .. Len(w)
          PROVE  LET s == w[w[k].sup].sym IN s = t \/ rank[s] < rank[w[k].sym]
      <4>1. CASE k = j
        <5>1. w[w[k].sup].sym = t
          BY <1>2, <2>2, <4>1 DEF Entries
        <5>2. QED
          BY <5>1
      <4>2. CASE k # j
        <5>1. k \in 2 .. Len(types) /\ w[k] = types[k]
          BY <1>1, <1>2, <2>2, <4>2
        <5>2. types[k].sup \in 1 .. Len(types)
          BY <1>1, <5>1 DEF Entries
        <5>3. w[w[k].sup] = types[types[k].sup]
          BY <1>2, <2>2, <5>1, <5>2
        <5>4. QED
          BY <5>1, <5>3 DEF ByRank
      <4>3. QED
        BY <4>1, <4>2
    <3>2. QED
      BY <3>1 DEF ByRank
  <2>3. QED
    BY <2>1, <2>2
<1>5. CASE i = 0
  <2>1. /\ Len(q) = Len(w) + 1 /\ q[Len(q)].sym = sub /\ q[Len(q)].sup = j
        /\ \A k \in 1 .. Len(w) : q[k] = w[k]
    BY <1>2, <1>3, <1>5, Appended
  <2>2. Len(w) \in Nat
    BY <1>2 DEF Entries
  <2>3. ASSUME NEW k \in 2 .. Len(q)
        PROVE  LET s == q[q[k].sup].sym IN s = t \/ rank[s] < rank[q[k].sym]
    <3>1. CASE k = Len(q)
      <4>1. q[q[k].sup].sym = sup /\ q[k].sym = sub
        BY <1>2, <2>1, <3>1
      <4>2. QED
        BY <4>1
    <3>2. CASE k # Len(q)
      <4>1. k \in 2 .. Len(w) /\ q[k] = w[k]
        BY <2>1, <2>2, <3>2
      <4>2. w[k].sup \in 1 .. Len(w)
        BY <1>2, <4>1 DEF Entries
      <4>3. q[q[k].sup] = w[w[k].sup]
        BY <2>1, <4>1, <4>2
      <4>4. QED
        BY <1>4, <4>1, <4>3 DEF ByRank
    <3>3. QED
      BY <3>1, <3>2
  <2>4. QED
    BY <2>3 DEF ByRank, q
<1>6. CASE i # 0
  <2>1. /\ q = [w EXCEPT ![i].sup = j] /\ i \in 1 .. Len(w) /\ w[i].sym = sub
        /\ w \in Seq(Link) /\ Len(w) \in Nat /\ j \in Nat
    BY <1>2, <1>3, <1>6 DEF Entries
  <2> HIDE DEF i
  <2>2. /\ Len(q) = Len(w)
        /\ \A k \in 1 .. Len(w) : q[k].sym = w[k].sym
        /\ \A k \in 1 .. Len(w) : q[k].sup = IF k = i THEN j ELSE w[k].sup
    BY <2>1, RepointedIs
  <2>3. ASSUME NEW k \in 2 .. Len(q)
        PROVE  LET s == q[q[k].sup].sym IN s = t \/ rank[s] < rank[q[k].sym]
    <3>1. CASE k = i
      <4>1. q[q[k].sup].sym = sup /\ q[k].sym = sub
        BY <1>2, <2>1, <2>2, <3>1
      <4>2. QED
        BY <4>1
    <3>2. CASE k # i
      <4>1. k \in 2 .. Len(w) /\ q[k].sym = w[k].sym /\ q[k].sup = w[k].sup
        BY <2>1, <2>2, <3>2
      <4>2. w[k].sup \in 1 .. Len(w)
        BY <1>2, <4>1 DEF Entries
      <4>3. q[q[k].sup].sym = w[w[k].sup].sym
        BY <2>2, <4>1, <4>2
      <4>4. QED
        BY <1>4, <4>1, <4>3 DEF ByRank
    <3>3. QED
      BY <3>1, <3>2
  <2>4. QED
    BY <2>3 DEF ByRank, q
<1>7. QED
  BY <1>5, <1>6

-----------------------------------------------------------------------------
\* What is left by each type of a @(defex): a hierarchy, and how it went.
States == [types : {types \in Seq(Link) : Hierarchy(types)}, outcome : {"done", "threw"}]

Reduced(prev, sub, sup) ==
  IF prev.outcome = "threw" \/ Refused(prev.types, sub, sup)
  THEN [prev EXCEPT !.outcome = "threw"]
  ELSE [prev EXCEPT !.types = RegisterSubtype(@, sub, sup)]

LEMMA ReducedKeeps ==
  ASSUME BuiltinsAreRanked, NEW prev \in States, NEW sub \in Symbol, NEW sup \in Symbol
  PROVE  Reduced(prev, sub, sup) \in States
<1>1. Hierarchy(prev.types) /\ prev.types \in Seq(Link)
  BY DEF States
<1>2. ASSUME NEW types, Hierarchy(types) PROVE [prev EXCEPT !.types = types] \in States
  BY <1>2 DEF States, Hierarchy, Entries
<1>3. [prev EXCEPT !.outcome = "threw"] \in States
  BY DEF States
<1>4. CASE ~ Refused(prev.types, sub, sup)
  <2>1. CASE sub = nil \/ sub = t
    <3>1. RegisterSubtype(prev.types, sub, sup) = prev.types
      BY <2>1 DEF RegisterSubtype
    <3>2. [prev EXCEPT !.types = prev.types] \in States
      BY <1>1, <1>2
    <3>3. QED
      BY <1>3, <3>1, <3>2 DEF Reduced
  <2>2. CASE sub # nil /\ sub # t
    <3>1. sup # nil /\ ~ SubtypeP(prev.types, sub, sup) /\ ~ SubtypeP(prev.types, sup, sub)
      BY <1>4, <2>2 DEF Refused
    <3>2. sup # t /\ sub # sup
      BY <3>1 DEF SubtypeP
    <3>3. sub \in Type /\ sup \in Type
      BY <2>2, <3>1, <3>2 DEF Symbol
    <3>4. Hierarchy(RegisterSubtype(prev.types, sub, sup))
      BY <1>1, <3>1, <3>2, <3>3, RegisterKeeps
    <3>5. [prev EXCEPT !.types = RegisterSubtype(prev.types, sub, sup)] \in States
      BY <1>2, <3>4
    <3>6. QED
      BY <1>3, <3>5 DEF Reduced
  <2>3. QED
    BY <2>1, <2>2
<1>5. CASE Refused(prev.types, sub, sup)
  BY <1>3, <1>5 DEF Reduced
<1>6. QED
  BY <1>4, <1>5

\* reduce_left() goes from one pair of neighbours to the next.
Runs(h, types, chain, N) ==
  /\ h[1] = [types |-> types, outcome |-> "done"]
  /\ \A i \in 2 .. N : h[i] = Reduced(h[i - 1], chain[i - 1], chain[i])

LEMMA DefinedIs ==
  ASSUME BuiltinsAreRanked, NEW types, Hierarchy(types),
         NEW N \in Nat \ {0}, NEW chain \in [1 .. N -> Symbol]
  PROVE  \E h : Runs(h, types, chain, N) /\ Defined(types, chain) = h[N]
<1> DEFINE x == [types |-> types, outcome |-> "done"]
           F == [p \in (1 .. N - 1) \X States |-> Reduced(p[2], chain[p[1]], chain[p[1] + 1])]
           Is(h) == h = [i \in 1 .. N |->
                          IF i = 1 THEN x ELSE Reduced(h[i - 1], chain[i - 1], chain[i])]
<1>1. x \in States
  BY DEF States, Hierarchy, Entries
<1>2. ASSUME NEW n \in 1 .. N - 1, NEW v \in States
      PROVE  F[<<n, v>>] = Reduced(v, chain[n], chain[n + 1]) /\ F[<<n, v>>] \in States
  <2>1. chain[n] \in Symbol /\ chain[n + 1] \in Symbol
    OBVIOUS
  <2>2. Reduced(v, chain[n], chain[n + 1]) \in States
    BY <2>1, ReducedKeeps
  <2>3. F[<<n, v>>] = Reduced(v, chain[n], chain[n + 1])
    OBVIOUS
  <2>4. QED
    BY <2>2, <2>3
<1>3. F \in Steps(N - 1, States)
  BY <1>2 DEF Steps
<1> HIDE DEF F, x
<1>4. PICK g : Solves(g, x, F, N - 1, States)
  <2>1. N - 1 \in Nat
    OBVIOUS
  <2>2. QED
    BY <1>1, <1>3, <2>1, Recursion
<1>5. Is([i \in 1 .. N |-> g[i - 1]])
  <2> DEFINE h == [i \in 1 .. N |-> g[i - 1]]
  <2>1. ASSUME NEW i \in 1 .. N
        PROVE  h[i] = IF i = 1 THEN x ELSE Reduced(h[i - 1], chain[i - 1], chain[i])
    <3>1. CASE i = 1
      BY <1>4, <3>1 DEF Solves
    <3>2. CASE i # 1
      <4>1. i - 1 \in 1 .. N - 1 /\ (i - 1) + 1 = i
        BY <3>2
      <4>2. g[i - 1] = F[<<i - 1, g[(i - 1) - 1]>>] /\ g[(i - 1) - 1] \in States
        BY <1>4, <4>1 DEF Solves
      <4>3. h[i] = g[i - 1] /\ h[i - 1] = g[(i - 1) - 1]
        BY <4>1
      <4> HIDE DEF h
      <4>4. F[<<i - 1, g[(i - 1) - 1]>>] = Reduced(g[(i - 1) - 1], chain[i - 1], chain[i])
        BY <1>2, <4>1, <4>2
      <4>5. QED
        BY <3>2, <4>2, <4>3, <4>4
    <3>3. QED
      BY <3>1, <3>2
  <2>2. QED
    BY <2>1
<1>6. Is(CHOOSE h : Is(h))
  <2> HIDE DEF Is
  <2>1. QED
    BY <1>5, Zenon
<1>7. Len(chain) = N
  OBVIOUS
<1>8. Defined(types, chain) = (CHOOSE h : Is(h))[N]
  BY <1>7 DEF Defined, Reduced, x
<1>9. PICK h : Is(h) /\ Defined(types, chain) = h[N]
  <2> HIDE DEF Is
  <2>1. QED
    BY <1>6, <1>8, Zenon
<1>10. Runs(h, types, chain, N)
  <2>1. \A i \in 1 .. N : h[i] = IF i = 1 THEN x ELSE Reduced(h[i - 1], chain[i - 1], chain[i])
    BY <1>9
  <2>2. QED
    BY <2>1 DEF Runs, x
<1>11. QED
  BY <1>9, <1>10

\* However a @(defex) goes, it leaves a hierarchy.
LEMMA RunsKeep ==
  ASSUME BuiltinsAreRanked, NEW types, Hierarchy(types),
         NEW N \in Nat \ {0}, NEW chain \in [1 .. N -> Symbol], NEW h, Runs(h, types, chain, N)
  PROVE  \A i \in 1 .. N : h[i] \in States
<1> DEFINE T == {n \in Nat : n < N => h[n + 1] \in States}
<1>1. 0 \in T
  BY DEF Runs, States, Hierarchy, Entries
<1>2. ASSUME NEW n \in Nat, n \in T PROVE n + 1 \in T
  <2>1. SUFFICES ASSUME n + 1 < N PROVE h[(n + 1) + 1] \in States
    OBVIOUS
  <2> DEFINE i == (n + 1) + 1
  <2>2. i \in 2 .. N /\ i - 1 = n + 1 /\ i - 1 \in 1 .. N
    BY <2>1
  <2>3. h[i - 1] \in States
    BY <1>2, <2>1, <2>2
  <2> HIDE DEF i
  <2>4. h[i] = Reduced(h[i - 1], chain[i - 1], chain[i])
    BY <2>2 DEF Runs
  <2>5. chain[i] \in Symbol /\ chain[i - 1] \in Symbol
    BY <2>2
  <2>6. h[i] \in States
    BY <2>3, <2>4, <2>5, ReducedKeeps
  <2>7. QED
    BY <2>6 DEF i
<1> HIDE DEF T
<1>3. Nat \subseteq T
  BY <1>1, <1>2, SetInduction
<1>4. ASSUME NEW i \in 1 .. N PROVE h[i] \in States
  <2>1. i - 1 \in T /\ i - 1 < N /\ (i - 1) + 1 = i
    BY <1>3
  <2>2. QED
    BY <2>1 DEF T
<1>5. QED
  BY <1>4

LEMMA DefinedKeeps ==
  ASSUME BuiltinsAreRanked, NEW types, Hierarchy(types),
         NEW N \in Nat \ {0}, NEW chain \in [1 .. N -> Symbol]
  PROVE  Defined(types, chain) \in States
<1>1. PICK h : Runs(h, types, chain, N) /\ Defined(types, chain) = h[N]
  BY DefinedIs
<1>2. N \in 1 .. N
  OBVIOUS
<1>3. QED
  BY <1>1, <1>2, RunsKeep

-----------------------------------------------------------------------------
\* The types are there when txr starts, in a hierarchy.
LEMMA InitIs ==
  ASSUME BuiltinsAreRanked, Init
  PROVE  IInv
<1>1. PICK rank \in [Type -> 0 .. Len(Builtin)] :
        \A i \in 1 .. Len(Builtin) : rank[Builtin[i][1]] > rank[Builtin[i][2]]
  BY DEF BuiltinsAreRanked
<1> DEFINE N == Len(Builtin)
           S == {types \in Seq(Link) : Hierarchy(types) /\ ByRank(types, rank)}
           x == <<[sym |-> t, sup |-> 0]>>
           Registered(types, i) == RegisterSubtype(types, Builtin[i][1], Builtin[i][2])
           F == [p \in (1 .. N) \X S |-> Registered(p[2], p[1])]
           Is(h) == h = [i \in 0 .. N |-> IF i = 0 THEN x ELSE Registered(h[i - 1], i)]
<1>2. N \in Nat /\ rank \in [Type -> Nat]
      /\ \A i \in 1 .. N : Builtin[i][1] \in Type /\ Builtin[i][2] \in Type
  BY DEF BuiltinsAreRanked
<1>3. x \in S
  <2>1. [sym |-> t, sup |-> 0] \in Link
    BY DEF Link
  <2>2. x \in Seq(Link) /\ Len(x) = 1 /\ x[1] = [sym |-> t, sup |-> 0]
    BY <2>1
  <2>3. x[1].sym = t /\ x[1].sup = 0
    BY <2>2
  <2> HIDE DEF x
  <2>4. \A i \in 1 .. 1 : i = 1
    OBVIOUS
  <2>5. \A i \in 2 .. 1 : FALSE
    OBVIOUS
  <2>6. Entries(x)
    BY <2>2, <2>3, <2>4, <2>5 DEF Entries
  <2>7. Ranked(x, [i \in 1 .. 1 |-> 0])
    BY <2>2, <2>5 DEF Ranked
  <2>8. ByRank(x, rank)
    BY <2>2, <2>5 DEF ByRank
  <2>9. QED
    BY <2>2, <2>6, <2>7, <2>8 DEF Hierarchy
<1>4. ASSUME NEW i \in 1 .. N, NEW types \in S PROVE Registered(types, i) \in S
  <2> DEFINE sub == Builtin[i][1]
             sup == Builtin[i][2]
  <2>1. sub \in Type /\ sup \in Type /\ rank[sup] \in Nat /\ rank[sub] \in Nat
        /\ rank[sup] < rank[sub]
    <3>1. rank[sub] > rank[sup]
      BY <1>1
    <3>2. QED
      BY <1>2, <3>1
  <2> HIDE DEF sub, sup
  <2>2. sub # sup
    BY <2>1
  <2>3. ~ SubtypeP(types, sup, sub)
    BY <1>2, <2>1, <2>2, ByRankBelow
  <2>4. Hierarchy(RegisterSubtype(types, sub, sup))
    BY <2>1, <2>2, <2>3, RegisterKeeps
  <2>5. ByRank(RegisterSubtype(types, sub, sup), rank)
    BY <2>1, RegisterByRank
  <2>6. QED
    BY <2>4, <2>5 DEF Hierarchy, Entries, sub, sup
<1>5. F \in Steps(N, S) /\ \A i \in 1 .. N, types \in S : F[<<i, types>>] = Registered(types, i)
  <2> HIDE DEF S, Registered
  <2>1. QED
    BY <1>4 DEF Steps
<1> HIDE DEF F, x, S, N, Registered
<1>6. PICK g : Solves(g, x, F, N, S)
  BY <1>2, <1>3, <1>5, Recursion
<1>7. Is(g)
  <2>1. g \in [0 .. N -> S] /\ g[0] = x
    BY <1>6 DEF Solves
  <2>2. ASSUME NEW i \in 0 .. N PROVE g[i] = IF i = 0 THEN x ELSE Registered(g[i - 1], i)
    <3>1. CASE i = 0
      BY <2>1, <3>1
    <3>2. CASE i \in 1 .. N
      <4>1. g[i - 1] \in S /\ i # 0
        BY <1>2, <2>1, <3>2
      <4>2. g[i] = F[<<i, g[i - 1]>>]
        BY <1>6, <3>2 DEF Solves
      <4>3. QED
        BY <1>5, <3>2, <4>1, <4>2
    <3>3. QED
      BY <1>2, <3>1, <3>2
  <2>3. QED
    BY <2>1, <2>2
<1>8. ASSUME NEW h, Is(h) PROVE h[N] \in S
  <2> DEFINE T == {n \in Nat : n <= N => h[n] \in S}
  <2>1. \A i \in 0 .. N : h[i] = IF i = 0 THEN x ELSE Registered(h[i - 1], i)
    BY <1>8
  <2>2. 0 \in T
    BY <1>2, <1>3, <2>1
  <2>3. ASSUME NEW n \in Nat, n \in T PROVE n + 1 \in T
    <3>1. SUFFICES ASSUME n + 1 <= N PROVE h[n + 1] \in S
      OBVIOUS
    <3>2. n + 1 \in 1 .. N /\ n + 1 \in 0 .. N /\ n + 1 # 0 /\ (n + 1) - 1 = n /\ h[n] \in S
      BY <1>2, <2>3, <3>1
    <3>3. h[n + 1] = Registered(h[n], n + 1)
      BY <2>1, <3>2
    <3>4. QED
      BY <1>4, <3>2, <3>3
  <2> HIDE DEF T
  <2>4. Nat \subseteq T
    BY <2>2, <2>3, SetInduction
  <2>5. QED
    BY <1>2, <2>4 DEF T
<1>9. (CHOOSE h : Is(h))[N] \in S
  <2> HIDE DEF Is
  <2>1. Is(CHOOSE h : Is(h))
    BY <1>7, Zenon
  <2>2. QED
    BY <1>8, <2>1
<1>10. exception_subtypes = (CHOOSE h : Is(h))[N] /\ outcome = "done"
  BY DEF Init, N, Registered, x
<1>11. exception_subtypes \in S
  <2> HIDE DEF Is
  <2>1. QED
    BY <1>9, <1>10, Zenon
<1>12. QED
  BY <1>10, <1>11 DEF IInv, S

\* In whatever order types are defined and defined again, and wherever a
\* @(defex) fails, each has one entry, and following the links from any one
\* leads to that of t.
THEOREM Invariance ==
  ASSUME BuiltinsAreRanked
  PROVE  Spec => []IInv
<1>1. Init => IInv
  BY InitIs
<1>2. IInv /\ [Next]_vars => IInv'
  <2> SUFFICES ASSUME IInv, [Next]_vars PROVE IInv'
    OBVIOUS
  <2>1. ASSUME NEW chain \in Chains, Defex(chain) PROVE IInv'
    <3>1. PICK n \in 1 .. MaxChain : chain \in [1 .. n -> Symbol]
      BY DEF Chains
    <3>2. n \in Nat \ {0}
      BY DEF BuiltinsAreRanked
    <3>3. Defined(exception_subtypes, chain) \in States
      BY <3>1, <3>2, DefinedKeeps DEF IInv
    <3>4. /\ exception_subtypes' = Defined(exception_subtypes, chain).types
          /\ outcome' = Defined(exception_subtypes, chain).outcome
      BY <2>1 DEF Defex
    <3>5. Hierarchy(exception_subtypes') /\ outcome' \in {"done", "threw"}
      BY <3>3, <3>4 DEF States
    <3>6. QED
      BY <3>5 DEF IInv, Hierarchy, Entries, Ranked, Link
  <2>2. CASE UNCHANGED vars
    BY <2>2 DEF vars, IInv, Hierarchy, Entries, Ranked, Link
  <2>3. QED
    BY <2>1, <2>2 DEF Next
<1>3. QED
  BY <1>1, <1>2, PTL DEF Spec

\* Being a subtype is a partial order, and every search for one ends.
THEOREM TypesAreOrdered ==
  ASSUME BuiltinsAreRanked
  PROVE  Spec => []PartialOrder
<1>1. IInv => PartialOrder
  BY HierarchyIsOrdered DEF IInv
<1>2. QED
  BY <1>1, Invariance, PTL

-----------------------------------------------------------------------------
\* From types to new, entries have been added, and only those of the types in
\* moved made to link elsewhere.
Moves(types, new, moved) ==
  /\ Len(types) <= Len(new)
  /\ \A i \in 1 .. Len(types) :
       /\ new[i].sym = types[i].sym
       /\ types[i].sym \notin moved => new[i].sup = types[i].sup

\* Of two entries that an entry leads to, one leads to the other.
LEMMA TailsLinear ==
  ASSUME NEW types, Hierarchy(types), NEW i \in 1 .. Len(types),
         NEW k \in Tails(types, i), NEW l \in Tails(types, i)
  PROVE  l \in Tails(types, k) \/ k \in Tails(types, l)
<1>1. Entries(types) /\ k \in 1 .. Len(types) /\ l \in 1 .. Len(types)
  BY TailsOrder DEF Hierarchy
<1> DEFINE S == {c \in 1 .. Len(types) : l \in Tails(types, c) \/ c \in Tails(types, l)}
<1>2. ASSUME NEW c \in S, c \in 2 .. Len(types) PROVE types[c].sup \in S
  <2>1. types[c].sup \in 1 .. Len(types) /\ types[c].sup # 0
    BY <1>1, <1>2 DEF Entries
  <2>2. CASE c \in Tails(types, l)
    <3>1. types[c].sup \in Tails(types, l)
      BY <1>1, <2>1, <2>2, TailsClosed
    <3>2. QED
      BY <2>1, <3>1
  <2>3. CASE l \in Tails(types, c) /\ c # l
    <3>1. l \in Tails(types, types[c].sup)
      BY <1>2, <2>3, TailsOrder
    <3>2. QED
      BY <2>1, <3>1
  <2>4. CASE c = l
    BY <1>1, <2>2, <2>4, TailsClosed
  <2>5. QED
    BY <2>2, <2>3, <2>4
<1>3. i \in S
  OBVIOUS
<1> HIDE DEF S
<1>4. Tails(types, i) \subseteq S
  BY <1>1, <1>2, <1>3, TailsLeast
<1>5. QED
  BY <1>4 DEF S

\* Types that were related are, or one that has been moved was between them.
LEMMA MovedBetween ==
  ASSUME NEW types, NEW new, NEW moved, Hierarchy(types), Hierarchy(new),
         Moves(types, new, moved), NEW a, NEW b, Leads(types, a, b)
  PROVE  \/ Leads(new, a, b)
         \/ \E y \in moved :
              Leads(types, a, y) /\ Leads(types, y, b) /\ y # b /\ Leads(new, a, y)
<1>1. PICK k, l \in 1 .. Len(types) :
        types[k].sym = a /\ types[l].sym = b /\ l \in Tails(types, k)
  BY DEF Leads
<1>2. /\ Entries(types) /\ Entries(new)
      /\ Len(types) \in Nat /\ Len(new) \in Nat /\ Len(types) <= Len(new)
      /\ \A i \in 1 .. Len(types) : i \in 1 .. Len(new) /\ new[i].sym = types[i].sym
  BY DEF Hierarchy, Entries, Moves
<1>3. SUFFICES ASSUME \A y \in moved :
                        Leads(types, a, y) /\ Leads(types, y, b) /\ Leads(new, a, y) => y = b
               PROVE  Leads(new, a, b)
  OBVIOUS
<1> DEFINE Above == Tails(types, l) \ {l}
           S == (Tails(new, k) \cap Tails(types, k)) \cup Above
<1>4. k \in 1 .. Len(new) /\ k \in Tails(new, k) /\ k \in Tails(types, k)
  BY <1>1, <1>2, TailsClosed
<1>5. ASSUME NEW c \in S, c \in 2 .. Len(types) PROVE types[c].sup \in S
  <2>1. types[c].sup \in 1 .. Len(types) /\ types[c].sup # 0 /\ c # 1
    BY <1>2, <1>5 DEF Entries
  <2>2. types[c].sup # c
    <3>1. PICK rank : Ranked(types, rank)
      BY DEF Hierarchy
    <3>2. rank[types[c].sup] < rank[c] /\ rank[c] \in Nat
      BY <1>5, <3>1 DEF Ranked
    <3>3. QED
      BY <3>2
  <2>3. CASE c \in Tails(types, l)
    <3>1. types[c].sup \in Tails(types, l)
      BY <1>1, <2>1, <2>3, TailsClosed
    <3>2. types[c].sup # l
      <4>1. SUFFICES ASSUME types[c].sup = l PROVE FALSE
        OBVIOUS
      <4>2. l \in Tails(types, c)
        BY <1>5, <2>1, <4>1, TailsClosed
      <4>3. l = c
        BY <1>1, <1>5, <2>3, <4>2, TailsOrder
      <4>4. QED
        BY <2>2, <4>1, <4>3
    <3>3. QED
      BY <3>1, <3>2
  <2>4. CASE c \notin Tails(types, l)
    <3>1. c \in Tails(new, k) /\ c \in Tails(types, k)
      BY <1>5, <2>4
    <3>2. l \in Tails(types, c)
      BY <1>1, <2>4, <3>1, TailsLinear
    <3>3. c # l
      BY <1>1, <2>4, TailsClosed
    <3> DEFINE y == types[c].sym
    <3>4. Leads(types, a, y) /\ Leads(types, y, b) /\ Leads(new, a, y)
      BY <1>1, <1>2, <1>4, <1>5, <3>1, <3>2 DEF Leads
    <3>5. y # b
      BY <1>1, <1>2, <1>5, <3>3 DEF Entries
    <3>6. y \notin moved
      <4> HIDE DEF y
      <4>1. QED
        BY <1>3, <3>4, <3>5
    <3>7. new[c].sup = types[c].sup
      BY <1>5, <3>6 DEF Moves
    <3>8. types[c].sup \in Tails(new, k)
      BY <1>4, <2>1, <3>1, <3>7, TailsClosed
    <3>9. types[c].sup \in Tails(types, k)
      BY <1>1, <2>1, <3>1, TailsClosed
    <3>10. QED
      BY <3>8, <3>9
  <2>5. QED
    BY <2>3, <2>4
<1>6. k \in S
  BY <1>4
<1> HIDE DEF S
<1>7. Tails(types, k) \subseteq S
  BY <1>1, <1>2, <1>5, <1>6, TailsLeast
<1>8. l \in Tails(new, k)
  BY <1>1, <1>7 DEF S
<1>9. QED
  BY <1>1, <1>2, <1>4, <1>8 DEF Leads

\* Registering a type moves it, and no other.
LEMMA RegisterMoves ==
  ASSUME BuiltinsAreRanked, NEW types, Hierarchy(types),
         NEW sub \in Type, NEW sup \in Type, sub # sup, ~ SubtypeP(types, sup, sub),
         NEW q, q = RegisterSubtype(types, sub, sup)
  PROVE  Hierarchy(q) /\ Moves(types, q, {sub}) /\ Leads(q, sub, sup)
<1> DEFINE w == WithSup(types, sup)
           i == Entry(w, sub)
           j == Entry(w, sup)
<1>1. Entries(types) /\ Len(types) \in Nat
  BY DEF Hierarchy, Entries
<1>2. /\ Entries(w) /\ j \in 1 .. Len(w) /\ w[j].sym = sup
      /\ \/ w = types
         \/ /\ Entry(types, sup) = 0 /\ Adds(w, types, sup, 1)
            /\ j = Len(types) + 1 /\ Len(w) = Len(types) + 1
            /\ w[j].sup = 1 /\ \A k \in 1 .. Len(types) : w[k] = types[k]
  BY <1>1, WithSupIs
<1>3. IF i = 0 THEN Adds(q, w, sub, j)
      ELSE q = [w EXCEPT ![i].sup = j] /\ i \in 2 .. Len(w) /\ w[i].sym = sub
  BY <1>1, RegisterIs
<1>4. Hierarchy(q) /\ Entries(q)
  BY RegisterKeeps DEF Hierarchy
<1> HIDE DEF w, j
<1>5. Len(types) <= Len(w) /\ Len(w) \in Nat /\ \A k \in 1 .. Len(types) : w[k] = types[k]
  BY <1>1, <1>2 DEF Entries
<1>6. \E m \in 2 .. Len(q) : q[m].sym = sub /\ q[m].sup = j /\ q[j].sym = sup
      /\ Len(w) <= Len(q)
      /\ \A k \in 1 .. Len(w) :
           q[k].sym = w[k].sym /\ (w[k].sym # sub => q[k].sup = w[k].sup)
  <2>1. CASE i = 0
    <3>1. /\ Len(q) = Len(w) + 1 /\ q[Len(q)].sym = sub /\ q[Len(q)].sup = j
          /\ \A k \in 1 .. Len(w) : q[k] = w[k]
      BY <1>2, <1>3, <2>1, Appended
    <3>2. PICK m : m = Len(q)
      OBVIOUS
    <3>3. m \in 2 .. Len(q) /\ q[m].sym = sub /\ q[m].sup = j
      BY <1>2, <1>5, <3>1, <3>2
    <3>4. q[j].sym = sup /\ Len(w) <= Len(q)
      BY <1>2, <1>5, <3>1
    <3>5. \A k \in 1 .. Len(w) :
            q[k].sym = w[k].sym /\ (w[k].sym # sub => q[k].sup = w[k].sup)
      BY <3>1
    <3>6. QED
      BY <3>3, <3>4, <3>5
  <2>2. CASE i # 0
    <3>1. /\ q = [w EXCEPT ![i].sup = j] /\ i \in 1 .. Len(w) /\ w[i].sym = sub
          /\ w \in Seq(Link) /\ j \in Nat /\ i \in 2 .. Len(w)
      BY <1>2, <1>3, <1>5, <2>2 DEF Entries
    <3> HIDE DEF i
    <3>2. /\ Len(q) = Len(w)
          /\ \A k \in 1 .. Len(w) : q[k].sym = w[k].sym
          /\ \A k \in 1 .. Len(w) : q[k].sup = IF k = i THEN j ELSE w[k].sup
      BY <3>1, RepointedIs
    <3>3. PICK m : m = i
      OBVIOUS
    <3>4. m \in 2 .. Len(q) /\ q[m].sym = sub /\ q[m].sup = j
      BY <3>1, <3>2, <3>3
    <3>5. q[j].sym = sup /\ Len(w) <= Len(q)
      BY <1>2, <1>5, <3>2
    <3>6. \A k \in 1 .. Len(w) :
            q[k].sym = w[k].sym /\ (w[k].sym # sub => q[k].sup = w[k].sup)
      BY <3>1, <3>2
    <3>7. QED
      BY <3>4, <3>5, <3>6
  <2>3. QED
    BY <2>1, <2>2
<1> HIDE DEF i
<1>7. Moves(types, q, {sub})
  <2>1. \A k \in 1 .. Len(types) : k \in 1 .. Len(w)
    BY <1>1, <1>5
  <2>2. Len(q) \in Nat
    BY <1>4 DEF Entries
  <2>3. QED
    BY <1>1, <1>5, <1>6, <2>1, <2>2 DEF Moves
<1>8. Leads(q, sub, sup)
  <2>1. PICK m \in 2 .. Len(q) : q[m].sym = sub /\ q[m].sup = j /\ q[j].sym = sup
    BY <1>6
  <2>2. m \in 1 .. Len(q) /\ j \in 1 .. Len(q) /\ j # 0
    BY <1>4, <2>1 DEF Entries
  <2>3. j \in Tails(q, m)
    BY <1>4, <2>1, <2>2, TailsClosed
  <2>4. QED
    BY <2>1, <2>2, <2>3 DEF Leads
<1>9. QED
  BY <1>4, <1>7, <1>8

\* What is below a type stays below it when it is registered.
LEMMA RegisterKeepsBelow ==
  ASSUME NEW types, NEW q, NEW sub, Hierarchy(types), Hierarchy(q), Moves(types, q, {sub}),
         NEW a, NEW b, Leads(types, a, b), b = sub \/ Leads(types, b, sub)
  PROVE  Leads(q, a, b)
<1>1. SUFFICES ASSUME Leads(types, sub, b), sub # b PROVE FALSE
  BY MovedBetween
<1>2. QED
  BY <1>1, LeadsOrder

Unrelated(types, a, b) == ~ SubtypeP(types, a, b) /\ ~ SubtypeP(types, b, a)

\* The types in moved have been put under types that they were not related to
\* before.
Parted(types, new, moved) ==
  /\ moved \subseteq Type /\ Moves(types, new, moved)
  /\ \A y \in moved : \E d \in Type : Unrelated(types, y, d) /\ Leads(new, y, d)

\* And those are under last by now.
Drawn(types, new, moved, last) ==
  /\ moved \subseteq Type /\ Moves(types, new, moved)
  /\ \A y \in moved : \E d \in Type :
       Unrelated(types, y, d) /\ Leads(new, y, d) /\ (d = last \/ Leads(new, d, last))
  /\ last \notin moved /\ (moved = {} \/ last \in Type)

LEMMA RegisterDraws ==
  ASSUME BuiltinsAreRanked, NEW types, NEW new, NEW moved, NEW sub \in Type, NEW sup \in Type,
         Hierarchy(types), Hierarchy(new), Drawn(types, new, moved, sub),
         Unrelated(new, sub, sup), NEW q, q = RegisterSubtype(new, sub, sup)
  PROVE  Drawn(types, q, moved \cup {sub}, sup)
<1>1. \A h : \A a, b \in Type : Hierarchy(h) => (SubtypeP(h, a, b) <=> a = b \/ Leads(h, a, b))
  <2>1. \A a \in Type : a # nil /\ a # t /\ a \in Symbol
    BY DEF BuiltinsAreRanked, Symbol
  <2>2. QED
    BY <2>1, SubtypeIs
<1>2. /\ sub # sup /\ ~ SubtypeP(new, sup, sub)
      /\ ~ Leads(new, sub, sup) /\ ~ Leads(new, sup, sub)
  BY <1>1 DEF Unrelated
<1>3. Hierarchy(q) /\ Moves(new, q, {sub}) /\ Leads(q, sub, sup)
  BY <1>2, RegisterMoves
<1>4. Len(types) \in Nat /\ Len(new) \in Nat /\ Len(q) \in Nat
  BY <1>3 DEF Hierarchy, Entries
<1>5. Moves(types, q, moved \cup {sub})
  BY <1>3, <1>4 DEF Drawn, Moves
<1>6. ASSUME NEW y \in moved, NEW d \in Type,
             Leads(new, y, d), d = sub \/ Leads(new, d, sub)
      PROVE  /\ Leads(new, y, sub) /\ Leads(q, y, d) /\ Leads(q, d, sup)
  <2>1. Leads(new, y, sub)
    BY <1>6, LeadsOrder
  <2>2. Leads(q, y, d)
    BY <1>3, <1>6, RegisterKeepsBelow
  <2>3. CASE d = sub
    BY <1>3, <2>1, <2>2, <2>3
  <2>4. CASE Leads(new, d, sub)
    <3>1. Leads(q, d, sub)
      BY <1>3, <2>4, RegisterKeepsBelow
    <3>2. Leads(q, d, sup)
      BY <1>3, <3>1, LeadsOrder
    <3>3. QED
      BY <2>1, <2>2, <3>2
  <2>5. QED
    BY <1>6, <2>3, <2>4
<1>7. \A y \in moved : Leads(new, y, sub)
  BY <1>6 DEF Drawn
<1>8. Unrelated(types, sub, sup)
  <2>1. ASSUME Leads(types, sub, sup) PROVE FALSE
    <3>1. PICK y \in moved : Leads(new, sub, y)
      BY <1>2, <2>1, MovedBetween DEF Drawn
    <3>2. y = sub
      BY <1>7, <3>1, LeadsOrder
    <3>3. QED
      BY <3>2 DEF Drawn
  <2>2. ASSUME Leads(types, sup, sub) PROVE FALSE
    <3>1. PICK y \in moved : Leads(new, sup, y)
      BY <1>2, <2>2, MovedBetween DEF Drawn
    <3>2. Leads(new, sup, sub)
      BY <1>7, <3>1, LeadsOrder
    <3>3. QED
      BY <1>2, <3>2
  <2>3. QED
    BY <1>1, <1>2, <2>1, <2>2 DEF Unrelated
<1>9. ASSUME NEW y \in moved \cup {sub}
      PROVE  \E d \in Type :
               Unrelated(types, y, d) /\ Leads(q, y, d) /\ (d = sup \/ Leads(q, d, sup))
  <2>1. CASE y = sub
    BY <1>3, <1>8, <2>1
  <2>2. CASE y \in moved
    <3>1. PICK d \in Type : Unrelated(types, y, d) /\ Leads(new, y, d)
                            /\ (d = sub \/ Leads(new, d, sub))
      BY <2>2 DEF Drawn
    <3>2. QED
      BY <1>6, <2>2, <3>1
  <2>3. QED
    BY <2>1, <2>2
<1>10. sup \notin moved
  BY <1>2, <1>7
<1>11. QED
  BY <1>2, <1>5, <1>9, <1>10 DEF Drawn

\* What the directive has done by the time it is at the i-th of its types.
Moved(types, state, last, moved) ==
  /\ Parted(types, state.types, moved)
  /\ state.outcome = "done" => Drawn(types, state.types, moved, last)

LEMMA ReducedMoves ==
  ASSUME BuiltinsAreRanked, NEW types, Hierarchy(types), NEW prev \in States,
         NEW sub \in Symbol, NEW sup \in Symbol, NEW moved, Moved(types, prev, sub, moved),
         NEW next, next = Reduced(prev, sub, sup)
  PROVE  \E m : Moved(types, next, sup, m)
<1>1. Hierarchy(prev.types) /\ prev.outcome \in {"done", "threw"}
  BY DEF States
<1>2. CASE prev.outcome = "threw" \/ Refused(prev.types, sub, sup)
  <2>1. next = [prev EXCEPT !.outcome = "threw"]
    BY <1>2 DEF Reduced
  <2>2. next.types = prev.types /\ next.outcome = "threw"
    BY <2>1 DEF States
  <2>3. QED
    BY <2>2 DEF Moved
<1>3. CASE prev.outcome = "done" /\ ~ Refused(prev.types, sub, sup)
  <2>1. next = [prev EXCEPT !.types = RegisterSubtype(prev.types, sub, sup)]
    BY <1>3 DEF Reduced
  <2>2. next.types = RegisterSubtype(prev.types, sub, sup) /\ next.outcome = "done"
    BY <1>3, <2>1 DEF States
  <2>3. Drawn(types, prev.types, moved, sub)
    BY <1>3 DEF Moved
  <2>4. CASE sub \notin Type
    <3>1. moved = {} /\ next.types = prev.types
      BY <2>2, <2>3, <2>4 DEF Drawn, RegisterSubtype, Symbol
    <3>2. Drawn(types, next.types, moved, sup) /\ Parted(types, next.types, moved)
      BY <2>3, <3>1 DEF Drawn, Parted
    <3>3. QED
      BY <3>2 DEF Moved
  <2>5. CASE sub \in Type
    <3>1. sub # nil /\ sub # t
      BY <2>5 DEF BuiltinsAreRanked
    <3>2. sup # nil /\ Unrelated(prev.types, sub, sup)
      BY <1>3, <3>1 DEF Refused, Unrelated
    <3>3. sup # t
      BY <3>2 DEF Unrelated, SubtypeP
    <3>4. sup \in Type
      BY <3>2, <3>3 DEF Symbol
    <3>5. PICK q, m : q = RegisterSubtype(prev.types, sub, sup) /\ m = moved \cup {sub}
      OBVIOUS
    <3>6. Drawn(types, q, m, sup)
      BY <1>1, <2>3, <2>5, <3>2, <3>4, <3>5, RegisterDraws
    <3>7. Parted(types, q, m)
      BY <3>6 DEF Drawn, Parted
    <3>8. QED
      BY <2>2, <3>5, <3>6, <3>7 DEF Moved
  <2>6. QED
    BY <2>4, <2>5
<1>4. QED
  BY <1>1, <1>2, <1>3

LEMMA DefinedMoves ==
  ASSUME BuiltinsAreRanked, NEW types, Hierarchy(types),
         NEW N \in Nat \ {0}, NEW chain \in [1 .. N -> Symbol]
  PROVE  \E moved : Parted(types, Defined(types, chain).types, moved)
<1>1. PICK h : Runs(h, types, chain, N) /\ Defined(types, chain) = h[N]
  BY DefinedIs
<1>2. \A i \in 1 .. N : h[i] \in States
  BY <1>1, RunsKeep
<1> DEFINE T == {n \in Nat : n < N => \E moved : Moved(types, h[n + 1], chain[n + 1], moved)}
<1>3. 0 \in T
  <2>1. h[1].types = types
    BY <1>1 DEF Runs
  <2>2. Parted(types, types, {}) /\ Drawn(types, types, {}, chain[1])
    BY DEF Parted, Drawn, Moves, Hierarchy, Entries
  <2>3. Moved(types, h[1], chain[1], {})
    BY <2>1, <2>2 DEF Moved
  <2>4. QED
    BY <2>3
<1>4. ASSUME NEW n \in Nat, n \in T PROVE n + 1 \in T
  <2>1. SUFFICES ASSUME n + 1 < N
                 PROVE \E moved : Moved(types, h[(n + 1) + 1], chain[(n + 1) + 1], moved)
    OBVIOUS
  <2>2. PICK k : k = n + 1
    OBVIOUS
  <2>3. PICK i : i = k + 1
    OBVIOUS
  <2>4. i \in 2 .. N /\ i - 1 = k /\ k \in 1 .. N /\ i \in 1 .. N
    BY <2>1, <2>2, <2>3
  <2>5. PICK moved : Moved(types, h[k], chain[k], moved)
    BY <1>4, <2>1, <2>2
  <2>6. h[i] = Reduced(h[k], chain[k], chain[i])
    BY <1>1, <2>4 DEF Runs
  <2>7. h[k] \in States /\ chain[k] \in Symbol /\ chain[i] \in Symbol
    BY <1>2, <2>4
  <2>8. \E m : Moved(types, h[i], chain[i], m)
    BY <2>5, <2>6, <2>7, ReducedMoves
  <2>9. QED
    BY <2>2, <2>3, <2>8
<1> HIDE DEF T
<1>5. Nat \subseteq T
  BY <1>3, <1>4, SetInduction
<1>6. N - 1 \in T /\ N - 1 < N /\ (N - 1) + 1 = N
  BY <1>5
<1>7. PICK moved : Moved(types, h[N], chain[N], moved)
  BY <1>6 DEF T
<1>8. QED
  BY <1>1, <1>7 DEF Moved

\* The @(defex) of one pair.
LEMMA PairIs ==
  ASSUME BuiltinsAreRanked, NEW types, Hierarchy(types), NEW sub \in Symbol, NEW sup \in Symbol,
         Defined(types, <<sub, sup>>).outcome = "done"
  PROVE  /\ ~ Refused(types, sub, sup)
         /\ Defined(types, <<sub, sup>>).types = RegisterSubtype(types, sub, sup)
<1>1. PICK chain : chain = <<sub, sup>>
  OBVIOUS
<1>2. chain \in [1 .. 2 -> Symbol] /\ chain[1] = sub /\ chain[2] = sup /\ 2 \in Nat \ {0}
  BY <1>1
<1>3. PICK h : Runs(h, types, chain, 2) /\ Defined(types, chain) = h[2]
  BY <1>2, DefinedIs
<1>4. 2 \in 2 .. 2 /\ 2 - 1 = 1
  OBVIOUS
<1>5. h[2] = Reduced(h[1], sub, sup) /\ h[1] = [types |-> types, outcome |-> "done"]
  BY <1>2, <1>3, <1>4 DEF Runs
<1>6. h[2].outcome = "done" /\ Defined(types, <<sub, sup>>) = h[2]
  BY <1>1, <1>3
<1>7. ~ Refused(types, sub, sup)
  BY <1>5, <1>6 DEF Reduced
<1>8. h[2].types = RegisterSubtype(types, sub, sup)
  BY <1>5, <1>7 DEF Reduced
<1>9. QED
  BY <1>6, <1>7, <1>8

\* It puts the first, with its subtypes, below the second.
LEMMA PairRelates ==
  ASSUME BuiltinsAreRanked, NEW types, Hierarchy(types), NEW sub \in Symbol, NEW sup \in Symbol,
         ~ Refused(types, sub, sup), NEW q, q = RegisterSubtype(types, sub, sup),
         NEW a \in Symbol, SubtypeP(types, a, sub)
  PROVE  SubtypeP(q, a, sup)
<1>1. CASE sub = nil
  <2>1. a = nil
    <3>1. ~ Leads(types, a, nil)
      <4>1. types \in Seq(Link) /\ \A e \in Link : e.sym # nil
        BY DEF Hierarchy, Entries, Link, BuiltinsAreRanked
      <4>2. \A i \in 1 .. Len(types) : types[i].sym # nil
        BY <4>1
      <4>3. QED
        BY <4>2 DEF Leads
    <3>2. QED
      BY <1>1, <3>1, SubtypeIs DEF BuiltinsAreRanked
  <2>2. QED
    BY <2>1 DEF SubtypeP
<1>2. CASE sub = t /\ sup = t
  BY <1>2 DEF SubtypeP
<1>3. CASE sub # nil /\ ~ (sub = t /\ sup = t)
  <2>1. /\ sub # t /\ sup # nil
        /\ ~ SubtypeP(types, sub, sup) /\ ~ SubtypeP(types, sup, sub)
    BY <1>3 DEF Refused
  <2>2. sup # t /\ sub # sup
    BY <2>1 DEF SubtypeP
  <2>3. sub \in Type /\ sup \in Type
    BY <1>3, <2>1, <2>2 DEF Symbol
  <2>4. Hierarchy(q) /\ Moves(types, q, {sub}) /\ Leads(q, sub, sup)
    BY <2>1, <2>2, <2>3, RegisterMoves
  <2>5. CASE a = nil
    BY <2>5 DEF SubtypeP
  <2>6. CASE a = sub
    BY <2>4, <2>6, SubtypeIs
  <2>7. CASE Leads(types, a, sub)
    <3>1. Leads(q, a, sub)
      BY <2>4, <2>7, RegisterKeepsBelow
    <3>2. Leads(q, a, sup)
      BY <2>4, <3>1, LeadsOrder
    <3>3. QED
      BY <2>4, <3>2, SubtypeIs
  <2>8. QED
    BY <2>1, <2>5, <2>6, <2>7, SubtypeIs
<1>4. QED
  BY <1>1, <1>2, <1>3

\* A step relates what it says, and parts no other types.
LEMMA StepRelates ==
  ASSUME BuiltinsAreRanked, IInv, NEW chain \in Chains, Defex(chain)
  PROVE  Relates
<1> DEFINE types == exception_subtypes
           new == exception_subtypes'
<1>1. PICK n \in 1 .. MaxChain : chain \in [1 .. n -> Symbol]
  BY DEF Chains
<1>2. n \in Nat \ {0} /\ Hierarchy(types)
  BY DEF BuiltinsAreRanked, IInv
<1>3. new = Defined(types, chain).types
  BY DEF Defex
<1>4. Hierarchy(new)
  <2>1. Defined(types, chain) \in States
    BY <1>1, <1>2, DefinedKeeps
  <2>2. QED
    BY <1>3, <2>1 DEF States
<1>5. PICK moved : Parted(types, new, moved)
  BY <1>1, <1>2, <1>3, DefinedMoves
<1>6. \A a, b \in Symbol : /\ IsSubtype(a, b) <=> SubtypeP(types, a, b)
                           /\ IsSubtype(a, b)' <=> SubtypeP(new, a, b)
  BY DEF IsSubtype
<1>7. \A h : \A a, b \in Type : Hierarchy(h) => (SubtypeP(h, a, b) <=> a = b \/ Leads(h, a, b))
  <2>1. \A a \in Type : a # nil /\ a # t /\ a \in Symbol
    BY DEF BuiltinsAreRanked, Symbol
  <2>2. QED
    BY <2>1, SubtypeIs
<1>8. Type \subseteq Symbol
  BY DEF Symbol
<1> HIDE DEF types, new
<1>10. OnlyRedefinedMove
  <2>1. SUFFICES ASSUME NEW a \in Type, NEW b \in Type,
                        SubtypeP(types, a, b), ~ SubtypeP(new, a, b)
                 PROVE  \E c, d \in Type :
                          /\ SubtypeP(types, a, c) /\ SubtypeP(types, c, b) /\ c # b
                          /\ ~ SubtypeP(types, c, d) /\ ~ SubtypeP(types, d, c)
                          /\ SubtypeP(new, c, d)
    BY DEF OnlyRedefinedMove, IsSubtype, types, new
  <2>2. Leads(types, a, b) /\ ~ Leads(new, a, b)
    BY <1>2, <1>4, <1>7, <2>1
  <2>3. PICK c \in moved : Leads(types, a, c) /\ Leads(types, c, b) /\ c # b
    BY <1>2, <1>4, <1>5, <2>2, MovedBetween DEF Parted
  <2>4. c \in Type
    BY <1>5 DEF Parted
  <2>5. PICK d \in Type : Unrelated(types, c, d) /\ Leads(new, c, d)
    BY <1>5 DEF Parted
  <2>6. SubtypeP(types, a, c) /\ SubtypeP(types, c, b) /\ SubtypeP(new, c, d)
    BY <1>2, <1>4, <1>7, <2>3, <2>4, <2>5
  <2>7. QED
    BY <2>3, <2>4, <2>5, <2>6 DEF Unrelated
<1>11. ASSUME outcome' = "done", NEW sub \in Symbol, NEW sup \in Symbol, Defex(<<sub, sup>>),
              NEW a \in Symbol, IsSubtype(a, sub)
       PROVE  IsSubtype(a, sup)'
  <2>1. new = Defined(types, <<sub, sup>>).types /\ Defined(types, <<sub, sup>>).outcome = "done"
    BY <1>11 DEF Defex, types, new
  <2>2. ~ Refused(types, sub, sup) /\ new = RegisterSubtype(types, sub, sup)
    BY <1>2, <2>1, PairIs
  <2>3. SubtypeP(types, a, sub)
    BY <1>6, <1>11
  <2>4. SubtypeP(new, a, sup)
    BY <1>2, <2>2, <2>3, PairRelates
  <2>5. QED
    BY <1>6, <2>4
<1>12. QED
  BY <1>10, <1>11 DEF Relates

\* A @(defex) relates what it says that it relates; and whether it succeeds or
\* throws half-way, it parts only types that it moves below another one.
THEOREM DefinitionsRelate ==
  ASSUME BuiltinsAreRanked
  PROVE  Spec => DefexRelates
<1>1. IInv /\ [Next]_vars => [Relates]_vars
  BY StepRelates DEF Next
<1>2. QED
  BY <1>1, Invariance, PTL DEF Spec, DefexRelates
=============================================================================
