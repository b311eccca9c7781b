--------------------------- MODULE WeakHashProofs ---------------------------
(***************************************************************************)
(* Proofs about WeakHash, for any objects and tables, except tables whose  *)
(* keys and values are both weak: hash.c does not keep those alive.        *)
(*                                                                         *)
(* Outside a collection nothing that is allocated leads to something that  *)
(* is not.  Between the marking and the sweep what is marked leads only to *)
(* marked things, but for the vectors and chains of the weak tables that   *)
(* wait on the list; processing one marks its own vector and chain and     *)
(* nothing else, since the keys and values of the entries that stay are    *)
(* marked by then.                                                         *)
(***************************************************************************)
EXTENDS WeakHash, FiniteSetTheorems, SequenceTheorems, Induction

\* No table has weak keys and weak values.
NoneBothWeak == \A h \in Hash : Kind[h] # "both"

Pair == [key : Thing, val : Thing]

\* A chain, with one entry for each key.
Row(c) ==
  /\ c \in Seq(Pair)
  /\ \A i, j \in 1 .. Len(c) : c[i].key = c[j].key => i = j

\* What S leads to through the vectors and chains is in S.
Leads(S, c) == \A h \in Hash : ChainSuccessors(S, h, c[h]) \subseteq S

\* Vector and chain of every table of S are there too.
Whole(S, tables, c) == \A h \in S \cap tables : AllParts(h, c[h]) \subseteq S

\* The positions of the entries whose weak part the marking found.
Holding(h) ==
  {i \in 1 .. Len(start.chain[h]) :
     /\ Kind[h] = "keys" => start.chain[h][i].key \in start.marked
     /\ Kind[h] = "vals" => start.chain[h][i].val \in start.marked}

\* The inductive invariant: types,
Typed ==
  /\ roots \subseteq Thing /\ heap \subseteq Node
  /\ DOMAIN chain = Hash /\ \A h \in Hash : Row(chain[h])
  /\ count \in [Hash -> Int] /\ \A h \in Hash : count[h] >= Len(chain[h])

\* the heap,
HeapIsWhole == roots \subseteq heap /\ Whole(heap, Hash, chain)
Running ==
  pc = "run" => marked = {} /\ pending = {} /\ Leads(heap, chain)

\* the marks between the marking and the sweep,
Marking ==
  pc = "weak" =>
    /\ roots \subseteq marked /\ marked \subseteq heap
    /\ Leads(marked, chain)
    /\ \A h \in marked \cap Hash : HashMark(h, chain[h]) \subseteq marked
    /\ pending \subseteq {h \in marked \cap Hash : Linked(h)}
    /\ Whole(marked, Hash \ pending, chain)

\* and what has been done since the marking ended.
Since ==
  pc = "weak" =>
    /\ start.marked \subseteq marked
    /\ marked \subseteq start.marked
         \cup UNION {AllParts(h, chain[h]) : h \in (marked \cap Hash) \ pending}
    /\ \A h \in marked \cap Hash :
         chain[h] = IF h \in pending THEN start.chain[h] ELSE Those(start.chain[h], Holding(h))
    /\ start.word = NoWord => start.marked = MarkFrom(roots, start.chain)
IInv == Typed /\ HeapIsWhole /\ Running /\ Marking /\ Since

-----------------------------------------------------------------------------
\* The first n entries of c at positions in S.
Selects(q, c, S, n) ==
  /\ q \in Seq(Pair) /\ Len(q) <= n
  /\ \A p \in 1 .. Len(q) : \E i \in 1 .. n : i \in S /\ q[p] = c[i]
  /\ \A i \in 1 .. n : i \in S => \E p \in 1 .. Len(q) : q[p] = c[i]
  /\ \A p, r \in 1 .. Len(q) : q[p].key = q[r].key => p = r
  /\ (\E i \in 1 .. n : i \notin S) => Len(q) <= n - 1
  /\ (\A i \in 1 .. n : i \in S) => Len(q) = n /\ \A p \in 1 .. n : q[p] = c[p]

\* One more entry.
LEMMA SelectsOne ==
  ASSUME NEW c, Row(c), NEW S, NEW n \in Nat, n + 1 <= Len(c), NEW q, Selects(q, c, S, n),
         NEW new, new = IF n + 1 \in S THEN Append(q, c[n + 1]) ELSE q
  PROVE  Selects(new, c, S, n + 1)
<1>1. PICK l : l = n + 1
  OBVIOUS
<1>2. /\ l \in 1 .. l /\ l \in 1 .. Len(c) /\ Len(c) \in Nat /\ c[l] \in Pair
      /\ \A i \in 1 .. l : i \in 1 .. n \/ i = l
      /\ \A i \in 1 .. n : i \in 1 .. l /\ i # l /\ i \in 1 .. Len(c)
  BY <1>1 DEF Row
<1>3. /\ q \in Seq(Pair) /\ Len(q) \in Nat /\ Len(q) <= n
      /\ \A p \in 1 .. Len(q) : \E i \in 1 .. n : i \in S /\ q[p] = c[i]
      /\ \A i \in 1 .. n : i \in S => \E p \in 1 .. Len(q) : q[p] = c[i]
      /\ \A p, r \in 1 .. Len(q) : q[p].key = q[r].key => p = r
      /\ (\E i \in 1 .. n : i \notin S) => Len(q) <= n - 1
      /\ (\A i \in 1 .. n : i \in S) => Len(q) = n /\ \A p \in 1 .. n : q[p] = c[p]
  BY DEF Selects
<1>4. CASE l \notin S
  <2>1. new = q /\ Len(q) <= l - 1
    BY <1>1, <1>3, <1>4
  <2>2. \A p \in 1 .. Len(q) : \E i \in 1 .. l : i \in S /\ q[p] = c[i]
    BY <1>2, <1>3
  <2>3. \A i \in 1 .. l : i \in S => \E p \in 1 .. Len(q) : q[p] = c[i]
    BY <1>2, <1>3, <1>4
  <2>4. ~ \A i \in 1 .. l : i \in S
    BY <1>2, <1>4
  <2>5. Len(q) <= l
    BY <1>1, <1>3
  <2>6. Selects(q, c, S, l)
    BY <1>3, <2>1, <2>2, <2>3, <2>4, <2>5 DEF Selects
  <2>7. QED
    BY <1>1, <2>1, <2>6
<1>5. CASE l \in S
  <2> DEFINE N == Len(q)
  <2>1. new = Append(q, c[l])
    BY <1>1, <1>5
  <2>2. /\ new \in Seq(Pair) /\ Len(new) = N + 1 /\ new[N + 1] = c[l]
        /\ \A p \in 1 .. N : new[p] = q[p]
    BY <1>2, <1>3, <2>1
  <2>3. PICK m : m = N + 1
    OBVIOUS
  <2>4. /\ m \in 1 .. m /\ Len(new) = m /\ new[m] = c[l] /\ m <= l
        /\ \A p \in 1 .. m : p \in 1 .. N \/ p = m
        /\ \A p \in 1 .. N : p \in 1 .. m /\ p # m
    BY <1>1, <1>3, <2>2, <2>3, SMTT(30)
  <2> HIDE DEF N
  <2>5. \A p \in 1 .. m : \E i \in 1 .. l : i \in S /\ new[p] = c[i]
    <3>1. ASSUME NEW p \in 1 .. m PROVE \E i \in 1 .. l : i \in S /\ new[p] = c[i]
      <4>1. CASE p = m
        BY <1>2, <1>5, <2>4, <4>1
      <4>2. CASE p \in 1 .. N
        <5>1. PICK i \in 1 .. n : i \in S /\ q[p] = c[i]
          BY <1>3, <4>2 DEF N
        <5>2. i \in 1 .. l /\ new[p] = c[i]
          BY <1>2, <2>2, <4>2, <5>1
        <5>3. QED
          BY <5>1, <5>2
      <4>3. QED
        BY <2>4, <4>1, <4>2
    <3>2. QED
      BY <3>1
  <2>6. \A i \in 1 .. l : i \in S => \E p \in 1 .. m : new[p] = c[i]
    <3>1. ASSUME NEW i \in 1 .. l, i \in S PROVE \E p \in 1 .. m : new[p] = c[i]
      <4>1. CASE i = l
        BY <2>4, <4>1
      <4>2. CASE i \in 1 .. n
        <5>1. PICK p \in 1 .. N : q[p] = c[i]
          BY <1>3, <3>1, <4>2 DEF N
        <5>2. QED
          BY <2>2, <2>4, <5>1
      <4>3. QED
        BY <1>2, <4>1, <4>2
    <3>2. QED
      BY <3>1
  <2>7. \A p \in 1 .. N : q[p].key # c[l].key
    <3>1. ASSUME NEW p \in 1 .. N, q[p].key = c[l].key PROVE FALSE
      <4>1. PICK i \in 1 .. n : q[p] = c[i]
        BY <1>3 DEF N
      <4>2. i \in 1 .. Len(c) /\ i # l /\ c[i].key = c[l].key
        BY <1>2, <3>1, <4>1
      <4>3. QED
        BY <1>2, <4>2 DEF Row
    <3>2. QED
      BY <3>1
  <2>8. ASSUME NEW p \in 1 .. m, NEW r \in 1 .. m, new[p].key = new[r].key PROVE p = r
    <3>1. CASE p = m /\ r = m
      BY <3>1
    <3>2. CASE p = m /\ r \in 1 .. N
      <4>1. q[r].key = c[l].key
        BY <2>2, <2>4, <2>8, <3>2
      <4>2. QED
        BY <2>7, <3>2, <4>1
    <3>3. CASE p \in 1 .. N /\ r = m
      <4>1. q[p].key = c[l].key
        BY <2>2, <2>4, <2>8, <3>3
      <4>2. QED
        BY <2>7, <3>3, <4>1
    <3>4. CASE p \in 1 .. N /\ r \in 1 .. N
      BY <1>3, <2>2, <2>8, <3>4 DEF N
    <3>5. QED
      BY <2>4, <3>1, <3>2, <3>3, <3>4
  <2>9. (\E i \in 1 .. l : i \notin S) => m <= l - 1
    <3>1. ASSUME NEW i \in 1 .. l, i \notin S PROVE m <= l - 1
      <4>1. i \in 1 .. n
        BY <1>2, <1>5, <3>1
      <4>2. N <= n - 1
        BY <1>3, <3>1, <4>1 DEF N
      <4>3. N \in Nat
        BY <1>3 DEF N
      <4>4. QED
        BY <1>1, <2>3, <4>2, <4>3
    <3>2. QED
      BY <3>1
  <2>10. ASSUME \A i \in 1 .. l : i \in S PROVE m = l /\ \A p \in 1 .. l : new[p] = c[p]
    <3>1. \A i \in 1 .. n : i \in S
      BY <1>2, <2>10
    <3>2. N = n /\ \A p \in 1 .. n : q[p] = c[p]
      BY <1>3, <3>1 DEF N
    <3>3. m = l
      BY <1>1, <2>3, <3>2
    <3>4. ASSUME NEW p \in 1 .. l PROVE new[p] = c[p]
      <4>1. CASE p = l
        BY <2>4, <3>3, <4>1
      <4>2. CASE p \in 1 .. n
        BY <2>2, <3>2, <4>2
      <4>3. QED
        BY <1>2, <4>1, <4>2
    <3>5. QED
      BY <3>3, <3>4
  <2>11. Selects(new, c, S, l)
    BY <2>2, <2>4, <2>5, <2>6, <2>8, <2>9, <2>10 DEF Selects
  <2>12. QED
    BY <1>1, <2>11
<1>6. QED
  BY <1>1, <1>4, <1>5

\* Those() selects the entries at the positions in S.
LEMMA ThoseAre ==
  ASSUME NEW c, Row(c), NEW S
  PROVE  Selects(Those(c, S), c, S, Len(c))
<1> DEFINE N == Len(c)
           Add(n, q) == IF n \in S THEN Append(q, c[n]) ELSE q
           Is(h) == h = [n \in 0 .. N |-> IF n = 0 THEN <<>> ELSE Add(n, h[n - 1])]
           F == [p \in (1 .. N) \X Seq(Pair) |-> Add(p[1], p[2])]
<1>1. N \in Nat /\ \A n \in 1 .. N : c[n] \in Pair
  BY DEF Row
<1>2. \A n \in 1 .. N, q \in Seq(Pair) : Add(n, q) \in Seq(Pair) /\ F[<<n, q>>] = Add(n, q)
  BY <1>1
<1>3. Those(c, S) = (CHOOSE h : Is(h))[N]
  <2>1. \A h : Is(h) <=> h = [n \in 0 .. N |->
                                IF n = 0 THEN <<>>
                                ELSE IF n \in S THEN Append(h[n - 1], c[n]) ELSE h[n - 1]]
    OBVIOUS
  <2>2. QED
    BY DEF Those
<1>4. F \in Steps(N, Seq(Pair))
  <2> HIDE DEF Add
  <2>1. QED
    BY <1>2 DEF Steps
<1> HIDE DEF F, Add, N
<1>5. PICK g : Solves(g, <<>>, F, N, Seq(Pair))
  <2>1. <<>> \in Seq(Pair)
    OBVIOUS
  <2>2. QED
    BY <1>1, <1>4, <2>1, Recursion
<1>6. Is(g)
  <2>1. g \in [0 .. N -> Seq(Pair)] /\ g[0] = <<>>
    BY <1>5 DEF Solves
  <2>2. ASSUME NEW n \in 0 .. N PROVE g[n] = IF n = 0 THEN <<>> ELSE Add(n, g[n - 1])
    <3>1. CASE n = 0
      BY <2>1, <3>1
    <3>2. CASE n \in 1 .. N
      <4>1. n - 1 \in 0 .. N /\ n # 0
        BY <1>1, <3>2
      <4>2. g[n] = F[<<n, g[n - 1]>>] /\ g[n - 1] \in Seq(Pair)
        BY <1>5, <2>1, <3>2, <4>1 DEF Solves
      <4>3. QED
        BY <1>2, <3>2, <4>1, <4>2
    <3>3. QED
      BY <1>1, <3>1, <3>2
  <2>3. QED
    BY <2>1, <2>2
<1>7. PICK h : Is(h) /\ Those(c, S) = h[N]
  <2> HIDE DEF Is
  <2>1. Is(CHOOSE h : Is(h))
    BY <1>6, Zenon
  <2>2. QED
    BY <1>3, <2>1
<1>8. h[0] = <<>> /\ \A n \in 1 .. N : h[n] = Add(n, h[n - 1])
  <2>1. \A n \in 0 .. N : h[n] = IF n = 0 THEN <<>> ELSE Add(n, h[n - 1])
    BY <1>7
  <2>2. \A n \in 1 .. N : n \in 0 .. N /\ n # 0
    BY <1>1
  <2>3. QED
    BY <1>1, <2>1, <2>2
<1> HIDE DEF Is
<1> DEFINE T == {n \in Nat : n <= N => Selects(h[n], c, S, n)}
<1>9. 0 \in T
  <2>1. <<>> \in Seq(Pair) /\ Len(<<>>) = 0
    OBVIOUS
  <2>2. \A p \in 1 .. 0 : FALSE
    OBVIOUS
  <2>3. Selects(<<>>, c, S, 0)
    BY <2>1, <2>2 DEF Selects
  <2>4. QED
    BY <1>8, <2>3
<1>10. ASSUME NEW n \in Nat, n \in T PROVE n + 1 \in T
  <2>1. SUFFICES ASSUME n + 1 <= N PROVE Selects(h[n + 1], c, S, n + 1)
    OBVIOUS
  <2>2. Selects(h[n], c, S, n) /\ n + 1 \in 1 .. N /\ (n + 1) - 1 = n
    BY <1>1, <1>10, <2>1
  <2>3. h[n + 1] = IF n + 1 \in S THEN Append(h[n], c[n + 1]) ELSE h[n]
    BY <1>8, <2>2 DEF Add
  <2>4. n + 1 <= Len(c)
    BY <2>1 DEF N
  <2> HIDE DEF T
  <2>5. PICK q, new : q = h[n] /\ new = h[n + 1]
    OBVIOUS
  <2>6. Selects(new, c, S, n + 1)
    BY <2>2, <2>3, <2>4, <2>5, SelectsOne
  <2>7. QED
    BY <2>5, <2>6
<1> HIDE DEF T
<1>11. Nat \subseteq T
  BY <1>9, <1>10, SetInduction
<1>12. Selects(h[N], c, S, N)
  BY <1>1, <1>11 DEF T
<1>13. QED
  BY <1>7, <1>12 DEF N

\* What a chain becomes when entries are taken out of it.
LEMMA ThoseRow ==
  ASSUME NEW c, Row(c), NEW S, NEW new, new = Those(c, S)
  PROVE  /\ Row(new) /\ Len(new) <= Len(c)
         /\ \A p \in 1 .. Len(new) : \E i \in 1 .. Len(c) : i \in S /\ new[p] = c[i]
         /\ \A i \in 1 .. Len(c) : i \notin S => Len(new) <= Len(c) - 1
         /\ (\A i \in 1 .. Len(c) : i \in S) => new = c
<1>1. Selects(new, c, S, Len(c))
  BY ThoseAre
<1>2. new \in Seq(Pair) /\ c \in Seq(Pair)
  BY <1>1 DEF Selects, Row
<1>3. Row(new)
  BY <1>1 DEF Selects, Row
<1>4. ASSUME \A i \in 1 .. Len(c) : i \in S PROVE new = c
  <2>1. Len(new) = Len(c) /\ \A p \in 1 .. Len(c) : new[p] = c[p]
    BY <1>1, <1>4 DEF Selects
  <2>2. QED
    BY <1>2, <2>1, SeqEqual
<1>5. QED
  BY <1>1, <1>3, <1>4 DEF Selects

\* A table, its vector, its conses and its entries are different nodes.
LEMMA Shapes ==
  /\ \A h, g : Vector(h) = Vector(g) => h = g
  /\ \A h, g, k, l : ConsOf(h, k) = ConsOf(g, l) => h = g /\ k = l
  /\ \A h, g, k, l : Entry(h, k) = Entry(g, l) => h = g /\ k = l
  /\ \A h, g, k, l : /\ Vector(h) # ConsOf(g, l) /\ Vector(h) # Entry(g, l)
                     /\ ConsOf(h, k) # Entry(g, l)
  /\ \A h \in Hash, k \in Thing : Vector(h) \notin Thing /\ ConsOf(h, k) \notin Thing
                                  /\ Entry(h, k) \notin Thing
<1>1. \A h, g : Vector(h) = Vector(g) => h = g
  BY DEF Vector
<1>2. \A h, g, k, l : ConsOf(h, k) = ConsOf(g, l) => h = g /\ k = l
  BY DEF ConsOf
<1>3. \A h, g, k, l : Entry(h, k) = Entry(g, l) => h = g /\ k = l
  BY DEF Entry
<1>4. \A h, g, k, l : ConsOf(h, k) # Entry(g, l)
  <2>1. ASSUME NEW h, NEW g, NEW k, NEW l, ConsOf(h, k) = Entry(g, l) PROVE FALSE
    <3>1. ConsOf(h, k)[2] = "cons" /\ Entry(g, l)[2] = "entry"
      BY DEF ConsOf, Entry
    <3>2. QED
      BY <2>1, <3>1
  <2>2. QED
    BY <2>1
<1>5. \A h, g, l : Vector(h) # ConsOf(g, l)
  <2>1. ASSUME NEW h, NEW g, NEW l, Vector(h) = ConsOf(g, l) PROVE FALSE
    <3>1. Vector(h)[2] = "table" /\ ConsOf(g, l)[2] = "cons"
      BY DEF Vector, ConsOf
    <3>2. QED
      BY <2>1, <3>1
  <2>2. QED
    BY <2>1
<1>6. \A h, g, l : Vector(h) # Entry(g, l)
  <2>1. ASSUME NEW h, NEW g, NEW l, Vector(h) = Entry(g, l) PROVE FALSE
    <3>1. Vector(h)[2] = "table" /\ Entry(g, l)[2] = "entry"
      BY DEF Vector, Entry
    <3>2. QED
      BY <2>1, <3>1
  <2>2. QED
    BY <2>1
<1>7. \A h \in Hash, k \in Thing : Vector(h) \notin Thing /\ ConsOf(h, k) \notin Thing
                                   /\ Entry(h, k) \notin Thing
  BY WeakHashAssumption
<1>8. QED
  BY <1>1, <1>2, <1>3, <1>4, <1>5, <1>6, <1>7

-----------------------------------------------------------------------------
\* What R leads to through the chain c of h is in S.
Links(R, S, h, c) ==
  /\ Vector(h) \in R /\ c # <<>> => ConsOf(h, c[1].key) \in S
  /\ \A i \in 1 .. Len(c) : ConsOf(h, c[i].key) \in R => Entry(h, c[i].key) \in S
  /\ \A i \in 1 .. Len(c) - 1 : ConsOf(h, c[i].key) \in R => ConsOf(h, c[i + 1].key) \in S
  /\ \A i \in 1 .. Len(c) : Entry(h, c[i].key) \in R => c[i].key \in S /\ c[i].val \in S

LEMMA RangeIs ==
  ASSUME NEW c, Row(c)
  PROVE  Range(c) = {c[i] : i \in 1 .. Len(c)}
BY DEF Row, Range

LEMMA LeadsIs ==
  ASSUME NEW c, Row(c), NEW R, NEW S, NEW h
  PROVE  ChainSuccessors(R, h, c) \subseteq S <=> Links(R, S, h, c)
<1>1. Range(c) = {c[i] : i \in 1 .. Len(c)}
  BY RangeIs
<1>2. {Entry(h, e.key) : e \in {e \in Range(c) : ConsOf(h, e.key) \in R}} \subseteq S
      <=> \A i \in 1 .. Len(c) : ConsOf(h, c[i].key) \in R => Entry(h, c[i].key) \in S
  BY <1>1
<1>3. {ConsOf(h, c[i + 1].key) : i \in {i \in 1 .. Len(c) - 1 : ConsOf(h, c[i].key) \in R}} \subseteq S
      <=> \A i \in 1 .. Len(c) - 1 : ConsOf(h, c[i].key) \in R => ConsOf(h, c[i + 1].key) \in S
  OBVIOUS
<1>4. UNION {{e.key, e.val} : e \in {e \in Range(c) : Entry(h, e.key) \in R}} \subseteq S
      <=> \A i \in 1 .. Len(c) : Entry(h, c[i].key) \in R => c[i].key \in S /\ c[i].val \in S
  <2>1. PICK E : E = {e \in Range(c) : Entry(h, e.key) \in R}
    OBVIOUS
  <2>2. UNION {{e.key, e.val} : e \in E} \subseteq S <=> \A e \in E : e.key \in S /\ e.val \in S
    OBVIOUS
  <2>3. (\A e \in E : e.key \in S /\ e.val \in S)
        <=> \A i \in 1 .. Len(c) : Entry(h, c[i].key) \in R => c[i].key \in S /\ c[i].val \in S
    BY <1>1, <2>1
  <2>4. QED
    BY <2>1, <2>2, <2>3
<1>5. (IF Vector(h) \in R /\ c # <<>> THEN {ConsOf(h, c[1].key)} ELSE {}) \subseteq S
      <=> (Vector(h) \in R /\ c # <<>> => ConsOf(h, c[1].key) \in S)
  OBVIOUS
<1> DEFINE A == IF Vector(h) \in R /\ c # <<>> THEN {ConsOf(h, c[1].key)} ELSE {}
           B == {Entry(h, e.key) : e \in {e \in Range(c) : ConsOf(h, e.key) \in R}}
           C == {ConsOf(h, c[i + 1].key) : i \in {i \in 1 .. Len(c) - 1 : ConsOf(h, c[i].key) \in R}}
           D == UNION {{e.key, e.val} : e \in {e \in Range(c) : Entry(h, e.key) \in R}}
<1>6. ChainSuccessors(R, h, c) = A \cup B \cup C \cup D
  BY DEF ChainSuccessors
<1>7. A \subseteq S /\ B \subseteq S /\ C \subseteq S /\ D \subseteq S <=> Links(R, S, h, c)
  BY <1>2, <1>3, <1>4, <1>5 DEF Links
<1> HIDE DEF A, B, C, D
<1>8. QED
  BY <1>6, <1>7

\* From a cons on, all of the chain is in such a set.
LEMMA Along ==
  ASSUME NEW c, Row(c), NEW S, NEW h, Links(S, S, h, c),
         NEW i \in 1 .. Len(c), ConsOf(h, c[i].key) \in S
  PROVE  \A j \in i .. Len(c) : ConsOf(h, c[j].key) \in S /\ Entry(h, c[j].key) \in S
<1>1. Len(c) \in Nat
  BY DEF Row
<1> DEFINE T == {n \in Nat : i + n <= Len(c) => ConsOf(h, c[i + n].key) \in S}
<1>2. 0 \in T
  <2>1. i + 0 = i
    OBVIOUS
  <2>2. QED
    BY <2>1
<1>3. ASSUME NEW n \in Nat, n \in T PROVE n + 1 \in T
  <2>1. SUFFICES ASSUME i + (n + 1) <= Len(c) PROVE ConsOf(h, c[i + (n + 1)].key) \in S
    OBVIOUS
  <2>2. PICK p : p = i + n
    OBVIOUS
  <2>3. p \in 1 .. Len(c) - 1 /\ i + (n + 1) = p + 1 /\ ConsOf(h, c[p].key) \in S
    BY <1>1, <1>3, <2>1, <2>2
  <2>4. QED
    BY <2>3 DEF Links
<1> HIDE DEF T
<1>4. Nat \subseteq T
  BY <1>2, <1>3, SetInduction
<1>5. ASSUME NEW j \in i .. Len(c) PROVE ConsOf(h, c[j].key) \in S
  <2>1. PICK n : n = j - i
    OBVIOUS
  <2>2. n \in Nat /\ i + n = j /\ j <= Len(c)
    BY <1>1, <2>1
  <2>3. n \in T
    BY <1>4, <2>2
  <2>4. QED
    BY <2>2, <2>3 DEF T
<1>6. \A j \in i .. Len(c) : j \in 1 .. Len(c)
  BY <1>1
<1>7. QED
  BY <1>5, <1>6 DEF Links

\* From the vector, the whole table.
LEMMA FromVector ==
  ASSUME NEW c, Row(c), NEW S, NEW h, Links(S, S, h, c), Vector(h) \in S
  PROVE  AllParts(h, c) \subseteq S
<1>1. Len(c) \in Nat /\ c \in Seq(Pair)
  BY DEF Row
<1>2. ASSUME NEW j \in 1 .. Len(c)
      PROVE  ConsOf(h, c[j].key) \in S /\ Entry(h, c[j].key) \in S
  <2>1. c # <<>> /\ 1 \in 1 .. Len(c)
    BY <1>1, <1>2
  <2>2. ConsOf(h, c[1].key) \in S
    BY <2>1 DEF Links
  <2>3. \A i \in 1 .. Len(c) : ConsOf(h, c[i].key) \in S /\ Entry(h, c[i].key) \in S
    BY <2>1, <2>2, Along
  <2>4. QED
    BY <2>3
<1>3. AllParts(h, c) = {Vector(h)} \cup UNION {Parts(h, k) : k \in Keys(c)}
  BY DEF AllParts
<1>4. \A k \in Keys(c) : Parts(h, k) \subseteq S
  BY <1>2 DEF Keys, Parts
<1>5. QED
  BY <1>3, <1>4

\* What is in a table.
LEMMA PartsAre ==
  ASSUME NEW c, NEW h
  PROVE  /\ \A x : x \in AllParts(h, c) <=>
                \/ x = Vector(h)
                \/ \E i \in 1 .. Len(c) : x = ConsOf(h, c[i].key) \/ x = Entry(h, c[i].key)
BY DEF AllParts, Parts, Keys

-----------------------------------------------------------------------------
\* Chains, and what each table marks.
Chains(c) == \A h \in Hash : Row(c[h])
Markers(marks) == \A h \in Hash : marks[h] \subseteq Node

\* Nothing that S leads to is outside T, and outside S.
Into(S, T, c, marks) ==
  /\ \A h \in S \cap Hash : marks[h] \subseteq T
  /\ \A h \in Hash : ChainSuccessors(S, h, c[h]) \subseteq T
Complete(S, c, marks) == Into(S, S, c, marks)

\* There are finitely many nodes.
LEMMA NodesAre ==
  /\ IsFiniteSet(Node) /\ Thing \subseteq Node
  /\ \A h \in Hash : Vector(h) \in Node
  /\ \A h \in Hash, k \in Thing : ConsOf(h, k) \in Node /\ Entry(h, k) \in Node
<1> DEFINE V == {Vector(h) : h \in Hash}
           C == {ConsOf(h, k) : h \in Hash, k \in Thing}
           E == {Entry(h, k) : h \in Hash, k \in Thing}
<1>1. IsFiniteSet(Obj) /\ IsFiniteSet(Hash)
  BY WeakHashAssumption
<1>2. IsFiniteSet(Thing)
  BY <1>1, FS_Union DEF Thing
<1>3. IsFiniteSet(Hash \X Thing)
  BY <1>1, <1>2, FS_Product
<1>4. IsFiniteSet(V)
  <2>1. [h \in Hash |-> Vector(h)] \in Surjection(Hash, V)
    BY DEF Surjection
  <2>2. QED
    BY <1>1, <2>1, FS_Surjection
<1>5. IsFiniteSet(C)
  <2> DEFINE f == [p \in Hash \X Thing |-> ConsOf(p[1], p[2])]
  <2>1. f \in Surjection(Hash \X Thing, C)
    <3>1. \A h \in Hash, k \in Thing : <<h, k>> \in Hash \X Thing /\ f[<<h, k>>] = ConsOf(h, k)
      OBVIOUS
    <3>2. ASSUME NEW p \in Hash \X Thing PROVE f[p] \in C
      <4>1. PICK h \in Hash, k \in Thing : p = <<h, k>>
        OBVIOUS
      <4>2. QED
        BY <3>1, <4>1
    <3>3. ASSUME NEW x \in C PROVE \E p \in Hash \X Thing : f[p] = x
      <4>1. PICK h \in Hash, k \in Thing : x = ConsOf(h, k)
        OBVIOUS
      <4>2. <<h, k>> \in Hash \X Thing /\ f[<<h, k>>] = x
        BY <3>1, <4>1
      <4> HIDE DEF f
      <4>3. QED
        BY <4>2
    <3>4. f \in [Hash \X Thing -> C]
      <4>1. f = [p \in Hash \X Thing |-> f[p]]
        OBVIOUS
      <4> HIDE DEF f
      <4>2. QED
        BY <3>2, <4>1
    <3>5. QED
      BY <3>3, <3>4 DEF Surjection
  <2>2. QED
    BY <1>3, <2>1, FS_Surjection
<1>6. IsFiniteSet(E)
  <2> DEFINE f == [p \in Hash \X Thing |-> Entry(p[1], p[2])]
  <2>1. f \in Surjection(Hash \X Thing, E)
    <3>1. \A h \in Hash, k \in Thing : <<h, k>> \in Hash \X Thing /\ f[<<h, k>>] = Entry(h, k)
      OBVIOUS
    <3>2. ASSUME NEW p \in Hash \X Thing PROVE f[p] \in E
      <4>1. PICK h \in Hash, k \in Thing : p = <<h, k>>
        OBVIOUS
      <4>2. QED
        BY <3>1, <4>1
    <3>3. ASSUME NEW x \in E PROVE \E p \in Hash \X Thing : f[p] = x
      <4>1. PICK h \in Hash, k \in Thing : x = Entry(h, k)
        OBVIOUS
      <4>2. <<h, k>> \in Hash \X Thing /\ f[<<h, k>>] = x
        BY <3>1, <4>1
      <4> HIDE DEF f
      <4>3. QED
        BY <4>2
    <3>4. f \in [Hash \X Thing -> E]
      <4>1. f = [p \in Hash \X Thing |-> f[p]]
        OBVIOUS
      <4> HIDE DEF f
      <4>2. QED
        BY <3>2, <4>1
    <3>5. QED
      BY <3>3, <3>4 DEF Surjection
  <2>2. QED
    BY <1>3, <2>1, FS_Surjection
<1>7. Node = ((Thing \cup V) \cup C) \cup E
  BY DEF Node
<1>8. /\ \A h \in Hash : Vector(h) \in V
      /\ \A h \in Hash, k \in Thing : ConsOf(h, k) \in C /\ Entry(h, k) \in E
  OBVIOUS
<1> HIDE DEF V, C, E
<1>9. IsFiniteSet(Node)
  <2>1. IsFiniteSet(Thing \cup V)
    BY <1>2, <1>4, FS_Union
  <2>2. IsFiniteSet((Thing \cup V) \cup C)
    BY <1>5, <2>1, FS_Union
  <2>3. QED
    BY <1>6, <1>7, <2>2, FS_Union
<1>10. QED
  BY <1>7, <1>8, <1>9

\* A step of the marking.
LEMMA OnwardIs ==
  ASSUME NEW c, Chains(c), NEW marks, Markers(marks), NEW R \in SUBSET Node
  PROVE  /\ R \subseteq Onward(R, c, marks) /\ Onward(R, c, marks) \subseteq Node
         /\ Onward(R, c, marks) = R => Complete(R, c, marks)
         /\ \A T : R \subseteq T /\ Complete(T, c, marks) => Onward(R, c, marks) \subseteq T
<1> DEFINE M == UNION {marks[h] : h \in R \cap Hash}
           L == UNION {ChainSuccessors(R, h, c[h]) : h \in Hash}
<1>1. Onward(R, c, marks) = R \cup M \cup L
  BY DEF Onward
<1>2. M \subseteq Node
  <2>1. ASSUME NEW x \in M PROVE x \in Node
    <3>1. PICK h \in R \cap Hash : x \in marks[h]
      OBVIOUS
    <3>2. marks[h] \subseteq Node
      BY DEF Markers
    <3>3. QED
      BY <3>1, <3>2
  <2>2. QED
    BY <2>1
<1>3. ASSUME NEW h \in Hash PROVE ChainSuccessors(R, h, c[h]) \subseteq Node
  <2>1. Row(c[h]) /\ \A i \in 1 .. Len(c[h]) : c[h][i].key \in Thing /\ c[h][i].val \in Thing
    <3>1. Row(c[h])
      BY DEF Chains
    <3>2. \A i \in 1 .. Len(c[h]) : c[h][i] \in Pair
      BY <3>1 DEF Row
    <3>3. QED
      BY <3>1, <3>2 DEF Pair
  <2>2. Len(c[h]) \in Nat /\ (c[h] # <<>> => Len(c[h]) # 0)
    BY <2>1 DEF Row
  <2>3. /\ c[h] # <<>> => 1 \in 1 .. Len(c[h])
        /\ \A i \in 1 .. Len(c[h]) - 1 : i + 1 \in 1 .. Len(c[h])
    BY <2>2
  <2>4. Links(R, Node, h, c[h])
    BY <2>1, <2>3, NodesAre DEF Links
  <2>5. QED
    BY <2>1, <2>4, LeadsIs
<1>4. L \subseteq Node
  BY <1>3
<1>5. ASSUME M \subseteq R, L \subseteq R PROVE Complete(R, c, marks)
  BY <1>5 DEF Complete, Into
<1>6. ASSUME NEW T, R \subseteq T, Complete(T, c, marks) PROVE M \subseteq T /\ L \subseteq T
  <2>1. M \subseteq T
    BY <1>6 DEF Complete, Into
  <2>2. ASSUME NEW h \in Hash PROVE ChainSuccessors(R, h, c[h]) \subseteq T
    <3>1. Row(c[h])
      BY DEF Chains
    <3>2. Links(T, T, h, c[h])
      BY <1>6, <3>1, LeadsIs DEF Complete, Into
    <3>3. Links(R, T, h, c[h])
      BY <1>6, <3>2 DEF Links
    <3>4. QED
      BY <3>1, <3>3, LeadsIs
  <2>3. QED
    BY <2>1, <2>2
<1> HIDE DEF M, L
<1>7. QED
  BY <1>1, <1>2, <1>4, <1>5, <1>6

\* How far the marking has come after n steps.
Marks(r, S, c, marks, n) ==
  /\ r = [all |-> r.all, new |-> r.new]
  /\ S \subseteq r.all /\ r.all \in SUBSET Node
  /\ \A T : S \subseteq T /\ Complete(T, c, marks) => r.all \subseteq T
  /\ r.new = {} => Complete(r.all, c, marks)
  /\ r.new # {} => Cardinality(r.all) >= n
MarkOn(r, c, marks) ==
  IF r.new = {} THEN r
  ELSE [all |-> Onward(r.all, c, marks), new |-> Onward(r.all, c, marks) \ r.all]

LEMMA MarksOne ==
  ASSUME NEW c, Chains(c), NEW marks, Markers(marks), NEW S, NEW n \in Nat,
         NEW r, Marks(r, S, c, marks, n), NEW new, new = MarkOn(r, c, marks)
  PROVE  Marks(new, S, c, marks, n + 1)
<1>1. PICK all : all = Onward(r.all, c, marks)
  OBVIOUS
<1>2. CASE r.new = {}
  <2>1. new = r
    BY <1>2 DEF MarkOn
  <2>2. QED
    BY <1>2, <2>1 DEF Marks
<1>3. CASE r.new # {}
  <2>1. r.all \in SUBSET Node /\ S \subseteq r.all
        /\ \A T : S \subseteq T /\ Complete(T, c, marks) => r.all \subseteq T
    BY DEF Marks
  <2>2. /\ r.all \subseteq all /\ all \subseteq Node
        /\ all = r.all => Complete(r.all, c, marks)
        /\ \A T : r.all \subseteq T /\ Complete(T, c, marks) => all \subseteq T
    BY <1>1, <2>1, OnwardIs
  <2>4. new = [all |-> all, new |-> all \ r.all]
    BY <1>1, <1>3 DEF MarkOn
  <2>5. new.all = all /\ new.new = all \ r.all /\ new = [all |-> new.all, new |-> new.new]
    BY <2>4
  <2>6. ASSUME all # r.all PROVE Cardinality(all) >= n + 1
    <3>1. IsFiniteSet(all) /\ IsFiniteSet(r.all)
      BY <2>1, <2>2, NodesAre, FS_Subset
    <3>2. Cardinality(r.all) <= Cardinality(all) /\ Cardinality(r.all) # Cardinality(all)
      BY <2>2, <2>6, <3>1, FS_Subset
    <3>3. Cardinality(all) \in Nat /\ Cardinality(r.all) \in Nat
      BY <3>1, FS_CardinalityType
    <3>4. Cardinality(r.all) >= n
      BY <1>3 DEF Marks
    <3>5. QED
      BY <3>2, <3>3, <3>4
  <2>7. \A T : S \subseteq T /\ Complete(T, c, marks) => all \subseteq T
    BY <2>1, <2>2
  <2>8. S \subseteq new.all /\ new.all \in SUBSET Node
    BY <2>1, <2>2, <2>5
  <2>9. new.new = {} => Complete(new.all, c, marks)
    BY <2>2, <2>5
  <2>10. new.new # {} => Cardinality(new.all) >= n + 1
    BY <2>5, <2>6
  <2>11. QED
    BY <2>5, <2>7, <2>8, <2>9, <2>10 DEF Marks
<1>4. QED
  BY <1>2, <1>3

\* Nothing leads nowhere.
LEMMA EmptyIsComplete ==
  ASSUME NEW c, Chains(c), NEW marks
  PROVE  Complete({}, c, marks)
<1>1. ASSUME NEW h \in Hash PROVE ChainSuccessors({}, h, c[h]) \subseteq {}
  <2>1. Row(c[h])
    BY DEF Chains
  <2>2. Links({}, {}, h, c[h])
    BY DEF Links
  <2>3. QED
    BY <2>1, <2>2, LeadsIs
<1>2. QED
  BY <1>1 DEF Complete, Into

\* Marking from S comes to the least set with S in it that leads nowhere else.
LEMMA ClosureIs ==
  ASSUME NEW c, Chains(c), NEW marks, Markers(marks), NEW S \in SUBSET Node
  PROVE  /\ S \subseteq Closure(S, c, marks) /\ Closure(S, c, marks) \subseteq Node
         /\ Complete(Closure(S, c, marks), c, marks)
         /\ \A T : S \subseteq T /\ Complete(T, c, marks) => Closure(S, c, marks) \subseteq T
<1> DEFINE N == LongestPath
           first == [all |-> S, new |-> S]
           At(g, n) ==
             IF n = 0 THEN first
             ELSE IF g[n - 1].new = {} THEN g[n - 1]
                  ELSE [all |-> Onward(g[n - 1].all, c, marks),
                        new |-> Onward(g[n - 1].all, c, marks) \ g[n - 1].all]
           Is(g) == g = [n \in 0 .. N |-> At(g, n)]
           Stage == [all : SUBSET Node, new : SUBSET Node]
           F == [r \in Stage |-> MarkOn(r, c, marks)]
<1>1. N \in Nat /\ IsFiniteSet(Node) /\ N = Cardinality(Node)
  BY NodesAre, FS_CardinalityType DEF LongestPath
<1>2. Closure(S, c, marks) = (CHOOSE g : Is(g))[N].all
  BY Zenon DEF Closure
<1>3. first \in Stage /\ F \in Maps(Stage)
  <2>1. ASSUME NEW r \in Stage PROVE MarkOn(r, c, marks) \in Stage
    <3>1. r.all \in SUBSET Node
      OBVIOUS
    <3>2. Onward(r.all, c, marks) \subseteq Node
      BY <3>1, OnwardIs
    <3>3. Onward(r.all, c, marks) \ r.all \in SUBSET Node
      BY <3>2
    <3>4. CASE r.new = {}
      BY <3>4 DEF MarkOn
    <3>5. CASE r.new # {}
      BY <3>2, <3>3, <3>5 DEF MarkOn
    <3>6. QED
      BY <3>4, <3>5
  <2>2. QED
    BY <2>1 DEF Maps
<1>4. \A r \in Stage : F[r] = MarkOn(r, c, marks)
  OBVIOUS
<1> HIDE DEF F, N, Stage, first
<1>0. \A h, n : At(h, n) = IF n = 0 THEN first ELSE MarkOn(h[n - 1], c, marks)
  BY DEF MarkOn
<1> HIDE DEF At
<1>5. PICK g : Iterates(g, first, F, N)
  BY <1>1, <1>3, Iteration
<1>6. g \in [0 .. N -> Stage] /\ g[0] = first /\ \A n \in 1 .. N : g[n] = F[g[n - 1]]
  BY <1>1, <1>3, <1>5, IterationStays
<1>7. Is(g)
  <2>1. ASSUME NEW n \in 0 .. N PROVE g[n] = At(g, n)
    <3>1. CASE n = 0
      BY <1>0, <1>6, <3>1
    <3>2. CASE n \in 1 .. N
      <4>1. n - 1 \in 0 .. N /\ n # 0
        BY <1>1, <3>2
      <4>2. g[n] = F[g[n - 1]] /\ g[n - 1] \in Stage
        BY <1>6, <3>2, <4>1
      <4>3. QED
        BY <1>0, <1>4, <4>1, <4>2
    <3>3. QED
      BY <1>1, <3>1, <3>2
  <2>2. DOMAIN g = 0 .. N /\ g = [n \in DOMAIN g |-> g[n]]
    BY <1>6
  <2>3. QED
    BY <2>1, <2>2
<1>8. PICK h : Is(h) /\ Closure(S, c, marks) = h[N].all
  <2> HIDE DEF Is
  <2>1. Is(CHOOSE h : Is(h))
    BY <1>7, Zenon
  <2>2. QED
    BY <1>2, <2>1
<1> DEFINE T == {n \in Nat : n <= N => Marks(h[n], S, c, marks, n)}
<1>9. h[0] = first /\ \A n \in 1 .. N : h[n] = MarkOn(h[n - 1], c, marks)
  <2>1. \A n \in 0 .. N : h[n] = IF n = 0 THEN first ELSE MarkOn(h[n - 1], c, marks)
    BY <1>0, <1>8
  <2>2. \A n \in 1 .. N : n \in 0 .. N /\ n # 0
    BY <1>1
  <2>3. QED
    BY <1>1, <2>1, <2>2
<1> HIDE DEF Is
<1>10. 0 \in T
  <2>1. IsFiniteSet(S) /\ Cardinality(S) >= 0
    <3>1. IsFiniteSet(S)
      BY <1>1, FS_Subset
    <3>2. QED
      BY <3>1, FS_CardinalityType
  <2>2. first = [all |-> first.all, new |-> first.new] /\ first.all = S /\ first.new = S
    BY DEF first
  <2>3. Marks(first, S, c, marks, 0)
    BY <2>1, <2>2, EmptyIsComplete DEF Marks
  <2>4. QED
    BY <1>9, <2>3
<1>11. ASSUME NEW n \in Nat, n \in T PROVE n + 1 \in T
  <2>1. SUFFICES ASSUME n + 1 <= N PROVE Marks(h[n + 1], S, c, marks, n + 1)
    OBVIOUS
  <2>2. n + 1 \in 1 .. N /\ (n + 1) - 1 = n /\ n <= N
    BY <1>1, <2>1
  <2>3. PICK r, new : r = h[n] /\ new = h[n + 1]
    OBVIOUS
  <2>4. Marks(r, S, c, marks, n) /\ new = MarkOn(r, c, marks)
    BY <1>9, <1>11, <2>2, <2>3
  <2>5. Marks(new, S, c, marks, n + 1)
    BY <2>4, MarksOne
  <2>6. QED
    BY <2>3, <2>5
<1> HIDE DEF T
<1>12. Nat \subseteq T
  BY <1>10, <1>11, SetInduction
<1>13. PICK r : r = h[N]
  OBVIOUS
<1>14. Marks(r, S, c, marks, N)
  BY <1>1, <1>12, <1>13 DEF T
<1>15. Complete(r.all, c, marks)
  <2>1. CASE r.new = {}
    BY <1>14, <2>1 DEF Marks
  <2>2. CASE r.new # {}
    <3>1. r.all \subseteq Node /\ Cardinality(r.all) >= N
      BY <1>14, <2>2 DEF Marks
    <3>2. r.all = Node
      <4>1. Cardinality(r.all) <= N /\ (Cardinality(r.all) = N => r.all = Node)
            /\ IsFiniteSet(r.all)
        BY <1>1, <3>1, FS_Subset
      <4>2. Cardinality(r.all) \in Nat
        BY <4>1, FS_CardinalityType
      <4>3. QED
        BY <1>1, <3>1, <4>1, <4>2
    <3>3. Onward(Node, c, marks) = Node
      <4>1. Node \in SUBSET Node
        OBVIOUS
      <4>2. Node \subseteq Onward(Node, c, marks) /\ Onward(Node, c, marks) \subseteq Node
        BY <4>1, OnwardIs
      <4>3. QED
        BY <4>2
    <3>4. Complete(Node, c, marks)
      BY <3>3, OnwardIs
    <3>5. QED
      BY <3>2, <3>4
  <2>3. QED
    BY <2>1, <2>2
<1>16. Closure(S, c, marks) = r.all
  BY <1>8, <1>13
<1>17. QED
  BY <1>14, <1>15, <1>16 DEF Marks

-----------------------------------------------------------------------------
\* Closed under what gc marks.
Marked(S, c) == Leads(S, c) /\ \A h \in S \cap Hash : HashMark(h, c[h]) \subseteq S

\* What mark_obj() marks from S on.
LEMMA MarkFromIs ==
  ASSUME NEW c, Chains(c), NEW S \in SUBSET Node
  PROVE  /\ S \subseteq MarkFrom(S, c) /\ MarkFrom(S, c) \subseteq Node
         /\ Marked(MarkFrom(S, c), c)
         /\ \A T : S \subseteq T /\ Marked(T, c) => MarkFrom(S, c) \subseteq T
<1> DEFINE marks == [h \in Hash |-> HashMark(h, c[h])]
<1>1. Markers(marks)
  <2>1. ASSUME NEW h \in Hash PROVE HashMark(h, c[h]) \subseteq Node
    <3>1. Row(c[h])
      BY DEF Chains
    <3>2. \A i \in 1 .. Len(c[h]) : c[h][i] \in Pair
      BY <3>1 DEF Row
    <3>3. Keys(c[h]) \subseteq Thing /\ Vals(c[h]) \subseteq Thing
      BY <3>2 DEF Keys, Vals, Pair
    <3>4. Kind[h] \in {"none", "keys", "vals", "both"}
      BY WeakHashAssumption
    <3>5. QED
      BY <3>3, <3>4, NodesAre DEF HashMark
  <2>2. QED
    BY <2>1 DEF Markers
<1>2. \A T : Complete(T, c, marks) <=> Marked(T, c)
  BY DEF Complete, Into, Marked, Leads
<1>3. MarkFrom(S, c) = Closure(S, c, marks)
  BY DEF MarkFrom
<1> HIDE DEF marks
<1>4. QED
  BY <1>1, <1>2, <1>3, ClosureIs

\* A set that leads nowhere else, entry by entry.
LEMMA LeadsTo ==
  ASSUME NEW c, Chains(c), NEW S
  PROVE  Leads(S, c) <=> \A h \in Hash : Links(S, S, h, c[h])
BY LeadsIs DEF Leads, Chains

\* What a whole table has in it.
LEMMA WholeHas ==
  ASSUME NEW c, Row(c), NEW S, NEW h, AllParts(h, c) \subseteq S, Links(S, S, h, c)
  PROVE  /\ Vector(h) \in S
         /\ \A i \in 1 .. Len(c) : /\ ConsOf(h, c[i].key) \in S /\ Entry(h, c[i].key) \in S
                                   /\ c[i].key \in S /\ c[i].val \in S
         /\ Keys(c) \subseteq S /\ Vals(c) \subseteq S
<1>1. Vector(h) \in S /\ \A i \in 1 .. Len(c) : ConsOf(h, c[i].key) \in S /\ Entry(h, c[i].key) \in S
  BY PartsAre
<1>2. \A i \in 1 .. Len(c) : c[i].key \in S /\ c[i].val \in S
  BY <1>1 DEF Links
<1>3. QED
  BY <1>1, <1>2 DEF Keys, Vals

\* The keys and values of a chain.
LEMMA RowHas ==
  ASSUME NEW c, Row(c)
  PROVE  /\ \A i \in 1 .. Len(c) : c[i].key \in Thing /\ c[i].val \in Thing
         /\ Keys(c) \subseteq Thing /\ Len(c) \in Nat
<1>1. \A i \in 1 .. Len(c) : c[i] \in Pair
  BY DEF Row
<1>2. \A i \in 1 .. Len(c) : c[i].key \in Thing /\ c[i].val \in Thing
  BY <1>1 DEF Pair
<1>3. QED
  BY <1>2 DEF Row, Keys

-----------------------------------------------------------------------------
LEMMA InitIs ==
  ASSUME Init
  PROVE  IInv
<1>1. /\ roots = Thing /\ heap = Thing \cup {Vector(h) : h \in Hash}
      /\ chain = [h \in Hash |-> <<>>] /\ count = [h \in Hash |-> 0]
      /\ marked = {} /\ pending = {} /\ pc = "run"
  BY DEF Init
<1>2. Len(<<>>) = 0 /\ <<>> \in Seq(Pair) /\ (\A i \in 1 .. 0 : FALSE)
      /\ \A i \in 1 .. 0 - 1 : FALSE
  OBVIOUS
<1>3. Row(<<>>)
  BY <1>2 DEF Row
<1>4. \A h \in Hash : chain[h] = <<>> /\ count[h] = 0
  BY <1>1
<1>5. Typed
  <2>1. roots \subseteq Thing /\ heap \subseteq Node
    BY <1>1, NodesAre
  <2>2. count \in [Hash -> Int] /\ DOMAIN chain = Hash
    BY <1>1
  <2>3. QED
    BY <1>2, <1>3, <1>4, <2>1, <2>2 DEF Typed
<1>6. HeapIsWhole
  <2>1. ASSUME NEW h \in Hash PROVE AllParts(h, <<>>) \subseteq heap
    BY <1>1, <1>2, PartsAre
  <2>2. QED
    BY <1>1, <1>4, <2>1 DEF HeapIsWhole, Whole
<1>7. Leads(heap, chain)
  <2>1. Chains(chain)
    BY <1>3, <1>4 DEF Chains
  <2>2. \A h \in Hash : Links(heap, heap, h, <<>>)
    BY <1>2 DEF Links
  <2>3. QED
    BY <1>4, <2>1, <2>2, LeadsTo
<1>8. QED
  BY <1>1, <1>5, <1>6, <1>7 DEF IInv, Running, Marking, Since

LEMMA ChainsAre ==
  ASSUME IInv
  PROVE  Chains(chain)
BY DEF IInv, Typed, Chains

\* Marking stays in the heap.
LEMMA HeapIsMarked ==
  ASSUME IInv, pc = "run"
  PROVE  Marked(heap, chain)
<1>1. Leads(heap, chain)
  BY DEF IInv, Running
<1>2. ASSUME NEW h \in heap \cap Hash PROVE HashMark(h, chain[h]) \subseteq heap
  <2>1. Row(chain[h])
    BY DEF IInv, Typed
  <2>2. Links(heap, heap, h, chain[h])
    BY <1>1, LeadsTo, ChainsAre
  <2>3. AllParts(h, chain[h]) \subseteq heap
    BY DEF IInv, HeapIsWhole, Whole
  <2>4. Vector(h) \in heap /\ Keys(chain[h]) \subseteq heap /\ Vals(chain[h]) \subseteq heap
    BY <2>1, <2>2, <2>3, WholeHas
  <2>5. Kind[h] \in {"none", "keys", "vals", "both"}
    BY WeakHashAssumption
  <2>6. QED
    BY <2>4, <2>5 DEF HashMark
<1>3. QED
  BY <1>1, <1>2 DEF Marked

LEMMA MarkKeeps ==
  ASSUME NoneBothWeak, IInv, Mark
  PROVE  IInv'
<1>1. /\ pc = "run" /\ pc' = "weak" /\ roots' = roots /\ chain' = chain /\ count' = count
      /\ heap' = heap /\ pending' = {h \in Hash : h \in marked' /\ Linked(h)}
  BY DEF Mark
<1>2. PICK word \in {NoWord} \cup (heap \ Thing) :
        /\ marked' = MarkFrom(roots \cup ({word} \ {NoWord}), chain)
        /\ start' = [chain |-> chain, marked |-> marked', word |-> word]
  BY DEF Mark
<1>3. PICK S, M : S = roots \cup ({word} \ {NoWord}) /\ M = marked'
  OBVIOUS
<1>4. S \subseteq heap /\ roots \subseteq S /\ S \in SUBSET Node
  BY <1>2, <1>3 DEF IInv, HeapIsWhole, Typed
<1>5. S \subseteq M /\ M \subseteq heap /\ Marked(M, chain)
  <2>1. M = MarkFrom(S, chain)
    BY <1>2, <1>3
  <2>2. QED
    BY <1>1, <1>4, <2>1, MarkFromIs, ChainsAre, HeapIsMarked
<1>6. ASSUME NEW h \in Hash, h \in M, ~ Linked(h) PROVE Kind[h] = "none" /\ AllParts(h, chain[h]) \subseteq M
  <2>1. Kind[h] = "none"
    BY <1>6, WeakHashAssumption DEF NoneBothWeak, Linked
  <2>2. Vector(h) \in M
    BY <1>5, <1>6, <2>1 DEF Marked, HashMark
  <2>3. Row(chain[h]) /\ Links(M, M, h, chain[h])
    BY <1>5, LeadsTo, ChainsAre DEF Marked, Chains
  <2>4. QED
    BY <2>1, <2>2, <2>3, FromVector
<1>7. Typed' /\ HeapIsWhole' /\ Running'
  BY <1>1 DEF IInv, Typed, HeapIsWhole, Running, Whole
<1>8. Marking'
  <2>1. roots' \subseteq marked' /\ marked' \subseteq heap'
    BY <1>1, <1>3, <1>4, <1>5
  <2>2. Leads(marked', chain') /\ \A h \in marked' \cap Hash : HashMark(h, chain'[h]) \subseteq marked'
    BY <1>1, <1>3, <1>5 DEF Marked
  <2>3. pending' \subseteq {h \in marked' \cap Hash : Linked(h)}
    BY <1>1
  <2>4. Whole(marked', Hash \ pending', chain')
    BY <1>1, <1>3, <1>6 DEF Whole
  <2>5. QED
    BY <2>1, <2>2, <2>3, <2>4 DEF Marking
<1>9. Since'
  <2>1. start'.marked = marked' /\ start'.chain = chain /\ start'.word = word
    BY <1>2
  <2>2. ASSUME NEW h \in marked' \cap Hash
        PROVE  chain'[h] = IF h \in pending' THEN start'.chain[h]
                           ELSE Those(start'.chain[h], Holding(h)')
    <3>1. CASE h \in pending'
      BY <1>1, <2>1, <3>1
    <3>2. CASE h \notin pending'
      <4>1. Kind[h] = "none"
        BY <1>1, <1>3, <1>6, <3>2
      <4>2. Holding(h)' = 1 .. Len(chain[h])
        BY <2>1, <4>1 DEF Holding
      <4>3. Row(chain[h])
        BY DEF IInv, Typed
      <4>4. Those(chain[h], 1 .. Len(chain[h])) = chain[h]
        BY <4>3, ThoseRow
      <4>5. QED
        BY <1>1, <2>1, <3>2, <4>2, <4>4
    <3>3. QED
      BY <3>1, <3>2
  <2>3. start'.word = NoWord => start'.marked = MarkFrom(roots', start'.chain)
    <3>1. ASSUME word = NoWord PROVE S = roots
      BY <1>3, <3>1
    <3>2. QED
      BY <1>1, <1>2, <1>3, <2>1, <3>1
  <2>4. QED
    BY <2>1, <2>2, <2>3 DEF Since
<1>10. QED
  BY <1>7, <1>8, <1>9 DEF IInv

-----------------------------------------------------------------------------
\* Removing lapsed entries marks no key and no value.
LEMMA ThingsMarked ==
  ASSUME IInv, pc = "weak"
  PROVE  \A x \in Thing : x \in marked <=> x \in start.marked
<1>1. start.marked \subseteq marked
  BY DEF IInv, Since
<1>2. ASSUME NEW x \in Thing, x \in marked, x \notin start.marked PROVE FALSE
  <2>1. x \in UNION {AllParts(h, chain[h]) : h \in (marked \cap Hash) \ pending}
    BY <1>2 DEF IInv, Since
  <2>2. PICK h \in Hash : x \in AllParts(h, chain[h])
    BY <2>1
  <2>3. Row(chain[h])
    BY ChainsAre DEF Chains
  <2>4. \A i \in 1 .. Len(chain[h]) : chain[h][i].key \in Thing
    BY <2>3, RowHas
  <2>5. QED
    BY <1>2, <2>2, <2>4, PartsAre, Shapes
<1>3. QED
  BY <1>1, <1>2

\* The parts of a table lead nowhere from another.
LEMMA OthersParts ==
  ASSUME NEW c, NEW g, NEW h, h # g
  PROVE  /\ Vector(h) \notin AllParts(g, c)
         /\ \A k : ConsOf(h, k) \notin AllParts(g, c) /\ Entry(h, k) \notin AllParts(g, c)
<1>1. ASSUME NEW x \in AllParts(g, c)
      PROVE  \/ x = Vector(g)
             \/ \E l : x = ConsOf(g, l) \/ x = Entry(g, l)
  BY PartsAre
<1>2. Vector(h) \notin AllParts(g, c)
  BY <1>1, Shapes
<1>3. ASSUME NEW k PROVE ConsOf(h, k) \notin AllParts(g, c) /\ Entry(h, k) \notin AllParts(g, c)
  BY <1>1, Shapes
<1>4. QED
  BY <1>2, <1>3

\* A marked entry holds its key and its value, so it is one that stays.
LEMMA MarkedHolds ==
  ASSUME IInv, pc = "weak", NEW g \in pending, NEW i \in 1 .. Len(chain[g]),
         Entry(g, chain[g][i].key) \in marked
  PROVE  i \in Holding(g)
<1>1. g \in marked \cap Hash /\ Leads(marked, chain)
  BY DEF IInv, Marking
<1>2. start.chain[g] = chain[g]
  BY <1>1 DEF IInv, Since
<1>3. Links(marked, marked, g, chain[g]) /\ Row(chain[g])
  BY <1>1, LeadsTo, ChainsAre DEF Chains
<1>4. chain[g][i].key \in marked /\ chain[g][i].val \in marked
  BY <1>3 DEF Links
<1>5. chain[g][i].key \in Thing /\ chain[g][i].val \in Thing
  BY <1>3, RowHas
<1>6. chain[g][i].key \in start.marked /\ chain[g][i].val \in start.marked
  BY <1>4, <1>5, ThingsMarked
<1>7. QED
  BY <1>2, <1>6 DEF Holding

\* The code's test comes to the marks at the end of the marking.
LEMMA SweptIs ==
  ASSUME NoneBothWeak, IInv, pc = "weak", NEW g \in pending
  PROVE  Swept(g) = Those(chain[g], Holding(g))
<1> DEFINE c == chain[g]
           S == {i \in 1 .. Len(c) :
                   (\E j \in 1 .. i : ConsOf(g, c[j].key) \in marked) \/ ~ Lapsed(g, c[i])}
<1>1. g \in marked \cap Hash /\ Leads(marked, chain) /\ Linked(g)
  BY DEF IInv, Marking
<1>2. start.chain[g] = c
  BY <1>1 DEF IInv, Since
<1>3. Links(marked, marked, g, c) /\ Row(c)
  BY <1>1, LeadsTo, ChainsAre DEF Chains
<1>4. Kind[g] \in {"keys", "vals"}
  BY <1>1 DEF Linked
<1>5. ASSUME NEW i \in 1 .. Len(c)
      PROVE  /\ c[i].key \in marked <=> c[i].key \in start.marked
             /\ c[i].val \in marked <=> c[i].val \in start.marked
  BY <1>3, RowHas, ThingsMarked
<1>6. ASSUME NEW i \in S PROVE i \in Holding(g)
  <2>0. i \in 1 .. Len(c)
    OBVIOUS
  <2>1. CASE Entry(g, c[i].key) \in marked
    BY <2>0, <2>1, MarkedHolds
  <2>2. CASE Entry(g, c[i].key) \notin marked /\ ~ Lapsed(g, c[i])
    <3>1. /\ Kind[g] = "keys" => c[i].key \in marked
          /\ Kind[g] = "vals" => c[i].val \in marked
      BY <2>2 DEF Lapsed
    <3>2. QED
      BY <1>2, <1>5, <2>0, <3>1 DEF Holding
  <2>3. CASE \E j \in 1 .. i : ConsOf(g, c[j].key) \in marked
    <3>1. PICK j \in 1 .. i : ConsOf(g, c[j].key) \in marked
      BY <2>3
    <3>2. Len(c) \in Nat
      BY <1>3, RowHas
    <3>3. j \in 1 .. Len(c) /\ i \in j .. Len(c)
      BY <2>0, <3>1, <3>2
    <3>4. Entry(g, c[i].key) \in marked
      BY <1>3, <3>1, <3>3, Along
    <3>5. QED
      BY <2>0, <3>4, MarkedHolds
  <2>4. QED
    BY <2>1, <2>2, <2>3
<1>7. ASSUME NEW i \in Holding(g) PROVE i \in S
  <2>1. /\ i \in 1 .. Len(c)
        /\ Kind[g] = "keys" => c[i].key \in start.marked
        /\ Kind[g] = "vals" => c[i].val \in start.marked
    BY <1>2 DEF Holding
  <2>2. /\ Kind[g] = "keys" => c[i].key \in marked
        /\ Kind[g] = "vals" => c[i].val \in marked
    BY <1>5, <2>1
  <2>3. ~ Lapsed(g, c[i])
    BY <1>4, <2>2 DEF Lapsed
  <2>4. QED
    BY <2>1, <2>3
<1>8. S = Holding(g)
  BY <1>6, <1>7
<1>9. Swept(g) = Those(c, S)
  BY DEF Swept
<1>10. QED
  BY <1>8, <1>9

\* What a chain leads to stays the same while the parts of its table do.
LEMMA LinksSame ==
  ASSUME NEW c, Row(c), NEW S, NEW T, NEW h, Links(S, S, h, c),
         \A x \in Thing : x \in S => x \in T, Vector(h) \in T => Vector(h) \in S,
         \A k \in Thing : ConsOf(h, k) \in T <=> ConsOf(h, k) \in S,
         \A k \in Thing : Entry(h, k) \in T <=> Entry(h, k) \in S
  PROVE  Links(T, T, h, c)
<1>1. Len(c) \in Nat /\ \A i \in 1 .. Len(c) : c[i].key \in Thing /\ c[i].val \in Thing
  BY RowHas
<1>2. \A i \in 1 .. Len(c) - 1 : i \in 1 .. Len(c) /\ i + 1 \in 1 .. Len(c)
  BY <1>1
<1>3. c # <<>> => 1 \in 1 .. Len(c)
  BY DEF Row
<1>4. Vector(h) \in T /\ c # <<>> => ConsOf(h, c[1].key) \in T
  BY <1>1, <1>3 DEF Links
<1>5. \A i \in 1 .. Len(c) : ConsOf(h, c[i].key) \in T => Entry(h, c[i].key) \in T
  BY <1>1 DEF Links
<1>6. \A i \in 1 .. Len(c) - 1 : ConsOf(h, c[i].key) \in T => ConsOf(h, c[i + 1].key) \in T
  BY <1>1, <1>2 DEF Links
<1>7. \A i \in 1 .. Len(c) : Entry(h, c[i].key) \in T => c[i].key \in T /\ c[i].val \in T
  BY <1>1 DEF Links
<1>8. QED
  BY <1>4, <1>5, <1>6, <1>7 DEF Links

\* A whole table with its keys and values leads nowhere else.
LEMMA WholeLinks ==
  ASSUME NEW c, Row(c), NEW S, NEW h, AllParts(h, c) \subseteq S,
         \A i \in 1 .. Len(c) : c[i].key \in S /\ c[i].val \in S
  PROVE  Links(S, S, h, c)
<1>1. \A i \in 1 .. Len(c) : ConsOf(h, c[i].key) \in S /\ Entry(h, c[i].key) \in S
  BY PartsAre
<1>2. c # <<>> => 1 \in 1 .. Len(c)
  BY DEF Row
<1>3. \A i \in 1 .. Len(c) - 1 : i + 1 \in 1 .. Len(c)
  BY RowHas
<1>4. QED
  BY <1>1, <1>2, <1>3 DEF Links

\* The entries that stay, and what is marked with them.
LEMMA StayingAre ==
  ASSUME NoneBothWeak, IInv, pc = "weak", NEW g \in pending,
         NEW new, new = Those(chain[g], Holding(g))
  PROVE  /\ Row(new) /\ Len(new) <= Len(chain[g])
         /\ AllParts(g, new) \subseteq AllParts(g, chain[g])
         /\ \A p \in 1 .. Len(new) : new[p].key \in marked /\ new[p].val \in marked
<1>1. /\ g \in marked \cap Hash /\ Linked(g) /\ HashMark(g, chain[g]) \subseteq marked
  BY DEF IInv, Marking
<1>2. start.chain[g] = chain[g]
  BY <1>1 DEF IInv, Since
<1>3. Row(chain[g])
  BY <1>1, ChainsAre DEF Chains
<1>4. /\ Row(new) /\ Len(new) <= Len(chain[g])
      /\ \A p \in 1 .. Len(new) : \E i \in 1 .. Len(chain[g]) : i \in Holding(g) /\ new[p] = chain[g][i]
  BY <1>3, ThoseRow
<1>5. AllParts(g, new) \subseteq AllParts(g, chain[g])
  <2>1. ASSUME NEW x \in AllParts(g, new) PROVE x \in AllParts(g, chain[g])
    <3>1. CASE x = Vector(g)
      BY <3>1, PartsAre
    <3>2. CASE \E p \in 1 .. Len(new) : x = ConsOf(g, new[p].key) \/ x = Entry(g, new[p].key)
      <4>1. PICK p \in 1 .. Len(new) : x = ConsOf(g, new[p].key) \/ x = Entry(g, new[p].key)
        BY <3>2
      <4>2. PICK i \in 1 .. Len(chain[g]) : new[p] = chain[g][i]
        BY <1>4
      <4>3. QED
        BY <4>1, <4>2, PartsAre
    <3>3. QED
      BY <3>1, <3>2, PartsAre
  <2>2. QED
    BY <2>1
<1>6. ASSUME NEW p \in 1 .. Len(new) PROVE new[p].key \in marked /\ new[p].val \in marked
  <2>1. PICK i \in 1 .. Len(chain[g]) : i \in Holding(g) /\ new[p] = chain[g][i]
    BY <1>4
  <2>2. /\ Kind[g] = "keys" => chain[g][i].key \in marked
        /\ Kind[g] = "vals" => chain[g][i].val \in marked
    BY <1>2, <2>1 DEF Holding, IInv, Since
  <2>3. CASE Kind[g] = "keys"
    <3>1. Vals(chain[g]) \subseteq marked
      BY <1>1, <2>3 DEF HashMark
    <3>2. QED
      BY <2>1, <2>2, <2>3, <3>1 DEF Vals
  <2>4. CASE Kind[g] = "vals"
    <3>1. Keys(chain[g]) \subseteq marked
      BY <1>1, <2>4 DEF HashMark
    <3>2. QED
      BY <2>1, <2>2, <2>4, <3>1 DEF Keys
  <2>5. QED
    BY <1>1, <2>3, <2>4 DEF Linked
<1>7. QED
  BY <1>4, <1>5, <1>6

\* Marking from the vector marks the vector, the chain that is left, and
\* nothing else.
LEMMA MarkVector ==
  ASSUME NoneBothWeak, IInv, pc = "weak", NEW g \in pending, Vector(g) \notin marked,
         NEW new, new = Those(chain[g], Holding(g)),
         NEW d, Chains(d), d[g] = new, \A h \in Hash : h # g => d[h] = chain[h],
         NEW N, N = MarkFrom(marked \cup {Vector(g)}, d)
  PROVE  N = marked \cup AllParts(g, new) /\ Marked(N, d)
<1>1. /\ g \in marked \cap Hash /\ Linked(g) /\ Leads(marked, chain)
      /\ \A h \in marked \cap Hash : HashMark(h, chain[h]) \subseteq marked
  BY DEF IInv, Marking
<1>2. /\ Row(new) /\ AllParts(g, new) \subseteq AllParts(g, chain[g])
      /\ \A p \in 1 .. Len(new) : new[p].key \in marked /\ new[p].val \in marked
  BY StayingAre
<1>3. PICK M : M = marked \cup AllParts(g, new)
  OBVIOUS
<1>4. Leads(M, d)
  <2>1. ASSUME NEW h \in Hash, h # g PROVE Links(M, M, h, d[h])
    <3>1. Links(marked, marked, h, chain[h]) /\ Row(chain[h])
      BY <1>1, LeadsTo, ChainsAre DEF Chains
    <3>2. Links(M, M, h, chain[h])
      <4>1. Vector(h) \in M => Vector(h) \in marked
        BY <1>3, <2>1, OthersParts
      <4>2. \A k \in Thing : ConsOf(h, k) \in M <=> ConsOf(h, k) \in marked
        BY <1>3, <2>1, OthersParts
      <4>3. \A k \in Thing : Entry(h, k) \in M <=> Entry(h, k) \in marked
        BY <1>3, <2>1, OthersParts
      <4>4. marked \subseteq M
        BY <1>3
      <4>5. QED
        BY <3>1, <4>1, <4>2, <4>3, <4>4, LinksSame
    <3>3. QED
      BY <2>1, <3>2
  <2>2. Links(M, M, g, new)
    BY <1>2, <1>3, WholeLinks
  <2>3. QED
    BY <2>1, <2>2, LeadsTo
<1>5. \A h \in M \cap Hash : HashMark(h, d[h]) \subseteq M
  <2>1. ASSUME NEW h \in M \cap Hash PROVE HashMark(h, d[h]) \subseteq M
    <3>1. CASE h # g
      <4>1. h \in marked
        <5>1. h \in Thing
          BY DEF Thing
        <5>2. \A p \in 1 .. Len(new) : new[p].key \in Thing
          BY <1>2, RowHas
        <5>3. h \notin AllParts(g, new)
          BY <1>1, <5>1, <5>2, PartsAre, Shapes
        <5>4. QED
          BY <1>3, <5>3
      <4>2. QED
        BY <1>1, <1>3, <3>1, <4>1
    <3>2. CASE h = g
      <4>1. Kind[g] \in {"keys", "vals"}
        BY <1>1 DEF Linked
      <4>2. Keys(new) \subseteq M /\ Vals(new) \subseteq M
        BY <1>2, <1>3 DEF Keys, Vals
      <4>3. QED
        BY <3>2, <4>1, <4>2 DEF HashMark
    <3>3. QED
      BY <3>1, <3>2
  <2>2. QED
    BY <2>1
<1>6. marked \cup {Vector(g)} \in SUBSET Node
  BY <1>1, NodesAre DEF IInv, Typed, Marking
<1>7. /\ marked \cup {Vector(g)} \subseteq N /\ Marked(N, d)
      /\ \A T : marked \cup {Vector(g)} \subseteq T /\ Marked(T, d) => N \subseteq T
  BY <1>6, MarkFromIs
<1>8. marked \cup {Vector(g)} \subseteq M
  BY <1>3, PartsAre
<1>9. N \subseteq M
  BY <1>4, <1>5, <1>7, <1>8 DEF Marked
<1>10. AllParts(g, new) \subseteq N
  <2>1. Links(N, N, g, new)
    BY <1>1, <1>7, LeadsTo DEF Marked
  <2>2. QED
    BY <1>2, <1>7, <2>1, FromVector
<1>11. QED
  BY <1>3, <1>7, <1>9, <1>10

LEMMA ProcessWeakKeeps ==
  ASSUME NoneBothWeak, IInv, NEW g \in Hash, ProcessWeak(g)
  PROVE  IInv'
<1> DEFINE new == Those(chain[g], Holding(g))
<1>1. /\ pc = "weak" /\ g \in pending /\ pending' = pending \ {g} /\ roots' = roots
      /\ count' = count /\ heap' = heap /\ pc' = "weak" /\ start' = start
  BY DEF ProcessWeak
<1>2. /\ g \in marked \cap Hash /\ Linked(g) /\ Leads(marked, chain)
      /\ roots \subseteq marked /\ marked \subseteq heap
      /\ \A h \in marked \cap Hash : HashMark(h, chain[h]) \subseteq marked
      /\ pending \subseteq {h \in marked \cap Hash : Linked(h)}
      /\ Whole(marked, Hash \ pending, chain)
  BY <1>1 DEF IInv, Marking
<1>3. /\ start.marked \subseteq marked
      /\ marked \subseteq start.marked
           \cup UNION {AllParts(h, chain[h]) : h \in (marked \cap Hash) \ pending}
      /\ \A h \in marked \cap Hash :
           chain[h] = IF h \in pending THEN start.chain[h] ELSE Those(start.chain[h], Holding(h))
      /\ start.word = NoWord => start.marked = MarkFrom(roots, start.chain)
      /\ start.chain[g] = chain[g]
  BY <1>1, <1>2 DEF IInv, Since
<1>4. Row(chain[g])
  BY ChainsAre DEF Chains
<1>5. /\ Row(new) /\ Len(new) <= Len(chain[g])
      /\ AllParts(g, new) \subseteq AllParts(g, chain[g])
  BY <1>1, StayingAre
<1>6. /\ DOMAIN chain' = Hash /\ chain'[g] = new /\ \A h \in Hash : h # g => chain'[h] = chain[h]
      /\ marked' = marked \cup AllParts(g, new) /\ Marked(marked', chain')
  <2>1. CASE Vector(g) \in marked
    <3>1. chain' = chain /\ marked' = marked
      BY <2>1 DEF ProcessWeak
    <3>2. AllParts(g, chain[g]) \subseteq marked
      <4>1. Links(marked, marked, g, chain[g])
        BY <1>2, LeadsTo, ChainsAre
      <4>2. QED
        BY <1>4, <2>1, <4>1, FromVector
    <3>3. \A i \in 1 .. Len(chain[g]) : i \in Holding(g)
      BY <1>1, <3>2, PartsAre, MarkedHolds
    <3>4. new = chain[g]
      BY <1>4, <3>3, ThoseRow
    <3> HIDE DEF new
    <3>5. marked = marked \cup AllParts(g, new) /\ Marked(marked, chain)
      BY <1>2, <3>2, <3>4 DEF Marked
    <3>6. QED
      BY <3>1, <3>4, <3>5 DEF IInv, Typed
  <2>2. CASE Vector(g) \notin marked
    <3>1. chain' = [chain EXCEPT ![g] = Swept(g)] /\ marked' = MarkFrom(marked \cup {Vector(g)}, chain')
      BY <2>2 DEF ProcessWeak
    <3>2. DOMAIN chain = Hash
      BY DEF IInv, Typed
    <3>3. DOMAIN chain' = Hash /\ chain'[g] = Swept(g) /\ \A h \in Hash : h # g => chain'[h] = chain[h]
      BY <3>1, <3>2
    <3>4. Swept(g) = new
      BY <1>1, SweptIs
    <3>5. PICK d, N, c : d = chain' /\ N = marked' /\ c = new
      OBVIOUS
    <3>6. Chains(d)
      BY <1>5, <3>3, <3>4, <3>5, ChainsAre DEF Chains
    <3>7. c = Those(chain[g], Holding(g))
      BY <3>5
    <3> HIDE DEF new
    <3>8. d[g] = c /\ \A h \in Hash : h # g => d[h] = chain[h]
      BY <3>3, <3>4, <3>5
    <3>9. N = MarkFrom(marked \cup {Vector(g)}, d)
      BY <3>1, <3>5
    <3>10. N = marked \cup AllParts(g, c) /\ Marked(N, d)
      BY <1>1, <2>2, <3>6, <3>7, <3>8, <3>9, MarkVector
    <3>11. QED
      BY <3>3, <3>4, <3>5, <3>10
  <2>3. QED
    BY <2>1, <2>2
<1>7. new = Those(start.chain[g], Holding(g))
  BY <1>3
<1> HIDE DEF new
<1>8. AllParts(g, new) \subseteq heap
  BY <1>2, <1>5 DEF IInv, HeapIsWhole, Whole
<1>9. \A h \in marked' \cap Hash : h \in marked
  <2>1. ASSUME NEW h \in Hash, h \in AllParts(g, new) PROVE FALSE
    <3>1. \A p \in 1 .. Len(new) : new[p].key \in Thing
      BY <1>5, RowHas
    <3>2. h \in Thing
      BY DEF Thing
    <3>3. QED
      BY <2>1, <3>1, <3>2, PartsAre, Shapes
  <2>2. QED
    BY <1>6, <2>1
<1>10. Typed'
  <2>1. \A h \in Hash : Row(chain'[h])
    BY <1>5, <1>6, ChainsAre DEF Chains
  <2>2. \A h \in Hash : count'[h] >= Len(chain'[h])
    <3>1. ASSUME NEW h \in Hash PROVE count[h] >= Len(chain'[h])
      <4>1. count[h] >= Len(chain[h]) /\ count[h] \in Int /\ Row(chain[h])
        BY DEF IInv, Typed
      <4>2. CASE h # g
        BY <1>6, <4>1, <4>2
      <4>3. CASE h = g
        <5>1. Len(new) \in Nat /\ Len(chain[g]) \in Nat
          BY <1>4, <1>5, RowHas
        <5>2. QED
          BY <1>5, <1>6, <4>1, <4>3, <5>1
      <4>4. QED
        BY <4>2, <4>3
    <3>2. QED
      BY <1>1, <3>1
  <2>3. QED
    BY <1>1, <1>6, <2>1, <2>2 DEF IInv, Typed
<1>11. HeapIsWhole'
  <2>1. roots' \subseteq heap'
    BY <1>1 DEF IInv, HeapIsWhole
  <2>2. ASSUME NEW h \in heap \cap Hash PROVE AllParts(h, chain'[h]) \subseteq heap
    BY <1>6, <1>8 DEF IInv, HeapIsWhole, Whole
  <2>3. QED
    BY <1>1, <2>1, <2>2 DEF HeapIsWhole, Whole
<1>12. Running'
  BY <1>1 DEF Running
<1>13. Marking'
  <2>1. roots' \subseteq marked' /\ marked' \subseteq heap'
    BY <1>1, <1>2, <1>6, <1>8
  <2>2. Leads(marked', chain') /\ \A h \in marked' \cap Hash : HashMark(h, chain'[h]) \subseteq marked'
    BY <1>6 DEF Marked
  <2>3. pending' \subseteq {h \in marked' \cap Hash : Linked(h)}
    BY <1>1, <1>2, <1>6
  <2>4. ASSUME NEW h \in marked' \cap (Hash \ pending') PROVE AllParts(h, chain'[h]) \subseteq marked'
    <3>1. CASE h = g
      BY <1>6, <3>1
    <3>2. CASE h # g
      <4>1. h \in marked \cap (Hash \ pending)
        BY <1>1, <1>9, <3>2
      <4>2. QED
        BY <1>2, <1>6, <3>2, <4>1 DEF Whole
    <3>3. QED
      BY <3>1, <3>2
  <2>5. QED
    BY <2>1, <2>2, <2>3, <2>4 DEF Marking, Whole
<1>14. Since'
  <2>1. start'.marked \subseteq marked'
    BY <1>1, <1>3, <1>6
  <2>2. marked' \subseteq start'.marked
          \cup UNION {AllParts(h, chain'[h]) : h \in (marked' \cap Hash) \ pending'}
    <3>1. ASSUME NEW x \in marked', x \notin start.marked
          PROVE  \E h \in (marked' \cap Hash) \ pending' : x \in AllParts(h, chain'[h])
      <4>1. CASE x \in AllParts(g, new)
        BY <1>1, <1>2, <1>6, <4>1
      <4>2. CASE x \in marked
        <5>1. x \in UNION {AllParts(h, chain[h]) : h \in (marked \cap Hash) \ pending}
          BY <1>3, <3>1, <4>2
        <5>2. PICK h \in (marked \cap Hash) \ pending : x \in AllParts(h, chain[h])
          BY <5>1
        <5>3. h # g /\ h \in (marked' \cap Hash) \ pending' /\ chain'[h] = chain[h]
          BY <1>1, <1>6, <5>2
        <5>4. QED
          BY <5>2, <5>3
      <4>3. QED
        BY <1>6, <3>1, <4>1, <4>2
    <3>2. QED
      BY <1>1, <3>1
  <2>3. ASSUME NEW h \in marked' \cap Hash
        PROVE  chain'[h] = IF h \in pending' THEN start'.chain[h]
                           ELSE Those(start'.chain[h], Holding(h)')
    <3>1. Holding(h)' = Holding(h)
      BY <1>1 DEF Holding
    <3>2. CASE h = g
      BY <1>1, <1>6, <1>7, <3>1, <3>2
    <3>3. CASE h # g
      <4>1. h \in marked \cap Hash /\ (h \in pending' <=> h \in pending)
        BY <1>1, <1>9, <3>3
      <4>2. QED
        BY <1>1, <1>3, <1>6, <3>1, <3>3, <4>1
    <3>4. QED
      BY <3>2, <3>3
  <2>4. start'.word = NoWord => start'.marked = MarkFrom(roots', start'.chain)
    BY <1>1, <1>3
  <2>5. QED
    BY <2>1, <2>2, <2>3, <2>4 DEF Since
<1>15. QED
  BY <1>10, <1>11, <1>12, <1>13, <1>14 DEF IInv

LEMMA SweepKeeps ==
  ASSUME IInv, Sweep
  PROVE  IInv'
<1>1. /\ pc = "weak" /\ pending = {} /\ heap' = heap \cap marked /\ marked' = {} /\ pc' = "run"
      /\ roots' = roots /\ chain' = chain /\ count' = count /\ pending' = {}
  BY DEF Sweep
<1>2. /\ roots \subseteq marked /\ marked \subseteq heap /\ Leads(marked, chain)
      /\ Whole(marked, Hash, chain)
  BY <1>1 DEF IInv, Marking
<1>3. heap' = marked
  BY <1>1, <1>2
<1>4. Typed'
  BY <1>1 DEF IInv, Typed
<1>5. HeapIsWhole' /\ Running'
  BY <1>1, <1>2, <1>3 DEF HeapIsWhole, Running
<1>6. QED
  BY <1>1, <1>4, <1>5 DEF IInv, Marking, Since

-----------------------------------------------------------------------------
\* A step of the program.
LEMMA RunKeeps ==
  ASSUME IInv, pc = "run", UNCHANGED <<marked, pending, pc>>,
         Typed', HeapIsWhole', Leads(heap, chain)'
  PROVE  IInv'
BY DEF IInv, Running, Marking, Since

\* A step of the program that changes one table.
LEMMA TableKeeps ==
  ASSUME IInv, pc = "run", UNCHANGED <<marked, pending, pc>>, NEW g \in Hash,
         NEW new, Row(new), DOMAIN chain' = Hash, chain'[g] = new,
         \A h \in Hash : h # g => chain'[h] = chain[h] /\ count'[h] = count[h],
         count' \in [Hash -> Int], count'[g] >= Len(new),
         roots' \subseteq Thing, roots' \subseteq heap', heap' \subseteq Node,
         \A x \in Thing : (x \in heap => x \in heap') /\ (x \in heap' => x \in heap \cup {g}),
         \A h \in Hash : h # g => (Vector(h) \in heap' <=> Vector(h) \in heap),
         \A h \in Hash, k \in Thing :
           h # g => (ConsOf(h, k) \in heap' <=> ConsOf(h, k) \in heap),
         \A h \in Hash, k \in Thing :
           h # g => (Entry(h, k) \in heap' <=> Entry(h, k) \in heap),
         AllParts(g, new) \subseteq heap',
         \A i \in 1 .. Len(new) : new[i].key \in heap' /\ new[i].val \in heap'
  PROVE  IInv'
<1>1. Typed'
  <2>1. \A h \in Hash : Row(chain'[h])
    BY ChainsAre DEF Chains
  <2>2. \A h \in Hash : count'[h] >= Len(chain'[h])
    BY DEF IInv, Typed
  <2>3. QED
    BY <2>1, <2>2 DEF Typed
<1>2. HeapIsWhole'
  <2>1. ASSUME NEW h \in heap' \cap Hash PROVE AllParts(h, chain'[h]) \subseteq heap'
    <3>1. CASE h = g
      BY <3>1
    <3>2. CASE h # g
      <4>1. h \in heap \cap Hash
        BY <3>2 DEF Thing
      <4>2. AllParts(h, chain[h]) \subseteq heap
        BY <4>1 DEF IInv, HeapIsWhole, Whole
      <4>3. \A i \in 1 .. Len(chain[h]) : chain[h][i].key \in Thing
        BY ChainsAre, RowHas DEF Chains
      <4>4. Vector(h) \in heap'
        BY <3>2, <4>2, PartsAre
      <4>5. \A i \in 1 .. Len(chain[h]) : ConsOf(h, chain[h][i].key) \in heap'
                                          /\ Entry(h, chain[h][i].key) \in heap'
        BY <3>2, <4>2, <4>3, PartsAre
      <4>6. AllParts(h, chain[h]) \subseteq heap'
        BY <4>4, <4>5, PartsAre
      <4>7. QED
        BY <3>2, <4>6
    <3>3. QED
      BY <3>1, <3>2
  <2>2. QED
    BY <2>1 DEF HeapIsWhole, Whole
<1>3. Leads(heap, chain)'
  <2>1. PICK d, S : d = chain' /\ S = heap'
    OBVIOUS
  <2>2. ASSUME NEW h \in Hash PROVE Links(S, S, h, d[h])
    <3>1. CASE h = g
      BY <2>1, <3>1, WholeLinks
    <3>2. CASE h # g
      <4>1. Row(chain[h]) /\ Links(heap, heap, h, chain[h])
        BY LeadsTo, ChainsAre DEF Chains, IInv, Running
      <4>2. \A x \in Thing : x \in heap => x \in S
        BY <2>1
      <4>3. Vector(h) \in S => Vector(h) \in heap
        BY <2>1, <3>2
      <4>4. \A k \in Thing : ConsOf(h, k) \in S <=> ConsOf(h, k) \in heap
        BY <2>1, <3>2
      <4>5. \A k \in Thing : Entry(h, k) \in S <=> Entry(h, k) \in heap
        BY <2>1, <3>2
      <4>6. Links(S, S, h, chain[h])
        BY <4>1, <4>2, <4>3, <4>4, <4>5, LinksSame
      <4>7. QED
        BY <2>1, <3>2, <4>6
    <3>3. QED
      BY <3>1, <3>2
  <2>3. Chains(d)
    BY <1>1, <2>1 DEF Typed, Chains
  <2>4. Leads(S, d)
    BY <2>2, <2>3, LeadsTo
  <2>5. QED
    BY <2>1, <2>4
<1>4. QED
  BY <1>1, <1>2, <1>3, RunKeeps

\* What the parts of a table are outside of.
LEMMA NewParts ==
  ASSUME NEW g \in Hash, NEW k \in Thing
  PROVE  /\ Parts(g, k) \subseteq Node /\ Parts(g, k) \cap Thing = {}
         /\ \A h : Vector(h) \notin Parts(g, k)
         /\ \A h, l : h # g => ConsOf(h, l) \notin Parts(g, k) /\ Entry(h, l) \notin Parts(g, k)
<1>1. ConsOf(g, k) \in Node /\ Entry(g, k) \in Node
  BY NodesAre
<1>2. ConsOf(g, k) \notin Thing /\ Entry(g, k) \notin Thing
  BY Shapes
<1>3. Parts(g, k) = {ConsOf(g, k), Entry(g, k)}
  BY DEF Parts
<1>4. \A h : Vector(h) \notin Parts(g, k)
  BY <1>3, Shapes
<1>5. ASSUME NEW h, NEW l, h # g PROVE ConsOf(h, l) \notin Parts(g, k) /\ Entry(h, l) \notin Parts(g, k)
  BY <1>3, <1>5, Shapes
<1>6. QED
  BY <1>1, <1>2, <1>3, <1>4, <1>5

LEMMA NewKeeps ==
  ASSUME IInv, NEW x \in Thing, New(x)
  PROVE  IInv'
<1>1. /\ pc = "run" /\ UNCHANGED <<marked, pending, pc>> /\ x \notin heap
      /\ roots' = roots \cup {x}
      /\ heap' = heap \cup {x} \cup (IF x \in Hash THEN {Vector(x)} ELSE {})
      /\ chain' = IF x \in Hash THEN [chain EXCEPT ![x] = <<>>] ELSE chain
      /\ count' = IF x \in Hash THEN [count EXCEPT ![x] = 0] ELSE count
  BY DEF New
<1>2. /\ roots \subseteq Thing /\ roots \subseteq heap /\ heap \subseteq Node
      /\ DOMAIN chain = Hash /\ count \in [Hash -> Int]
      /\ Whole(heap, Hash, chain) /\ Leads(heap, chain)
  BY <1>1 DEF IInv, Typed, HeapIsWhole, Running
<1>3. CASE x \in Hash
  <2>1. PICK new : new = <<>>
    OBVIOUS
  <2>2. Row(new) /\ Len(new) = 0 /\ \A i \in 1 .. Len(new) : FALSE
    <3>1. new \in Seq(Pair) /\ Len(new) = 0
      BY <2>1
    <3>2. \A i \in 1 .. 0 : FALSE
      OBVIOUS
    <3>3. QED
      BY <3>1, <3>2 DEF Row
  <2>3. /\ DOMAIN chain' = Hash /\ chain'[x] = new
        /\ \A h \in Hash : h # x => chain'[h] = chain[h] /\ count'[h] = count[h]
        /\ count' \in [Hash -> Int] /\ count'[x] = 0
    BY <1>1, <1>2, <1>3, <2>1
  <2>4. heap' = heap \cup {x, Vector(x)} /\ heap' \subseteq Node
    BY <1>1, <1>2, <1>3, NodesAre
  <2>5. /\ \A y \in Thing : (y \in heap => y \in heap') /\ (y \in heap' => y \in heap \cup {x})
        /\ roots' \subseteq Thing /\ roots' \subseteq heap'
    <3>1. Vector(x) \notin Thing
      BY <1>3, Shapes
    <3>2. QED
      BY <1>1, <1>2, <2>4, <3>1
  <2>6. \A h \in Hash : h # x => (Vector(h) \in heap' <=> Vector(h) \in heap)
    BY <2>4, Shapes
  <2>7. \A h \in Hash, k \in Thing : ConsOf(h, k) \notin {x, Vector(x)} /\ Entry(h, k) \notin {x, Vector(x)}
    <3>1. \A h \in Hash, k \in Thing : ConsOf(h, k) # x /\ Entry(h, k) # x
      BY Shapes
    <3>2. \A h, k : ConsOf(h, k) # Vector(x) /\ Entry(h, k) # Vector(x)
      BY Shapes
    <3>3. QED
      BY <3>1, <3>2
  <2>8. \A h \in Hash, k \in Thing : h # x => (ConsOf(h, k) \in heap' <=> ConsOf(h, k) \in heap)
    BY <2>4, <2>7
  <2>9. \A h \in Hash, k \in Thing : h # x => (Entry(h, k) \in heap' <=> Entry(h, k) \in heap)
    BY <2>4, <2>7
  <2>10. AllParts(x, new) \subseteq heap'
    BY <2>2, <2>4, PartsAre
  <2>11. QED
    BY <1>1, <1>3, <2>2, <2>3, <2>4, <2>5, <2>6, <2>8, <2>9, <2>10, TableKeeps
<1>4. CASE x \notin Hash
  <2>1. heap' = heap \cup {x} /\ chain' = chain /\ count' = count
    BY <1>1, <1>4
  <2>2. Typed'
    BY <1>1, <1>2, <2>1, NodesAre DEF IInv, Typed
  <2>3. HeapIsWhole'
    BY <1>1, <1>2, <1>4, <2>1 DEF HeapIsWhole, Whole
  <2>4. Leads(heap, chain)'
    <3>1. PICK S : S = heap'
      OBVIOUS
    <3>2. \A h \in Hash : Row(chain[h]) /\ Links(heap, heap, h, chain[h])
      BY <1>2, LeadsTo, ChainsAre DEF Chains
    <3>3. \A h \in Hash, k \in Thing : x # Vector(h) /\ x # ConsOf(h, k) /\ x # Entry(h, k)
      BY Shapes
    <3>4. ASSUME NEW h \in Hash PROVE Links(S, S, h, chain[h])
      <4>1. \A y \in Thing : y \in heap => y \in S
        BY <2>1, <3>1
      <4>2. Vector(h) \in S => Vector(h) \in heap
        <5>1. h \in Thing
          BY DEF Thing
        <5>2. x # Vector(h)
          BY <3>3, <5>1
        <5>3. QED
          BY <2>1, <3>1, <5>2
      <4>3. \A k \in Thing : ConsOf(h, k) \in S <=> ConsOf(h, k) \in heap
        BY <2>1, <3>1, <3>3
      <4>4. \A k \in Thing : Entry(h, k) \in S <=> Entry(h, k) \in heap
        BY <2>1, <3>1, <3>3
      <4>5. QED
        BY <3>2, <4>1, <4>2, <4>3, <4>4, LinksSame
    <3>5. Leads(S, chain)
      BY <3>4, ChainsAre, LeadsTo
    <3>6. QED
      BY <2>1, <3>1, <3>5
  <2>5. QED
    BY <1>1, <2>2, <2>3, <2>4, RunKeeps
<1>5. QED
  BY <1>3, <1>4

LEMMA DropKeeps ==
  ASSUME IInv, NEW x \in Thing, Drop(x)
  PROVE  IInv'
BY RunKeeps DEF Drop, IInv, Typed, HeapIsWhole, Running

\* A table that is held has all its parts, keys and values in the heap.
LEMMA HeldTable ==
  ASSUME IInv, pc = "run", NEW g \in Hash, g \in roots
  PROVE  /\ Row(chain[g]) /\ AllParts(g, chain[g]) \subseteq heap
         /\ \A i \in 1 .. Len(chain[g]) :
              /\ chain[g][i].key \in heap /\ chain[g][i].val \in heap
              /\ chain[g][i].key \in Thing /\ chain[g][i].val \in Thing
<1>1. Row(chain[g]) /\ Links(heap, heap, g, chain[g])
  BY LeadsTo, ChainsAre DEF Chains, IInv, Running
<1>2. AllParts(g, chain[g]) \subseteq heap
  BY DEF IInv, HeapIsWhole, Whole
<1>3. QED
  BY <1>1, <1>2, WholeHas, RowHas

\* The position of a key.
LEMMA PositionIs ==
  ASSUME NEW c, NEW k \in Keys(c)
  PROVE  Position(c, k) \in 1 .. Len(c) /\ c[Position(c, k)].key = k
<1>1. \E i \in 1 .. Len(c) : c[i].key = k
  BY DEF Keys
<1>2. QED
  BY <1>1 DEF Position

LEMMA GetHashKeeps ==
  ASSUME IInv, NEW g \in Hash, NEW k \in Thing, GetHash(g, k)
  PROVE  IInv'
<1>1. PICK i : i = Position(chain[g], k)
  OBVIOUS
<1>2. /\ pc = "run" /\ g \in roots /\ k \in Keys(chain[g]) /\ roots' = roots \cup {k, chain[g][i].val}
      /\ UNCHANGED <<chain, count, heap, marked, pending, pc, start>>
  BY <1>1 DEF GetHash
<1>3. i \in 1 .. Len(chain[g]) /\ chain[g][i].key = k
  BY <1>1, <1>2, PositionIs
<1>4. roots' \subseteq Thing /\ roots' \subseteq heap
  <2>1. {k, chain[g][i].val} \subseteq Thing \cap heap
    BY <1>2, <1>3, HeldTable
  <2>2. roots \subseteq Thing \cap heap
    BY DEF IInv, Typed, HeapIsWhole
  <2>3. QED
    BY <1>2, <2>1, <2>2
<1>5. Typed' /\ HeapIsWhole' /\ Leads(heap, chain)'
  BY <1>2, <1>4 DEF IInv, Typed, HeapIsWhole, Running
<1>6. QED
  BY <1>2, <1>5, RunKeeps

\* The entry of a key gets a value.
LEMMA ReplaceKeeps ==
  ASSUME IInv, pc = "run", UNCHANGED <<roots, count, heap, marked, pending, pc>>,
         NEW g \in Hash, g \in roots, NEW v \in roots, NEW i \in 1 .. Len(chain[g]),
         chain' = [chain EXCEPT ![g] = [chain[g] EXCEPT ![i].val = v]]
  PROVE  IInv'
<1>1. /\ roots \subseteq Thing /\ roots \subseteq heap /\ heap \subseteq Node
      /\ DOMAIN chain = Hash /\ count \in [Hash -> Int] /\ count[g] >= Len(chain[g])
  BY DEF IInv, Typed, HeapIsWhole
<1>2. PICK c, new : c = chain[g] /\ new = [c EXCEPT ![i].val = v]
  OBVIOUS
<1>3. /\ Row(c) /\ AllParts(g, c) \subseteq heap
      /\ \A j \in 1 .. Len(c) : c[j].key \in heap /\ c[j].val \in heap
  BY <1>2, HeldTable
<1>4. c \in Seq(Pair) /\ v \in Thing
  BY <1>1, <1>3 DEF Row
<1>5. /\ new \in Seq(Pair) /\ Len(new) = Len(c)
      /\ \A j \in 1 .. Len(c) : new[j].key = c[j].key /\ new[j].val \in {v, c[j].val}
  <2>1. c[i] \in Pair
    BY <1>2, <1>4
  <2>2. PICK e : e = [c[i] EXCEPT !.val = v]
    OBVIOUS
  <2>3. e \in Pair /\ e.key = c[i].key /\ e.val = v
    BY <1>4, <2>1, <2>2 DEF Pair
  <2>4. new = [c EXCEPT ![i] = e]
    BY <1>2, <2>2
  <2>5. new \in Seq(Pair) /\ Len(new) = Len(c) /\ \A j \in 1 .. Len(c) : new[j] = IF j = i THEN e ELSE c[j]
    BY <1>2, <1>4, <2>3, <2>4
  <2>6. QED
    BY <2>3, <2>5
<1>6. Row(new)
  BY <1>3, <1>5 DEF Row
<1>7. AllParts(g, new) \subseteq heap
  <2>1. ASSUME NEW x \in AllParts(g, new) PROVE x \in AllParts(g, c)
    BY <1>5, PartsAre
  <2>2. QED
    BY <1>3, <2>1
<1>8. \A j \in 1 .. Len(new) : new[j].key \in heap /\ new[j].val \in heap
  BY <1>1, <1>3, <1>5
<1>9. /\ DOMAIN chain' = Hash /\ chain'[g] = new
      /\ \A h \in Hash : h # g => chain'[h] = chain[h]
  BY <1>1, <1>2
<1>10. count[g] >= Len(new)
  BY <1>1, <1>2, <1>5
<1>11. roots' = roots /\ count' = count /\ heap' = heap
  OBVIOUS
<1>12. /\ \A x \in Thing : (x \in heap => x \in heap') /\ (x \in heap' => x \in heap \cup {g})
       /\ \A h \in Hash : h # g => (Vector(h) \in heap' <=> Vector(h) \in heap)
       /\ \A h \in Hash, l \in Thing : h # g => (ConsOf(h, l) \in heap' <=> ConsOf(h, l) \in heap)
       /\ \A h \in Hash, l \in Thing : h # g => (Entry(h, l) \in heap' <=> Entry(h, l) \in heap)
  BY <1>11
<1>13. /\ AllParts(g, new) \subseteq heap'
       /\ \A j \in 1 .. Len(new) : new[j].key \in heap' /\ new[j].val \in heap'
       /\ roots' \subseteq Thing /\ roots' \subseteq heap' /\ heap' \subseteq Node
       /\ count' \in [Hash -> Int] /\ count'[g] >= Len(new)
  BY <1>1, <1>7, <1>8, <1>10, <1>11
<1>14. \A h \in Hash : h # g => chain'[h] = chain[h] /\ count'[h] = count[h]
  BY <1>9, <1>11
<1>15. QED
  BY <1>6, <1>9, <1>12, <1>13, <1>14, TableKeeps

\* A key gets an entry, at the front of the chain.
LEMMA InsertKeeps ==
  ASSUME IInv, pc = "run", UNCHANGED <<roots, marked, pending, pc>>,
         NEW g \in Hash, g \in roots, NEW k \in roots, NEW v \in roots, k \notin Keys(chain[g]),
         chain' = [chain EXCEPT ![g] = <<[key |-> k, val |-> v]>> \o @],
         count' = [count EXCEPT ![g] = @ + 1], heap' = heap \cup Parts(g, k)
  PROVE  IInv'
<1>1. /\ roots \subseteq Thing /\ roots \subseteq heap /\ heap \subseteq Node
      /\ DOMAIN chain = Hash /\ count \in [Hash -> Int] /\ count[g] >= Len(chain[g])
  BY DEF IInv, Typed, HeapIsWhole
<1>2. PICK c, e, new : c = chain[g] /\ e = [key |-> k, val |-> v] /\ new = <<e>> \o c
  OBVIOUS
<1>3. /\ Row(c) /\ AllParts(g, c) \subseteq heap
      /\ \A j \in 1 .. Len(c) : c[j].key \in heap /\ c[j].val \in heap
  BY <1>2, HeldTable
<1>4. c \in Seq(Pair) /\ k \in Thing /\ v \in Thing /\ Len(c) \in Nat
  BY <1>1, <1>3 DEF Row
<1>5. e \in Pair /\ e.key = k /\ e.val = v
  BY <1>2, <1>4 DEF Pair
<1>6. /\ new \in Seq(Pair) /\ Len(new) = Len(c) + 1 /\ new[1] = e
      /\ \A j \in 1 .. Len(new) : j # 1 => j - 1 \in 1 .. Len(c) /\ new[j] = c[j - 1]
  BY <1>2, <1>4, <1>5
<1>7. \A j \in 1 .. Len(c) : c[j].key # k
  BY <1>2 DEF Keys
<1>8. Row(new)
  <2>1. ASSUME NEW j \in 1 .. Len(new), NEW l \in 1 .. Len(new), new[j].key = new[l].key PROVE j = l
    <3>1. CASE j = 1 /\ l = 1
      BY <3>1
    <3>2. CASE j # 1 /\ l # 1
      <4>1. /\ j - 1 \in 1 .. Len(c) /\ new[j] = c[j - 1]
            /\ l - 1 \in 1 .. Len(c) /\ new[l] = c[l - 1]
        BY <1>6, <3>2
      <4>2. j - 1 = l - 1
        BY <1>3, <2>1, <4>1 DEF Row
      <4>3. QED
        BY <4>2
    <3>3. CASE j = 1 /\ l # 1
      BY <1>5, <1>6, <1>7, <2>1, <3>3
    <3>4. CASE j # 1 /\ l = 1
      BY <1>5, <1>6, <1>7, <2>1, <3>4
    <3>5. QED
      BY <3>1, <3>2, <3>3, <3>4
  <2>2. QED
    BY <1>6, <2>1 DEF Row
<1>9. /\ heap' \subseteq Node
      /\ \A x \in Thing : (x \in heap => x \in heap') /\ (x \in heap' => x \in heap \cup {g})
      /\ \A h \in Hash : h # g => (Vector(h) \in heap' <=> Vector(h) \in heap)
      /\ \A h \in Hash, l \in Thing : h # g => (ConsOf(h, l) \in heap' <=> ConsOf(h, l) \in heap)
      /\ \A h \in Hash, l \in Thing : h # g => (Entry(h, l) \in heap' <=> Entry(h, l) \in heap)
      /\ heap \subseteq heap'
  BY <1>1, <1>4, NewParts
<1>10. AllParts(g, new) \subseteq heap'
  <2>1. ASSUME NEW x \in AllParts(g, new) PROVE x \in heap'
    <3>1. CASE x = Vector(g)
      BY <1>3, <1>9, <3>1, PartsAre
    <3>2. CASE \E j \in 1 .. Len(new) : x = ConsOf(g, new[j].key) \/ x = Entry(g, new[j].key)
      <4>1. PICK j \in 1 .. Len(new) : x = ConsOf(g, new[j].key) \/ x = Entry(g, new[j].key)
        BY <3>2
      <4>2. CASE j = 1
        BY <1>5, <1>6, <4>1, <4>2 DEF Parts
      <4>3. CASE j # 1
        <5>1. j - 1 \in 1 .. Len(c) /\ new[j] = c[j - 1]
          BY <1>6, <4>3
        <5>2. x \in AllParts(g, c)
          BY <4>1, <5>1, PartsAre
        <5>3. QED
          BY <1>3, <1>9, <5>2
      <4>4. QED
        BY <4>2, <4>3
    <3>3. QED
      BY <3>1, <3>2, PartsAre
  <2>2. QED
    BY <2>1
<1>11. \A j \in 1 .. Len(new) : new[j].key \in heap' /\ new[j].val \in heap'
  <2>1. ASSUME NEW j \in 1 .. Len(new) PROVE new[j].key \in heap' /\ new[j].val \in heap'
    <3>1. CASE j = 1
      BY <1>1, <1>5, <1>6, <1>9, <3>1
    <3>2. CASE j # 1
      BY <1>3, <1>6, <1>9, <3>2
    <3>3. QED
      BY <3>1, <3>2
  <2>2. QED
    BY <2>1
<1>12. /\ DOMAIN chain' = Hash /\ chain'[g] = new
       /\ \A h \in Hash : h # g => chain'[h] = chain[h]
  BY <1>1, <1>2
<1>13. /\ count' \in [Hash -> Int] /\ \A h \in Hash : h # g => count'[h] = count[h]
       /\ count'[g] = count[g] + 1
  BY <1>1
<1>14. count'[g] >= Len(new)
  BY <1>1, <1>2, <1>4, <1>6, <1>13
<1>15. roots' \subseteq Thing /\ roots' \subseteq heap'
  BY <1>1, <1>9
<1>16. QED
  BY <1>8, <1>9, <1>10, <1>11, <1>12, <1>13, <1>14, <1>15, TableKeeps, ZenonT(60)

LEMMA SetHashKeeps ==
  ASSUME IInv, NEW g \in Hash, NEW k \in Thing, NEW v \in Thing, SetHash(g, k, v)
  PROVE  IInv'
<1>1. pc = "run" /\ g \in roots /\ k \in roots /\ v \in roots
      /\ UNCHANGED <<roots, marked, pending, pc>>
  BY DEF SetHash
<1>2. CASE k \in Keys(chain[g])
  <2>1. PICK i : i = Position(chain[g], k)
    OBVIOUS
  <2>2. i \in 1 .. Len(chain[g])
    BY <1>2, <2>1, PositionIs
  <2>3. chain' = [chain EXCEPT ![g][i].val = v] /\ UNCHANGED <<count, heap>>
    BY <1>2, <2>1 DEF SetHash
  <2>4. chain' = [chain EXCEPT ![g] = [chain[g] EXCEPT ![i].val = v]]
    BY <2>3
  <2>5. QED
    BY <1>1, <2>2, <2>3, <2>4, ReplaceKeeps
<1>3. CASE k \notin Keys(chain[g])
  <2>1. /\ chain' = [chain EXCEPT ![g] = <<[key |-> k, val |-> v]>> \o @]
        /\ count' = [count EXCEPT ![g] = @ + 1] /\ heap' = heap \cup Parts(g, k)
    BY <1>3 DEF SetHash
  <2>2. QED
    BY <1>1, <1>3, <2>1, InsertKeeps
<1>4. QED
  BY <1>2, <1>3

\* The entry of a key is taken out.
LEMMA RemHashKeeps ==
  ASSUME IInv, NEW g \in Hash, NEW k \in Thing, RemHash(g, k)
  PROVE  IInv'
<1> DEFINE S == {i \in 1 .. Len(chain[g]) : chain[g][i].key # k}
<1>1. /\ pc = "run" /\ UNCHANGED <<roots, marked, pending, pc>> /\ g \in roots /\ k \in Keys(chain[g])
      /\ chain' = [chain EXCEPT ![g] = Those(chain[g], S)]
      /\ count' = [count EXCEPT ![g] = @ - 1] /\ heap' = heap \ Parts(g, k)
  BY DEF RemHash
<1>2. /\ roots \subseteq Thing /\ roots \subseteq heap /\ heap \subseteq Node
      /\ DOMAIN chain = Hash /\ count \in [Hash -> Int] /\ count[g] >= Len(chain[g])
  BY DEF IInv, Typed, HeapIsWhole
<1>3. PICK c, new : c = chain[g] /\ new = Those(c, S)
  OBVIOUS
<1>4. /\ Row(c) /\ AllParts(g, c) \subseteq heap
      /\ \A j \in 1 .. Len(c) : /\ c[j].key \in heap /\ c[j].val \in heap
                                /\ c[j].key \in Thing /\ c[j].val \in Thing
  BY <1>1, <1>3, HeldTable
<1>5. \A j \in S : j \in 1 .. Len(c) /\ c[j].key # k
  BY <1>3
<1>6. \E i \in 1 .. Len(c) : i \notin S
  <2>1. PICK i \in 1 .. Len(c) : c[i].key = k
    BY <1>1, <1>3 DEF Keys
  <2>2. QED
    BY <1>5, <2>1
<1> HIDE DEF S
<1>7. /\ Row(new) /\ Len(new) <= Len(c) - 1
      /\ \A p \in 1 .. Len(new) : \E i \in 1 .. Len(c) : i \in S /\ new[p] = c[i]
  <2>1. Row(c) /\ new = Those(c, S)
    BY <1>3, <1>4
  <2>2. PICK T : T = S
    OBVIOUS
  <2>3. PICK i \in 1 .. Len(c) : i \notin T
    BY <1>6, <2>2
  <2>4. new = Those(c, T)
    BY <2>1, <2>2
  <2>5. Row(new) /\ \A p \in 1 .. Len(new) : \E j \in 1 .. Len(c) : j \in T /\ new[p] = c[j]
    BY <2>1, <2>4, ThoseRow
  <2>6. Len(new) <= Len(c) - 1
    BY <2>1, <2>3, <2>4, ThoseRow
  <2>7. QED
    BY <2>2, <2>5, <2>6
<1>8. ASSUME NEW p \in 1 .. Len(new)
      PROVE  \E i \in 1 .. Len(c) : new[p] = c[i] /\ new[p].key # k
  BY <1>5, <1>7
<1>9. /\ Parts(g, k) \cap Thing = {}
      /\ \A h : Vector(h) \notin Parts(g, k)
      /\ \A h, l : h # g => ConsOf(h, l) \notin Parts(g, k) /\ Entry(h, l) \notin Parts(g, k)
  BY NewParts
<1>10. /\ heap' \subseteq Node
       /\ \A x \in Thing : (x \in heap => x \in heap') /\ (x \in heap' => x \in heap \cup {g})
       /\ \A h \in Hash : h # g => (Vector(h) \in heap' <=> Vector(h) \in heap)
       /\ roots' \subseteq Thing /\ roots' \subseteq heap'
  BY <1>1, <1>2, <1>9
<1>11. \A h \in Hash, l \in Thing : h # g => (ConsOf(h, l) \in heap' <=> ConsOf(h, l) \in heap)
  BY <1>1, <1>9
<1>12. \A h \in Hash, l \in Thing : h # g => (Entry(h, l) \in heap' <=> Entry(h, l) \in heap)
  BY <1>1, <1>9
<1>13. AllParts(g, new) \subseteq heap'
  <2>1. Vector(g) \in heap'
    BY <1>1, <1>4, <1>9, PartsAre
  <2>2. ASSUME NEW p \in 1 .. Len(new)
        PROVE  ConsOf(g, new[p].key) \in heap' /\ Entry(g, new[p].key) \in heap'
    <3>1. PICK i \in 1 .. Len(c) : new[p] = c[i] /\ new[p].key # k
      BY <1>8
    <3>2. ConsOf(g, c[i].key) \in heap /\ Entry(g, c[i].key) \in heap
      BY <1>4, PartsAre
    <3>3. ConsOf(g, c[i].key) \notin Parts(g, k) /\ Entry(g, c[i].key) \notin Parts(g, k)
      BY <3>1, Shapes DEF Parts
    <3>4. QED
      BY <1>1, <3>1, <3>2, <3>3
  <2>3. QED
    BY <2>1, <2>2, PartsAre
<1>14. \A p \in 1 .. Len(new) : new[p].key \in heap' /\ new[p].val \in heap'
  <2>1. ASSUME NEW p \in 1 .. Len(new) PROVE new[p].key \in heap' /\ new[p].val \in heap'
    <3>1. PICK i \in 1 .. Len(c) : new[p] = c[i]
      BY <1>8
    <3>2. QED
      BY <1>4, <1>10, <3>1
  <2>2. QED
    BY <2>1
<1>15. /\ DOMAIN chain' = Hash /\ chain'[g] = new
       /\ \A h \in Hash : h # g => chain'[h] = chain[h]
  BY <1>1, <1>2, <1>3
<1>16. /\ count' \in [Hash -> Int] /\ \A h \in Hash : h # g => count'[h] = count[h]
       /\ count'[g] = count[g] - 1
  BY <1>1, <1>2
<1>17. count'[g] >= Len(new)
  <2>1. Len(new) \in Nat /\ Len(c) \in Nat
    BY <1>4, <1>7, RowHas
  <2>2. QED
    BY <1>2, <1>3, <1>7, <1>16, <2>1
<1>18. QED
  BY <1>1, <1>7, <1>10, <1>11, <1>12, <1>13, <1>14, <1>15, <1>16, <1>17, TableKeeps

LEMMA UnchangedKeeps ==
  ASSUME IInv, UNCHANGED vars
  PROVE  IInv'
<1>1. /\ roots' = roots /\ chain' = chain /\ count' = count /\ heap' = heap /\ marked' = marked
      /\ pending' = pending /\ pc' = pc /\ start' = start
  BY DEF vars
<1>2. \A h : Holding(h)' = Holding(h)
  BY <1>1 DEF Holding
<1>3. Typed' /\ HeapIsWhole' /\ Running' /\ Marking'
  BY <1>1 DEF IInv, Typed, HeapIsWhole, Running, Marking
<1>4. Since'
  BY <1>1, <1>2 DEF IInv, Since
<1>5. QED
  BY <1>3, <1>4 DEF IInv

-----------------------------------------------------------------------------
\* The invariant holds in every state, for all objects and tables: of weak
\* tables, those whose keys or whose values are weak, but not both.
THEOREM Invariance ==
  ASSUME NoneBothWeak
  PROVE  Spec => []IInv
<1>1. Init => IInv
  BY InitIs
<1>2. ASSUME IInv, [Next]_vars PROVE IInv'
  <2>1. CASE Mark
    BY <1>2, <2>1, MarkKeeps
  <2>2. CASE Sweep
    BY <1>2, <2>2, SweepKeeps
  <2>3. CASE \E h \in Hash : ProcessWeak(h)
    BY <1>2, <2>3, ProcessWeakKeeps
  <2>4. CASE \E x \in Thing : New(x) \/ Drop(x)
    BY <1>2, <2>4, NewKeeps, DropKeeps
  <2>5. CASE \E h \in Hash, k \in Thing :
               GetHash(h, k) \/ RemHash(h, k) \/ \E v \in Thing : SetHash(h, k, v)
    BY <1>2, <2>5, GetHashKeeps, RemHashKeeps, SetHashKeeps
  <2>6. CASE UNCHANGED vars
    BY <1>2, <2>6, UnchangedKeeps
  <2>7. QED
    BY <1>2, <2>1, <2>2, <2>3, <2>4, <2>5, <2>6 DEF Next
<1>3. QED
  BY <1>1, <1>2, PTL DEF Spec

\* No collection reclaims what the program can still get at through its
\* tables, weak or not, whatever order the tables are processed in and
\* whatever stale word the marking meets.
THEOREM NothingDangles ==
  ASSUME NoneBothWeak
  PROVE  Spec => []NoDangling
<1>1. ASSUME IInv PROVE NoDangling
  <2>1. SUFFICES ASSUME pc = "run"
                 PROVE  Closure(roots, chain, [h \in Hash |-> AllParts(h, chain[h])]) \subseteq heap
    BY DEF NoDangling
  <2>2. PICK marks : marks = [h \in Hash |-> AllParts(h, chain[h])]
    OBVIOUS
  <2>3. \A h \in Hash : marks[h] = AllParts(h, chain[h])
    BY <2>2
  <2>4. Markers(marks)
    <3>1. ASSUME NEW h \in Hash PROVE AllParts(h, chain[h]) \subseteq Node
      <4>1. \A i \in 1 .. Len(chain[h]) : chain[h][i].key \in Thing
        BY <1>1, ChainsAre, RowHas DEF Chains
      <4>2. QED
        BY <4>1, PartsAre, NodesAre
    <3>2. QED
      BY <2>3, <3>1 DEF Markers
  <2>5. Complete(heap, chain, marks)
    BY <1>1, <2>1, <2>3 DEF IInv, HeapIsWhole, Whole, Running, Leads, Complete, Into
  <2>6. roots \subseteq heap /\ roots \in SUBSET Node
    BY <1>1 DEF IInv, HeapIsWhole, Typed
  <2>7. Closure(roots, chain, marks) \subseteq heap
    BY <1>1, <2>4, <2>5, <2>6, ClosureIs, ChainsAre
  <2>8. QED
    BY <2>2, <2>7
<1>2. QED
  BY <1>1, Invariance, PTL

\* Each table that is left has lost exactly the entries whose weak part was
\* not found by the marking, in whatever order the tables were processed.
THEOREM LapseExactly ==
  ASSUME NoneBothWeak
  PROVE  Spec => []LapsedExactly
<1>1. ASSUME IInv PROVE LapsedExactly
  <2>1. \A h \in Hash : count[h] >= Len(chain[h])
    BY <1>1 DEF IInv, Typed
  <2>2. ASSUME NEW h \in Hash, pc = "weak", pending = {}, h \in marked
        PROVE  chain[h] = Those(start.chain[h], Holding(h))
    BY <1>1, <2>2 DEF IInv, Since
  <2>3. QED
    BY <2>1, <2>2 DEF LapsedExactly, Holding
<1>2. QED
  BY <1>1, Invariance, PTL

\* What is only reachable through weak links goes in the collection, unless a
\* stale word holds it.
THEOREM WeakLinksKeepNothing ==
  ASSUME NoneBothWeak
  PROVE  Spec => WeakKeepsNothing
<1> DEFINE A == pc = "weak" /\ pc' = "run" /\ start.word = NoWord =>
                  LET held == MarkFrom(roots, start.chain)
                  IN  heap' = held \cup UNION {AllParts(h, chain[h]) : h \in held \cap Hash}
<1>1. ASSUME IInv, [Next]_vars PROVE A
  <2>1. SUFFICES ASSUME pc = "weak", pc' = "run", start.word = NoWord, NEW held,
                        held = MarkFrom(roots, start.chain)
                 PROVE  heap' = held \cup (UNION {AllParts(h, chain[h]) : h \in held \cap Hash})
    OBVIOUS
  <2>2. Sweep
    BY <1>1, <2>1 DEF Next, vars, Mark, ProcessWeak, New, Drop, GetHash, SetHash, RemHash
  <2>3. pending = {} /\ heap' = heap \cap marked
    BY <2>2 DEF Sweep
  <2>4. heap' = marked /\ held = start.marked
    BY <1>1, <2>1, <2>3 DEF IInv, Marking, Since
  <2>5. held \subseteq marked
    BY <1>1, <2>1, <2>4 DEF IInv, Since
  <2>6. ASSUME NEW h \in Hash PROVE h \in held <=> h \in marked
    BY <1>1, <2>1, <2>4, ThingsMarked DEF Thing
  <2>7. ASSUME NEW h \in marked \cap Hash PROVE AllParts(h, chain[h]) \subseteq marked
    BY <1>1, <2>1, <2>3 DEF IInv, Marking, Whole
  <2>8. marked \subseteq held \cup UNION {AllParts(h, chain[h]) : h \in (marked \cap Hash) \ pending}
    BY <1>1, <2>1, <2>4 DEF IInv, Since
  <2>9. ASSUME NEW x \in marked, x \notin held PROVE \E h \in held \cap Hash : x \in AllParts(h, chain[h])
    <3>1. PICK h \in (marked \cap Hash) \ pending : x \in AllParts(h, chain[h])
      BY <2>8, <2>9
    <3>2. QED
      BY <2>6, <3>1
  <2>10. ASSUME NEW h \in held \cap Hash PROVE AllParts(h, chain[h]) \subseteq marked
    BY <2>6, <2>7
  <2>11. QED
    BY <2>4, <2>5, <2>9, <2>10
<1>2. [][A]_vars => WeakKeepsNothing
  BY PTL DEF WeakKeepsNothing
<1>3. IInv /\ [Next]_vars => A
  BY <1>1
<1>4. Spec => []IInv /\ [][Next]_vars
  BY Invariance, PTL DEF Spec
<1> HIDE DEF A
<1>5. QED
  BY <1>2, <1>3, <1>4, PTL
=============================================================================
