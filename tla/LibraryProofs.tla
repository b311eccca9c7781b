---------------------------- MODULE LibraryProofs ---------------------------
(***************************************************************************)
(* Proofs about HashTable, for any keys and hashes, and tables that grow   *)
(* without bound; and about Arith, for cnums and random words of any       *)
(* width, any operands and either choice of each thing the compiler may    *)
(* offer.                                                                  *)
(*                                                                         *)
(* Every key is on the chain that it hashes to, once. A table that grows   *)
(* doubles its chains, and each key moves to one of the two new chains     *)
(* that share the keys of its old one. An iteration that the table does    *)
(* not grow under has returned the keys on the chains before its own, and  *)
(* on its own those that are not in the rest of the list it holds.         *)
(*                                                                         *)
(* For Arith a lemma for each function says what it returns for numbers in *)
(* their one representation: those of mul rest on the number of bits of a  *)
(* product, isqrt_fixnum on what is left of the root below each bit,       *)
(* random on the highest bit. The n-ary functions, powers and sums are     *)
(* recursive functions, which the lemmas of Induction say have solutions.  *)
(***************************************************************************)
EXTENDS HashTable, Arith, FunctionTheorems, FiniteSetTheorems, SequenceTheorems, Induction

\* The chain of a key in a table of m.
At(k, m) == HashFun[k] % m

\* Every key in the list hashes to i, and none is in it twice.
Row(chain, i, m) ==
  /\ \E S : chain \in Seq(S)
  /\ \A n \in 1 .. Len(chain) : chain[n][1] \in Key /\ At(chain[n][1], m) = i
  /\ \A n, p \in 1 .. Len(chain) : chain[n][1] = chain[p][1] => n = p

Rows(t, m) ==
  /\ m \in Nat \ {0} /\ DOMAIN t = 0 .. m - 1
  /\ \A i \in 0 .. m - 1 : Row(t[i], i, m)

Held(t) == UNION {Keys(t[i]) : i \in DOMAIN t}

\* An iteration that goes on: what it has yet to return are the steady keys of
\* the chains ahead, and those in what is left of the list it is in.
Left(rest) == {rest[n][1] : n \in 2 .. Len(rest)}
UnderWay(it, keys, visits, m) ==
  /\ it.chain \in -1 .. m - 1
  /\ Row(it.rest, it.chain, m)
  /\ \A k \in keys :
       visits[k] = IF At(k, m) > it.chain \/ (At(k, m) = it.chain /\ k \in Left(it.rest))
                   THEN 0 ELSE 1

\* The inductive invariant.
Counted == IsFiniteSet(Present) /\ count = Cardinality(Present) /\ count <= 2 * modulus
Valued == value = [k \in Present |-> value[k]]
Iterated ==
  /\ iter = [chain |-> iter.chain, rest |-> iter.rest, on |-> iter.on] /\ iter.on \in BOOLEAN
  /\ visited \in [Key -> 0 .. 2] /\ steady \subseteq Present
  /\ ~ grown => \/ iter = None /\ steady = {}
                \/ ~ iter.on /\ \A k \in steady : visited[k] = 1
                \/ iter.on /\ UnderWay(iter, steady, visited, modulus)
IInv == Rows(table, modulus) /\ Counted /\ Valued /\ Iterated

-----------------------------------------------------------------------------
\* Division with remainder has one result.
LEMMA DivisionIs ==
  ASSUME NEW h \in Nat, NEW m \in Nat \ {0}
  PROVE  /\ h % m \in 0 .. m - 1 /\ \E q \in Nat : h = m * q + (h % m)
         /\ \A q \in Int, r \in 0 .. m - 1 : h = m * q + r => h % m = r
<1> DEFINE S == {n \in Nat : \E q \in Nat, r \in 0 .. m - 1 : n = m * q + r}
<1>1. 0 \in S
  <2>1. 0 = m * 0 + 0 /\ 0 \in 0 .. m - 1 /\ 0 \in Nat
    OBVIOUS
  <2>2. QED
    BY <2>1
<1>2. ASSUME NEW n \in Nat, n \in S PROVE n + 1 \in S
  <2>1. PICK q \in Nat, r \in 0 .. m - 1 : n = m * q + r
    BY <1>2
  <2>2. CASE r < m - 1
    <3>1. r + 1 \in 0 .. m - 1 /\ n + 1 = m * q + (r + 1)
      BY <2>1, <2>2
    <3>2. QED
      BY <3>1
  <2>3. CASE r = m - 1
    <3>1. PICK p : p = q + 1
      OBVIOUS
    <3>2. n + 1 = m * p + 0 /\ p \in Nat /\ 0 \in 0 .. m - 1
      BY <2>1, <2>3, <3>1
    <3>3. QED
      BY <3>2
  <2>4. QED
    BY <2>2, <2>3
<1>3. \A q \in Int, r \in 0 .. m - 1 : h = m * q + r => h % m = r
  OBVIOUS
<1> HIDE DEF S
<1>4. Nat \subseteq S
  BY <1>1, <1>2, SetInduction
<1>5. PICK q \in Nat, r \in 0 .. m - 1 : h = m * q + r
  BY <1>4 DEF S
<1>6. h % m = r
  BY <1>3, <1>5
<1>7. PICK d : d = h % m
  OBVIOUS
<1>8. d \in 0 .. m - 1 /\ h = m * q + d
  BY <1>5, <1>6, <1>7
<1>9. QED
  BY <1>3, <1>7, <1>8

LEMMA AtIs ==
  ASSUME KeysAreHashed, NEW k \in Key, NEW m \in Nat \ {0}
  PROVE  /\ At(k, m) \in 0 .. m - 1
         /\ At(k, 2 * m) \in 0 .. 2 * m - 1 /\ At(k, 2 * m) % m = At(k, m)
<1> DEFINE h == HashFun[k]
           n == h % (2 * m)
<1>1. h \in Nat /\ 2 * m \in Nat \ {0}
  BY DEF KeysAreHashed
<1> HIDE DEF h
<1>2. h % m \in 0 .. m - 1 /\ n \in 0 .. 2 * m - 1
  BY <1>1, DivisionIs
<1>3. PICK q \in Nat : h = 2 * m * q + n
  BY <1>1, DivisionIs
<1> HIDE DEF n
<1>4. PICK r : r = n % m
  OBVIOUS
<1>5. PICK p \in Nat : n = m * p + r /\ r \in 0 .. m - 1
  <2>1. n \in Nat
    BY <1>2
  <2>2. n % m \in 0 .. m - 1 /\ \E p \in Nat : n = m * p + (n % m)
    BY <2>1, DivisionIs
  <2>3. QED
    BY <1>4, <2>2
<1>6. PICK s : s = 2 * q + p
  OBVIOUS
<1>7. h = m * s + r /\ s \in Int
  BY <1>3, <1>5, <1>6
<1>8. h % m = n % m
  BY <1>1, <1>4, <1>5, <1>7, DivisionIs
<1>9. QED
  BY <1>2, <1>8 DEF At, h, n

\* A key that the table holds is on the chain that it hashes to.
LEMMA HeldIs ==
  ASSUME KeysAreHashed, NEW t, NEW m, Rows(t, m), NEW k
  PROVE  k \in Held(t) <=> k \in Key /\ k \in Keys(t[At(k, m)])
<1>1. ASSUME NEW i \in 0 .. m - 1, k \in Keys(t[i]) PROVE k \in Key /\ At(k, m) = i
  <2>1. Row(t[i], i, m)
    BY DEF Rows
  <2>2. QED
    BY <1>1, <2>1 DEF Row, Keys
<1>2. k \in Key => At(k, m) \in 0 .. m - 1
  BY AtIs DEF Rows
<1>3. QED
  BY <1>1, <1>2 DEF Held, Rows

\* A list with a cons in front of it.
LEMMA Pushed ==
  ASSUME NEW m, NEW i, NEW chain, Row(chain, i, m), NEW c, c[1] \in Key, At(c[1], m) = i,
         c[1] \notin Keys(chain), NEW new, new = Cons(c, chain)
  PROVE  Row(new, i, m) /\ Keys(new) = Keys(chain) \cup {c[1]}
<1>1. PICK S : chain \in Seq(S)
  BY DEF Row
<1>2. new \in Seq(S \cup {c}) /\ Len(new) = Len(chain) + 1 /\ Len(chain) \in Nat
  BY <1>1 DEF Cons
<1>3. new[1] = c /\ \A n \in 2 .. Len(new) : new[n] = chain[n - 1]
  BY <1>1 DEF Cons
<1>4. \A n \in 2 .. Len(new) : n - 1 \in 1 .. Len(chain)
  BY <1>2
<1>5. \A n \in 1 .. Len(chain) : n + 1 \in 2 .. Len(new) /\ new[n + 1] = chain[n]
  <2>1. \A n \in 1 .. Len(chain) : n + 1 \in 2 .. Len(new) /\ (n + 1) - 1 = n
    BY <1>2
  <2>2. QED
    BY <1>3, <2>1
<1>6. \A n \in 1 .. Len(new) : n = 1 \/ n \in 2 .. Len(new)
  BY <1>2
<1>7. \A n \in 2 .. Len(new) : new[n][1] \in Keys(chain)
  BY <1>3, <1>4 DEF Keys
<1>8. \A n, p \in 2 .. Len(new) : new[n][1] = new[p][1] => n = p
  <2>1. ASSUME NEW n \in 2 .. Len(new), NEW p \in 2 .. Len(new), new[n][1] = new[p][1]
        PROVE  n = p
    <3>1. \A a, b \in 1 .. Len(chain) : chain[a][1] = chain[b][1] => a = b
      BY DEF Row
    <3>2. n - 1 \in 1 .. Len(chain) /\ p - 1 \in 1 .. Len(chain)
      BY <1>4
    <3>3. chain[n - 1][1] = chain[p - 1][1]
      BY <1>3, <2>1
    <3>4. n - 1 = p - 1
      BY <3>1, <3>2, <3>3
    <3>5. QED
      BY <3>4
  <2>2. QED
    BY <2>1
<1>9. \A n, p \in 1 .. Len(new) : new[n][1] = new[p][1] => n = p
  BY <1>3, <1>6, <1>7, <1>8
<1>10. \A n \in 1 .. Len(new) : new[n][1] \in Key /\ At(new[n][1], m) = i
  BY <1>3, <1>4, <1>6 DEF Row
<1>11. Row(new, i, m)
  BY <1>2, <1>9, <1>10 DEF Row
<1>12. Keys(new) = Keys(chain) \cup {c[1]}
  <2>1. Keys(new) \subseteq Keys(chain) \cup {c[1]}
    BY <1>3, <1>6, <1>7 DEF Keys
  <2>2. c[1] \in Keys(new)
    BY <1>2, <1>3 DEF Keys
  <2>3. ASSUME NEW n \in 1 .. Len(chain) PROVE chain[n][1] \in Keys(new)
    <3>1. PICK p : p = n + 1
      OBVIOUS
    <3>2. p \in 1 .. Len(new) /\ new[p] = chain[n]
      BY <1>2, <1>5, <3>1
    <3>3. QED
      BY <3>2 DEF Keys
  <2>4. Keys(chain) \subseteq Keys(new)
    BY <2>3 DEF Keys
  <2>5. QED
    BY <2>1, <2>2, <2>4
<1>13. QED
  BY <1>11, <1>12

\* What remhash() makes of a chain: its first conses copied, and all but the
\* n-th kept.
LEMMA SplicedIs ==
  ASSUME NEW m, NEW i, NEW chain, Row(chain, i, m), NEW n \in 1 .. Len(chain),
         NEW new, new = Spliced(chain, n)
  PROVE  Row(new, i, m) /\ Keys(new) = Keys(chain) \ {chain[n][1]}
<1> DEFINE N == Len(chain)
           Old(p) == IF p < n THEN p ELSE p + 1
           front == [j \in 1 .. n - 1 |-> Fresh(chain[j][1])]
           back == SubSeq(chain, n + 1, N)
<1>1. PICK S : chain \in Seq(S)
  BY DEF Row
<1>2. N \in Nat /\ n \in Nat /\ n <= N
  BY <1>1
<1>3. PICK F : F = {Fresh(chain[j][1]) : j \in 1 .. n - 1}
  OBVIOUS
<1>4. front \in Seq(S \cup F) /\ Len(front) = n - 1
      /\ \A p \in 1 .. n - 1 : front[p] = Fresh(chain[p][1])
  BY <1>2, <1>3
<1>5. back \in Seq(S \cup F) /\ Len(back) = N - n
      /\ \A p \in 1 .. N - n : back[p] = chain[n + p]
  <2>1. n + 1 \in 1 .. N + 1
    BY <1>2
  <2>2. back \in Seq(S) /\ Len(back) = N - n
    BY <1>1, <1>2, <2>1
  <2>3. ASSUME NEW p \in 1 .. N - n PROVE back[p] = chain[n + p]
    <3>1. back[p] = chain[(n + 1) + p - 1] /\ (n + 1) + p - 1 = n + p
      BY <1>1, <1>2
    <3>2. QED
      BY <3>1
  <2>4. QED
    BY <2>2, <2>3
<1>6. new = front \o back
  BY DEF Spliced
<1> HIDE DEF front, back
<1>7. new \in Seq(S \cup F) /\ Len(new) = N - 1
      /\ \A p \in 1 .. N - 1 : new[p] = IF p < n THEN front[p] ELSE back[p - n + 1]
  <2>1. PICK C : C = S \cup F
    OBVIOUS
  <2>2. /\ front \in Seq(C) /\ back \in Seq(C)
        /\ Len(front) = n - 1 /\ Len(back) = N - n
    BY <1>4, <1>5, <2>1
  <2>3. /\ new \in Seq(C) /\ Len(new) = Len(front) + Len(back)
        /\ \A p \in 1 .. Len(front) + Len(back) :
             new[p] = IF p <= Len(front) THEN front[p] ELSE back[p - Len(front)]
    <3>1. /\ front \o back \in Seq(C) /\ Len(front \o back) = Len(front) + Len(back)
          /\ \A p \in 1 .. Len(front) + Len(back) :
               (front \o back)[p] = IF p <= Len(front) THEN front[p] ELSE back[p - Len(front)]
      BY <2>2, ConcatProperties, Zenon
    <3>2. QED
      BY <1>6, <3>1, Zenon
  <2>4. Len(new) = N - 1
    BY <1>2, <2>2, <2>3
  <2>5. ASSUME NEW p \in 1 .. N - 1
        PROVE  new[p] = IF p < n THEN front[p] ELSE back[p - n + 1]
    <3>1. new[p] = IF p <= n - 1 THEN front[p] ELSE back[p - (n - 1)]
      BY <1>2, <2>2, <2>3
    <3>2. p - (n - 1) = p - n + 1 /\ (p <= n - 1 <=> p < n)
      BY <1>2
    <3>3. QED
      BY <3>1, <3>2
  <2>6. QED
    BY <2>1, <2>3, <2>4, <2>5
<1>8. ASSUME NEW p \in 1 .. N - 1
      PROVE  new[p][1] = chain[Old(p)][1] /\ Old(p) \in 1 .. N /\ Old(p) # n
  <2>1. CASE p < n
    <3>1. new[p] = Fresh(chain[p][1])
      BY <1>2, <1>4, <1>7, <2>1
    <3>2. new[p][1] = chain[p][1]
      BY <3>1 DEF Fresh
    <3>3. QED
      BY <1>2, <2>1, <3>2
  <2>2. CASE ~ p < n
    <3>1. p - n + 1 \in 1 .. N - n /\ n + (p - n + 1) = p + 1
      BY <1>2, <2>2
    <3>2. new[p] = chain[p + 1]
      BY <1>5, <1>7, <2>2, <3>1
    <3>3. QED
      BY <1>2, <2>2, <3>2
  <2>3. QED
    BY <2>1, <2>2
<1>9. ASSUME NEW p \in 1 .. N - 1, NEW q \in 1 .. N - 1, Old(p) = Old(q) PROVE p = q
  <2>1. CASE p < n /\ q < n
    BY <1>9, <2>1
  <2>2. CASE p < n /\ ~ q < n
    BY <1>2, <1>9, <2>2
  <2>3. CASE ~ p < n /\ q < n
    BY <1>2, <1>9, <2>3
  <2>4. CASE ~ p < n /\ ~ q < n
    BY <1>2, <1>9, <2>4
  <2>5. QED
    BY <2>1, <2>2, <2>3, <2>4
<1>10. \A p \in 1 .. N : p # n => \E q \in 1 .. N - 1 : Old(q) = p
  <2>1. ASSUME NEW p \in 1 .. N, p # n PROVE \E q \in 1 .. N - 1 : Old(q) = p
    <3>1. CASE p < n
      <4>1. p \in 1 .. N - 1 /\ Old(p) = p
        BY <1>2, <3>1
      <4>2. QED
        BY <4>1
    <3>2. CASE p > n
      <4>1. PICK q : q = p - 1
        OBVIOUS
      <4>2. q \in 1 .. N - 1 /\ Old(q) = p
        BY <1>2, <3>2, <4>1
      <4>3. QED
        BY <4>2
    <3>3. QED
      BY <1>2, <2>1, <3>1, <3>2
  <2>2. QED
    BY <2>1
<1>11. /\ \A p \in 1 .. N : chain[p][1] \in Key /\ At(chain[p][1], m) = i
       /\ \A p, q \in 1 .. N : chain[p][1] = chain[q][1] => p = q
  BY DEF Row
<1> HIDE DEF Old, N
<1>12. Row(new, i, m)
  <2> DEFINE L == N - 1
  <2>1. Len(new) = L /\ \A p \in 1 .. L : new[p][1] = chain[Old(p)][1] /\ Old(p) \in 1 .. N
    BY <1>7, <1>8
  <2> HIDE DEF L
  <2>2. ASSUME NEW p \in 1 .. L PROVE new[p][1] \in Key /\ At(new[p][1], m) = i
    <3>1. PICK o \in 1 .. N : new[p][1] = chain[o][1]
      BY <2>1
    <3>2. QED
      BY <1>11, <3>1
  <2>3. ASSUME NEW p \in 1 .. L, NEW q \in 1 .. L, new[p][1] = new[q][1] PROVE p = q
    <3>1. chain[Old(p)][1] = chain[Old(q)][1] /\ Old(p) \in 1 .. N /\ Old(q) \in 1 .. N
      BY <2>1, <2>3
    <3>2. Old(p) = Old(q)
      BY <1>11, <3>1
    <3>3. QED
      BY <1>9, <3>2 DEF L
  <2>4. QED
    BY <1>7, <2>1, <2>2, <2>3 DEF Row
<1>13. ASSUME NEW k PROVE k \in Keys(new) <=> k \in Keys(chain) /\ k # chain[n][1]
  <2>1. ASSUME k \in Keys(new) PROVE k \in Keys(chain) /\ k # chain[n][1]
    <3>1. PICK p \in 1 .. N - 1 : k = new[p][1]
      BY <1>7, <2>1 DEF Keys
    <3>2. PICK o : o = Old(p)
      OBVIOUS
    <3>3. k = chain[o][1] /\ o \in 1 .. N /\ o # n
      BY <1>8, <3>1, <3>2
    <3>4. n \in 1 .. N
      BY DEF N
    <3>5. QED
      BY <1>11, <3>3, <3>4 DEF Keys, N
  <2>2. ASSUME k \in Keys(chain), k # chain[n][1] PROVE k \in Keys(new)
    <3>1. PICK p \in 1 .. N : k = chain[p][1]
      BY <2>2 DEF Keys, N
    <3>2. PICK q \in 1 .. N - 1 : Old(q) = p
      BY <1>10, <2>2, <3>1
    <3>3. k = new[q][1]
      BY <1>8, <3>1, <3>2
    <3>4. QED
      BY <1>7, <3>3 DEF Keys
  <2>3. QED
    BY <2>1, <2>2
<1>14. QED
  BY <1>12, <1>13

\* A chain of the table replaced by one with other keys.
LEMMA RowReplaced ==
  ASSUME KeysAreHashed, NEW t, NEW m, Rows(t, m), NEW i \in 0 .. m - 1,
         NEW chain, Row(chain, i, m), NEW new, new = [t EXCEPT ![i] = chain]
  PROVE  /\ Rows(new, m)
         /\ \A k : k \in Held(new) <=> IF At(k, m) = i THEN k \in Keys(chain) ELSE k \in Held(t)
<1>1. DOMAIN new = DOMAIN t /\ \A j \in 0 .. m - 1 : new[j] = IF j = i THEN chain ELSE t[j]
  BY DEF Rows
<1>2. Rows(new, m)
  BY <1>1 DEF Rows
<1>3. ASSUME NEW k
      PROVE  k \in Held(new) <=> IF At(k, m) = i THEN k \in Keys(chain) ELSE k \in Held(t)
  <2>1. k \in Held(new) <=> k \in Key /\ k \in Keys(new[At(k, m)])
    BY <1>2, HeldIs
  <2>2. k \in Held(t) <=> k \in Key /\ k \in Keys(t[At(k, m)])
    BY HeldIs
  <2>3. k \in Key => At(k, m) \in 0 .. m - 1
    BY AtIs DEF Rows
  <2>4. k \in Keys(chain) => k \in Key
    BY DEF Row, Keys
  <2>5. QED
    BY <1>1, <2>1, <2>2, <2>3, <2>4
<1>4. QED
  BY <1>2, <1>3

\* The conses of an old chain that belong to the new chain j.
LEMMA RelinkedIs ==
  ASSUME NEW m, NEW i, NEW chain, Row(chain, i, m), NEW w, NEW j, NEW new, new = Relinked(chain, w, j)
  PROVE  /\ Row(new, j, w)
         /\ \A k : k \in Keys(new) <=> k \in Keys(chain) /\ At(k, w) = j
<1> DEFINE N == Len(chain)
           Add(n, q) == IF HashFun[chain[n][1]] % w = j THEN <<chain[n]>> \o q ELSE q
           Is(h) == h = [n \in 0 .. N |-> IF n = 0 THEN <<>> ELSE Add(n, h[n - 1])]
<1>1. PICK S : chain \in Seq(S)
  BY DEF Row
<1>2. N \in Nat
  BY <1>1
<1> DEFINE F == [p \in (1 .. N) \X Seq(S) |-> Add(p[1], p[2])]
<1>3. \A n \in 1 .. N, q \in Seq(S) : Add(n, q) \in Seq(S) /\ F[<<n, q>>] = Add(n, q)
  BY <1>1, SMTT(30)
<1>4. new = (CHOOSE h : Is(h))[N]
  BY DEF Relinked
<1>5. F \in Steps(N, Seq(S))
  <2> HIDE DEF Add
  <2>1. QED
    BY <1>3 DEF Steps
<1> HIDE DEF F, Add, N
<1>6. PICK g : Solves(g, <<>>, F, N, Seq(S))
  <2>1. <<>> \in Seq(S)
    OBVIOUS
  <2>2. QED
    BY <1>2, <1>5, <2>1, Recursion
<1>7. Is(g)
  <2>1. g \in [0 .. N -> Seq(S)] /\ g[0] = <<>>
    BY <1>6 DEF Solves
  <2>2. ASSUME NEW n \in 0 .. N PROVE g[n] = IF n = 0 THEN <<>> ELSE Add(n, g[n - 1])
    <3>1. CASE n = 0
      BY <2>1, <3>1
    <3>2. CASE n \in 1 .. N
      <4>1. n - 1 \in 0 .. N /\ n # 0
        BY <1>2, <3>2
      <4>2. g[n] = F[<<n, g[n - 1]>>] /\ g[n - 1] \in Seq(S)
        BY <1>6, <2>1, <3>2, <4>1 DEF Solves
      <4>3. QED
        BY <1>3, <3>2, <4>1, <4>2
    <3>3. QED
      BY <1>2, <3>1, <3>2
  <2>3. QED
    BY <2>1, <2>2
<1>8. PICK h : Is(h) /\ new = h[N]
  <2> HIDE DEF Is
  <2>1. Is(CHOOSE h : Is(h))
    BY <1>7, Zenon
  <2>2. QED
    BY <1>4, <2>1
<1>9. h[0] = <<>> /\ \A n \in 1 .. N : h[n] = Add(n, h[n - 1])
  <2>1. \A n \in 0 .. N : h[n] = IF n = 0 THEN <<>> ELSE Add(n, h[n - 1])
    BY <1>8
  <2>2. \A n \in 1 .. N : n \in 0 .. N /\ n # 0
    BY <1>2
  <2>3. QED
    BY <1>2, <2>1, <2>2
<1> HIDE DEF Is
<1> DEFINE Has(q, n) == \A k : k \in Keys(q) <=> At(k, w) = j /\ \E p \in 1 .. n : k = chain[p][1]
           T == {n \in Nat : n <= N => Row(h[n], j, w) /\ Has(h[n], n)}
<1>10. 0 \in T
  <2>1. <<>> \in Seq({}) /\ Len(<<>>) = 0
    OBVIOUS
  <2>2. \A p \in 1 .. 0 : FALSE
    OBVIOUS
  <2>3. Row(<<>>, j, w) /\ Has(<<>>, 0)
    BY <2>1, <2>2 DEF Row, Keys
  <2>4. QED
    BY <1>9, <2>3
<1>11. ASSUME NEW n \in Nat, n \in T PROVE n + 1 \in T
  <2>1. SUFFICES ASSUME n + 1 <= N PROVE Row(h[n + 1], j, w) /\ Has(h[n + 1], n + 1)
    OBVIOUS
  <2>2. PICK l : l = n + 1
    OBVIOUS
  <2>3. l \in 1 .. N /\ l - 1 = n /\ \A p \in 1 .. l : p \in 1 .. n \/ p = l
    BY <1>2, <2>1, <2>2
  <2>4. \A p \in 1 .. n : p \in 1 .. N /\ p # l /\ p \in 1 .. l
    BY <1>2, <2>1, <2>2
  <2>5. l \in 1 .. l
    BY <2>2
  <2>6. Row(h[n], j, w) /\ Has(h[n], n)
    BY <1>11, <2>1, <1>2
  <2>7. h[l] = Add(l, h[n])
    BY <1>9, <2>3
  <2>8. chain[l][1] \in Key /\ \A p \in 1 .. n : chain[p][1] # chain[l][1]
    BY <2>3, <2>4 DEF Row, N
  <2>9. chain[l][1] \notin Keys(h[n])
    BY <2>6, <2>8
  <2> HIDE DEF T
  <2>10. CASE At(chain[l][1], w) = j
    <3>1. h[l] = <<chain[l]>> \o h[n]
      BY <2>7, <2>10 DEF Add, At
    <3>2. Row(h[l], j, w) /\ Keys(h[l]) = Keys(h[n]) \cup {chain[l][1]}
      <4>1. PICK c, q, v : c = chain[l] /\ q = h[n] /\ v = h[l]
        OBVIOUS
      <4>2. /\ Row(q, j, w) /\ c[1] \in Key /\ At(c[1], w) = j
            /\ c[1] \notin Keys(q) /\ v = Cons(c, q)
        BY <2>6, <2>8, <2>9, <2>10, <3>1, <4>1 DEF Cons
      <4>3. Row(v, j, w) /\ Keys(v) = Keys(q) \cup {c[1]}
        BY <4>2, Pushed
      <4>4. QED
        BY <4>1, <4>3
    <3>3. Has(h[l], l)
      BY <2>3, <2>4, <2>5, <2>6, <2>10, <3>2
    <3>4. QED
      BY <2>2, <3>2, <3>3
  <2>11. CASE At(chain[l][1], w) # j
    <3>1. h[l] = h[n]
      BY <2>7, <2>11 DEF Add, At
    <3>2. Has(h[l], l)
      BY <2>3, <2>4, <2>5, <2>6, <2>11, <3>1
    <3>3. QED
      BY <2>2, <2>6, <3>1, <3>2
  <2>12. QED
    BY <2>10, <2>11
<1> HIDE DEF T
<1>12. Nat \subseteq T
  BY <1>10, <1>11, SetInduction
<1>13. Row(new, j, w) /\ Has(new, N)
  BY <1>2, <1>8, <1>12 DEF T
<1>14. QED
  BY <1>13 DEF Keys, N

\* The new chains hold what the old ones held.
LEMMA RelinkIs ==
  ASSUME KeysAreHashed, NEW t, NEW m, Rows(t, m), NEW new, new = Relink(t, m, 2 * m)
  PROVE  Rows(new, 2 * m) /\ Held(new) = Held(t)
<1> DEFINE w == 2 * m
<1>1. m \in Nat \ {0} /\ w \in Nat \ {0} /\ \A i \in 0 .. m - 1 : Row(t[i], i, m)
  BY DEF Rows
<1>2. DOMAIN new = 0 .. w - 1 /\ \A j \in 0 .. w - 1 : new[j] = Relinked(t[j % m], w, j)
  BY DEF Relink
<1> HIDE DEF w
<1>3. ASSUME NEW j \in 0 .. w - 1
      PROVE  /\ j % m \in 0 .. m - 1 /\ Row(new[j], j, w)
             /\ \A k : k \in Keys(new[j]) <=> k \in Keys(t[j % m]) /\ At(k, w) = j
  <2>1. j \in Nat
    BY <1>1
  <2>2. j % m \in 0 .. m - 1
    BY <1>1, <2>1, DivisionIs
  <2>3. QED
    BY <1>1, <1>2, <2>2, RelinkedIs
<1>4. Rows(new, w)
  BY <1>1, <1>2, <1>3 DEF Rows
<1>5. ASSUME NEW k PROVE k \in Held(new) <=> k \in Held(t)
  <2>1. k \in Held(new) <=> k \in Key /\ k \in Keys(new[At(k, w)])
    BY <1>4, HeldIs
  <2>2. k \in Held(t) <=> k \in Key /\ k \in Keys(t[At(k, m)])
    BY HeldIs
  <2>3. k \in Key => At(k, w) \in 0 .. w - 1 /\ At(k, w) % m = At(k, m)
    BY <1>1, AtIs DEF w
  <2>4. QED
    BY <1>3, <2>1, <2>2, <2>3
<1>6. QED
  BY <1>4, <1>5 DEF w

-----------------------------------------------------------------------------
LEMMA ModulusIs ==
  ASSUME NEW t, NEW m, Rows(t, m)
  PROVE  Cardinality(DOMAIN t) = m
<1>1. m \in Nat \ {0} /\ DOMAIN t = 0 .. m - 1
  BY DEF Rows
<1>2. Cardinality(0 .. m - 1) = (m - 1) - 0 + 1
  BY <1>1, FS_Interval
<1>3. QED
  BY <1>1, <1>2

\* gethash() finds what the table holds.
LEMMA FoundIs ==
  ASSUME KeysAreHashed, IInv
  PROVE  /\ modulus \in Nat \ {0} /\ Present = Held(table) /\ Present \subseteq Key
         /\ \A k \in Key : /\ Index(k) = At(k, modulus) /\ Index(k) \in 0 .. modulus - 1
                           /\ Found(k) <=> k \in Present
<1>1. Rows(table, modulus) /\ modulus \in Nat \ {0}
  BY DEF IInv, Rows
<1>2. Present = Held(table)
  BY DEF Present, Held
<1>3. \A k : Index(k) = At(k, modulus)
  BY DEF Index, At
<1> HIDE DEF modulus, Index, Present
<1>4. \A k \in Key : At(k, modulus) \in 0 .. modulus - 1
  BY <1>1, AtIs
<1>5. \A k : k \in Present <=> k \in Key /\ k \in Keys(table[At(k, modulus)])
  BY <1>1, <1>2, HeldIs
<1>6. QED
  BY <1>1, <1>2, <1>3, <1>4, <1>5 DEF Found

\* An entry at the front of the chain of its key.
LEMMA Inserted ==
  ASSUME KeysAreHashed, IInv, NEW k \in Key, ~ Found(k),
         NEW t, t = [table EXCEPT ![Index(k)] = <<Fresh(k)>> \o @]
  PROVE  Rows(t, modulus) /\ Held(t) = Present \cup {k}
<1> DEFINE i == Index(k)
           new == Cons(Fresh(k), table[i])
<1>1. /\ i = At(k, modulus) /\ i \in 0 .. modulus - 1 /\ k \notin Present
      /\ Present = Held(table)
  BY FoundIs
<1>2. Rows(table, modulus) /\ DOMAIN table = 0 .. modulus - 1
  BY DEF IInv, Rows
<1>3. Row(table[i], i, modulus)
  BY <1>1, <1>2 DEF Rows
<1>4. t = [table EXCEPT ![i] = new]
  BY DEF Cons
<1>5. k \notin Keys(table[i])
  BY DEF Found
<1>6. PICK c : c = Fresh(k) /\ c[1] = k
  <2>1. Fresh(k)[1] = k
    BY DEF Fresh
  <2>2. QED
    BY <2>1
<1> HIDE DEF i, modulus
<1>7. Row(new, i, modulus) /\ Keys(new) = Keys(table[i]) \cup {k}
  BY <1>1, <1>3, <1>5, <1>6, Pushed
<1> HIDE DEF new
<1>8. /\ Rows(t, modulus)
      /\ \A x : x \in Held(t) <=> IF At(x, modulus) = i THEN x \in Keys(new) ELSE x \in Held(table)
  BY <1>1, <1>2, <1>4, <1>7, RowReplaced
<1>9. \A x : At(x, modulus) = i => (x \in Keys(table[i]) /\ x \in Key <=> x \in Held(table))
  BY <1>2, HeldIs
<1>10. \A x \in Keys(table[i]) : x \in Key
  BY <1>3 DEF Row, Keys
<1>11. QED
  BY <1>1, <1>7, <1>8, <1>9, <1>10

\* sethash() adds a key, unless the table holds it.
LEMMA SetHashHolds ==
  ASSUME KeysAreHashed, IInv, NEW k \in Key, NEW v, SetHash(k, v)
  PROVE  /\ Rows(table', modulus') /\ Present' = Present \cup {k} /\ Counted'
         /\ \/ modulus' = modulus /\ iter' = iter /\ grown' = grown
            \/ grown' /\ \E rest : iter' = [iter EXCEPT !.rest = rest]
<1>1. /\ Rows(table, modulus) /\ modulus \in Nat \ {0}
      /\ Found(k) <=> k \in Present
  BY FoundIs DEF IInv
<1>2. IsFiniteSet(Present) /\ count = Cardinality(Present) /\ count <= 2 * modulus
      /\ count \in Nat
  <2>1. IsFiniteSet(Present) /\ count = Cardinality(Present) /\ count <= 2 * modulus
    BY DEF IInv, Counted
  <2>2. QED
    BY <2>1, FS_CardinalityType
<1>3. modulus' = Cardinality(DOMAIN table') /\ Present' = Held(table')
  BY DEF modulus, Present, Held
<1>4. CASE Found(k) /\ UNCHANGED <<table, count, iter, grown>>
  <2>1. modulus' = modulus /\ Present' = Present
    BY <1>4 DEF modulus, Present
  <2>2. Present \cup {k} = Present
    BY <1>1, <1>4
  <2>3. QED
    BY <1>1, <1>2, <1>4, <2>1, <2>2 DEF Counted
<1>5. CASE ~ Found(k)
  <2> DEFINE t == [table EXCEPT ![Index(k)] = <<Fresh(k)>> \o @]
  <2>1. Rows(t, modulus) /\ Held(t) = Present \cup {k}
    BY <1>5, Inserted
  <2>2. /\ count' = count + 1
        /\ \/ MustGrow(count + 1) /\ Grow(t)
           \/ ~ MustGrow(count + 1) /\ table' = t /\ UNCHANGED <<iter, grown>>
    BY <1>5 DEF SetHash
  <2> HIDE DEF t
  <2>3. IsFiniteSet(Present \cup {k}) /\ Cardinality(Present \cup {k}) = count + 1
    BY <1>1, <1>2, <1>5, FS_AddElement
  <2>4. CASE MustGrow(count + 1) /\ Grow(t)
    <3>1. /\ table' = Relink(t, modulus, 2 * modulus) /\ grown'
          /\ \E rest : iter' = [iter EXCEPT !.rest = rest]
      BY <2>4 DEF Grow
    <3>2. PICK m : m = 2 * modulus
      OBVIOUS
    <3>3. Rows(table', m) /\ Held(table') = Present \cup {k}
      BY <2>1, <3>1, <3>2, RelinkIs
    <3>4. modulus' = m
      BY <1>3, <3>3, ModulusIs
    <3>5. count' <= 2 * m
      BY <1>1, <1>2, <2>2, <3>2
    <3>6. QED
      BY <1>3, <2>2, <2>3, <3>1, <3>3, <3>4, <3>5 DEF Counted
  <2>5. CASE ~ MustGrow(count + 1) /\ table' = t /\ UNCHANGED <<iter, grown>>
    <3>1. modulus' = modulus
      BY <1>3, <2>1, <2>5, ModulusIs
    <3>2. count + 1 <= 2 * modulus
      BY <1>1, <1>2, <2>5 DEF MustGrow
    <3>3. QED
      BY <1>3, <2>1, <2>2, <2>3, <2>5, <3>1, <3>2 DEF Counted
  <2>6. QED
    BY <2>2, <2>4, <2>5
<1>6. QED
  BY <1>4, <1>5 DEF SetHash

\* remhash() takes a key away, if the table holds it.
LEMMA RemHashHolds ==
  ASSUME KeysAreHashed, IInv, NEW k \in Key, RemHash(k)
  PROVE  Rows(table', modulus') /\ Present' = Present \ {k} /\ Counted' /\ modulus' = modulus
<1>1. /\ Rows(table, modulus) /\ modulus \in Nat \ {0} /\ Present = Held(table)
      /\ Found(k) <=> k \in Present
      /\ Index(k) = At(k, modulus) /\ Index(k) \in 0 .. modulus - 1
  BY FoundIs DEF IInv
<1>2. IsFiniteSet(Present) /\ count = Cardinality(Present) /\ count <= 2 * modulus
      /\ count \in Nat
  <2>1. IsFiniteSet(Present) /\ count = Cardinality(Present) /\ count <= 2 * modulus
    BY DEF IInv, Counted
  <2>2. QED
    BY <2>1, FS_CardinalityType
<1>3. modulus' = Cardinality(DOMAIN table') /\ Present' = Held(table')
  BY DEF modulus, Present, Held
<1>4. CASE ~ Found(k)
  <2>1. UNCHANGED <<table, count>>
    BY <1>4 DEF RemHash
  <2>2. modulus' = modulus /\ Present' = Present
    BY <2>1 DEF modulus, Present
  <2>3. Present \ {k} = Present
    BY <1>1, <1>4
  <2>4. QED
    BY <1>1, <1>2, <2>1, <2>2, <2>3 DEF Counted
<1>5. CASE Found(k)
  <2> DEFINE i == Index(k)
             chain == table[i]
             n == CHOOSE n \in 1 .. Len(chain) : chain[n][1] = k
             new == Spliced(chain, n)
  <2>1. Row(chain, i, modulus)
    BY <1>1 DEF Rows
  <2>2. \E p \in 1 .. Len(chain) : chain[p][1] = k
    BY <1>5 DEF Found, Keys
  <2>3. n \in 1 .. Len(chain) /\ chain[n][1] = k
    BY <2>2
  <2>4. table' = [table EXCEPT ![i] = new] /\ count' = count - 1
    BY <1>5 DEF RemHash, Unlinked
  <2> HIDE DEF n, chain, i
  <2>5. Row(new, i, modulus) /\ Keys(new) = Keys(chain) \ {k}
    BY <2>1, <2>3, SplicedIs
  <2> HIDE DEF new
  <2> DEFINE t == table'
  <2>6. t = [table EXCEPT ![i] = new] /\ i \in 0 .. modulus - 1
    BY <1>1, <2>4 DEF i
  <2> HIDE DEF t, modulus, Index, Present
  <2>7. /\ Rows(t, modulus)
        /\ \A x : x \in Held(t) <=> IF At(x, modulus) = i THEN x \in Keys(new) ELSE x \in Held(table)
    BY <1>1, <2>5, <2>6, RowReplaced
  <2>8. \A x : At(x, modulus) = i => (x \in Keys(chain) /\ x \in Key <=> x \in Held(table))
    BY <1>1, HeldIs DEF chain
  <2>9. \A x \in Keys(chain) : x \in Key
    BY <2>1 DEF Row, Keys
  <2>10. Held(t) = Held(table) \ {k}
    BY <1>1, <2>5, <2>7, <2>8, <2>9 DEF i
  <2>11. Cardinality(DOMAIN t) = modulus
    BY <2>7, ModulusIs
  <2>12. IsFiniteSet(Present \ {k}) /\ Cardinality(Present \ {k}) = count - 1
    BY <1>1, <1>2, <1>5, FS_RemoveElement
  <2>13. count - 1 <= 2 * modulus
    BY <1>1, <1>2
  <2>14. modulus' = modulus /\ Present' = Present \ {k}
    BY <1>1, <1>3, <2>10, <2>11 DEF t
  <2>15. Counted'
    BY <2>4, <2>12, <2>13, <2>14 DEF Counted
  <2>16. QED
    BY <2>7, <2>14, <2>15 DEF t
<1>6. QED
  BY <1>4, <1>5

-----------------------------------------------------------------------------
LEMMA InitIs ==
  ASSUME KeysAreHashed, TableInit
  PROVE  IInv
<1> DEFINE m == Modulus0
<1>1. m \in Nat \ {0} /\ DOMAIN table = 0 .. m - 1 /\ \A i \in 0 .. m - 1 : table[i] = <<>>
  BY DEF KeysAreHashed, TableInit
<1>2. \A i : Row(<<>>, i, m)
  <2>1. <<>> \in Seq({}) /\ Len(<<>>) = 0 /\ \A n \in 1 .. 0 : FALSE
    OBVIOUS
  <2>2. QED
    BY <2>1 DEF Row
<1>3. Rows(table, m)
  BY <1>1, <1>2 DEF Rows
<1>4. modulus = m
  BY <1>3, ModulusIs DEF modulus
<1>5. Present = {}
  <2>1. Keys(<<>>) = {}
    BY DEF Keys
  <2>2. QED
    BY <1>1, <2>1 DEF Present
<1>6. Counted
  <2>1. IsFiniteSet({}) /\ Cardinality({}) = 0
    BY FS_EmptySet
  <2>2. QED
    BY <1>1, <1>4, <1>5, <2>1 DEF Counted, TableInit
<1>7. Valued
  <2>1. value = [k \in {} |-> {}]
    BY DEF TableInit
  <2>2. [k \in {} |-> {}] = [k \in {} |-> value[k]]
    OBVIOUS
  <2>3. QED
    BY <1>5, <2>1, <2>2 DEF Valued
<1>8. Iterated
  BY <1>5 DEF Iterated, TableInit, None
<1>9. QED
  BY <1>3, <1>4, <1>6, <1>7, <1>8 DEF IInv

\* What goes on in the table leaves an iteration where it is.
LEMMA UnderWayStays ==
  ASSUME NEW m, UnderWay(iter, steady, visited, m), NEW keys \in SUBSET steady
  PROVE  UnderWay(iter, keys, visited, m)
BY DEF UnderWay

LEMMA SetHashKeeps ==
  ASSUME KeysAreHashed, IInv, NEW k \in Key, NEW v, SetHash(k, v)
  PROVE  IInv'
<1>1. /\ Rows(table', modulus') /\ Present' = Present \cup {k} /\ Counted'
      /\ \/ modulus' = modulus /\ iter' = iter /\ grown' = grown
         \/ grown' /\ \E rest : iter' = [iter EXCEPT !.rest = rest]
  BY SetHashHolds
<1>2. /\ value' = [x \in DOMAIN value \cup {k} |-> IF x = k THEN v ELSE value[x]]
      /\ visited' = visited /\ steady' = steady
  BY DEF SetHash
<1>3. Valued'
  <2>1. DOMAIN value' = Present \cup {k} /\ value' = [x \in DOMAIN value' |-> value'[x]]
    <3>1. DOMAIN value = Present
      BY DEF IInv, Valued
    <3>2. QED
      BY <1>2, <3>1
  <2>2. QED
    BY <1>1, <2>1 DEF Valued
<1>4. Iterated'
  <2>1. Iterated
    BY DEF IInv
  <2> HIDE DEF modulus, Present
  <2>2. steady' \subseteq Present' /\ visited' \in [Key -> 0 .. 2]
    BY <1>1, <1>2, <2>1 DEF Iterated
  <2>3. CASE modulus' = modulus /\ iter' = iter /\ grown' = grown
    <3>1. UnderWay(iter, steady, visited, modulus) => UnderWay(iter', steady', visited', modulus')
      BY <1>2, <2>3, UnderWayStays
    <3>2. QED
      BY <1>2, <2>1, <2>2, <2>3, <3>1 DEF Iterated
  <2>4. CASE grown' /\ \E rest : iter' = [iter EXCEPT !.rest = rest]
    <3>1. PICK rest : iter' = [iter EXCEPT !.rest = rest]
      BY <2>4
    <3>2. iter = [chain |-> iter.chain, rest |-> iter.rest, on |-> iter.on] /\ iter.on \in BOOLEAN
      BY <2>1 DEF Iterated
    <3>3. iter' = [chain |-> iter.chain, rest |-> rest, on |-> iter.on]
      BY <3>1, <3>2
    <3>4. QED
      BY <2>2, <2>4, <3>2, <3>3 DEF Iterated
  <2>5. QED
    BY <1>1, <2>3, <2>4
<1>5. QED
  BY <1>1, <1>3, <1>4 DEF IInv, Rows, Row

LEMMA RemHashKeeps ==
  ASSUME KeysAreHashed, IInv, NEW k \in Key, RemHash(k)
  PROVE  IInv'
<1>1. Rows(table', modulus') /\ Present' = Present \ {k} /\ Counted' /\ modulus' = modulus
  BY RemHashHolds
<1>2. /\ value' = Restrict(value, DOMAIN value \ {k}) /\ steady' = steady \ {k}
      /\ iter' = iter /\ visited' = visited /\ grown' = grown
  BY DEF RemHash
<1>3. Valued'
  <2>1. DOMAIN value = Present
    BY DEF IInv, Valued
  <2>2. value' = [x \in Present \ {k} |-> value[x]]
    BY <1>2, <2>1 DEF Restrict
  <2>3. QED
    BY <1>1, <2>2 DEF Valued
<1>4. Iterated'
  <2>1. Iterated
    BY DEF IInv
  <2> HIDE DEF modulus, Present
  <2>2. steady' \subseteq Present' /\ visited' \in [Key -> 0 .. 2] /\ steady' \subseteq steady
    BY <1>1, <1>2, <2>1 DEF Iterated
  <2>3. UnderWay(iter, steady, visited, modulus) => UnderWay(iter', steady', visited', modulus')
    BY <1>1, <1>2, <2>2, UnderWayStays
  <2>4. QED
    BY <1>2, <2>1, <2>2, <2>3 DEF Iterated
<1>5. QED
  BY <1>1, <1>3, <1>4 DEF IInv, Rows, Row

LEMMA HashBeginKeeps ==
  ASSUME KeysAreHashed, IInv, HashBegin
  PROVE  IInv'
<1>1. /\ table' = table /\ count' = count /\ value' = value
      /\ iter' = [None EXCEPT !.on = TRUE] /\ visited' = [k \in Key |-> 0]
      /\ steady' = Present /\ grown' = FALSE
  BY DEF HashBegin
<1>2. modulus' = modulus /\ Present' = Present
  BY <1>1 DEF modulus, Present
<1>3. iter' = [chain |-> -1, rest |-> <<>>, on |-> TRUE]
  BY <1>1 DEF None
<1>4. modulus \in Nat \ {0} /\ Present \subseteq Key
      /\ \A k \in Key : At(k, modulus) \in 0 .. modulus - 1
  BY FoundIs
<1>5. UnderWay(iter', steady', visited', modulus')
  <2>1. <<>> \in Seq({}) /\ Len(<<>>) = 0 /\ \A n \in 1 .. 0 : FALSE
    OBVIOUS
  <2>2. Row(<<>>, -1, modulus)
    BY <2>1 DEF Row
  <2>3. PICK it, vs, st : it = iter' /\ vs = visited' /\ st = steady'
    OBVIOUS
  <2> HIDE DEF modulus, Present
  <2>4. \A k \in st : vs[k] = 0 /\ At(k, modulus) > it.chain
    BY <1>1, <1>3, <1>4, <2>3
  <2>5. it.chain \in -1 .. modulus - 1 /\ Row(it.rest, it.chain, modulus)
    BY <1>3, <1>4, <2>2, <2>3
  <2>6. QED
    BY <1>2, <2>3, <2>4, <2>5 DEF UnderWay
<1>6. Iterated'
  <2> HIDE DEF modulus, Present
  <2>1. iter' = [chain |-> iter'.chain, rest |-> iter'.rest, on |-> iter'.on] /\ iter'.on = TRUE
    BY <1>3
  <2>2. visited' \in [Key -> 0 .. 2] /\ steady' \subseteq Present'
    BY <1>1, <1>2
  <2>3. QED
    BY <1>5, <2>1, <2>2 DEF Iterated
<1>7. QED
  BY <1>1, <1>2, <1>6 DEF IInv, Rows, Row, Counted, Valued

\* The least of the chains ahead.
LEMMA AheadIs ==
  ASSUME NEW m \in Nat, DOMAIN table = 0 .. m - 1, iter.chain \in -1 .. m - 1, Ahead # {}
  PROVE  Min(Ahead) \in Ahead /\ \A j \in Ahead : Min(Ahead) <= j
<1>1. Ahead \in SUBSET Nat
  BY DEF Ahead
<1>2. \E j \in Ahead : \A k \in Ahead : j <= k
  BY <1>1, LeastNumber
<1>3. Min(Ahead) = CHOOSE j \in Ahead : \A k \in Ahead : j <= k
  BY DEF Min
<1> HIDE DEF Ahead
<1>4. QED
  BY <1>2, <1>3

\* The first entry of a list is counted, and those after it are left.
Counts(visits, k) == [visits EXCEPT ![k] = IF @ = 2 THEN 2 ELSE @ + 1]

LEMMA Visited ==
  ASSUME NEW rest, NEW c, NEW m, Row(rest, c, m), rest # <<>>
  PROVE  /\ rest[1][1] \in Key /\ At(rest[1][1], m) = c /\ rest[1][1] \notin Left(rest)
         /\ Keys(rest) = Left(rest) \cup {rest[1][1]}
<1>1. Len(rest) \in Nat /\ Len(rest) # 0
  BY DEF Row
<1>2. 1 \in 1 .. Len(rest) /\ \A n \in 1 .. Len(rest) : n = 1 \/ n \in 2 .. Len(rest)
  BY <1>1
<1>3. \A n \in 2 .. Len(rest) : n \in 1 .. Len(rest) /\ n # 1
  BY <1>1
<1>4. rest[1][1] \notin Left(rest)
  BY <1>2, <1>3 DEF Row, Left
<1>5. Keys(rest) = Left(rest) \cup {rest[1][1]}
  BY <1>2, <1>3 DEF Keys, Left
<1>6. QED
  BY <1>2, <1>4, <1>5 DEF Row

\* The rest of a list after its first cons.
LEMMA TailIs ==
  ASSUME NEW rest, NEW c, NEW m, Row(rest, c, m), rest # <<>>
  PROVE  Row(Tail(rest), c, m) /\ Keys(Tail(rest)) = Left(rest)
<1> DEFINE N == Len(rest)
           new == Tail(rest)
<1>1. PICK S : rest \in Seq(S)
  BY DEF Row
<1>2. N \in Nat \ {0} /\ new \in Seq(S) /\ Len(new) = N - 1
      /\ \A n \in 1 .. N - 1 : new[n] = rest[n + 1]
  BY <1>1
<1>3. /\ \A n \in 1 .. N : rest[n][1] \in Key /\ At(rest[n][1], m) = c
      /\ \A n, p \in 1 .. N : rest[n][1] = rest[p][1] => n = p
  BY DEF Row
<1> HIDE DEF new, N
<1>4. \A n \in 1 .. N - 1 : n + 1 \in 1 .. N
  BY <1>2
<1>5. \A n \in 1 .. Len(new) : new[n][1] \in Key /\ At(new[n][1], m) = c
  BY <1>2, <1>3, <1>4
<1>6. ASSUME NEW n \in 1 .. Len(new), NEW p \in 1 .. Len(new), new[n][1] = new[p][1]
      PROVE  n = p
  <2>1. rest[n + 1][1] = rest[p + 1][1]
    BY <1>2, <1>6
  <2>2. n + 1 \in 1 .. N /\ p + 1 \in 1 .. N
    BY <1>2, <1>4
  <2>3. n + 1 = p + 1
    BY <1>3, <2>1, <2>2
  <2>4. QED
    BY <1>2, <2>3
<1>7. Row(new, c, m)
  BY <1>2, <1>5, <1>6 DEF Row
<1>8. Keys(new) = Left(rest)
  <2>1. ASSUME NEW n \in 1 .. Len(new) PROVE new[n][1] \in Left(rest)
    <3>1. PICK p : p = n + 1
      OBVIOUS
    <3>2. p \in 2 .. N /\ new[n] = rest[p]
      BY <1>2, <3>1
    <3>3. QED
      BY <3>2 DEF Left, N
  <2>2. ASSUME NEW n \in 2 .. N PROVE rest[n][1] \in Keys(new)
    <3>1. PICK p : p = n - 1
      OBVIOUS
    <3>2. p \in 1 .. Len(new) /\ new[p] = rest[n]
      BY <1>2, <3>1
    <3>3. QED
      BY <3>2 DEF Keys
  <2>3. QED
    BY <2>1, <2>2 DEF Keys, Left, N
<1>9. QED
  BY <1>7, <1>8 DEF new

\* A step of an iteration that the table has not grown under.
LEMMA NextGoesOn ==
  ASSUME KeysAreHashed, NEW m, Rows(table, m), m = modulus, UnderWay(iter, steady, visited, m),
         iter = [chain |-> iter.chain, rest |-> iter.rest, on |-> iter.on], iter.on,
         visited \in [Key -> 0 .. 2], steady \subseteq Present,
         NEW it, it = Advance,
         NEW vs, vs = IF it.on THEN Counts(visited, it.rest[1][1]) ELSE visited
  PROVE  \/ ~ it.on /\ \A k \in steady : vs[k] = 1
         \/ it.on /\ UnderWay(it, steady, vs, m)
<1> DEFINE c == iter.chain
           rest == IF iter.rest = <<>> THEN <<>> ELSE Tail(iter.rest)
<1>1. /\ m \in Nat \ {0} /\ DOMAIN table = 0 .. m - 1
      /\ \A i \in 0 .. m - 1 : Row(table[i], i, m)
  BY DEF Rows
<1>2. /\ c \in -1 .. m - 1 /\ Row(iter.rest, c, m)
      /\ \A k \in steady : visited[k] = IF At(k, m) > c \/ (At(k, m) = c /\ k \in Left(iter.rest))
                                        THEN 0 ELSE 1
  BY DEF UnderWay
<1>3. Row(rest, c, m) /\ Keys(rest) = Left(iter.rest)
  <2>1. CASE iter.rest = <<>>
    <3>1. Len(<<>>) = 0 /\ (\A n \in 1 .. 0 : FALSE) /\ \A n \in 2 .. 0 : FALSE
      OBVIOUS
    <3>2. Keys(<<>>) = {} /\ Left(<<>>) = {}
      BY <3>1 DEF Keys, Left
    <3>3. QED
      BY <1>2, <2>1, <3>2
  <2>2. CASE iter.rest # <<>>
    BY <1>2, <2>2, TailIs
  <2>3. QED
    BY <2>1, <2>2
<1>4. it = IF rest # <<>> THEN [iter EXCEPT !.rest = rest]
           ELSE IF Ahead # {}
             THEN [chain |-> Min(Ahead), rest |-> table[Min(Ahead)], on |-> TRUE]
             ELSE [chain |-> m, rest |-> <<>>, on |-> FALSE]
  BY DEF Advance
<1>5. \A k \in steady :
        /\ k \in Key /\ k \in Keys(table[At(k, m)]) /\ At(k, m) \in 0 .. m - 1
        /\ visited[k] \in 0 .. 2
  <2>1. Present = Held(table)
    BY DEF Present, Held
  <2>2. QED
    BY <1>1, <2>1, HeldIs, AtIs
<1>6. \A k \in steady : table[At(k, m)] # <<>>
  <2>1. Keys(<<>>) = {}
    BY DEF Keys
  <2>2. QED
    BY <1>5, <2>1
<1> HIDE DEF rest
<1>7. CASE rest # <<>>
  <2>1. it = [chain |-> c, rest |-> rest, on |-> TRUE]
    BY <1>4, <1>7
  <2>2. PICK x : x = rest[1][1]
    OBVIOUS
  <2>3. x \in Key /\ At(x, m) = c /\ x \notin Left(rest) /\ Keys(rest) = Left(rest) \cup {x}
    BY <1>3, <1>7, <2>2, Visited
  <2>4. vs = Counts(visited, x) /\ it.on /\ it.chain = c /\ it.rest = rest
    BY <2>1, <2>2
  <2>5. \A k \in Key : vs[k] = IF k = x THEN (IF visited[k] = 2 THEN 2 ELSE visited[k] + 1)
                               ELSE visited[k]
    BY <2>4 DEF Counts
  <2>6. \A k \in steady : vs[k] = IF At(k, m) > c \/ (At(k, m) = c /\ k \in Left(rest))
                                  THEN 0 ELSE 1
    <3>1. ASSUME NEW k \in steady
          PROVE  vs[k] = IF At(k, m) > c \/ (At(k, m) = c /\ k \in Left(rest)) THEN 0 ELSE 1
      <4>1. CASE k = x
        BY <1>2, <1>3, <1>5, <2>3, <2>5, <4>1
      <4>2. CASE k # x
        BY <1>2, <1>3, <1>5, <2>3, <2>5, <4>2
      <4>3. QED
        BY <4>1, <4>2
    <3>2. QED
      BY <3>1
  <2>7. QED
    BY <1>2, <1>3, <2>4, <2>6 DEF UnderWay
<1>8. CASE rest = <<>>
  <2>1. \A k \in steady : visited[k] = IF At(k, m) > c THEN 0 ELSE 1
    <3>1. Keys(<<>>) = {}
      BY DEF Keys
    <3>2. QED
      BY <1>2, <1>3, <1>8, <3>1
  <2>2. \A j \in 0 .. m - 1 : j > c /\ table[j] # <<>> => j \in Ahead
    BY <1>1 DEF Ahead
  <2>3. CASE Ahead = {}
    <3>1. it.on = FALSE /\ vs = visited
      BY <1>4, <1>8, <2>3
    <3>2. \A k \in steady : ~ At(k, m) > c
      BY <1>5, <1>6, <2>2, <2>3
    <3>3. QED
      BY <2>1, <3>1, <3>2
  <2>4. CASE Ahead # {}
    <3>1. PICK j : j = Min(Ahead)
      OBVIOUS
    <3>2. j \in Ahead /\ \A i \in Ahead : j <= i
      BY <1>1, <1>2, <2>4, <3>1, AheadIs
    <3>3. j \in 0 .. m - 1 /\ j > c /\ table[j] # <<>>
      BY <1>1, <3>2 DEF Ahead
    <3>4. it.on /\ it.chain = j /\ it.rest = table[j]
      BY <1>4, <1>8, <2>4, <3>1
    <3>5. PICK x, r : x = r[1][1] /\ r = table[j]
      OBVIOUS
    <3>6. Row(r, j, m)
      BY <1>1, <3>3, <3>5
    <3>7. x \in Key /\ At(x, m) = j /\ x \notin Left(r) /\ Keys(r) = Left(r) \cup {x}
      BY <3>3, <3>5, <3>6, Visited
    <3>8. vs = Counts(visited, x)
      BY <3>4, <3>5
    <3>9. \A k \in Key : vs[k] = IF k = x THEN (IF visited[k] = 2 THEN 2 ELSE visited[k] + 1)
                                 ELSE visited[k]
      BY <3>8 DEF Counts
    <3>10. ASSUME NEW k \in steady
           PROVE  vs[k] = IF At(k, m) > j \/ (At(k, m) = j /\ k \in Left(r)) THEN 0 ELSE 1
      <4>1. /\ k \in Key /\ At(k, m) \in 0 .. m - 1 /\ k \in Keys(table[At(k, m)])
            /\ visited[k] = IF At(k, m) > c THEN 0 ELSE 1
        BY <1>5, <2>1
      <4>2. At(k, m) > c => j <= At(k, m)
        BY <1>6, <2>2, <3>2, <4>1
      <4>3. At(k, m) = j => k \in Keys(r)
        BY <3>5, <4>1
      <4>4. CASE k = x
        BY <1>2, <3>3, <3>7, <3>9, <4>1, <4>4
      <4>5. CASE k # x
        BY <1>2, <3>3, <3>7, <3>9, <4>1, <4>2, <4>3, <4>5
      <4>6. QED
        BY <4>4, <4>5
    <3>11. QED
      BY <3>3, <3>4, <3>5, <3>6, <3>10 DEF UnderWay
  <2>5. QED
    BY <2>3, <2>4
<1>9. QED
  BY <1>7, <1>8

LEMMA AdvanceIs ==
  ASSUME IInv, iter.on
  PROVE  Advance = [chain |-> Advance.chain, rest |-> Advance.rest, on |-> Advance.on]
         /\ Advance.on \in BOOLEAN
<1>1. iter = [chain |-> iter.chain, rest |-> iter.rest, on |-> iter.on] /\ iter.on \in BOOLEAN
  BY DEF IInv, Iterated
<1>2. \A rest : [iter EXCEPT !.rest = rest] = [chain |-> iter.chain, rest |-> rest, on |-> iter.on]
  <2>1. ASSUME NEW rest, NEW it, it = [iter EXCEPT !.rest = rest]
        PROVE  it = [chain |-> iter.chain, rest |-> rest, on |-> iter.on]
    BY <1>1, <2>1
  <2>2. QED
    BY <2>1
<1>3. \E c, rest, on : Advance = [chain |-> c, rest |-> rest, on |-> on] /\ on \in BOOLEAN
  <2> HIDE DEF modulus, Ahead
  <2> DEFINE rest == IF iter.rest = <<>> THEN <<>> ELSE Tail(iter.rest)
  <2>1. Advance = IF rest # <<>> THEN [iter EXCEPT !.rest = rest]
                  ELSE IF Ahead # {}
                    THEN [chain |-> Min(Ahead), rest |-> table[Min(Ahead)], on |-> TRUE]
                    ELSE [chain |-> modulus, rest |-> <<>>, on |-> FALSE]
    BY DEF Advance
  <2> HIDE DEF rest
  <2>2. CASE rest # <<>>
    <3>1. Advance = [chain |-> iter.chain, rest |-> rest, on |-> iter.on]
      BY <1>2, <2>1, <2>2
    <3>2. QED
      BY <1>1, <3>1
  <2>3. CASE rest = <<>> /\ Ahead # {}
    BY <2>1, <2>3
  <2>4. CASE rest = <<>> /\ Ahead = {}
    BY <2>1, <2>4
  <2>5. QED
    BY <2>2, <2>3, <2>4
<1>4. QED
  BY <1>3

LEMMA HashNextKeeps ==
  ASSUME KeysAreHashed, IInv, HashNext
  PROVE  IInv'
<1>1. /\ iter.on /\ iter' = Advance
      /\ table' = table /\ count' = count /\ value' = value /\ steady' = steady /\ grown' = grown
  BY DEF HashNext
<1>2. visited' = IF iter'.on THEN Counts(visited, iter'.rest[1][1]) ELSE visited
  BY DEF HashNext, Counts
<1>3. modulus' = modulus /\ Present' = Present
  BY <1>1 DEF modulus, Present
<1>4. Iterated
  BY DEF IInv
<1>5. Iterated'
  <2> HIDE DEF modulus, Present
  <2>1. iter' = [chain |-> iter'.chain, rest |-> iter'.rest, on |-> iter'.on] /\ iter'.on \in BOOLEAN
    BY <1>1, AdvanceIs
  <2>2. visited' \in [Key -> 0 .. 2]
    <3>1. visited \in [Key -> 0 .. 2]
      BY <1>4 DEF Iterated
    <3>2. PICK k : k = iter'.rest[1][1]
      OBVIOUS
    <3>3. Counts(visited, k) \in [Key -> 0 .. 2]
      <4>1. DOMAIN Counts(visited, k) = Key
        BY <3>1 DEF Counts
      <4>2. ASSUME NEW x \in Key PROVE Counts(visited, k)[x] \in 0 .. 2
        <5>1. visited[x] \in 0 .. 2
          BY <3>1
        <5>2. Counts(visited, k)[x] = IF x = k THEN (IF visited[x] = 2 THEN 2 ELSE visited[x] + 1)
                                      ELSE visited[x]
          BY <3>1 DEF Counts
        <5>3. QED
          BY <5>1, <5>2
      <4>3. Counts(visited, k) = [x \in Key |-> Counts(visited, k)[x]]
        BY <3>1 DEF Counts
      <4>4. QED
        BY <4>2, <4>3
    <3>4. QED
      BY <1>2, <3>1, <3>2, <3>3
  <2>3. ASSUME ~ grown
        PROVE  \/ ~ iter'.on /\ \A k \in steady' : visited'[k] = 1
               \/ iter'.on /\ UnderWay(iter', steady', visited', modulus')
    <3>1. UnderWay(iter, steady, visited, modulus)
      BY <1>1, <1>4, <2>3 DEF Iterated, None
    <3>2. PICK it, vs : it = iter' /\ vs = visited'
      OBVIOUS
    <3>3. it = Advance /\ vs = IF it.on THEN Counts(visited, it.rest[1][1]) ELSE visited
      BY <1>1, <1>2, <3>2
    <3>4. PICK m : m = modulus
      OBVIOUS
    <3>5. /\ Rows(table, m) /\ UnderWay(iter, steady, visited, m)
          /\ iter = [chain |-> iter.chain, rest |-> iter.rest, on |-> iter.on]
          /\ visited \in [Key -> 0 .. 2] /\ steady \subseteq Present
      BY <1>4, <3>1, <3>4 DEF IInv, Iterated
    <3>6. \/ ~ it.on /\ \A k \in steady : vs[k] = 1
          \/ it.on /\ UnderWay(it, steady, vs, m)
      BY <1>1, <3>3, <3>4, <3>5, NextGoesOn
    <3>7. steady' = steady /\ modulus' = m
      BY <1>1, <1>3, <3>4
    <3>8. CASE ~ it.on /\ \A k \in steady : vs[k] = 1
      BY <3>2, <3>7, <3>8
    <3>9. CASE it.on /\ UnderWay(it, steady, vs, m)
      <4>1. UnderWay(iter', steady', visited', modulus') /\ iter'.on
        BY <3>2, <3>7, <3>9
      <4>2. QED
        BY <4>1
    <3>10. QED
      BY <3>6, <3>8, <3>9
  <2>4. steady' \subseteq Present'
    BY <1>1, <1>3, <1>4 DEF Iterated
  <2>5. QED
    BY <1>1, <2>1, <2>2, <2>3, <2>4 DEF Iterated
<1>6. QED
  BY <1>1, <1>3, <1>5 DEF IInv, Rows, Row, Counted, Valued

LEMMA StepKeeps ==
  ASSUME KeysAreHashed, IInv, [TableNext]_tablevars
  PROVE  IInv'
<1>1. CASE UNCHANGED tablevars
  <2>1. /\ table' = table /\ count' = count /\ value' = value /\ iter' = iter
        /\ visited' = visited /\ steady' = steady /\ grown' = grown
    BY <1>1 DEF tablevars
  <2>2. modulus' = modulus /\ Present' = Present
    BY <2>1 DEF modulus, Present
  <2>3. Iterated'
    <3>1. Iterated
      BY DEF IInv
    <3> HIDE DEF modulus, Present
    <3>2. UnderWay(iter, steady, visited, modulus) => UnderWay(iter', steady', visited', modulus')
      BY <2>1, <2>2
    <3>3. QED
      BY <2>1, <2>2, <3>1, <3>2 DEF Iterated
  <2>4. QED
    BY <2>1, <2>2, <2>3 DEF IInv, Rows, Row, Counted, Valued
<1>2. CASE TableNext
  <2>1. ASSUME NEW k \in Key, NEW v \in Value, SetHash(k, v) PROVE IInv'
    BY <2>1, SetHashKeeps
  <2>2. ASSUME NEW k \in Key, RemHash(k) PROVE IInv'
    BY <2>2, RemHashKeeps
  <2>3. CASE HashBegin
    BY <2>3, HashBeginKeeps
  <2>4. CASE HashNext
    BY <2>4, HashNextKeeps
  <2>5. QED
    BY <1>2, <2>1, <2>2, <2>3, <2>4 DEF TableNext
<1>3. QED
  BY <1>1, <1>2

\* The inductive invariant of the table: every key is on the chain that it
\* hashes to, once, and an iteration has returned what it has passed.
THEOREM Invariance ==
  ASSUME KeysAreHashed
  PROVE  TableSpec => []IInv
<1>1. TableInit => IInv
  BY InitIs
<1>2. IInv /\ [TableNext]_tablevars => IInv'
  BY StepKeeps
<1>3. QED
  BY <1>1, <1>2, PTL DEF TableSpec

-----------------------------------------------------------------------------
\* Each entry has one cons.
LEMMA OneCons ==
  ASSUME KeysAreHashed, IInv
  PROVE  Cardinality(Conses) = Cardinality(Present)
<1> DEFINE f == [c \in Conses |-> c[1]]
<1>1. Rows(table, modulus)
  BY DEF IInv
<1>2. PICK m : m = modulus
  OBVIOUS
<1>3. /\ DOMAIN table = 0 .. m - 1
      /\ \A i \in 0 .. m - 1 : /\ table[i] \in Seq(Range(table[i]))
                               /\ Row(table[i], i, m)
  <2>1. ASSUME NEW i \in 0 .. m - 1 PROVE table[i] \in Seq(Range(table[i]))
    <3>1. PICK C : table[i] \in Seq(C)
      BY <1>1, <1>2, <2>1 DEF Rows, Row
    <3>2. QED
      BY <3>1 DEF Range
  <2>2. QED
    BY <1>1, <1>2, <2>1 DEF Rows
<1>4. \A i \in 0 .. m - 1 : Range(table[i]) = {table[i][n] : n \in 1 .. Len(table[i])}
  BY <1>3 DEF Range
<1>5. ASSUME NEW c \in Conses
      PROVE  \E i \in 0 .. m - 1 : \E n \in 1 .. Len(table[i]) : c = table[i][n]
  BY <1>3, <1>4 DEF Conses
<1>6. ASSUME NEW c \in Conses, NEW d \in Conses, c[1] = d[1] PROVE c = d
  <2>1. PICK i \in 0 .. m - 1 : \E n \in 1 .. Len(table[i]) : c = table[i][n]
    BY <1>5
  <2>2. PICK n \in 1 .. Len(table[i]) : c = table[i][n]
    BY <2>1
  <2>3. PICK j \in 0 .. m - 1 : \E p \in 1 .. Len(table[j]) : d = table[j][p]
    BY <1>5
  <2>4. PICK p \in 1 .. Len(table[j]) : d = table[j][p]
    BY <2>3
  <2>5. At(c[1], m) = i /\ At(d[1], m) = j
    BY <1>3, <2>2, <2>4 DEF Row
  <2>6. i = j
    BY <1>6, <2>5
  <2>7. n = p
    BY <1>3, <1>6, <2>2, <2>4, <2>6 DEF Row
  <2>8. QED
    BY <2>2, <2>4, <2>6, <2>7
<1>7. Present = {c[1] : c \in Conses}
  <2>1. ASSUME NEW k \in Present PROVE \E c \in Conses : k = c[1]
    <3>1. PICK i \in 0 .. m - 1 : \E n \in 1 .. Len(table[i]) : k = table[i][n][1]
      BY <1>3 DEF Present, Keys
    <3>2. PICK n \in 1 .. Len(table[i]) : k = table[i][n][1]
      BY <3>1
    <3>3. table[i][n] \in Conses
      BY <1>3, <1>4 DEF Conses
    <3>4. QED
      BY <3>2, <3>3
  <2>2. ASSUME NEW c \in Conses PROVE c[1] \in Present
    <3>1. PICK i \in 0 .. m - 1 : \E n \in 1 .. Len(table[i]) : c = table[i][n]
      BY <1>5
    <3>2. QED
      BY <1>3, <3>1 DEF Present, Keys
  <2>3. QED
    BY <2>1, <2>2
<1> HIDE DEF Conses, Present
<1>8. f \in Bijection(Conses, Present)
  <2>1. f \in [Conses -> Present]
    BY <1>7
  <2>2. \A c, d \in Conses : f[c] = f[d] => c = d
    BY <1>6
  <2>3. \A k \in Present : \E c \in Conses : f[c] = k
    BY <1>7
  <2>4. QED
    BY <2>1, <2>2, <2>3 DEF Bijection, Injection, Surjection, IsInjective
<1>9. ExistsBijection(Present, Conses)
  <2>1. ExistsBijection(Conses, Present)
    BY <1>8 DEF ExistsBijection
  <2>2. QED
    BY <2>1, Fun_ExistsBijSymmetric
<1>10. IsFiniteSet(Present)
  BY DEF IInv, Counted
<1>11. QED
  BY <1>9, <1>10, FS_Bijection

\* hash_count counts the entries: adding one, finding one, growth and removal
\* all leave count equal to the number of conses on the chains, of which there
\* are never more than two for each chain.
THEOREM CountsEntries ==
  ASSUME KeysAreHashed
  PROVE  TableSpec => []CountExact
<1>1. IInv => CountExact
  BY OneCons DEF IInv, Counted, CountExact
<1>2. QED
  BY <1>1, Invariance, PTL

\* Whatever hash_next is interleaved with, an iteration that the table does not
\* grow under returns every entry that stays in the table, and returns it once.
THEOREM VisitsOnce ==
  ASSUME KeysAreHashed
  PROVE  TableSpec => []VisitedOnce
<1>1. ASSUME IInv PROVE VisitedOnce
  <2>1. Iterated
    BY <1>1 DEF IInv
  <2>2. ASSUME ~ grown, NEW k \in steady PROVE visited[k] <= 1
    <3>1. CASE iter.on /\ UnderWay(iter, steady, visited, modulus)
      <4>1. visited[k] = 0 \/ visited[k] = 1
        BY <2>2, <3>1 DEF UnderWay
      <4>2. QED
        BY <4>1
    <3>2. QED
      BY <2>1, <2>2, <3>1 DEF Iterated
  <2>3. ASSUME ~ grown, iter # None, ~ iter.on, NEW k \in steady PROVE visited[k] = 1
    BY <2>1, <2>3 DEF Iterated
  <2>4. QED
    BY <2>2, <2>3 DEF VisitedOnce
<1>2. QED
  BY <1>1, Invariance, PTL

\* The map that gethash presents is that of the values.
MapNow == Restrict(value, {k \in Key : Found(k)})
MapIsValue == MapNow = value

LEMMA MapIs ==
  ASSUME KeysAreHashed, IInv
  PROVE  MapNow = value
<1>1. Present \subseteq Key /\ \A k \in Key : Found(k) <=> k \in Present
  BY FoundIs
<1>2. value = [k \in Present |-> value[k]]
  BY DEF IInv, Valued
<1> HIDE DEF Present, Found
<1>3. {k \in Key : Found(k)} = Present
  BY <1>1
<1>4. MapNow = [k \in Present |-> value[k]]
  BY <1>3 DEF MapNow, Restrict
<1>5. QED
  BY <1>1, <1>2, <1>4

\* The chains implement the map of HashMap: sethash and remhash are its Set and
\* Remove, whether or not the table grows, and iterating leaves it as it is.
THEOREM TableImplementsMap ==
  ASSUME KeysAreHashed
  PROVE  TableSpec => ImplementsMap
<1>1. ASSUME TableInit PROVE Map!Init
  <2>1. MapNow = value
    BY <1>1, InitIs, MapIs
  <2>2. QED
    BY <1>1, <2>1 DEF TableInit, Map!Init, MapNow
<1>2. ASSUME MapIsValue, MapIsValue', [TableNext]_tablevars PROVE [Map!Next]_MapNow
  <2>1. MapNow = value
    BY <1>2 DEF MapIsValue
  <2>2. MapNow' = value'
    BY <1>2 DEF MapIsValue
  <2>3. ASSUME NEW k \in Key, NEW v \in Value, SetHash(k, v) PROVE Map!Next
    <3>1. value' = [x \in DOMAIN value \cup {k} |-> IF x = k THEN v ELSE value[x]]
      BY <2>3 DEF SetHash
    <3>2. Map!Set(k, v)
      BY <2>1, <2>2, <3>1 DEF Map!Set, MapNow
    <3>3. QED
      BY <3>2 DEF Map!Next
  <2>4. ASSUME NEW k \in Key, RemHash(k) PROVE Map!Next
    <3>1. value' = [x \in DOMAIN value \ {k} |-> value[x]]
      BY <2>4 DEF RemHash, Restrict
    <3>2. Map!Remove(k)
      BY <2>1, <2>2, <3>1 DEF Map!Remove, MapNow
    <3>3. QED
      BY <3>2 DEF Map!Next
  <2>5. CASE HashBegin \/ HashNext \/ UNCHANGED tablevars
    BY <2>1, <2>2, <2>5 DEF HashBegin, HashNext, tablevars
  <2>6. QED
    BY <1>2, <2>3, <2>4, <2>5 DEF TableNext
<1>3. IInv => MapIsValue
  BY MapIs DEF MapIsValue
<1>4. QED
  BY <1>1, <1>2, <1>3, Invariance, PTL DEF TableSpec, ImplementsMap, Map!Spec, MapNow

-----------------------------------------------------------------------------
\* Arithmetic.
\* Powers of two.
LEMMA Pow2Is == Pow2 \in [Nat -> Nat \ {0}] /\ Pow2[0] = 1 /\ \A n \in Nat : Pow2[n + 1] = 2 * Pow2[n]
<1> DEFINE S == Nat \ {0}
           F == [p \in S |-> 2 * p]
           Is(g) == g = [n \in Nat |-> IF n = 0 THEN 1 ELSE 2 * g[n - 1]]
<1>1. F \in Maps(S) /\ 1 \in S /\ \A p \in S : F[p] = 2 * p
  BY DEF Maps
<1> HIDE DEF F
<1>2. PICK g \in [Nat -> S] : g = [n \in Nat |-> IF n = 0 THEN 1 ELSE F[g[n - 1]]]
  <2> HIDE DEF S
  <2>1. QED
    BY <1>1, Orbit
<1>3. ASSUME NEW n \in Nat PROVE g[n] = IF n = 0 THEN 1 ELSE 2 * g[n - 1]
  <2>1. CASE n = 0
    BY <1>2, <2>1
  <2>2. CASE n # 0
    <3>1. n - 1 \in Nat /\ g[n - 1] \in S /\ g[n] = F[g[n - 1]]
      BY <1>2, <2>2
    <3>2. QED
      BY <1>1, <2>2, <3>1
  <2>3. QED
    BY <2>1, <2>2
<1>4. Is(g)
  BY <1>2, <1>3
<1>5. Is(CHOOSE h : Is(h))
  <2> HIDE DEF Is
  <2>1. QED
    BY <1>4, Zenon
<1>6. Is(Pow2)
  BY <1>5, Zenon DEF Pow2
<1>7. Pow2[0] = 1 /\ \A n \in Nat : Pow2[n + 1] = 2 * Pow2[n]
  BY <1>6
<1> DEFINE T == {n \in Nat : Pow2[n] \in S}
<1>8. 0 \in T /\ \A n \in Nat : n \in T => n + 1 \in T
  BY <1>7
<1> HIDE DEF T
<1>9. Nat \subseteq T
  BY <1>8, SetInduction
<1>10. \A n \in Nat : Pow2[n] \in S
  BY <1>9 DEF T
<1>11. QED
  BY <1>6, <1>7, <1>10

LEMMA Pow2Sum == \A m, n \in Nat : Pow2[m + n] = Pow2[m] * Pow2[n]
<1> SUFFICES ASSUME NEW m \in Nat PROVE \A n \in Nat : Pow2[m + n] = Pow2[m] * Pow2[n]
  OBVIOUS
<1> DEFINE T == {n \in Nat : Pow2[m + n] = Pow2[m] * Pow2[n]}
<1>1. 0 \in T
  BY Pow2Is
<1>2. ASSUME NEW n \in Nat, n \in T PROVE n + 1 \in T
  <2>1. Pow2[m + n + 1] = 2 * Pow2[m + n] /\ Pow2[n + 1] = 2 * Pow2[n]
    BY Pow2Is
  <2>2. Pow2[m] \in Nat /\ Pow2[n] \in Nat /\ Pow2[m + n] = Pow2[m] * Pow2[n]
    BY Pow2Is, <1>2
  <2>3. QED
    BY <2>1, <2>2
<1> HIDE DEF T
<1>3. Nat \subseteq T
  BY <1>1, <1>2, SetInduction
<1>4. QED
  BY <1>3 DEF T

LEMMA Pow2Grows ==
  /\ \A m, n \in Nat : m <= n => Pow2[m] <= Pow2[n]
  /\ \A n \in Nat : n < Pow2[n]
<1>1. ASSUME NEW m \in Nat, NEW n \in Nat, m <= n PROVE Pow2[m] <= Pow2[n]
  <2>1. Pow2[n] = Pow2[m] * Pow2[n - m]
    <3>1. n - m \in Nat /\ m + (n - m) = n
      BY <1>1
    <3>2. QED
      BY <3>1, Pow2Sum
  <2>2. Pow2[n - m] \in Nat \ {0} /\ Pow2[m] \in Nat
    BY <1>1, Pow2Is
  <2>3. QED
    BY <2>1, <2>2
<1> DEFINE T == {n \in Nat : n < Pow2[n]}
<1>2. 0 \in T /\ \A n \in Nat : n \in T => n + 1 \in T
  BY Pow2Is
<1> HIDE DEF T
<1>3. Nat \subseteq T
  BY <1>2, SetInduction
<1>4. QED
  BY <1>1, <1>3 DEF T

\* The fixnums are two bits shorter than a cnum.
LEMMA Sizes ==
  /\ NUM_MAX = Pow2[CNUM_BIT - 3] - 1 /\ NUM_MAX \in Nat /\ NUM_MAX >= 1 /\ NUM_MIN = -NUM_MAX
  /\ INT_PTR_MAX = Pow2[CNUM_BIT - 1] - 1 /\ INT_PTR_MAX \in Nat
  /\ Pow2[CNUM_BIT] = 2 * Pow2[CNUM_BIT - 1]
  /\ Pow2[CNUM_BIT - 1] = 2 * Pow2[CNUM_BIT - 2]
<1> DEFINE c == CNUM_BIT
<1>1. c - 4 \in Nat /\ c - 3 \in Nat /\ c - 2 \in Nat /\ c - 1 \in Nat /\ c \in Nat
  BY ArithSizes
<1>2. /\ Pow2[c] = 2 * Pow2[c - 1] /\ Pow2[c - 1] = 2 * Pow2[c - 2]
      /\ Pow2[c - 2] = 2 * Pow2[c - 3] /\ Pow2[c - 3] = 2 * Pow2[c - 4]
  <2>1. /\ Pow2[(c - 1) + 1] = 2 * Pow2[c - 1] /\ Pow2[(c - 2) + 1] = 2 * Pow2[c - 2]
        /\ Pow2[(c - 3) + 1] = 2 * Pow2[c - 3] /\ Pow2[(c - 4) + 1] = 2 * Pow2[c - 4]
    BY <1>1, Pow2Is
  <2>2. (c - 1) + 1 = c /\ (c - 2) + 1 = c - 1 /\ (c - 3) + 1 = c - 2 /\ (c - 4) + 1 = c - 3
    BY <1>1
  <2>3. QED
    BY <2>1, <2>2
<1>3. Pow2[c - 4] \in Nat \ {0}
  BY <1>1, Pow2Is
<1>4. QED
  BY <1>2, <1>3 DEF NUM_MAX, NUM_MIN, INT_PTR_MAX

LEMMA HighestBit ==
  ASSUME NEW n \in Nat
  PROVE  LET h == highest_bit(n) IN h \in 0 .. n /\ n < Pow2[h] /\ (h > 0 => n >= Pow2[h - 1])
<1> DEFINE T == {i \in Nat : n < Pow2[i]}
           at(i) == n < Pow2[i] /\ (i > 0 => n >= Pow2[i - 1])
<1>1. n \in T
  BY Pow2Grows
<1>2. PICK i \in T : \A j \in T : i <= j
  BY <1>1, LeastNumber
<1>3. i \in 0 .. n
  BY <1>1, <1>2
<1>4. at(i)
  <2>1. ASSUME i > 0 PROVE n >= Pow2[i - 1]
    <3>1. i - 1 \in Nat /\ i - 1 \notin T
      BY <1>2, <2>1
    <3>2. QED
      BY <3>1, Pow2Is
  <2>2. QED
    BY <1>2, <2>1
<1> HIDE DEF at
<1>5. at(CHOOSE j \in 0 .. n : at(j)) /\ (CHOOSE j \in 0 .. n : at(j)) \in 0 .. n
  BY <1>3, <1>4
<1>6. highest_bit(n) = CHOOSE j \in 0 .. n : at(j)
  BY DEF highest_bit, at
<1>7. QED
  BY <1>5, <1>6 DEF at

LEMMA WrapIs ==
  ASSUME NEW n \in Int
  PROVE  Wrap(n) \in Int /\ (n \in -INT_PTR_MAX .. INT_PTR_MAX => Wrap(n) = n)
<1>1. PICK p : p = Pow2[CNUM_BIT - 1]
  OBVIOUS
<1>2. p \in Nat \ {0} /\ INT_PTR_MAX = p - 1 /\ Pow2[CNUM_BIT] = 2 * p
  BY <1>1, Sizes, Pow2Is, ArithSizes
<1>3. PICK m : m = n % (2 * p)
  OBVIOUS
<1>4. m \in 0 .. 2 * p - 1
  BY <1>2, <1>3
<1>5. Wrap(n) = IF m > p - 1 THEN m - 2 * p ELSE m
  BY <1>2, <1>3 DEF Wrap
<1>6. n \in 0 .. p - 1 => m = n
  BY <1>2, <1>3
<1>7. n \in -(p - 1) .. -1 => m = n + 2 * p
  BY <1>2, <1>3
<1>8. QED
  BY <1>2, <1>4, <1>5, <1>6, <1>7

-----------------------------------------------------------------------------
\* What calls are given and return.
Kinds == {"fix", "big", "flo", "chr", "error", "t", "nil"}
Values == [kind : Kinds, n : Int]

\* An integer in its representation.
Whole(x) == x \in Values /\ integerp(x) /\ Canonical(x)

\* A fixnum is closer to 0 than any bignum.
LEMMA WholeIs ==
  ASSUME NEW x, Whole(x)
  PROVE  /\ x.n \in Int /\ x = Of(x.kind, x.n)
         /\ \/ x.kind = "fix" /\ x.n \in -NUM_MAX .. NUM_MAX
            \/ x.kind = "big" /\ (x.n > NUM_MAX \/ x.n < -NUM_MAX)
BY Sizes DEF Whole, Values, integerp, Canonical, Of

LEMMA OfIs ==
  ASSUME NEW k \in Kinds, NEW n \in Int
  PROVE  /\ Of(k, n) \in Values /\ Of(k, n).kind = k /\ Of(k, n).n = n
         /\ k \notin {"fix", "big"} => Canonical(Of(k, n))
BY DEF Of, Values, Canonical, Kinds

LEMMA ConstantsAre ==
  /\ Error \in Values /\ Error.kind = "error" /\ Error.n = 0 /\ Canonical(Error)
  /\ \A p \in BOOLEAN : Truth(p) \in Values /\ Canonical(Truth(p)) /\ Truth(p).kind \in {"t", "nil"} /\ Truth(p).n = 0
  /\ Truth(TRUE) # Truth(FALSE)
  /\ \A n \in Int : Flo(n) \in Values /\ Flo(n).kind = "flo" /\ Flo(n).n = n /\ Canonical(Flo(n))
  /\ \A n \in Int : Big(n) \in Values /\ Big(n).kind = "big" /\ Big(n).n = n /\ (n \notin NUM_MIN .. NUM_MAX => Canonical(Big(n)))
  /\ \A n \in Int : Fix(n) \in Values /\ Fix(n).kind = "fix" /\ Fix(n).n = n /\ (n \in NUM_MIN .. NUM_MAX => Canonical(Fix(n)))
  /\ \A n \in Int : Character(n) \in Values /\ Character(n).kind \in {"chr", "error"} /\ Canonical(Character(n))
BY ArithSizes DEF Error, Truth, Flo, Big, Fix, Character, Of, Values, Canonical, Kinds

\* A fixnum fits a digit.
LEMMA Digits == Pow2[CNUM_BIT] \in Nat /\ NUM_MAX < Pow2[CNUM_BIT]
<1>1. Pow2[CNUM_BIT - 3] <= Pow2[CNUM_BIT] /\ Pow2[CNUM_BIT] \in Nat
  <2>1. CNUM_BIT - 3 \in Nat /\ CNUM_BIT \in Nat /\ CNUM_BIT - 3 <= CNUM_BIT
    BY ArithSizes
  <2>2. QED
    BY <2>1, Pow2Grows, Pow2Is
<1>2. Pow2[CNUM_BIT - 3] \in Nat
  BY ArithSizes, Pow2Is
<1>3. QED
  BY <1>1, <1>2, Sizes

\* num and normalize make whole numbers.
LEMMA NumIs ==
  ASSUME NEW n \in Int
  PROVE  /\ Whole(num(n)) /\ num(n).n = n /\ num(n).kind \in {"fix", "big"}
         /\ Whole(normalize(n)) /\ normalize(n).n = n /\ normalize(n).kind \in {"fix", "big"}
<1>1. num(n) \in {Fix(n), Big(n)} /\ (n \in NUM_MIN .. NUM_MAX <=> num(n) = Fix(n))
  BY DEF num, Fix, Big, Of
<1>2. normalize(n) = num(n)
  <2>1. CASE Abs(n) > NUM_MAX
    BY <2>1, Sizes DEF normalize, num, Abs
  <2>2. CASE ~ (Abs(n) > NUM_MAX)
    <3>1. PICK m, d : m = Abs(n) /\ d = Pow2[CNUM_BIT]
      OBVIOUS
    <3>2. m \in Nat /\ m <= NUM_MAX /\ d \in Nat /\ NUM_MAX < d
      BY <2>2, <3>1, Digits, Sizes DEF Abs
    <3>3. m % d = m
      BY <3>2, Sizes
    <3>4. mp_get_intptr(n) = Sign(n) * m
      BY <3>1, <3>3 DEF mp_get_intptr
    <3>5. mp_get_intptr(n) = n
      BY <3>1, <3>4 DEF Sign, Abs
    <3>6. QED
      BY <2>2, <3>5 DEF normalize
  <2>3. QED
    BY <2>1, <2>2
<1>3. Whole(num(n)) /\ num(n).n = n
  BY <1>1, ConstantsAre DEF Whole, integerp
<1>4. QED
  BY <1>2, <1>3 DEF Whole, integerp

\* The value of a call is one of these; when its arguments are in their
\* representation it is, and it is exact.
Sound(r) == r \in Values /\ Canonical(r)
IsWhole(r, n) == Whole(r) /\ r.n = n

LEMMA PlusIs ==
  ASSUME NEW x \in Values, NEW y \in Values
  PROVE  Sound(plus(x, y)) /\ (AsIntegers(x, y) => IsWhole(plus(x, y), x.n + y.n))
<1>1. x.n \in Int /\ y.n \in Int /\ x.n + y.n \in Int
  BY DEF Values
<1>2. PICK s : s = x.n + y.n
  OBVIOUS
<1>3. QED
  BY <1>1, <1>2, NumIs, ConstantsAre DEF plus, Sound, IsWhole, Whole, AsIntegers, AsFloats, numberp, integerp

LEMMA MinusIs ==
  ASSUME double \in BOOLEAN, NEW x \in Values, NEW y \in Values
  PROVE  /\ Sound(minus(x, y))
         /\ AsIntegers(x, y) /\ (x.kind = "fix" /\ y.kind = "big" => x.n >= 0) => IsWhole(minus(x, y), x.n - y.n)
<1>1. x.n \in Int /\ y.n \in Int /\ x.n - y.n \in Int /\ y.n - x.n \in Int /\ Abs(x.n) - y.n \in Int
  BY DEF Values, Abs
<1>2. x.n >= 0 => Abs(x.n) = x.n
  BY <1>1 DEF Abs
<1>3. PICK s, t, u : s = x.n - y.n /\ t = y.n - x.n /\ u = Abs(x.n) - y.n
  OBVIOUS
<1>4. QED
  BY <1>1, <1>2, <1>3, NumIs, ConstantsAre DEF minus, Sound, IsWhole, Whole, AsIntegers, AsFloats, numberp, integerp

LEMMA NegIs ==
  ASSUME NEW x \in Values
  PROVE  /\ neg(x) \in Values /\ abso(x) \in Values
         /\ Canonical(x) => Canonical(neg(x)) /\ Canonical(abso(x))
         /\ Whole(x) => IsWhole(neg(x), -x.n) /\ IsWhole(abso(x), Abs(x.n))
<1>1. x.n \in Int /\ -x.n \in Int /\ Abs(x.n) \in Int /\ Abs(x.n) \in {x.n, -x.n}
  BY DEF Values, Abs
<1>2. PICK s, t : s = -x.n /\ t = Abs(x.n)
  OBVIOUS
<1>3. s \in Int /\ t \in Int /\ t \in {x.n, s} /\ (x.n \notin NUM_MIN .. NUM_MAX => s \notin NUM_MIN .. NUM_MAX)
  BY <1>1, <1>2, Sizes
<1>4. CASE x.kind = "fix"
  BY <1>2, <1>3, <1>4, NumIs DEF neg, abso, IsWhole, Whole
<1>5. CASE x.kind \in {"big", "flo"}
  BY <1>2, <1>3, <1>5, OfIs DEF neg, abso, IsWhole, Whole, Canonical, integerp, Kinds
<1>6. CASE x.kind \notin {"fix", "big", "flo"}
  BY <1>6, ConstantsAre DEF neg, abso, Whole, integerp
<1>7. QED
  BY <1>4, <1>5, <1>6

\* Products: of two fixnums, where the machine computes those with few bits.
LEMMA Magnitudes ==
  ASSUME NEW a \in Int, NEW b \in Int, NEW p \in Nat, NEW q \in Nat
  PROVE  /\ Abs(a) >= p /\ Abs(b) >= q => Abs(a * b) >= p * q
         /\ Abs(a) < p /\ Abs(b) < q => Abs(a * b) < p * q
         /\ a # 0 => Abs(a * b) >= Abs(b)
         /\ b # 0 => Abs(a * b) >= Abs(a)
         /\ a * b \in Int /\ Abs(a) \in Nat /\ Abs(b) \in Nat /\ (Abs(a) = 0 <=> a = 0)
<1>1. a * b \in Int
  OBVIOUS
<1>2. PICK m, n : m = Abs(a) /\ n = Abs(b)
  OBVIOUS
<1>3. m \in Nat /\ n \in Nat /\ (m = a \/ m = -a) /\ (n = b \/ n = -b) /\ (m = 0 <=> a = 0) /\ (n = 0 <=> b = 0)
  BY <1>2 DEF Abs
<1>4. Abs(a * b) = m * n
  <2>1. m * n \in Nat /\ (m * n = a * b \/ m * n = -(a * b))
    BY <1>3
  <2>2. PICK k : k = a * b
    OBVIOUS
  <2>3. QED
    BY <1>1, <2>1, <2>2 DEF Abs
<1>5. m >= p /\ n >= q => m * n >= p * q
  <2>1. SUFFICES ASSUME m >= p, n >= q PROVE m * n >= p * q
    OBVIOUS
  <2>2. m * n >= p * n /\ p * n >= p * q
    BY <1>3, <2>1
  <2>3. QED
    BY <1>3, <2>2
<1>6. m < p /\ n < q => m * n < p * q
  <2>1. SUFFICES ASSUME m < p, n < q PROVE m * n < p * q
    OBVIOUS
  <2>2. m * n <= m * q /\ m * q < p * q
    BY <1>3, <2>1
  <2>3. QED
    BY <1>3, <2>2
<1>7. (m # 0 => m * n >= n) /\ (n # 0 => m * n >= m)
  BY <1>3
<1>8. QED
  BY <1>1, <1>2, <1>3, <1>4, <1>5, <1>6, <1>7

LEMMA ProductIs ==
  ASSUME double \in BOOLEAN,
         NEW a \in -NUM_MAX .. NUM_MAX, NEW b \in -NUM_MAX .. NUM_MAX
  PROVE  IsWhole(Product(a, b), a * b)
<1>0. a \in Int /\ b \in Int /\ a * b \in Int
  BY Sizes
<1> DEFINE h == highest_bit(Abs(a))
           k == highest_bit(Abs(b))
<1>1. /\ h \in 0 .. Abs(a) /\ Abs(a) < Pow2[h] /\ (h > 0 => Abs(a) >= Pow2[h - 1])
      /\ k \in 0 .. Abs(b) /\ Abs(b) < Pow2[k] /\ (k > 0 => Abs(b) >= Pow2[k - 1])
      /\ Abs(a) \in Nat /\ Abs(b) \in Nat
  <2>1. Abs(a) \in Nat /\ Abs(b) \in Nat
    BY <1>0, Magnitudes
  <2>2. QED
    BY <2>1, HighestBit
<1> HIDE DEF h, k
<1>2. h \in Nat /\ k \in Nat
  BY <1>1
<1>3. CNUM_BIT \in Nat /\ CNUM_BIT >= 4
  BY ArithSizes
<1>4. CASE double
  BY <1>0, <1>4, NumIs DEF Product, IsWhole
<1>5. CASE ~ double /\ h + k < CNUM_BIT - 1
  <2>1. Abs(a * b) < Pow2[h] * Pow2[k]
    BY <1>0, <1>1, <1>2, Magnitudes, Pow2Is
  <2>2. Pow2[h] * Pow2[k] = Pow2[h + k] /\ Pow2[h + k] <= Pow2[CNUM_BIT - 1]
    <3>1. h + k \in Nat /\ CNUM_BIT - 1 \in Nat /\ h + k <= CNUM_BIT - 1
      BY <1>2, <1>3, <1>5
    <3>2. QED
      BY <1>2, <3>1, Pow2Sum, Pow2Grows
  <2>3. PICK p, c : p = Pow2[h + k] /\ c = a * b
    OBVIOUS
  <2>4. p \in Nat /\ p <= INT_PTR_MAX + 1 /\ Abs(c) < p /\ c \in Int
    <3>1. h + k \in Nat /\ Pow2[h + k] \in Nat
      BY <1>2, Pow2Is
    <3>2. Pow2[h + k] <= INT_PTR_MAX + 1
      BY <2>2, <3>1, <1>3, Sizes, Pow2Is
    <3>3. QED
      BY <1>0, <2>1, <2>2, <2>3, <3>1, <3>2
  <2>5. c \in -INT_PTR_MAX .. INT_PTR_MAX
    BY <2>4, Sizes DEF Abs
  <2>6. Wrap(a * b) = a * b
    BY <2>3, <2>4, <2>5, WrapIs
  <2>7. Product(a, b) = num(a * b)
    BY <1>5, <2>6 DEF Product, h, k
  <2>8. QED
    BY <1>0, <2>7, NumIs DEF IsWhole
<1>6. CASE ~ double /\ h + k >= CNUM_BIT - 1
  <2>1. h <= CNUM_BIT - 3 /\ k <= CNUM_BIT - 3
    <3>1. Abs(a) <= NUM_MAX /\ Abs(b) <= NUM_MAX /\ CNUM_BIT - 3 \in Nat
      BY <1>3, Sizes DEF Abs
    <3>2. ASSUME h > CNUM_BIT - 3 PROVE FALSE
      <4>1. h - 1 \in Nat /\ CNUM_BIT - 3 <= h - 1 /\ h > 0
        BY <1>2, <1>3, <3>2
      <4>2. Pow2[CNUM_BIT - 3] <= Pow2[h - 1]
        BY <3>1, <4>1, Pow2Grows
      <4>3. QED
        BY <1>1, <3>1, <4>1, <4>2, Sizes, Pow2Is
    <3>3. ASSUME k > CNUM_BIT - 3 PROVE FALSE
      <4>1. k - 1 \in Nat /\ CNUM_BIT - 3 <= k - 1 /\ k > 0
        BY <1>2, <1>3, <3>3
      <4>2. Pow2[CNUM_BIT - 3] <= Pow2[k - 1]
        BY <3>1, <4>1, Pow2Grows
      <4>3. QED
        BY <1>1, <3>1, <4>1, <4>2, Sizes, Pow2Is
    <3>4. QED
      BY <1>2, <1>3, <3>2, <3>3
  <2>2. h > 0 /\ k > 0 /\ h - 1 \in Nat /\ k - 1 \in Nat
    BY <1>2, <1>3, <1>6, <2>1
  <2>3. Abs(a * b) >= Pow2[h - 1] * Pow2[k - 1]
    BY <1>0, <1>1, <2>2, Magnitudes, Pow2Is
  <2>4. Pow2[h - 1] * Pow2[k - 1] >= Pow2[CNUM_BIT - 3]
    <3>1. (h - 1) + (k - 1) \in Nat /\ CNUM_BIT - 3 \in Nat /\ CNUM_BIT - 3 <= (h - 1) + (k - 1)
      BY <1>2, <1>3, <1>6, <2>2
    <3>2. Pow2[CNUM_BIT - 3] <= Pow2[(h - 1) + (k - 1)]
      BY <3>1, Pow2Grows
    <3>3. QED
      BY <2>2, <3>2, Pow2Sum
  <2>5. PICK p, q, c : p = Pow2[CNUM_BIT - 3] /\ q = Pow2[h - 1] * Pow2[k - 1] /\ c = a * b
    OBVIOUS
  <2>6. p = NUM_MAX + 1 /\ q \in Nat /\ q >= p /\ Abs(c) >= q /\ c \in Int
    <3>1. p = NUM_MAX + 1
      BY <2>5, Sizes, ArithSizes, Pow2Is
    <3>2. Pow2[h - 1] \in Nat /\ Pow2[k - 1] \in Nat
      BY <2>2, Pow2Is
    <3>3. q \in Nat
      BY <2>5, <3>2
    <3>4. QED
      BY <1>0, <2>3, <2>4, <2>5, <3>1, <3>3
  <2>7. c \notin NUM_MIN .. NUM_MAX
    BY <2>6, Sizes DEF Abs
  <2>8. Product(a, b) = Big(a * b)
    BY <1>6, <1>2, <1>3 DEF Product, h, k
  <2>9. QED
    BY <2>5, <2>6, <2>7, <2>8, ConstantsAre DEF IsWhole, Whole, integerp
<1>7. QED
  BY <1>2, <1>3, <1>4, <1>5, <1>6


\* A product is one of two fixnums, which is exact, or a bignum, which it may
\* leave with a value that a fixnum has only if that is 0.
LEMMA MulIs ==
  ASSUME double \in BOOLEAN, NEW x \in Values, NEW y \in Values
  PROVE  /\ mul(x, y) \in Values
         /\ (Canonical(x) \/ x = Big(0)) /\ Canonical(y) => Canonical(mul(x, y)) \/ mul(x, y) = Big(0)
         /\ /\ AsIntegers(x, y) /\ (Whole(x) \/ x = Big(0)) /\ Whole(y)
            /\ x.kind = "fix" /\ y.kind = "big" => x.n >= 0
            => integerp(mul(x, y)) /\ mul(x, y).n = x.n * y.n
<1>1. x.n \in Int /\ y.n \in Int /\ x.n * y.n \in Int /\ Abs(x.n) \in Int /\ Abs(x.n) * y.n \in Int
  BY DEF Values, Abs
<1>2. PICK s, t, a : s = x.n * y.n /\ t = Abs(x.n) * y.n /\ a = Abs(x.n)
  OBVIOUS
<1>3. CASE x.kind = "fix" /\ y.kind = "fix"
  <2>1. mul(x, y) = Product(x.n, y.n)
    BY <1>3 DEF mul, AsFloats
  <2>2. Product(x.n, y.n) \in Values
    <3>1. Wrap(s) \in Int /\ s \in Int
      BY <1>1, <1>2, WrapIs
    <3>2. QED
      BY <1>2, <3>1, NumIs, ConstantsAre DEF Product, Whole
  <2>3. (Canonical(x) \/ x = Big(0)) /\ Canonical(y) => IsWhole(Product(x.n, y.n), x.n * y.n)
    <3>1. x # Big(0)
      BY <1>3, ConstantsAre
    <3>2. QED
      BY <1>3, <3>1, ProductIs, Sizes DEF Canonical
  <2>4. QED
    BY <2>1, <2>2, <2>3 DEF IsWhole, Whole
<1>4. CASE x.kind = "fix" /\ y.kind = "big"
  <2>1. mul(x, y) = Big(t)
    BY <1>2, <1>4 DEF mul, AsFloats
  <2>2. Canonical(x) /\ Canonical(y) /\ x.n # 0 => s \notin NUM_MIN .. NUM_MAX /\ t \notin NUM_MIN .. NUM_MAX
    <3>1. SUFFICES ASSUME Canonical(x), Canonical(y), x.n # 0
                   PROVE  s \notin NUM_MIN .. NUM_MAX /\ t \notin NUM_MIN .. NUM_MAX
      OBVIOUS
    <3>2. y.n \notin NUM_MIN .. NUM_MAX
      BY <1>4, <3>1 DEF Canonical
    <3>3. Abs(s) >= Abs(y.n) /\ Abs(t) >= Abs(y.n)
      <4>1. a \in Int /\ a # 0
        BY <1>1, <1>2, <3>1 DEF Abs
      <4>2. QED
        BY <1>1, <1>2, <3>1, <4>1, Magnitudes
    <3>4. QED
      BY <1>1, <1>2, <3>2, <3>3, Sizes DEF Abs
  <2>3. x.n = 0 => s = 0 /\ t = 0
    BY <1>1, <1>2 DEF Abs
  <2>4. x # Big(0)
    BY <1>4, ConstantsAre
  <2>5. x.n >= 0 => s = t
    BY <1>1, <1>2 DEF Abs
  <2>6. s \in Int /\ t \in Int
    BY <1>1, <1>2
  <2>7. mul(x, y) \in {Big(s), Big(t)} /\ (x.n >= 0 => mul(x, y) = Big(s))
    BY <2>1, <2>5
  <2>8. QED
    BY <1>2, <1>4, <2>2, <2>3, <2>4, <2>6, <2>7, ConstantsAre DEF integerp
<1>5. CASE x.kind = "big" /\ integerp(y)
  <2>1. mul(x, y) = Big(s)
    BY <1>2, <1>5 DEF mul, integerp, AsFloats
  <2>2. Canonical(x) /\ y.n # 0 => s \notin NUM_MIN .. NUM_MAX
    <3>1. SUFFICES ASSUME Canonical(x), y.n # 0 PROVE s \notin NUM_MIN .. NUM_MAX
      OBVIOUS
    <3>2. x.n \notin NUM_MIN .. NUM_MAX
      BY <1>5, <3>1 DEF Canonical
    <3>3. Abs(s) >= Abs(x.n)
      BY <1>1, <1>2, <3>1, Magnitudes
    <3>4. QED
      BY <1>1, <1>2, <3>2, <3>3, Sizes DEF Abs
  <2>3. y.n = 0 \/ x = Big(0) => s = 0
    BY <1>1, <1>2, ConstantsAre
  <2>4. s \in Int
    BY <1>1, <1>2
  <2>5. QED
    BY <1>2, <2>1, <2>2, <2>3, <2>4, ConstantsAre DEF integerp
<1>6. CASE AsFloats(x, y)
  <2>1. mul(x, y) = Flo(s)
    BY <1>2, <1>6 DEF mul, AsFloats, integerp
  <2>2. ~ AsIntegers(x, y)
    BY <1>6 DEF AsFloats, AsIntegers, integerp
  <2>3. QED
    BY <1>1, <1>2, <2>1, <2>2, ConstantsAre
<1>7. CASE ~ AsIntegers(x, y) /\ ~ AsFloats(x, y)
  <2>1. mul(x, y) = Error
    BY <1>7 DEF mul, AsIntegers, AsFloats, integerp
  <2>2. QED
    BY <1>7, <2>1, ConstantsAre
<1>8. QED
  BY <1>3, <1>4, <1>5, <1>6, <1>7 DEF AsIntegers, integerp

-----------------------------------------------------------------------------
\* Division, towards 0 and down.
LEMMA QuotientIs ==
  ASSUME NEW a \in Int, NEW b \in Int, b # 0
  PROVE  Quotient(a, b) \in Int /\ IsQuotient(Quotient(a, b), a, b)
<1>1. PICK m, n : m = Abs(a) /\ n = Abs(b)
  OBVIOUS
<1>2. m \in Nat /\ n \in Nat \ {0} /\ (m = a \/ m = -a) /\ (n = b \/ n = -b)
  BY <1>1 DEF Abs
<1>3. PICK k, r : k = m \div n /\ r = m % n
  OBVIOUS
<1>4. k \in Nat /\ r \in 0 .. n - 1 /\ m = n * k + r
  BY <1>2, <1>3
<1>5. PICK p : p = n * k
  OBVIOUS
<1>6. p \in Nat /\ p <= m /\ m - p < n /\ p * m >= 0
  BY <1>2, <1>4, <1>5
<1>7. Quotient(a, b) = Sign(a) * Sign(b) * k
  BY <1>1, <1>3 DEF Quotient
<1>8. PICK q, c : q = Quotient(a, b) /\ c = q * b
  OBVIOUS
<1>9. q \in Int /\ c \in Int /\ (a >= 0 => c = p) /\ (a < 0 => c = -p)
  <2>1. CASE a = 0
    <3>1. k = 0 /\ p = 0
      BY <1>1, <1>2, <1>4, <1>5, <2>1 DEF Abs
    <3>2. Sign(a) = 0 /\ Sign(b) \in Int
      BY <2>1 DEF Sign
    <3>3. q = 0
      BY <1>7, <1>8, <3>1, <3>2
    <3>4. QED
      BY <1>8, <2>1, <3>1, <3>3
  <2>2. CASE a > 0 /\ b > 0
    <3>1. q = k /\ n = b
      BY <1>1, <1>4, <1>7, <1>8, <2>2 DEF Sign, Abs
    <3>2. QED
      BY <1>4, <1>5, <1>8, <2>2, <3>1
  <2>3. CASE a > 0 /\ b < 0
    <3>1. q = -k /\ n = -b
      BY <1>1, <1>4, <1>7, <1>8, <2>3 DEF Sign, Abs
    <3>2. QED
      BY <1>4, <1>5, <1>8, <2>3, <3>1
  <2>4. CASE a < 0 /\ b > 0
    <3>1. q = -k /\ n = b
      BY <1>1, <1>4, <1>7, <1>8, <2>4 DEF Sign, Abs
    <3>2. QED
      BY <1>4, <1>5, <1>8, <2>4, <3>1
  <2>5. CASE a < 0 /\ b < 0
    <3>1. q = k /\ n = -b
      BY <1>1, <1>4, <1>7, <1>8, <2>5 DEF Sign, Abs
    <3>2. QED
      BY <1>4, <1>5, <1>8, <2>5, <3>1
  <2>6. QED
    BY <2>1, <2>2, <2>3, <2>4, <2>5
<1>10. c * a >= 0
  <2>1. CASE a >= 0
    BY <1>1, <1>6, <1>9, <2>1 DEF Abs
  <2>2. CASE a < 0
    <3>1. m = -a /\ c = -p
      BY <1>1, <1>9, <2>2 DEF Abs
    <3>2. c * a = p * m
      BY <1>2, <1>6, <3>1
    <3>3. QED
      BY <1>6, <3>2
  <2>3. QED
    BY <2>1, <2>2
<1>11. Abs(a - c) < Abs(b) /\ Abs(c) <= Abs(a)
  BY <1>1, <1>2, <1>6, <1>9 DEF Abs
<1>12. QED
  BY <1>8, <1>9, <1>10, <1>11 DEF IsQuotient

LEMMA FloorIs ==
  ASSUME NEW a \in Int, NEW b \in Int, b # 0
  PROVE  Floor(a, b) \in Int /\ IsModulo(Floor(a, b), a, b)
<1>1. CASE b > 0
  <2>1. PICK r, q : r = a % b /\ q = a \div b
    OBVIOUS
  <2>2. r \in 0 .. b - 1 /\ q \in Int /\ a - r = b * q
    BY <1>1, <2>1
  <2>3. (b * q) % b = 0
    BY <1>1, <2>2
  <2>4. Floor(a, b) = r /\ Abs(b) = b /\ Abs(r) < b /\ r * b >= 0 /\ (a - r) % b = 0
    BY <1>1, <2>1, <2>2, <2>3 DEF Floor, Abs
  <2>5. QED
    BY <2>2, <2>4 DEF IsModulo
<1>2. CASE b < 0
  <2>1. PICK c : c = -b
    OBVIOUS
  <2>2. c \in Nat /\ c > 0 /\ -a \in Int
    BY <1>2, <2>1
  <2>3. PICK r, q : r = (-a) % c /\ q = (-a) \div c
    OBVIOUS
  <2>4. r \in 0 .. c - 1 /\ q \in Int /\ -a - r = c * q
    BY <2>2, <2>3
  <2>5. a - (-r) = c * (-q)
    BY <2>2, <2>4
  <2>6. (c * (-q)) % c = 0
    BY <2>2, <2>4
  <2>7. Floor(a, b) = -r /\ Abs(b) = c /\ Abs(-r) < c
    BY <1>2, <2>1, <2>3, <2>4 DEF Floor, Abs
  <2>8. (-r) * b = r * c /\ r * c >= 0
    BY <2>1, <2>2, <2>4
  <2>9. QED
    BY <2>4, <2>5, <2>6, <2>7, <2>8 DEF IsModulo
<1>3. QED
  BY <1>1, <1>2

LEMMA NormalizedIs ==
  /\ Normalized(Error) = Error
  /\ \A n \in Int : Normalized(Big(n)) = normalize(n) /\ Whole(normalize(n)) /\ normalize(n).n = n
  /\ \A n \in Int : Negated(Big(n)) = Big(-n)
  /\ Negated(Error) = Error
BY NumIs DEF Normalized, Negated, Error, Big, Of

\* Division by a digit: of what is not negative it is exact.
LEMMA DigitQuotient ==
  ASSUME NEW a \in Int, NEW b \in Int
  PROVE  LET r == IF b < 0 THEN Negated(mp_div_d(a, -b)) ELSE mp_div_d(a, b)
         IN  IF b = 0 THEN r = Error ELSE \E q \in Int : r = Big(q) /\ (a >= 0 => q = Quotient(a, b))
<1>1. ASSUME NEW d \in Int, d > 0
      PROVE  \E q \in Int : mp_div_d(a, d) = Big(q) /\ (a >= 0 => q = Quotient(a, d))
  <2>1. PICK q, m : q = Quotient(a, d) /\ m = Abs(a) \div d
    OBVIOUS
  <2>2. q \in Int
    BY <1>1, <2>1, QuotientIs
  <2>3. Abs(a) \in Nat /\ m \in Int
    BY <1>1, <2>1 DEF Abs
  <2>4. a >= 0 => q = m
    <3>1. SUFFICES ASSUME a >= 0 PROVE q = m
      OBVIOUS
    <3>2. q = Sign(a) * 1 * m
      BY <1>1, <2>1 DEF Quotient, Sign, Abs
    <3>3. a = 0 => m = 0
      BY <1>1, <2>1 DEF Abs
    <3>4. QED
      BY <2>3, <3>1, <3>2, <3>3 DEF Sign
  <2>5. mp_div_d(a, d) \in {Big(q), Big(m)}
    BY <1>1, <2>1 DEF mp_div_d
  <2>6. QED
    BY <2>1, <2>2, <2>3, <2>4, <2>5
<1>2. CASE b > 0
  BY <1>1, <1>2
<1>3. CASE b = 0
  BY <1>3 DEF mp_div_d
<1>4. CASE b < 0
  <2>1. PICK d : d = -b
    OBVIOUS
  <2>2. d \in Int /\ d > 0
    BY <1>4, <2>1
  <2>3. PICK q \in Int : mp_div_d(a, d) = Big(q) /\ (a >= 0 => q = Quotient(a, d))
    BY <1>1, <2>2
  <2>4. a >= 0 => -Quotient(a, d) = Quotient(a, b)
    <3>1. SUFFICES ASSUME a >= 0 PROVE -Quotient(a, d) = Quotient(a, b)
      OBVIOUS
    <3>2. PICK m : m = Abs(a) \div d
      OBVIOUS
    <3>3. m \in Int /\ Abs(d) = d /\ Abs(b) = d
      BY <1>4, <2>1, <2>2, <3>2 DEF Abs
    <3>4. Quotient(a, d) = Sign(a) * 1 * m /\ Quotient(a, b) = Sign(a) * (-1) * m
      BY <1>4, <2>2, <3>2, <3>3 DEF Quotient, Sign
    <3>5. Sign(a) \in {0, 1}
      BY <3>1 DEF Sign
    <3>6. QED
      BY <3>3, <3>4, <3>5
  <2>5. Negated(mp_div_d(a, -b)) = Big(-q) /\ -q \in Int
    BY <2>1, <2>3, NormalizedIs
  <2>6. QED
    BY <1>4, <2>3, <2>4, <2>5
<1>5. QED
  BY <1>2, <1>3, <1>4

LEMMA TruncIs ==
  ASSUME NEW x \in Values, NEW y \in Values
  PROVE  /\ Sound(trunc(x, y))
         /\ Whole(x) /\ Whole(y) /\ ~ (x.kind = "big" /\ y.kind = "fix" /\ x.n < 0) =>
              IF y.n = 0 THEN trunc(x, y) = Error ELSE Whole(trunc(x, y)) /\ IsQuotient(trunc(x, y).n, x.n, y.n)
<1>1. x.n \in Int /\ y.n \in Int
  BY DEF Values
<1>2. PICK q : q = Quotient(x.n, y.n)
  OBVIOUS
<1>3. y.n # 0 => q \in Int /\ IsQuotient(q, x.n, y.n)
  BY <1>1, <1>2, QuotientIs
<1>4. CASE x.kind = "fix" /\ y.kind = "big"
  <2>1. trunc(x, y) = Fix(0)
    BY <1>4 DEF trunc, AsFloats
  <2>2. Whole(x) /\ Whole(y) => y.n # 0 /\ IsQuotient(0, x.n, y.n)
    <3>1. SUFFICES ASSUME Whole(x), Whole(y) PROVE y.n # 0 /\ IsQuotient(0, x.n, y.n)
      OBVIOUS
    <3>2. Abs(x.n - 0) < Abs(y.n) /\ y.n # 0
      BY <1>1, <1>4, <3>1, WholeIs, Sizes DEF Abs
    <3>3. 0 * y.n = 0 /\ 0 * x.n = 0 /\ Abs(0) <= Abs(x.n)
      BY <1>1 DEF Abs
    <3>4. QED
      BY <3>2, <3>3 DEF IsQuotient
  <2>3. Whole(Fix(0)) /\ Fix(0).n = 0
    BY ConstantsAre, Sizes DEF Whole, integerp
  <2>4. QED
    BY <2>1, <2>2, <2>3 DEF Sound, Whole
<1>5. CASE x.kind = "fix" /\ y.kind = "fix"
  <2>1. trunc(x, y) = IF y.n = 0 THEN Error ELSE num(q)
    BY <1>2, <1>5 DEF trunc, AsFloats
  <2>2. QED
    BY <1>3, <2>1, NumIs, ConstantsAre DEF Sound, Whole
<1>6. CASE x.kind = "big" /\ y.kind = "fix"
  <2>1. PICK r : r = IF y.n < 0 THEN Negated(mp_div_d(x.n, -y.n)) ELSE mp_div_d(x.n, y.n)
    OBVIOUS
  <2>2. trunc(x, y) = Normalized(r)
    BY <1>6, <2>1 DEF trunc, AsFloats
  <2>3. CASE y.n = 0
    <3>1. r = Error
      BY <1>1, <2>1, <2>3, DigitQuotient
    <3>2. QED
      BY <2>2, <2>3, <3>1, NormalizedIs, ConstantsAre DEF Sound
  <2>4. CASE y.n # 0
    <3>1. PICK k \in Int : r = Big(k) /\ (x.n >= 0 => k = q)
      BY <1>1, <1>2, <2>1, <2>4, DigitQuotient
    <3>2. QED
      BY <1>1, <1>3, <1>6, <2>2, <2>4, <3>1, NormalizedIs DEF Sound, Whole
  <2>5. QED
    BY <2>3, <2>4
<1>7. CASE x.kind = "big" /\ y.kind = "big"
  <2>1. trunc(x, y) = Normalized(mp_div(x.n, y.n))
    BY <1>7 DEF trunc, AsFloats
  <2>2. mp_div(x.n, y.n) = IF y.n = 0 THEN Error ELSE Big(q)
    BY <1>2 DEF mp_div
  <2>3. QED
    BY <1>3, <2>1, <2>2, NormalizedIs, ConstantsAre DEF Sound, Whole
<1>8. CASE AsFloats(x, y)
  <2>1. trunc(x, y) = IF y.n = 0 THEN Error ELSE Flo(q)
    BY <1>2, <1>8 DEF trunc, AsFloats, AsIntegers, integerp
  <2>2. QED
    BY <1>3, <1>8, <2>1, ConstantsAre DEF Sound, Whole, AsFloats, integerp
<1>9. CASE ~ AsIntegers(x, y) /\ ~ AsFloats(x, y)
  <2>1. trunc(x, y) = Error
    BY <1>9 DEF trunc, AsIntegers, AsFloats, integerp
  <2>2. QED
    BY <1>9, <2>1, ConstantsAre DEF Sound, Whole, AsIntegers
<1>10. QED
  BY <1>4, <1>5, <1>6, <1>7, <1>8, <1>9 DEF AsIntegers, integerp

\* What the remainders of the bignum library give, for either sign of the modulus.
LEMMA RemainderIs ==
  ASSUME NEW a \in Int, NEW b \in Int
  PROVE  /\ By(mp_mod, a, b) = Error \/ \E n \in Int : By(mp_mod, a, b) = Big(n)
         /\ By(mp_mod_d, a, b) = Error \/ \E n \in Int : By(mp_mod_d, a, b) = Big(n)
         /\ b # 0 => By(mp_mod, a, b) = Big(Floor(a, b))
         /\ b # 0 /\ Abs(a) > Abs(b) /\ Sign(a) = Sign(b) => By(mp_mod_d, a, b) = Big(Floor(a, b))
         /\ b = 0 /\ a # 0 => By(mp_mod, a, b) = Error
<1>1. CASE b > 0
  <2>1. PICK r : r = a % b
    OBVIOUS
  <2>2. r \in Int /\ Floor(a, b) = r /\ By(mp_mod, a, b) = Big(r)
    BY <1>1, <2>1 DEF By, mp_mod, Floor
  <2>3. Abs(a) \in Int /\ (Abs(a) > b => Abs(a) % b \in Int)
    BY <1>1 DEF Abs
  <2>4. \E n \in Int : By(mp_mod_d, a, b) = Big(n)
    BY <1>1, <2>3 DEF By, mp_mod_d
  <2>5. Abs(a) > Abs(b) /\ Sign(a) = Sign(b) => By(mp_mod_d, a, b) = Big(r)
    BY <1>1, <2>1 DEF By, mp_mod_d, Abs, Sign
  <2>6. QED
    BY <1>1, <2>2, <2>4, <2>5
<1>2. CASE b < 0
  <2>1. PICK c, d, r : c = -b /\ d = -a /\ r = d % c
    OBVIOUS
  <2>2. c \in Int /\ c > 0 /\ d \in Int /\ r \in Int /\ Floor(a, b) = -r
    BY <1>2, <2>1 DEF Floor
  <2>3. \A n \in Int : Negated(Big(n)) = Big(-n)
    BY DEF Negated, Big, Error, Of
  <2>4. mp_mod(-a, -b) = Big(r)
    BY <2>1, <2>2 DEF mp_mod
  <2>5. By(mp_mod, a, b) = Big(-r)
    BY <1>2, <2>2, <2>3, <2>4 DEF By
  <2>6. PICK n \in Int : mp_mod_d(-a, -b) = Big(n) /\ (Abs(a) > Abs(b) /\ Sign(a) = Sign(b) => n = r)
    <3>1. Abs(d) \in Int /\ (Abs(d) > c => Abs(d) % c \in Int)
      BY <2>2 DEF Abs
    <3>2. Abs(a) > Abs(b) /\ Sign(a) = Sign(b) => Abs(d) = d /\ Abs(d) > c
      BY <1>2, <2>1, <2>2 DEF Abs, Sign
    <3>3. mp_mod_d(d, c) = Big(IF Abs(d) > c THEN Abs(d) % c ELSE IF d < 0 THEN c - Abs(d) ELSE Abs(d))
      BY <2>2 DEF mp_mod_d
    <3>4. PICK n : n = IF Abs(d) > c THEN Abs(d) % c ELSE IF d < 0 THEN c - Abs(d) ELSE Abs(d)
      OBVIOUS
    <3>5. n \in Int
      BY <2>2, <3>1, <3>4
    <3>6. Abs(a) > Abs(b) /\ Sign(a) = Sign(b) => n = r
      BY <2>1, <3>2, <3>4
    <3>7. mp_mod_d(-a, -b) = Big(n)
      BY <2>1, <3>3, <3>4
    <3>8. QED
      BY <3>5, <3>6, <3>7
  <2>7. By(mp_mod_d, a, b) = Big(-n)
    BY <1>2, <2>3, <2>6 DEF By
  <2>8. QED
    BY <1>2, <2>2, <2>5, <2>6, <2>7
<1>3. CASE b = 0
  <2>1. By(mp_mod, a, b) = IF a = 0 THEN Big(0) ELSE Error
    BY <1>3 DEF By, mp_mod
  <2>2. By(mp_mod_d, a, b) = IF a = 0 THEN Big(0) ELSE Error
    BY <1>3 DEF By, mp_mod_d, Abs
  <2>3. QED
    BY <1>3, <2>1, <2>2
<1>4. QED
  BY <1>1, <1>2, <1>3

LEMMA ModIs ==
  ASSUME double \in BOOLEAN, NEW x \in Values, NEW y \in Values,
         AsFloats(x, y) => y.n # 0
  PROVE  /\ Sound(mod(x, y))
         /\ /\ Whole(x) /\ Whole(y)
            /\ x.kind = "big" /\ y.kind = "fix" => Sign(x.n) = Sign(y.n)
            => IF y.n = 0 THEN mod(x, y) = Error ELSE Whole(mod(x, y)) /\ IsModulo(mod(x, y).n, x.n, y.n)
<1>1. x.n \in Int /\ y.n \in Int
  BY DEF Values
<1>2. PICK f : f = Floor(x.n, y.n)
  OBVIOUS
<1>3. y.n # 0 => f \in Int /\ IsModulo(f, x.n, y.n)
  BY <1>1, <1>2, FloorIs
<1>4. PICK r, s : r = By(mp_mod, x.n, y.n) /\ s = By(mp_mod_d, x.n, y.n)
  OBVIOUS
<1>5. /\ r = Error \/ \E n \in Int : r = Big(n)
      /\ s = Error \/ \E n \in Int : s = Big(n)
      /\ y.n # 0 => r = Big(f)
      /\ y.n # 0 /\ Abs(x.n) > Abs(y.n) /\ Sign(x.n) = Sign(y.n) => s = Big(f)
      /\ y.n = 0 /\ x.n # 0 => r = Error
  BY <1>1, <1>2, <1>4, RemainderIs
<1>6. Sound(Normalized(r)) /\ Sound(Normalized(s))
  BY <1>5, NormalizedIs, ConstantsAre DEF Sound, Whole
<1>7. CASE x.kind = "fix" /\ y.kind = "fix"
  <2>1. mod(x, y) = IF y.n = 0 THEN Error ELSE num(f)
    BY <1>2, <1>7 DEF mod, AsFloats, AsIntegers
  <2>2. QED
    BY <1>3, <2>1, NumIs, ConstantsAre DEF Sound, Whole
<1>8. CASE x.kind = "big" /\ y.kind = "fix"
  <2>1. mod(x, y) = Normalized(s)
    BY <1>4, <1>8 DEF mod, AsFloats, AsIntegers
  <2>2. Whole(x) /\ Whole(y) => x.n # 0 /\ Abs(x.n) > Abs(y.n)
    BY <1>1, <1>8, WholeIs, Sizes DEF Abs
  <2>3. x.n # 0 /\ y.n = 0 => Sign(x.n) # Sign(y.n)
    BY <1>1 DEF Sign
  <2>4. QED
    BY <1>3, <1>5, <1>6, <1>8, <2>1, <2>2, <2>3, NormalizedIs
<1>9. CASE integerp(x) /\ y.kind = "big"
  <2>1. mod(x, y) = Normalized(r)
    BY <1>4, <1>9 DEF mod, AsFloats, AsIntegers, integerp
  <2>2. Whole(x) /\ Whole(y) => x.n # 0 \/ y.n # 0
    BY <1>1, <1>9, WholeIs, Sizes
  <2>3. QED
    BY <1>3, <1>5, <1>6, <2>1, <2>2, NormalizedIs
<1>10. CASE AsFloats(x, y)
  <2>1. mod(x, y) = Flo(f)
    BY <1>2, <1>10 DEF mod, AsFloats, AsIntegers, integerp
  <2>2. QED
    BY <1>3, <1>10, <2>1, ConstantsAre DEF Sound, Whole, AsFloats, integerp
<1>11. CASE ~ AsIntegers(x, y) /\ ~ AsFloats(x, y)
  <2>1. mod(x, y) = Error
    BY <1>11 DEF mod, AsIntegers, AsFloats, integerp
  <2>2. QED
    BY <1>11, <2>1, ConstantsAre DEF Sound, Whole, AsIntegers
<1>12. QED
  BY <1>7, <1>8, <1>9, <1>10, <1>11 DEF AsIntegers, integerp

LEMMA DiviIs ==
  ASSUME NEW x \in Values, NEW y \in Values
  PROVE  Sound(divi(x, y))
<1>1. x.n \in Int /\ y.n \in Int
  BY DEF Values
<1>2. QED
  BY <1>1, QuotientIs, ConstantsAre DEF divi, Sound

-----------------------------------------------------------------------------
\* Comparisons: the sign of a bignum decides between it and a fixnum.
LEMMA CompareIs ==
  ASSUME NEW x \in Values, NEW y \in Values
  PROVE  /\ Sound(gt(x, y)) /\ Sound(lt(x, y)) /\ Sound(ge(x, y)) /\ Sound(le(x, y)) /\ Sound(numeq(x, y))
         /\ Whole(x) /\ Whole(y) =>
              /\ gt(x, y) = Truth(x.n > y.n) /\ lt(x, y) = Truth(x.n < y.n)
              /\ ge(x, y) = Truth(x.n >= y.n) /\ le(x, y) = Truth(x.n <= y.n)
              /\ numeq(x, y) = Truth(x.n = y.n)
<1>1. x.n \in Int /\ y.n \in Int
  BY DEF Values
<1>2. Sound(Of("t", 0)) /\ Sound(Of("nil", 0))
  BY ConstantsAre DEF Sound, Truth
<1>3. Sound(Error)
  BY ConstantsAre DEF Sound
<1> DEFINE bad == \E z \in {x, y} : ~numberp(z) /\ z.kind # "chr"
<1>4. CASE ~ bad /\ Small(x) /\ y.kind = "big"
  <2>1. /\ gt(x, y) = Truth(0 > y.n) /\ lt(x, y) = Truth(0 < y.n) /\ ge(x, y) = Truth(0 > y.n)
        /\ le(x, y) = Truth(0 < y.n) /\ numeq(x, y) = Truth(0 = y.n)
    BY <1>4 DEF gt, lt, ge, le, numeq, Compare, Greater, Less, AtLeast, AtMost, Same
  <2>2. ASSUME Whole(x), Whole(y)
        PROVE  /\ (0 > y.n <=> x.n > y.n) /\ (0 < y.n <=> x.n < y.n) /\ (0 > y.n <=> x.n >= y.n)
               /\ (0 < y.n <=> x.n <= y.n) /\ (0 = y.n <=> x.n = y.n)
    BY <1>1, <1>4, <2>2, WholeIs, Sizes DEF Small
  <2>3. QED
    BY <1>1, <1>2, <2>1, <2>2 DEF Truth
<1>5. CASE ~ bad /\ x.kind = "big" /\ Small(y)
  <2>1. /\ gt(x, y) = Truth(x.n > 0) /\ lt(x, y) = Truth(x.n < 0) /\ ge(x, y) = Truth(x.n > 0)
        /\ le(x, y) = Truth(x.n < 0) /\ numeq(x, y) = Truth(x.n = 0)
    BY <1>5 DEF gt, lt, ge, le, numeq, Compare, Greater, Less, AtLeast, AtMost, Same, Small
  <2>2. ASSUME Whole(x), Whole(y)
        PROVE  /\ (x.n > 0 <=> x.n > y.n) /\ (x.n < 0 <=> x.n < y.n) /\ (x.n > 0 <=> x.n >= y.n)
               /\ (x.n < 0 <=> x.n <= y.n) /\ (x.n = 0 <=> x.n = y.n)
    BY <1>1, <1>5, <2>2, WholeIs, Sizes DEF Small
  <2>3. QED
    BY <1>1, <1>2, <2>1, <2>2 DEF Truth
<1>6. CASE ~ bad /\ ~ (Small(x) /\ y.kind = "big") /\ ~ (x.kind = "big" /\ Small(y))
  <2>1. /\ gt(x, y) = Truth(x.n > y.n) /\ lt(x, y) = Truth(x.n < y.n) /\ ge(x, y) = Truth(x.n >= y.n)
        /\ le(x, y) = Truth(x.n <= y.n) /\ numeq(x, y) = Truth(x.n = y.n)
    BY <1>6 DEF gt, lt, ge, le, numeq, Compare, Greater, Less, AtLeast, AtMost, Same
  <2>2. QED
    BY <1>1, <1>2, <2>1 DEF Truth
<1>7. CASE bad
  <2>1. gt(x, y) = Error /\ lt(x, y) = Error /\ ge(x, y) = Error /\ le(x, y) = Error /\ numeq(x, y) = Error
    BY <1>7 DEF gt, lt, ge, le, numeq, Compare
  <2>2. ~ (Whole(x) /\ Whole(y))
    BY <1>7 DEF Whole, integerp, numberp
  <2>3. QED
    BY <1>3, <2>1, <2>2
<1>8. QED
  BY <1>4, <1>5, <1>6, <1>7

LEMMA ParityIs ==
  ASSUME NEW x \in Values
  PROVE  /\ Sound(zerop(x)) /\ Sound(evenp(x)) /\ Sound(oddp(x))
         /\ Whole(x) =>
              /\ zerop(x) = Truth(x.n = 0)
              /\ evenp(x) = Truth(\E h \in -Abs(x.n) .. Abs(x.n) : x.n = 2 * h)
              /\ oddp(x) = Truth(\A h \in -Abs(x.n) .. Abs(x.n) : x.n # 2 * h)
<1>1. x.n \in Int
  BY DEF Values
<1>2. Sound(zerop(x)) /\ Sound(evenp(x)) /\ Sound(oddp(x))
  BY <1>1, ConstantsAre DEF zerop, evenp, oddp, Sound
<1>3. ASSUME Whole(x) PROVE zerop(x) = Truth(x.n = 0)
  <2>1. zerop(x) = Truth(x.kind # "big" /\ x.n = 0)
    BY <1>3 DEF zerop, numberp, Whole
  <2>2. (x.kind # "big" /\ x.n = 0) <=> x.n = 0
    BY <1>3, WholeIs, Sizes
  <2>3. QED
    BY <2>1, <2>2
<1>4. (x.n % 2 = 0) <=> \E h \in -Abs(x.n) .. Abs(x.n) : x.n = 2 * h
  <2>1. ASSUME x.n % 2 = 0 PROVE \E h \in -Abs(x.n) .. Abs(x.n) : x.n = 2 * h
    <3>1. PICK h : h = x.n \div 2
      OBVIOUS
    <3>2. h \in -Abs(x.n) .. Abs(x.n) /\ x.n = 2 * h
      BY <1>1, <2>1, <3>1 DEF Abs
    <3>3. QED
      BY <3>2
  <2>2. ASSUME NEW h \in -Abs(x.n) .. Abs(x.n), x.n = 2 * h PROVE x.n % 2 = 0
    BY <1>1, <2>2 DEF Abs
  <2>3. QED
    BY <2>1, <2>2
<1>5. Whole(x) => evenp(x) = Truth(x.n % 2 = 0) /\ oddp(x) = Truth(x.n % 2 # 0)
  BY DEF evenp, oddp, Whole
<1>6. QED
  BY <1>2, <1>3, <1>4, <1>5

-----------------------------------------------------------------------------
\* Powers: none but those of 0 and 1 come closer to 0 than their base.
LEMMA PowerIs ==
  ASSUME NEW a \in Int, NEW b \in Nat
  PROVE  /\ Power(a, b) \in Int /\ (b = 0 => Power(a, b) = 1) /\ (b = 1 => Power(a, b) = a)
         /\ b > 0 => Abs(Power(a, b)) >= Abs(a)
<1> DEFINE F == [v \in (1 .. b) \X Int |-> a * v[2]]
           Is(g) == g = [i \in 0 .. b |-> IF i = 0 THEN 1 ELSE a * g[i - 1]]
<1>1. F \in Steps(b, Int) /\ \A i \in 1 .. b, v \in Int : F[<<i, v>>] = a * v
  BY DEF Steps
<1> HIDE DEF F
<1>2. PICK g : Solves(g, 1, F, b, Int)
  <2>1. F \in Steps(b, Int) /\ 1 \in Int
    BY <1>1
  <2>2. QED
    BY <2>1, Recursion, Zenon
<1>3. Is(g)
  <2>1. g \in [0 .. b -> Int] /\ g[0] = 1
    BY <1>2 DEF Solves
  <2>2. ASSUME NEW i \in 1 .. b PROVE g[i] = a * g[i - 1]
    <3>1. g[i - 1] \in Int /\ g[i] = F[<<i, g[i - 1]>>]
      BY <1>2, <2>1 DEF Solves
    <3>2. QED
      BY <1>1, <3>1
  <2>3. QED
    BY <2>1, <2>2
<1>4. Is(CHOOSE h : Is(h))
  <2> HIDE DEF Is
  <2>1. QED
    BY <1>3, Zenon
<1>5. PICK p : Is(p) /\ Power(a, b) = p[b]
  BY <1>4, Zenon DEF Power
<1>6. p[0] = 1 /\ \A i \in 1 .. b : p[i] = a * p[i - 1]
  BY <1>5
<1> DEFINE T == {i \in Nat : i <= b => p[i] \in Int /\ (i > 0 => Abs(p[i]) >= Abs(a))}
<1>7. 0 \in T
  BY <1>6
<1>8. ASSUME NEW i \in Nat, i \in T PROVE i + 1 \in T
  <2>1. SUFFICES ASSUME i + 1 <= b PROVE p[i + 1] \in Int /\ Abs(p[i + 1]) >= Abs(a)
    OBVIOUS
  <2>2. PICK v : v = p[i]
    OBVIOUS
  <2>3. v \in Int /\ p[i + 1] = a * v /\ (i > 0 => Abs(v) >= Abs(a)) /\ (i = 0 => v = 1)
    BY <1>6, <1>8, <2>1, <2>2
  <2>4. v = 0 => Abs(a) = 0 /\ Abs(a * v) = 0
    <3>1. v = 0 => Abs(v) = 0 /\ a * v = 0 /\ i > 0
      BY <2>3 DEF Abs
    <3>2. Abs(a) >= 0 /\ Abs(a) \in Int
      BY DEF Abs
    <3>3. Abs(0) = 0
      BY DEF Abs
    <3>4. QED
      BY <2>3, <3>1, <3>2, <3>3
  <2>5. v # 0 => Abs(a * v) >= Abs(a)
    BY <2>3, Magnitudes
  <2>6. a * v \in Int
    BY <2>3
  <2>7. QED
    BY <2>3, <2>4, <2>5, <2>6
<1> HIDE DEF T
<1>9. b \in T
  BY <1>7, <1>8, SetInduction
<1>10. QED
  <2>1. b = 1 => p[b] = a * 1
    BY <1>6
  <2>2. QED
    BY <1>5, <1>6, <1>9, <2>1 DEF T

LEMMA ExptIs ==
  ASSUME NEW x \in Values, NEW y \in Values
  PROVE  /\ expt(x, y) \in Values
         /\ Canonical(x) /\ Canonical(y) => Canonical(expt(x, y))
         /\ Whole(x) /\ Whole(y) /\ ~ (y.kind = "big" /\ x.n < 0) =>
              IF y.n < 0 THEN expt(x, y) = Error ELSE expt(x, y).n = Power(x.n, y.n)
<1>1. x.n \in Int /\ y.n \in Int
  BY DEF Values
<1>2. PICK w : w = Power(x.n, y.n)
  OBVIOUS
<1>3. y.n >= 0 => /\ w \in Int /\ (y.n = 0 => w = 1) /\ (y.n = 1 => w = x.n)
                  /\ y.n > 0 => Abs(w) >= Abs(x.n)
  BY <1>1, <1>2, PowerIs
<1> DEFINE bad == (~ AsFloats(x, y) /\ ~ AsIntegers(x, y)) \/ y.n < 0
<1>4. CASE bad
  <2>1. expt(x, y) = Error
    BY <1>4 DEF expt
  <2>2. Whole(x) /\ Whole(y) => y.n < 0
    BY <1>4 DEF Whole, AsIntegers
  <2>3. QED
    BY <2>1, <2>2, ConstantsAre
<1>5. CASE ~ bad /\ AsFloats(x, y)
  <2>1. expt(x, y) = Flo(w)
    BY <1>2, <1>5 DEF expt
  <2>2. ~ (Whole(x) /\ Whole(y))
    BY <1>5 DEF AsFloats, Whole, integerp
  <2>3. QED
    BY <1>1, <1>3, <1>5, <2>1, <2>2, ConstantsAre
<1>6. CASE ~ bad /\ ~ AsFloats(x, y) /\ y = Fix(0)
  <2>1. expt(x, y) = Fix(1)
    BY <1>6 DEF expt
  <2>2. y.n = 0
    BY <1>6, ConstantsAre
  <2>3. QED
    BY <1>2, <1>3, <2>1, <2>2, ConstantsAre, Sizes
<1>7. CASE ~ bad /\ ~ AsFloats(x, y) /\ y # Fix(0) /\ y = Fix(1)
  <2>1. expt(x, y) = x
    BY <1>7 DEF expt
  <2>2. y.n = 1
    BY <1>7, ConstantsAre
  <2>3. QED
    BY <1>2, <1>3, <2>1, <2>2
<1>8. CASE ~ bad /\ ~ AsFloats(x, y) /\ y # Fix(0) /\ y # Fix(1) /\ y.kind = "fix"
  <2>1. expt(x, y) = normalize(w)
    BY <1>2, <1>8 DEF expt
  <2>2. QED
    BY <1>1, <1>2, <1>3, <1>8, <2>1, NumIs DEF Whole
<1>9. CASE ~ bad /\ ~ AsFloats(x, y) /\ y # Fix(0) /\ y # Fix(1) /\ y.kind # "fix"
  <2>1. y.kind = "big" /\ y.n >= 0 /\ x.kind \in {"fix", "big"}
    BY <1>1, <1>9 DEF AsFloats, AsIntegers, integerp, numberp
  <2>2. PICK v : v = IF x.n < 0 /\ y.n % 2 = 0 THEN -Power(Abs(x.n), y.n) ELSE Power(Abs(x.n), y.n)
    OBVIOUS
  <2>3. mp_expt(x.n, y.n) = Big(v)
    BY <1>1, <2>1, <2>2 DEF mp_expt
  <2>4. v \in Int /\ (x.n >= 0 => v = w) /\ (y.n > 0 => Abs(v) >= Abs(x.n))
    <3>1. PICK a : a = Abs(x.n)
      OBVIOUS
    <3>2. a \in Int /\ Abs(a) = a /\ (x.n >= 0 => a = x.n)
      BY <1>1, <3>1 DEF Abs
    <3>3. PICK z : z = Power(a, y.n)
      OBVIOUS
    <3>4. z \in Int /\ (y.n > 0 => Abs(z) >= a)
      <4>1. y.n \in Nat
        BY <1>1, <2>1
      <4>2. QED
        BY <3>2, <3>3, <4>1, PowerIs
    <3>5. v \in {z, -z} /\ (x.n >= 0 => v = z /\ z = w)
      BY <1>1, <1>2, <2>2, <3>1, <3>2, <3>3
    <3>6. Abs(v) = Abs(z) /\ v \in Int
      BY <3>4, <3>5 DEF Abs
    <3>7. QED
      BY <3>1, <3>4, <3>5, <3>6
  <2>5. CASE x.kind = "fix"
    <3>1. expt(x, y) = normalize(v)
      BY <1>9, <2>1, <2>3, <2>4, <2>5, NormalizedIs DEF expt
    <3>2. QED
      BY <1>1, <1>2, <2>1, <2>4, <3>1, NumIs DEF Whole
  <2>6. CASE x.kind = "big"
    <3>1. expt(x, y) = Big(v)
      BY <1>9, <2>1, <2>3, <2>6 DEF expt
    <3>2. Canonical(x) /\ Canonical(y) => v \notin NUM_MIN .. NUM_MAX
      <4>1. SUFFICES ASSUME Canonical(x), Canonical(y) PROVE v \notin NUM_MIN .. NUM_MAX
        OBVIOUS
      <4>2. x.n \notin NUM_MIN .. NUM_MAX /\ y.n \notin NUM_MIN .. NUM_MAX
        BY <2>1, <2>6, <4>1 DEF Canonical
      <4>3. y.n > 0
        BY <1>1, <2>1, <4>2, Sizes
      <4>4. Abs(v) >= Abs(x.n) /\ v \in Int
        BY <2>4, <4>3
      <4>5. QED
        BY <1>1, <4>2, <4>4, Sizes DEF Abs
    <3>3. QED
      BY <1>1, <1>2, <2>1, <2>4, <3>1, <3>2, ConstantsAre
  <2>7. QED
    BY <2>1, <2>5, <2>6
<1>10. QED
  BY <1>4, <1>5, <1>6, <1>7, <1>8, <1>9

LEMMA ExptmodIs ==
  ASSUME NEW x \in Values, NEW y \in Values, NEW m \in Values
  PROVE  Sound(exptmod(x, y, m))
<1>1. x.n \in Int /\ y.n \in Int /\ m.n \in Int
  BY DEF Values
<1>2. ASSUME NEW a \in Int, NEW b \in Int, NEW c \in Int
      PROVE  mp_exptmod(a, b, c) = Error \/ \E n \in Int : mp_exptmod(a, b, c) = Big(n)
  <2>1. CASE b < 0 \/ c <= 0
    BY <2>1 DEF mp_exptmod
  <2>2. CASE b >= 0 /\ c > 0
    <3> DEFINE F == [v \in (1 .. b) \X Int |-> (v[2] * (a % c)) % c]
               Is(g) == g = [i \in 0 .. b |-> IF i = 0 THEN 1 ELSE (g[i - 1] * (a % c)) % c]
    <3>1. a % c \in Int /\ \A v \in Int : (v * (a % c)) % c \in Int
      <4>1. a % c \in Int
        BY <2>2
      <4>2. ASSUME NEW v \in Int PROVE (v * (a % c)) % c \in Int
        <5>1. PICK k \in Int : k = a % c
          BY <4>1
        <5>2. PICK n \in Int : n = v * k
          OBVIOUS
        <5>3. n % c \in Int
          BY <2>2
        <5>4. QED
          BY <5>1, <5>2, <5>3
      <4>3. QED
        BY <4>1, <4>2
    <3>2. F \in Steps(b, Int) /\ \A i \in 1 .. b, v \in Int : F[<<i, v>>] = (v * (a % c)) % c
      BY <3>1 DEF Steps
    <3>3. b \in Nat
      BY <2>2
    <3> HIDE DEF F
    <3>4. PICK g : Solves(g, 1, F, b, Int)
      BY <3>2, <3>3, Recursion
    <3>5. Is(g)
      <4>1. g \in [0 .. b -> Int] /\ g[0] = 1
        BY <3>4 DEF Solves
      <4>2. ASSUME NEW i \in 1 .. b PROVE g[i] = (g[i - 1] * (a % c)) % c
        <5>1. i - 1 \in 0 .. b /\ g[i] = F[<<i, g[i - 1]>>]
          BY <3>3, <3>4 DEF Solves
        <5>2. QED
          BY <3>2, <4>1, <5>1
      <4>3. QED
        BY <4>1, <4>2, <3>3
    <3>6. Is(CHOOSE h : Is(h))
      <4> HIDE DEF Is
      <4>1. QED
        BY <3>5, Zenon
    <3>7. PICK p : Is(p) /\ mp_exptmod(a, b, c) = Big(p[b])
      <4>1. mp_exptmod(a, b, c) = IF b < 0 \/ c <= 0 THEN Error ELSE Big((CHOOSE h : Is(h))[b])
        BY DEF mp_exptmod
      <4> HIDE DEF Is
      <4>2. mp_exptmod(a, b, c) = Big((CHOOSE h : Is(h))[b])
        BY <2>2, <4>1
      <4>3. QED
        BY <3>6, <4>2, Zenon
    <3>8. p[0] = 1 /\ \A i \in 1 .. b : p[i] = (p[i - 1] * (a % c)) % c
      BY <3>3, <3>7
    <3> DEFINE T == {i \in Nat : i <= b => p[i] \in Int}
    <3>9. 0 \in T
      BY <3>3, <3>8
    <3>10. ASSUME NEW i \in Nat, i \in T PROVE i + 1 \in T
      <4>1. SUFFICES ASSUME i + 1 <= b PROVE p[i + 1] \in Int
        OBVIOUS
      <4>2. i + 1 \in 1 .. b /\ (i + 1) - 1 = i /\ p[i] \in Int
        BY <3>10, <4>1
      <4>3. p[i + 1] = (p[i] * (a % c)) % c
        BY <3>8, <4>2
      <4>4. QED
        BY <3>1, <4>2, <4>3
    <3> HIDE DEF T
    <3>11. b \in T
      BY <3>3, <3>9, <3>10, SetInduction
    <3>12. QED
      BY <2>2, <3>7, <3>11 DEF T
  <2>3. QED
    BY <2>1, <2>2
<1>3. PICK r : r = mp_exptmod(x.n, y.n, m.n)
  OBVIOUS
<1>4. r = Error \/ \E n \in Int : r = Big(n)
  BY <1>1, <1>2, <1>3
<1>5. exptmod(x, y, m) = Error \/ exptmod(x, y, m) = Normalized(r)
  BY <1>3 DEF exptmod
<1>6. QED
  BY <1>4, <1>5, NormalizedIs, ConstantsAre DEF Sound, Whole

-----------------------------------------------------------------------------
\* Square roots: the bits already found give a root that is not too large, with
\* all the bits below them one that is, and nothing below themselves.
LEMMA RootIs ==
  ASSUME NEW a \in Nat
  PROVE  /\ Root(a, RootBits(a)) \in Nat /\ IsRoot(Root(a, RootBits(a)), a) /\ Root(a, RootBits(a)) <= a
         /\ Root(a, RootBits(a) - 1) \in Nat /\ IsEvenRoot(Root(a, RootBits(a) - 1), a)
<1> DEFINE try(v, mask) == IF (v + mask) * (v + mask) <= a THEN v + mask ELSE v
           N == RootBits(a)
           F == [v \in (1 .. N) \X Nat |-> try(v[2], Pow2[N - v[1]])]
           Is(g) == g = [i \in 0 .. N |-> IF i = 0 THEN 0 ELSE try(g[i - 1], Pow2[N - i])]
<1>1. N \in Nat \ {0} /\ highest_bit(a) \in Nat /\ a < Pow2[highest_bit(a)] /\ highest_bit(a) <= 2 * N
  BY HighestBit DEF RootBits
<1> HIDE DEF N
<1>2. \A i \in 0 .. N : N - i \in Nat /\ Pow2[N - i] \in Nat \ {0}
  BY <1>1, Pow2Is
<1>3. \A v \in Nat, m \in Nat : try(v, m) \in Nat
  OBVIOUS
<1> HIDE DEF try
<1>4. F \in Steps(N, Nat) /\ \A i \in 1 .. N, v \in Nat : F[<<i, v>>] = try(v, Pow2[N - i])
  <2>1. ASSUME NEW i \in 1 .. N, NEW v \in Nat PROVE try(v, Pow2[N - i]) \in Nat
    <3>1. i \in 0 .. N
      BY <1>1
    <3>2. Pow2[N - i] \in Nat
      BY <1>2, <3>1
    <3>3. QED
      BY <1>3, <3>2
  <2>2. \A v \in (1 .. N) \X Nat : try(v[2], Pow2[N - v[1]]) \in Nat
    BY <2>1
  <2>3. F \in Steps(N, Nat)
    BY <2>2 DEF Steps
  <2>4. ASSUME NEW i \in 1 .. N, NEW v \in Nat PROVE F[<<i, v>>] = try(v, Pow2[N - i])
    OBVIOUS
  <2>5. QED
    BY <2>3, <2>4
<1> HIDE DEF F
<1>5. PICK g : Solves(g, 0, F, N, Nat)
  BY <1>1, <1>4, Recursion
<1>6. Is(g)
  <2>1. g \in [0 .. N -> Nat] /\ g[0] = 0
    BY <1>5 DEF Solves
  <2>2. ASSUME NEW i \in 1 .. N PROVE g[i] = try(g[i - 1], Pow2[N - i])
    <3>1. g[i - 1] \in Nat /\ g[i] = F[<<i, g[i - 1]>>]
      BY <1>1, <1>5, <2>1 DEF Solves
    <3>2. QED
      BY <1>4, <3>1
  <2>3. QED
    BY <1>1, <2>1, <2>2
<1>7. Is(CHOOSE h : Is(h))
  <2> HIDE DEF Is
  <2>1. QED
    BY <1>6, Zenon
<1>8. PICK p : Is(p) /\ Root(a, N) = p[N] /\ Root(a, N - 1) = p[N - 1]
  <2>1. /\ Root(a, N) = (CHOOSE h : Is(h))[N]
        /\ Root(a, N - 1) = (CHOOSE h : Is(h))[N - 1]
    BY DEF Root, try, N
  <2> HIDE DEF Is
  <2>2. QED
    BY <1>7, <2>1, Zenon
<1>9. p[0] = 0 /\ \A i \in 1 .. N : p[i] = try(p[i - 1], Pow2[N - i])
  BY <1>1, <1>8
<1> DEFINE within(v, m) == v \in Nat /\ v * v <= a /\ a < (v + m) * (v + m) /\ \E k \in Nat : v = k * m
           T == {i \in Nat : i <= N => within(p[i], Pow2[N - i])}
<1>10. 0 \in T
  <2>1. Pow2[highest_bit(a)] <= Pow2[2 * N] /\ 2 * N = N + N
    BY <1>1, Pow2Grows
  <2>2. Pow2[N + N] = Pow2[N] * Pow2[N]
    BY <1>1, Pow2Sum
  <2>3. Pow2[N] \in Nat /\ Pow2[highest_bit(a)] \in Nat /\ N - 0 = N
    BY <1>1, Pow2Is
  <2>4. 0 * Pow2[N] = 0
    BY <2>3
  <2>5. QED
    BY <1>1, <1>9, <2>1, <2>2, <2>3, <2>4
<1>11. ASSUME NEW i \in Nat, i \in T PROVE i + 1 \in T
  <2>1. SUFFICES ASSUME i + 1 <= N PROVE within(p[i + 1], Pow2[N - (i + 1)])
    OBVIOUS
  <2>2. PICK v, m : v = p[i] /\ m = Pow2[N - (i + 1)]
    OBVIOUS
  <2>3. i + 1 \in 1 .. N /\ (i + 1) - 1 = i /\ i <= N /\ N - (i + 1) \in Nat /\ N - i = (N - (i + 1)) + 1
    BY <1>1, <2>1
  <2>4. m \in Nat /\ Pow2[N - i] = 2 * m /\ p[i + 1] = try(v, m)
    BY <1>9, <2>2, <2>3, Pow2Is
  <2>5. v \in Nat /\ v * v <= a /\ a < (v + 2 * m) * (v + 2 * m) /\ \E k \in Nat : v = k * (2 * m)
    BY <1>11, <2>2, <2>3, <2>4
  <2>5a. PICK k \in Nat : v = k * (2 * m)
    BY <2>5
  <2>5b. v = (2 * k) * m /\ v + m = (2 * k + 1) * m /\ 2 * k \in Nat /\ 2 * k + 1 \in Nat
    BY <2>4, <2>5a
  <2>6. within(try(v, m), m)
    <3>1. CASE (v + m) * (v + m) <= a
      <4>1. try(v, m) = v + m /\ (v + m) + m = v + 2 * m /\ v + m \in Nat
        BY <2>4, <2>5, <3>1 DEF try
      <4>2. QED
        BY <2>5, <2>5b, <3>1, <4>1
    <3>2. CASE ~ ((v + m) * (v + m) <= a)
      <4>1. try(v, m) = v
        BY <3>2 DEF try
      <4>2. (v + m) * (v + m) \in Nat
        BY <2>4, <2>5
      <4>3. QED
        BY <2>5, <2>5b, <3>2, <4>1, <4>2
    <3>3. QED
      BY <3>1, <3>2
  <2>7. QED
    BY <2>2, <2>4, <2>6
<1> HIDE DEF T
<1>12. Nat \subseteq T
  BY <1>10, <1>11, SetInduction
<1>13. within(p[N], 1) /\ within(p[N - 1], 2)
  <2>1. N \in T /\ N - 1 \in T /\ N - N = 0 /\ N - (N - 1) = 1
    BY <1>1, <1>12
  <2>2. Pow2[0] = 1 /\ Pow2[1] = 2
    BY Pow2Is, 0 + 1 = 1
  <2>3. QED
    BY <1>1, <2>1, <2>2 DEF T
<1>14. PICK r, e : r = p[N] /\ e = p[N - 1]
  OBVIOUS
<1>15. r \in Nat /\ r * r <= a /\ a < (r + 1) * (r + 1) /\ r <= r * r
  BY <1>13, <1>14
<1>16. e \in Nat /\ e * e <= a /\ a < (e + 2) * (e + 2) /\ e % 2 = 0
  <2>1. PICK k \in Nat : e = k * 2
    BY <1>13, <1>14
  <2>2. e % 2 = 0
    BY <2>1
  <2>3. QED
    BY <1>13, <1>14, <2>2
<1>17. r \in Nat /\ IsRoot(r, a) /\ r <= a /\ e \in Nat /\ IsEvenRoot(e, a)
  <2>1. PICK s, t : s = (r + 1) * (r + 1) /\ t = (e + 2) * (e + 2)
    OBVIOUS
  <2>2. PICK u, v : u = r * r /\ v = e * e
    OBVIOUS
  <2>3. u \in Nat /\ r <= u /\ u <= a
    BY <1>15, <2>2
  <2>4. IsRoot(r, a)
    BY <1>15, <2>1, <2>2 DEF IsRoot
  <2>5. IsEvenRoot(e, a)
    BY <1>16, <2>1, <2>2 DEF IsEvenRoot
  <2>6. QED
    BY <1>15, <1>16, <2>3, <2>4, <2>5
<1>18. Root(a, RootBits(a)) = r /\ Root(a, RootBits(a) - 1) = e
  BY <1>8, <1>14 DEF N
<1>19. QED
  BY <1>17, <1>18

\* The root of a fixnum is exact, that of a bignum the largest even one.
LEMMA SqrtIs ==
  ASSUME NEW x \in Values
  PROVE  /\ isqrt(x) \in Values
         /\ Canonical(x) => Canonical(isqrt(x))
         /\ Whole(x) /\ x.kind = "fix" => IF x.n < 0 THEN isqrt(x) = Error ELSE integerp(isqrt(x)) /\ IsRoot(isqrt(x).n, x.n)
         /\ Whole(x) /\ x.kind = "big" => integerp(isqrt(x)) /\ IsEvenRoot(isqrt(x).n, Abs(x.n))
<1>1. x.n \in Int
  BY DEF Values
<1>2. CASE x.kind \notin {"fix", "big"} \/ (x.kind = "fix" /\ x.n < 0)
  <2>1. isqrt(x) = Error
    BY <1>1, <1>2 DEF isqrt
  <2>2. QED
    BY <1>2, <2>1, ConstantsAre
<1>3. CASE x.kind = "fix" /\ x.n >= 0
  <2>1. PICK r : r = isqrt_fixnum(x.n)
    OBVIOUS
  <2>2. isqrt(x) = Fix(r)
    BY <1>1, <1>3, <2>1 DEF isqrt
  <2>3. r \in Nat /\ r <= x.n /\ IsRoot(r, x.n)
    BY <1>1, <1>3, <2>1, RootIs DEF isqrt_fixnum
  <2>4. Canonical(x) => r \in NUM_MIN .. NUM_MAX
    BY <1>1, <1>3, <2>3, Sizes DEF Canonical
  <2>5. Fix(r) \in Values /\ Fix(r).n = r /\ integerp(Fix(r)) /\ (r \in NUM_MIN .. NUM_MAX => Canonical(Fix(r)))
    BY <2>3, ConstantsAre DEF integerp
  <2>6. QED
    BY <1>1, <1>3, <2>2, <2>3, <2>4, <2>5
<1>4. CASE x.kind = "big"
  <2>1. PICK a, r : a = Abs(x.n) /\ r = mp_sqrt(x.n)
    OBVIOUS
  <2>2. isqrt(x) = normalize(r)
    BY <1>4, <2>1 DEF isqrt
  <2>3. a \in Nat
    BY <1>1, <2>1 DEF Abs
  <2>4. r \in Nat /\ IsEvenRoot(r, a)
    BY <2>1, <2>3, RootIs DEF mp_sqrt
  <2>5. QED
    BY <1>4, <2>1, <2>2, <2>4, NumIs DEF Whole
<1>5. QED
  BY <1>1, <1>2, <1>3, <1>4

\* The greatest common divisor: 1 divides both, and none is greater than both.
LEMMA GcdIs ==
  ASSUME NEW x \in Values, NEW y \in Values
  PROVE  /\ gcd(x, y) \in Values
         /\ Whole(x) /\ Whole(y) => IF x.n = 0 THEN gcd(x, y) = Fix(0) ELSE IsGcd(gcd(x, y).n, x.n, y.n)
<1>1. x.n \in Int /\ y.n \in Int
  BY DEF Values
<1>2. ASSUME NEW a \in Int, NEW b \in Int, a # 0 \/ b # 0
      PROVE  \E d \in Int : mp_gcd(a, b) = Big(d) /\ IsGcd(d, a, b)
  <2> DEFINE N == Abs(a) + Abs(b)
             divides(d) == (a % d = 0) /\ (b % d = 0)
             at(d) == divides(d) /\ \A e \in d + 1 .. N : ~divides(e)
             T == {i \in Nat : i < N /\ divides(N - i)}
  <2>1. N \in Nat /\ N > 0
    BY <1>2 DEF Abs
  <2>2. divides(1)
    OBVIOUS
  <2> HIDE DEF N, divides
  <2>3. N - 1 \in T
    <3>1. N - 1 \in Nat /\ N - 1 < N /\ N - (N - 1) = 1
      BY <2>1
    <3>2. QED
      BY <2>2, <3>1
  <2>4. PICK i \in T : \A j \in T : i <= j
    BY <2>3, LeastNumber
  <2>5. N - i \in 1 .. N /\ at(N - i)
    <3>1. N - i \in 1 .. N /\ divides(N - i)
      BY <2>1, <2>4
    <3>2. ASSUME NEW e \in (N - i) + 1 .. N, divides(e) PROVE FALSE
      <4>1. N - e \in Nat /\ N - e < N /\ N - (N - e) = e /\ N - e < i
        BY <2>1, <2>4, <3>2
      <4>2. N - e \in T
        BY <3>2, <4>1
      <4>3. QED
        BY <2>4, <4>1, <4>2
    <3>3. QED
      BY <3>1, <3>2
  <2> HIDE DEF at
  <2>6. PICK d \in 1 .. N : at(d) /\ d = CHOOSE e \in 1 .. N : at(e)
    BY <2>5
  <2>7. mp_gcd(a, b) = Big(d)
    BY <1>2, <2>6 DEF mp_gcd, at, N, divides
  <2>8. IsGcd(d, a, b)
    <3>1. d > 0 /\ divides(d) /\ \A e \in d + 1 .. N : ~divides(e)
      BY <2>1, <2>6 DEF at
    <3>2. ASSUME NEW e \in 1 .. N, divides(e) PROVE e <= d
      BY <2>1, <3>1, <3>2
    <3>3. QED
      BY <3>1, <3>2 DEF IsGcd, divides, N
  <2>9. QED
    BY <2>1, <2>7, <2>8
<1>3. mp_gcd(0, 0) = Error
  BY DEF mp_gcd
<1>4. mp_gcd(x.n, y.n) \in Values
  <2>1. CASE x.n = 0 /\ y.n = 0
    BY <1>3, <2>1, ConstantsAre
  <2>2. CASE x.n # 0 \/ y.n # 0
    <3>1. PICK d \in Int : mp_gcd(x.n, y.n) = Big(d)
      BY <1>1, <1>2, <2>2
    <3>2. QED
      BY <3>1, ConstantsAre
  <2>3. QED
    BY <2>1, <2>2
<1>5. gcd(x, y) \in {Error, Fix(0), mp_gcd(x.n, y.n)}
  BY DEF gcd
<1>6. ASSUME Whole(x), Whole(y) PROVE IF x.n = 0 THEN gcd(x, y) = Fix(0) ELSE IsGcd(gcd(x, y).n, x.n, y.n)
  <2>1. AsIntegers(x, y) /\ (x = Fix(0) <=> x.n = 0)
    <3>1. x = Of(x.kind, x.n) /\ (x.n = 0 => x.kind = "fix")
      BY <1>6, WholeIs, Sizes
    <3>2. QED
      BY <1>6, <3>1 DEF Whole, AsIntegers, Fix, Of
  <2>2. CASE x.n = 0
    BY <2>1, <2>2 DEF gcd
  <2>3. CASE x.n # 0
    <3>1. gcd(x, y) = mp_gcd(x.n, y.n)
      BY <2>1, <2>3 DEF gcd
    <3>2. PICK d \in Int : mp_gcd(x.n, y.n) = Big(d) /\ IsGcd(d, x.n, y.n)
      BY <1>1, <1>2, <2>3
    <3>3. QED
      BY <2>3, <3>1, <3>2, ConstantsAre
  <2>4. QED
    BY <2>2, <2>3
<1>7. QED
  BY <1>4, <1>5, <1>6, ConstantsAre, Sizes

LEMMA FloatsAre ==
  ASSUME NEW x \in Values
  PROVE  Sound(int_flo(x)) /\ Sound(flo_int(x))
<1>1. x.n \in Int
  BY DEF Values
<1>2. QED
  BY <1>1, NumIs, ConstantsAre DEF int_flo, flo_int, Sound, Whole

-----------------------------------------------------------------------------
\* The functions of any number of arguments. What a fold has after i of them:
Sums(t, l) == t[0] = 0 /\ \A i \in 1 .. Len(l) : t[i] = t[i - 1] + l[i].n
Products(t, l) == t[0] = 1 /\ \A i \in 1 .. Len(l) : t[i] = t[i - 1] * l[i].n
PlusFold(r, l) == r[1] = l[1] /\ \A i \in 2 .. Len(l) : r[i] = plus(r[i - 1], l[i])
MinusFold(r, l) == r[1] = l[1] /\ \A i \in 2 .. Len(l) : r[i] = minus(r[i - 1], l[i])
MulFold(r, l) == r[1] = l[1] /\ \A i \in 2 .. Len(l) : r[i] = mul(r[i - 1], l[i])
MaxFold(r, l) == r[1] = l[1] /\ \A i \in 2 .. Len(l) : r[i] = max2(r[i - 1], l[i])
MinFold(r, l) == r[1] = l[1] /\ \A i \in 2 .. Len(l) : r[i] = min2(r[i - 1], l[i])

\* A recursion over 1 .. N has a solution.
Folds(g, x, F, N, S) == g \in [1 .. N -> S] /\ g[1] = x /\ \A i \in 2 .. N : g[i] = F[<<i, g[i - 1]>>]

LEMMA Fold ==
  ASSUME NEW S, NEW x \in S, NEW N \in Nat \ {0}, NEW F \in Steps(N, S)
  PROVE  \E g : Folds(g, x, F, N, S)
<1> DEFINE G == [v \in (1 .. N) \X S |-> IF v[1] = 1 THEN x ELSE F[v]]
<1>1. G \in Steps(N, S) /\ \A i \in 1 .. N, v \in S : G[<<i, v>>] = IF i = 1 THEN x ELSE F[<<i, v>>]
  BY DEF Steps
<1> HIDE DEF G
<1>2. PICK h : Solves(h, x, G, N, S)
  BY <1>1, Recursion
<1>3. h \in [0 .. N -> S] /\ \A i \in 1 .. N : h[i] = G[<<i, h[i - 1]>>] /\ h[i - 1] \in S /\ h[i] \in S
  BY <1>2 DEF Solves
<1>4. \A i \in 1 .. N : h[i] = IF i = 1 THEN x ELSE F[<<i, h[i - 1]>>]
  BY <1>1, <1>3
<1> DEFINE g == [i \in 1 .. N |-> h[i]]
<1>5. g \in [1 .. N -> S] /\ g[1] = x /\ \A i \in 2 .. N : g[i] = F[<<i, g[i - 1]>>]
  <2>1. g \in [1 .. N -> S]
    BY <1>3
  <2>2. g[1] = x
    <3>1. 1 \in 1 .. N
      OBVIOUS
    <3>2. h[1] = x
      BY <1>4, <3>1
    <3>3. QED
      BY <3>1, <3>2
  <2>3. ASSUME NEW i \in 2 .. N PROVE g[i] = F[<<i, g[i - 1]>>]
    <3>1. i \in 1 .. N /\ i - 1 \in 1 .. N /\ i # 1
      OBVIOUS
    <3>2. g[i] = h[i] /\ g[i - 1] = h[i - 1] /\ h[i] = F[<<i, h[i - 1]>>]
      BY <1>4, <3>1
    <3>3. QED
      BY <3>2
  <2>4. QED
    BY <2>1, <2>2, <2>3
<1>6. QED
  BY <1>5 DEF Folds

LEMMA EmptyIs ==
  ASSUME NEW S, NEW l \in Seq(S), l # <<>>
  PROVE  Len(l) \in Nat \ {0} /\ \A i \in 1 .. Len(l) : l[i] \in S
OBVIOUS

LEMMA PlusFoldIs ==
  ASSUME NEW l \in Seq(Values), l # <<>>
  PROVE  \E r : Folded(plus, l) = r[Len(l)] /\ PlusFold(r, l)
<1> DEFINE N == Len(l)
           F == [v \in (1 .. N) \X Values |-> plus(v[2], l[v[1]])]
           Is(g) == g = [i \in 1 .. N |-> IF i = 1 THEN l[1] ELSE plus(g[i - 1], l[i])]
<1>1. N \in Nat \ {0} /\ \A i \in 1 .. N : l[i] \in Values
  BY EmptyIs
<1> HIDE DEF N
<1>2. \A x, y \in Values : plus(x, y) \in Values
  BY PlusIs DEF Sound
<1>3. F \in Steps(N, Values) /\ \A i \in 1 .. N, v \in Values : F[<<i, v>>] = plus(v, l[i])
  BY <1>1, <1>2 DEF Steps
<1> HIDE DEF F
<1>4. PICK g : Folds(g, l[1], F, N, Values)
  <2>1. 1 \in 1 .. N /\ l[1] \in Values /\ F \in Steps(N, Values)
    BY <1>1, <1>3
  <2>2. QED
    BY <1>1, <2>1, Fold, Zenon
<1>5. Is(g)
  <2>1. ASSUME NEW i \in 2 .. N PROVE g[i] = plus(g[i - 1], l[i])
    <3>1. g[i - 1] \in Values /\ g[i] = F[<<i, g[i - 1]>>] /\ i \in 1 .. N
      <4>1. i - 1 \in 1 .. N /\ i \in 1 .. N
        BY <1>1
      <4>2. QED
        BY <1>4, <4>1 DEF Folds
    <3>2. QED
      BY <1>3, <3>1
  <2>2. QED
    BY <1>1, <1>4, <2>1 DEF Folds
<1>6. Is(CHOOSE h : Is(h))
  <2> HIDE DEF Is
  <2>1. QED
    BY <1>5, Zenon
<1>7. PICK r : Is(r) /\ Folded(plus, l) = r[N]
  BY <1>6, Zenon DEF Folded, N
<1>8. r[1] = l[1] /\ \A i \in 2 .. N : r[i] = plus(r[i - 1], l[i])
  BY <1>1, <1>7
<1>9. QED
  BY <1>7, <1>8 DEF N, PlusFold

LEMMA MinusFoldIs ==
  ASSUME double \in BOOLEAN, NEW l \in Seq(Values), l # <<>>
  PROVE  \E r : Folded(minus, l) = r[Len(l)] /\ MinusFold(r, l)
<1> DEFINE N == Len(l)
           F == [v \in (1 .. N) \X Values |-> minus(v[2], l[v[1]])]
           Is(g) == g = [i \in 1 .. N |-> IF i = 1 THEN l[1] ELSE minus(g[i - 1], l[i])]
<1>1. N \in Nat \ {0} /\ \A i \in 1 .. N : l[i] \in Values
  BY EmptyIs
<1> HIDE DEF N
<1>2. \A x, y \in Values : minus(x, y) \in Values
  BY MinusIs DEF Sound
<1>3. F \in Steps(N, Values) /\ \A i \in 1 .. N, v \in Values : F[<<i, v>>] = minus(v, l[i])
  BY <1>1, <1>2 DEF Steps
<1> HIDE DEF F
<1>4. PICK g : Folds(g, l[1], F, N, Values)
  <2>1. 1 \in 1 .. N /\ l[1] \in Values /\ F \in Steps(N, Values)
    BY <1>1, <1>3
  <2>2. QED
    BY <1>1, <2>1, Fold, Zenon
<1>5. Is(g)
  <2>1. ASSUME NEW i \in 2 .. N PROVE g[i] = minus(g[i - 1], l[i])
    <3>1. g[i - 1] \in Values /\ g[i] = F[<<i, g[i - 1]>>] /\ i \in 1 .. N
      <4>1. i - 1 \in 1 .. N /\ i \in 1 .. N
        BY <1>1
      <4>2. QED
        BY <1>4, <4>1 DEF Folds
    <3>2. QED
      BY <1>3, <3>1
  <2>2. QED
    BY <1>1, <1>4, <2>1 DEF Folds
<1>6. Is(CHOOSE h : Is(h))
  <2> HIDE DEF Is
  <2>1. QED
    BY <1>5, Zenon
<1>7. PICK r : Is(r) /\ Folded(minus, l) = r[N]
  BY <1>6, Zenon DEF Folded, N
<1>8. r[1] = l[1] /\ \A i \in 2 .. N : r[i] = minus(r[i - 1], l[i])
  BY <1>1, <1>7
<1>9. QED
  BY <1>7, <1>8 DEF N, MinusFold

LEMMA MulFoldIs ==
  ASSUME double \in BOOLEAN, NEW l \in Seq(Values), l # <<>>
  PROVE  \E r : Folded(mul, l) = r[Len(l)] /\ MulFold(r, l)
<1> DEFINE N == Len(l)
           F == [v \in (1 .. N) \X Values |-> mul(v[2], l[v[1]])]
           Is(g) == g = [i \in 1 .. N |-> IF i = 1 THEN l[1] ELSE mul(g[i - 1], l[i])]
<1>1. N \in Nat \ {0} /\ \A i \in 1 .. N : l[i] \in Values
  BY EmptyIs
<1> HIDE DEF N
<1>2. \A x, y \in Values : mul(x, y) \in Values
  BY MulIs
<1>3. F \in Steps(N, Values) /\ \A i \in 1 .. N, v \in Values : F[<<i, v>>] = mul(v, l[i])
  BY <1>1, <1>2 DEF Steps
<1> HIDE DEF F
<1>4. PICK g : Folds(g, l[1], F, N, Values)
  <2>1. 1 \in 1 .. N /\ l[1] \in Values /\ F \in Steps(N, Values)
    BY <1>1, <1>3
  <2>2. QED
    BY <1>1, <2>1, Fold, Zenon
<1>5. Is(g)
  <2>1. ASSUME NEW i \in 2 .. N PROVE g[i] = mul(g[i - 1], l[i])
    <3>1. g[i - 1] \in Values /\ g[i] = F[<<i, g[i - 1]>>] /\ i \in 1 .. N
      <4>1. i - 1 \in 1 .. N /\ i \in 1 .. N
        BY <1>1
      <4>2. QED
        BY <1>4, <4>1 DEF Folds
    <3>2. QED
      BY <1>3, <3>1
  <2>2. QED
    BY <1>1, <1>4, <2>1 DEF Folds
<1>6. Is(CHOOSE h : Is(h))
  <2> HIDE DEF Is
  <2>1. QED
    BY <1>5, Zenon
<1>7. PICK r : Is(r) /\ Folded(mul, l) = r[N]
  BY <1>6, Zenon DEF Folded, N
<1>8. r[1] = l[1] /\ \A i \in 2 .. N : r[i] = mul(r[i - 1], l[i])
  BY <1>1, <1>7
<1>9. QED
  BY <1>7, <1>8 DEF N, MulFold

LEMMA MaxFoldIs ==
  ASSUME NEW l \in Seq(Values), l # <<>>
  PROVE  \E r : Folded(max2, l) = r[Len(l)] /\ MaxFold(r, l)
<1> DEFINE N == Len(l)
           F == [v \in (1 .. N) \X Values |-> max2(v[2], l[v[1]])]
           Is(g) == g = [i \in 1 .. N |-> IF i = 1 THEN l[1] ELSE max2(g[i - 1], l[i])]
<1>1. N \in Nat \ {0} /\ \A i \in 1 .. N : l[i] \in Values
  BY EmptyIs
<1> HIDE DEF N
<1>2. \A x, y \in Values : max2(x, y) \in Values
  BY DEF max2
<1>3. F \in Steps(N, Values) /\ \A i \in 1 .. N, v \in Values : F[<<i, v>>] = max2(v, l[i])
  BY <1>1, <1>2 DEF Steps
<1> HIDE DEF F
<1>4. PICK g : Folds(g, l[1], F, N, Values)
  <2>1. 1 \in 1 .. N /\ l[1] \in Values /\ F \in Steps(N, Values)
    BY <1>1, <1>3
  <2>2. QED
    BY <1>1, <2>1, Fold, Zenon
<1>5. Is(g)
  <2>1. ASSUME NEW i \in 2 .. N PROVE g[i] = max2(g[i - 1], l[i])
    <3>1. g[i - 1] \in Values /\ g[i] = F[<<i, g[i - 1]>>] /\ i \in 1 .. N
      <4>1. i - 1 \in 1 .. N /\ i \in 1 .. N
        BY <1>1
      <4>2. QED
        BY <1>4, <4>1 DEF Folds
    <3>2. QED
      BY <1>3, <3>1
  <2>2. QED
    BY <1>1, <1>4, <2>1 DEF Folds
<1>6. Is(CHOOSE h : Is(h))
  <2> HIDE DEF Is
  <2>1. QED
    BY <1>5, Zenon
<1>7. PICK r : Is(r) /\ Folded(max2, l) = r[N]
  BY <1>6, Zenon DEF Folded, N
<1>8. r[1] = l[1] /\ \A i \in 2 .. N : r[i] = max2(r[i - 1], l[i])
  BY <1>1, <1>7
<1>9. QED
  BY <1>7, <1>8 DEF N, MaxFold

LEMMA MinFoldIs ==
  ASSUME NEW l \in Seq(Values), l # <<>>
  PROVE  \E r : Folded(min2, l) = r[Len(l)] /\ MinFold(r, l)
<1> DEFINE N == Len(l)
           F == [v \in (1 .. N) \X Values |-> min2(v[2], l[v[1]])]
           Is(g) == g = [i \in 1 .. N |-> IF i = 1 THEN l[1] ELSE min2(g[i - 1], l[i])]
<1>1. N \in Nat \ {0} /\ \A i \in 1 .. N : l[i] \in Values
  BY EmptyIs
<1> HIDE DEF N
<1>2. \A x, y \in Values : min2(x, y) \in Values
  BY DEF min2
<1>3. F \in Steps(N, Values) /\ \A i \in 1 .. N, v \in Values : F[<<i, v>>] = min2(v, l[i])
  BY <1>1, <1>2 DEF Steps
<1> HIDE DEF F
<1>4. PICK g : Folds(g, l[1], F, N, Values)
  <2>1. 1 \in 1 .. N /\ l[1] \in Values /\ F \in Steps(N, Values)
    BY <1>1, <1>3
  <2>2. QED
    BY <1>1, <2>1, Fold, Zenon
<1>5. Is(g)
  <2>1. ASSUME NEW i \in 2 .. N PROVE g[i] = min2(g[i - 1], l[i])
    <3>1. g[i - 1] \in Values /\ g[i] = F[<<i, g[i - 1]>>] /\ i \in 1 .. N
      <4>1. i - 1 \in 1 .. N /\ i \in 1 .. N
        BY <1>1
      <4>2. QED
        BY <1>4, <4>1 DEF Folds
    <3>2. QED
      BY <1>3, <3>1
  <2>2. QED
    BY <1>1, <1>4, <2>1 DEF Folds
<1>6. Is(CHOOSE h : Is(h))
  <2> HIDE DEF Is
  <2>1. QED
    BY <1>5, Zenon
<1>7. PICK r : Is(r) /\ Folded(min2, l) = r[N]
  BY <1>6, Zenon DEF Folded, N
<1>8. r[1] = l[1] /\ \A i \in 2 .. N : r[i] = min2(r[i - 1], l[i])
  BY <1>1, <1>7
<1>9. QED
  BY <1>7, <1>8 DEF N, MinFold

LEMMA TotalIs ==
  ASSUME NEW l \in Seq(Values)
  PROVE  \E t : Total(l) = t[Len(l)] /\ Sums(t, l)
<1> DEFINE N == Len(l)
           F == [v \in (1 .. N) \X Int |-> v[2] + l[v[1]].n]
           Is(g) == g = [i \in 0 .. N |-> IF i = 0 THEN 0 ELSE g[i - 1] + l[i].n]
<1>1. N \in Nat /\ \A i \in 1 .. N : l[i].n \in Int
  <2>1. Len(l) \in Nat /\ \A i \in 1 .. Len(l) : l[i] \in Values
    OBVIOUS
  <2>2. \A v \in Values : v.n \in Int
    BY DEF Values
  <2>3. QED
    BY <2>1, <2>2
<1> HIDE DEF N
<1>2. F \in Steps(N, Int) /\ \A i \in 1 .. N, v \in Int : F[<<i, v>>] = v + l[i].n
  BY <1>1 DEF Steps
<1> HIDE DEF F
<1>3. PICK g : Solves(g, 0, F, N, Int)
  <2>1. 0 \in Int
    OBVIOUS
  <2>2. QED
    BY <1>1, <1>2, <2>1, Recursion, Zenon
<1>4. Is(g)
  <2>1. g \in [0 .. N -> Int] /\ g[0] = 0
    BY <1>3 DEF Solves
  <2>2. ASSUME NEW i \in 1 .. N PROVE g[i] = g[i - 1] + l[i].n
    <3>1. g[i - 1] \in Int /\ g[i] = F[<<i, g[i - 1]>>]
      <4>1. i - 1 \in 0 .. N
        BY <1>1
      <4>2. QED
        BY <1>3, <2>1, <4>1 DEF Solves
    <3>2. QED
      BY <1>2, <3>1
  <2>3. QED
    BY <1>1, <2>1, <2>2
<1>5. Is(CHOOSE h : Is(h))
  <2> HIDE DEF Is
  <2>1. QED
    BY <1>4, Zenon
<1>6. PICK t : Is(t) /\ Total(l) = t[N]
  BY <1>5, Zenon DEF Total, N
<1>7. t[0] = 0 /\ \A i \in 1 .. N : t[i] = t[i - 1] + l[i].n
  <2>1. t[0] = 0
    BY <1>1, <1>6
  <2>2. ASSUME NEW i \in 1 .. N PROVE t[i] = t[i - 1] + l[i].n
    <3>1. i \in 0 .. N /\ i # 0
      BY <1>1
    <3>2. t[i] = IF i = 0 THEN 0 ELSE t[i - 1] + l[i].n
      BY <1>6, <3>1
    <3>3. QED
      BY <3>1, <3>2
  <2>3. QED
    BY <2>1, <2>2
<1>8. QED
  BY <1>6, <1>7 DEF N, Sums

LEMMA TimesIs ==
  ASSUME NEW l \in Seq(Values)
  PROVE  \E t : Times(l) = t[Len(l)] /\ Products(t, l)
<1> DEFINE N == Len(l)
           F == [v \in (1 .. N) \X Int |-> v[2] * l[v[1]].n]
           Is(g) == g = [i \in 0 .. N |-> IF i = 0 THEN 1 ELSE g[i - 1] * l[i].n]
<1>1. N \in Nat /\ \A i \in 1 .. N : l[i].n \in Int
  <2>1. Len(l) \in Nat /\ \A i \in 1 .. Len(l) : l[i] \in Values
    OBVIOUS
  <2>2. \A v \in Values : v.n \in Int
    BY DEF Values
  <2>3. QED
    BY <2>1, <2>2
<1> HIDE DEF N
<1>2. F \in Steps(N, Int) /\ \A i \in 1 .. N, v \in Int : F[<<i, v>>] = v * l[i].n
  BY <1>1 DEF Steps
<1> HIDE DEF F
<1>3. PICK g : Solves(g, 1, F, N, Int)
  <2>1. 1 \in Int
    OBVIOUS
  <2>2. QED
    BY <1>1, <1>2, <2>1, Recursion, Zenon
<1>4. Is(g)
  <2>1. g \in [0 .. N -> Int] /\ g[0] = 1
    BY <1>3 DEF Solves
  <2>2. ASSUME NEW i \in 1 .. N PROVE g[i] = g[i - 1] * l[i].n
    <3>1. g[i - 1] \in Int /\ g[i] = F[<<i, g[i - 1]>>]
      <4>1. i - 1 \in 0 .. N
        BY <1>1
      <4>2. QED
        BY <1>3, <2>1, <4>1 DEF Solves
    <3>2. QED
      BY <1>2, <3>1
  <2>3. QED
    BY <1>1, <2>1, <2>2
<1>5. Is(CHOOSE h : Is(h))
  <2> HIDE DEF Is
  <2>1. QED
    BY <1>4, Zenon
<1>6. PICK t : Is(t) /\ Times(l) = t[N]
  BY <1>5, Zenon DEF Times, N
<1>7. t[0] = 1 /\ \A i \in 1 .. N : t[i] = t[i - 1] * l[i].n
  <2>1. t[0] = 1
    BY <1>1, <1>6
  <2>2. ASSUME NEW i \in 1 .. N PROVE t[i] = t[i - 1] * l[i].n
    <3>1. i \in 0 .. N /\ i # 0
      BY <1>1
    <3>2. t[i] = IF i = 0 THEN 1 ELSE t[i - 1] * l[i].n
      BY <1>6, <3>1
    <3>3. QED
      BY <3>1, <3>2
  <2>3. QED
    BY <2>1, <2>2
<1>8. QED
  BY <1>6, <1>7 DEF N, Products

\* Their results, for a list of values that are all in their representation,
\* and all integers.
AllCanonical(l) == \A i \in 1 .. Len(l) : Canonical(l[i])
AllWhole(l) == \A i \in 1 .. Len(l) : Whole(l[i])
NoneBig(l) == \A i \in 1 .. Len(l) : l[i].kind # "big"

LEMMA ElementsAre ==
  ASSUME NEW l \in Seq(Values), l # <<>>
  PROVE  Len(l) \in Nat \ {0} /\ \A i \in 1 .. Len(l) : l[i] \in Values /\ l[i].n \in Int
<1>1. \A v \in Values : v.n \in Int
  BY DEF Values
<1>2. Len(l) \in Nat \ {0} /\ \A i \in 1 .. Len(l) : l[i] \in Values
  BY EmptyIs
<1>3. QED
  BY <1>1, <1>2

LEMMA PlusvIs ==
  ASSUME NEW l \in Seq(Values), l # <<>>
  PROVE  /\ plusv(l) \in Values
         /\ AllCanonical(l) => Canonical(plusv(l))
         /\ AllWhole(l) => plusv(l).n = Total(l)
<1>1. PICK r, t : Folded(plus, l) = r[Len(l)] /\ PlusFold(r, l) /\ Total(l) = t[Len(l)] /\ Sums(t, l)
  BY PlusFoldIs, TotalIs
<1>2. Len(l) \in Nat \ {0} /\ \A i \in 1 .. Len(l) : l[i] \in Values /\ l[i].n \in Int
  BY ElementsAre
<1> DEFINE N == Len(l)
           good(i) == r[i] \in Values /\ (AllCanonical(l) => Canonical(r[i])) /\ (AllWhole(l) => IsWhole(r[i], t[i]))
           T == {i \in Nat : i \in 1 .. N => good(i)}
<1>3. 0 \in T
  OBVIOUS
<1>4. ASSUME NEW i \in Nat, i \in T PROVE i + 1 \in T
  <2>1. SUFFICES ASSUME i + 1 \in 1 .. N PROVE good(i + 1)
    OBVIOUS
  <2>2. CASE i = 0
    <3>1. r[1] = l[1] /\ t[1] = t[0] + l[1].n /\ t[0] = 0 /\ 1 \in 1 .. N
      BY <1>1, <1>2 DEF PlusFold, Sums
    <3>2. l[1] \in Values /\ l[1].n \in Int /\ t[1] = l[1].n
      BY <1>2, <3>1
    <3>3. QED
      BY <2>2, <3>1, <3>2 DEF AllCanonical, AllWhole, IsWhole
  <2>3. CASE i > 0
    <3>1. i \in 1 .. N /\ i + 1 \in 2 .. N /\ (i + 1) - 1 = i
      BY <1>2, <2>1, <2>3
    <3>2. r[i + 1] = plus(r[i], l[i + 1]) /\ t[i + 1] = t[i] + l[i + 1].n
      BY <1>1, <2>1, <3>1 DEF PlusFold, Sums
    <3>3. good(i)
      BY <1>4, <3>1
    <3>4. PICK x, y : x = r[i] /\ y = l[i + 1]
      OBVIOUS
    <3>5. x \in Values /\ y \in Values
      BY <1>2, <2>1, <3>3, <3>4
    <3>6. Sound(plus(x, y)) /\ (AsIntegers(x, y) => IsWhole(plus(x, y), x.n + y.n))
      BY <3>5, PlusIs
    <3>7. AllWhole(l) => Whole(x) /\ x.n = t[i] /\ Whole(y)
      BY <2>1, <3>3, <3>4 DEF AllWhole, IsWhole
    <3>8. AllWhole(l) => AsIntegers(x, y)
      BY <3>7 DEF AsIntegers, Whole
    <3>9. QED
      BY <3>2, <3>4, <3>6, <3>7, <3>8 DEF Sound
  <2>4. QED
    BY <2>2, <2>3
<1> HIDE DEF T, good
<1>5. Nat \subseteq T
  BY <1>3, <1>4, SetInduction
<1>6. good(N)
  BY <1>2, <1>5 DEF T
<1>7. plusv(l) = r[N]
  BY <1>1 DEF plusv
<1>8. QED
  BY <1>1, <1>6, <1>7 DEF good, IsWhole

\* A difference of fixnums from a bignum is exact; one of a bignum from a
\* fixnum may not be.
LEMMA MinusvIs ==
  ASSUME double \in BOOLEAN, NEW l \in Seq(Values), l # <<>>
  PROVE  /\ minusv(l) \in Values
         /\ AllCanonical(l) => Canonical(minusv(l))
         /\ AllWhole(l) /\ (Len(l) > 1 => NoneBig(l)) =>
              minusv(l).n = IF Len(l) = 1 THEN -l[1].n ELSE 2 * l[1].n - Total(l)
<1>1. PICK r, t : Folded(minus, l) = r[Len(l)] /\ MinusFold(r, l) /\ Total(l) = t[Len(l)] /\ Sums(t, l)
  BY MinusFoldIs, TotalIs
<1>2. Len(l) \in Nat \ {0} /\ \A i \in 1 .. Len(l) : l[i] \in Values /\ l[i].n \in Int
  BY ElementsAre
<1> DEFINE N == Len(l)
           d == 2 * l[1].n
           good(i) == /\ r[i] \in Values /\ t[i] \in Int /\ (AllCanonical(l) => Canonical(r[i]))
                      /\ AllWhole(l) /\ NoneBig(l) => IsWhole(r[i], d - t[i])
           T == {i \in Nat : i \in 1 .. N => good(i)}
<1>3. 0 \in T
  OBVIOUS
<1>4. ASSUME NEW i \in Nat, i \in T PROVE i + 1 \in T
  <2>1. SUFFICES ASSUME i + 1 \in 1 .. N PROVE good(i + 1)
    OBVIOUS
  <2>2. CASE i = 0
    <3>1. r[1] = l[1] /\ t[1] = t[0] + l[1].n /\ t[0] = 0 /\ 1 \in 1 .. N
      BY <1>1, <1>2 DEF MinusFold, Sums
    <3>2. l[1] \in Values /\ l[1].n \in Int /\ t[1] = l[1].n /\ d - t[1] = l[1].n
      BY <1>2, <3>1
    <3>3. r[1] \in Values /\ t[1] \in Int
      BY <3>1, <3>2
    <3>4. ASSUME AllCanonical(l) PROVE Canonical(r[1])
      BY <3>1, <3>4 DEF AllCanonical
    <3>5. ASSUME AllWhole(l) PROVE IsWhole(r[1], d - t[1])
      BY <3>1, <3>2, <3>5 DEF AllWhole, IsWhole
    <3>6. good(1)
      BY <3>3, <3>4, <3>5
    <3>7. QED
      BY <2>2, <3>6
  <2>3. CASE i > 0
    <3>1. i \in 1 .. N /\ i + 1 \in 2 .. N /\ (i + 1) - 1 = i
      BY <1>2, <2>1, <2>3
    <3>2. r[i + 1] = minus(r[i], l[i + 1]) /\ t[i + 1] = t[i] + l[i + 1].n
      BY <1>1, <2>1, <3>1 DEF MinusFold, Sums
    <3>3. good(i)
      BY <1>4, <3>1
    <3>4. PICK x, y : x = r[i] /\ y = l[i + 1]
      OBVIOUS
    <3>5. x \in Values /\ y \in Values /\ y.n \in Int /\ x.n \in Int
      BY <1>2, <2>1, <3>3, <3>4 DEF Values
    <3>6. /\ Sound(minus(x, y))
          /\ AsIntegers(x, y) /\ y.kind # "big" => IsWhole(minus(x, y), x.n - y.n)
      BY <3>5, MinusIs
    <3>7. AllWhole(l) /\ NoneBig(l) => Whole(x) /\ x.n = d - t[i] /\ Whole(y) /\ y.kind # "big"
      BY <2>1, <3>3, <3>4 DEF AllWhole, NoneBig, IsWhole
    <3>8. AllWhole(l) /\ NoneBig(l) => AsIntegers(x, y) /\ x.n - y.n = d - (t[i] + y.n)
      <4>1. t[i] \in Int /\ d \in Int
        BY <1>2, <3>3
      <4>2. QED
        BY <3>5, <3>7, <4>1, SMTT(30) DEF AsIntegers, Whole
    <3>9. t[i] + y.n \in Int
      BY <3>3, <3>5
    <3>10. QED
      BY <3>2, <3>4, <3>6, <3>7, <3>8, <3>9 DEF Sound
  <2>4. QED
    BY <2>2, <2>3
<1> HIDE DEF T, good
<1>5. Nat \subseteq T
  BY <1>3, <1>4, SetInduction
<1>6. good(N)
  BY <1>2, <1>5 DEF T
<1>7. CASE N > 1
  <2>1. minusv(l) = r[N] /\ N # 1
    BY <1>1, <1>2, <1>7 DEF minusv
  <2>2. QED
    BY <1>1, <1>6, <1>7, <2>1 DEF good, IsWhole
<1>8. CASE N = 1
  <2>1. minusv(l) = neg(l[1]) /\ l[1] \in Values
    BY <1>2, <1>8 DEF minusv
  <2>2. QED
    BY <1>8, <2>1, NegIs DEF AllCanonical, AllWhole, IsWhole
<1>9. QED
  <2>1. N > 1 \/ N = 1
    <3>1. \A n \in Nat \ {0} : n > 1 \/ n = 1
      OBVIOUS
    <3>2. QED
      BY <1>2, <3>1, Zenon
  <2>2. QED
    BY <1>7, <1>8, <2>1, Zenon

LEMMA MulvIs ==
  ASSUME double \in BOOLEAN, NEW l \in Seq(Values), l # <<>>
  PROVE  /\ mulv(l) \in Values
         /\ AllCanonical(l) => Canonical(mulv(l)) \/ mulv(l) = Big(0)
         /\ AllWhole(l) /\ (Len(l) > 1 => NoneBig(l)) => mulv(l).n = Times(l)
<1>1. PICK r, t : Folded(mul, l) = r[Len(l)] /\ MulFold(r, l) /\ Times(l) = t[Len(l)] /\ Products(t, l)
  BY MulFoldIs, TimesIs
<1>2. Len(l) \in Nat \ {0} /\ \A i \in 1 .. Len(l) : l[i] \in Values /\ l[i].n \in Int
  BY ElementsAre
<1> DEFINE N == Len(l)
           good(i) == /\ r[i] \in Values /\ (AllCanonical(l) => Canonical(r[i]) \/ r[i] = Big(0))
                      /\ AllWhole(l) /\ (N > 1 => NoneBig(l)) => integerp(r[i]) /\ r[i].n = t[i]
           T == {i \in Nat : i \in 1 .. N => good(i)}
<1>3. 0 \in T
  OBVIOUS
<1>4. ASSUME NEW i \in Nat, i \in T PROVE i + 1 \in T
  <2>1. SUFFICES ASSUME i + 1 \in 1 .. N PROVE good(i + 1)
    OBVIOUS
  <2>2. CASE i = 0
    <3>1. r[1] = l[1] /\ t[1] = t[0] * l[1].n /\ t[0] = 1 /\ 1 \in 1 .. N
      BY <1>1, <1>2 DEF MulFold, Products
    <3>2. l[1] \in Values /\ l[1].n \in Int /\ t[1] = l[1].n
      BY <1>2, <3>1
    <3>3. QED
      BY <2>2, <3>1, <3>2 DEF AllCanonical, AllWhole, Whole
  <2>3. CASE i > 0
    <3>1. i \in 1 .. N /\ i + 1 \in 2 .. N /\ (i + 1) - 1 = i /\ N > 1
      BY <1>2, <2>1, <2>3
    <3>2. r[i + 1] = mul(r[i], l[i + 1]) /\ t[i + 1] = t[i] * l[i + 1].n
      BY <1>1, <2>1, <3>1 DEF MulFold, Products
    <3>3. good(i)
      BY <1>4, <3>1
    <3>4. PICK x, y : x = r[i] /\ y = l[i + 1]
      OBVIOUS
    <3>5. x \in Values /\ y \in Values
      BY <1>2, <2>1, <3>3, <3>4
    <3>6. /\ mul(x, y) \in Values
          /\ (Canonical(x) \/ x = Big(0)) /\ Canonical(y) => Canonical(mul(x, y)) \/ mul(x, y) = Big(0)
          /\ AsIntegers(x, y) /\ (Whole(x) \/ x = Big(0)) /\ Whole(y) /\ y.kind # "big" => integerp(mul(x, y)) /\ mul(x, y).n = x.n * y.n
      BY <3>5, MulIs
    <3>7. /\ AllCanonical(l) => (Canonical(x) \/ x = Big(0)) /\ Canonical(y)
          /\ AllWhole(l) /\ NoneBig(l) => integerp(x) /\ x.n = t[i] /\ Whole(y) /\ y.kind # "big"
          /\ AllWhole(l) => AllCanonical(l)
      BY <2>1, <3>1, <3>3, <3>4 DEF AllCanonical, AllWhole, NoneBig, Whole
    <3>8. AllWhole(l) /\ NoneBig(l) => AsIntegers(x, y) /\ (Whole(x) \/ x = Big(0))
      BY <3>5, <3>7 DEF AsIntegers, Whole
    <3>9. QED
      BY <3>1, <3>2, <3>4, <3>6, <3>7, <3>8
  <2>4. QED
    BY <2>2, <2>3
<1> HIDE DEF T, good
<1>5. Nat \subseteq T
  BY <1>3, <1>4, SetInduction
<1>6. good(N)
  BY <1>2, <1>5 DEF T
<1>7. mulv(l) = r[N]
  BY <1>1 DEF mulv
<1>8. QED
  BY <1>1, <1>6, <1>7 DEF good

LEMMA MaxvIs ==
  ASSUME NEW l \in Seq(Values), l # <<>>
  PROVE  /\ maxv(l) \in Values
         /\ AllCanonical(l) => Canonical(maxv(l))
         /\ AllWhole(l) => \A j \in 1 .. Len(l) : maxv(l).n >= l[j].n
<1>1. PICK r : Folded(max2, l) = r[Len(l)] /\ MaxFold(r, l)
  BY MaxFoldIs
<1>2. Len(l) \in Nat \ {0} /\ \A i \in 1 .. Len(l) : l[i] \in Values /\ l[i].n \in Int
  BY ElementsAre
<1> DEFINE N == Len(l)
           good(i) == /\ \E j \in 1 .. N : r[i] = l[j]
                      /\ AllWhole(l) => \A j \in 1 .. i : r[i].n >= l[j].n
           T == {i \in Nat : i \in 1 .. N => good(i)}
<1>3. 0 \in T
  OBVIOUS
<1>4. ASSUME NEW i \in Nat, i \in T PROVE i + 1 \in T
  <2>1. SUFFICES ASSUME i + 1 \in 1 .. N PROVE good(i + 1)
    OBVIOUS
  <2>2. CASE i = 0
    <3>1. r[1] = l[1] /\ 1 \in 1 .. N /\ l[1].n \in Int
      BY <1>1, <1>2 DEF MaxFold
    <3>2. \A j \in 1 .. 1 : j = 1
      OBVIOUS
    <3>3. QED
      BY <2>2, <3>1, <3>2
  <2>3. CASE i > 0
    <3>1. i \in 1 .. N /\ i + 1 \in 2 .. N /\ (i + 1) - 1 = i
      BY <1>2, <2>1, <2>3
    <3>2. r[i + 1] = max2(r[i], l[i + 1])
      BY <1>1, <3>1 DEF MaxFold
    <3>3. good(i)
      BY <1>4, <3>1
    <3>4. PICK x, y : x = r[i] /\ y = l[i + 1]
      OBVIOUS
    <3>5. x \in Values /\ y \in Values /\ x.n \in Int /\ y.n \in Int
      BY <1>2, <2>1, <3>3, <3>4
    <3>6. r[i + 1] \in {x, y}
      BY <3>2, <3>4 DEF max2
    <3>7. \E j \in 1 .. N : r[i + 1] = l[j]
      BY <2>1, <3>3, <3>4, <3>6
    <3>8. ASSUME AllWhole(l), NEW j \in 1 .. i + 1 PROVE r[i + 1].n >= l[j].n
      <4>1. Whole(x) /\ Whole(y)
        BY <2>1, <3>3, <3>4, <3>8 DEF AllWhole
      <4>2. (ge(x, y) = Truth(TRUE)) <=> x.n >= y.n
        <5>1. ge(x, y) = Truth(x.n >= y.n)
          BY <3>5, <4>1, CompareIs
        <5>2. Truth(x.n >= y.n) = Truth(TRUE) <=> x.n >= y.n
          BY DEF Truth, Of
        <5>3. QED
          BY <5>1, <5>2
      <4>3. r[i + 1].n >= x.n /\ r[i + 1].n >= y.n /\ r[i + 1].n \in Int
        <5>1. r[i + 1] = IF ge(x, y) = Truth(TRUE) THEN x ELSE y
          BY <3>2, <3>4 DEF max2
        <5>2. CASE x.n >= y.n
          <6>1. r[i + 1] = x
            BY <4>2, <5>1, <5>2
          <6>2. QED
            BY <3>5, <5>2, <6>1
        <5>3. CASE ~ (x.n >= y.n)
          <6>1. r[i + 1] = y
            BY <4>2, <5>1, <5>3
          <6>2. QED
            BY <3>5, <5>3, <6>1
        <5>4. QED
          BY <5>2, <5>3
      <4>4. CASE j = i + 1
        BY <3>4, <4>3, <4>4
      <4>5. CASE j \in 1 .. i
        <5>1. x.n >= l[j].n /\ l[j].n \in Int
          BY <1>2, <3>1, <3>3, <3>4, <3>8, <4>5
        <5>2. QED
          BY <3>5, <4>3, <5>1
      <4>6. QED
        BY <3>8, <4>4, <4>5
    <3>9. QED
      BY <3>7, <3>8
  <2>4. QED
    BY <2>2, <2>3
<1> HIDE DEF T, good
<1>5. Nat \subseteq T
  BY <1>3, <1>4, SetInduction
<1>6. good(N)
  BY <1>2, <1>5 DEF T
<1>7. maxv(l) = r[N]
  BY <1>1 DEF maxv
<1>8. QED
  BY <1>2, <1>6, <1>7 DEF good, AllCanonical

LEMMA MinvIs ==
  ASSUME NEW l \in Seq(Values), l # <<>>
  PROVE  /\ minv(l) \in Values
         /\ AllCanonical(l) => Canonical(minv(l))
         /\ AllWhole(l) => \A j \in 1 .. Len(l) : minv(l).n <= l[j].n
<1>1. PICK r : Folded(min2, l) = r[Len(l)] /\ MinFold(r, l)
  BY MinFoldIs
<1>2. Len(l) \in Nat \ {0} /\ \A i \in 1 .. Len(l) : l[i] \in Values /\ l[i].n \in Int
  BY ElementsAre
<1> DEFINE N == Len(l)
           good(i) == /\ \E j \in 1 .. N : r[i] = l[j]
                      /\ AllWhole(l) => \A j \in 1 .. i : r[i].n <= l[j].n
           T == {i \in Nat : i \in 1 .. N => good(i)}
<1>3. 0 \in T
  OBVIOUS
<1>4. ASSUME NEW i \in Nat, i \in T PROVE i + 1 \in T
  <2>1. SUFFICES ASSUME i + 1 \in 1 .. N PROVE good(i + 1)
    OBVIOUS
  <2>2. CASE i = 0
    <3>1. r[1] = l[1] /\ 1 \in 1 .. N /\ l[1].n \in Int
      BY <1>1, <1>2 DEF MinFold
    <3>2. \A j \in 1 .. 1 : j = 1
      OBVIOUS
    <3>3. QED
      BY <2>2, <3>1, <3>2
  <2>3. CASE i > 0
    <3>1. i \in 1 .. N /\ i + 1 \in 2 .. N /\ (i + 1) - 1 = i
      BY <1>2, <2>1, <2>3
    <3>2. r[i + 1] = min2(r[i], l[i + 1])
      BY <1>1, <3>1 DEF MinFold
    <3>3. good(i)
      BY <1>4, <3>1
    <3>4. PICK x, y : x = r[i] /\ y = l[i + 1]
      OBVIOUS
    <3>5. x \in Values /\ y \in Values /\ x.n \in Int /\ y.n \in Int
      BY <1>2, <2>1, <3>3, <3>4
    <3>6. r[i + 1] \in {x, y}
      BY <3>2, <3>4 DEF min2
    <3>7. \E j \in 1 .. N : r[i + 1] = l[j]
      BY <2>1, <3>3, <3>4, <3>6
    <3>8. ASSUME AllWhole(l), NEW j \in 1 .. i + 1 PROVE r[i + 1].n <= l[j].n
      <4>1. Whole(x) /\ Whole(y)
        BY <2>1, <3>3, <3>4, <3>8 DEF AllWhole
      <4>2. (le(x, y) = Truth(TRUE)) <=> x.n <= y.n
        <5>1. le(x, y) = Truth(x.n <= y.n)
          BY <3>5, <4>1, CompareIs
        <5>2. Truth(x.n <= y.n) = Truth(TRUE) <=> x.n <= y.n
          BY DEF Truth, Of
        <5>3. QED
          BY <5>1, <5>2
      <4>3. r[i + 1].n <= x.n /\ r[i + 1].n <= y.n /\ r[i + 1].n \in Int
        <5>1. r[i + 1] = IF le(x, y) = Truth(TRUE) THEN x ELSE y
          BY <3>2, <3>4 DEF min2
        <5>2. CASE x.n <= y.n
          <6>1. r[i + 1] = x
            BY <4>2, <5>1, <5>2
          <6>2. QED
            BY <3>5, <5>2, <6>1
        <5>3. CASE ~ (x.n <= y.n)
          <6>1. r[i + 1] = y
            BY <4>2, <5>1, <5>3
          <6>2. QED
            BY <3>5, <5>3, <6>1
        <5>4. QED
          BY <5>2, <5>3
      <4>4. CASE j = i + 1
        BY <3>4, <4>3, <4>4
      <4>5. CASE j \in 1 .. i
        <5>1. x.n <= l[j].n /\ l[j].n \in Int
          BY <1>2, <3>1, <3>3, <3>4, <3>8, <4>5
        <5>2. QED
          BY <3>5, <4>3, <5>1
      <4>6. QED
        BY <3>8, <4>4, <4>5
    <3>9. QED
      BY <3>7, <3>8
  <2>4. QED
    BY <2>2, <2>3
<1> HIDE DEF T, good
<1>5. Nat \subseteq T
  BY <1>3, <1>4, SetInduction
<1>6. good(N)
  BY <1>2, <1>5 DEF T
<1>7. minv(l) = r[N]
  BY <1>1 DEF minv
<1>8. QED
  BY <1>2, <1>6, <1>7 DEF good, AllCanonical

\* A chain of comparisons: as long as they hold the next one is made.
LEMMA SettledIs ==
  ASSUME NEW n \in Nat, NEW r \in [1 .. n -> Values]
  PROVE  /\ (\A i \in 1 .. n : Sound(r[i])) => Sound(Settled(r))
         /\ (\A i \in 1 .. n : r[i] \in {Truth(TRUE), Truth(FALSE)}) => Settled(r) = Truth(\A i \in 1 .. n : r[i] = Truth(TRUE))
<1> DEFINE stop == {i \in 1 .. n : r[i] # Truth(TRUE)}
           least(i) == \A j \in stop : i <= j
           first == CHOOSE i \in stop : least(i)
<1>1. Settled(r) = IF stop = {} THEN Truth(TRUE) ELSE r[first]
  BY DEF Settled
<1>2. Sound(Truth(TRUE))
  BY ConstantsAre DEF Sound
<1>3. CASE stop = {}
  <2>1. Settled(r) = Truth(TRUE)
    BY <1>1, <1>3
  <2>2. \A i \in 1 .. n : r[i] = Truth(TRUE)
    BY <1>3
  <2>3. QED
    BY <1>2, <2>1, <2>2 DEF Truth
<1>4. CASE stop # {}
  <2>1. stop \in SUBSET Nat
    <3>1. 1 .. n \in SUBSET Nat
      OBVIOUS
    <3>2. stop \subseteq 1 .. n
      OBVIOUS
    <3>3. QED
      BY <3>1, <3>2
  <2>2. \E i \in stop : least(i)
    <3> HIDE DEF stop
    <3>1. QED
      BY <1>4, <2>1, LeastNumber
  <2>3. first \in stop
    <3> HIDE DEF stop, least
    <3>1. QED
      BY <2>2
  <2>4. first \in 1 .. n /\ Settled(r) = r[first] /\ r[first] # Truth(TRUE)
    BY <1>1, <1>4, <2>3
  <2> HIDE DEF first
  <2>5. (\A i \in 1 .. n : r[i] \in {Truth(TRUE), Truth(FALSE)}) => Settled(r) = Truth(FALSE)
    BY <2>4
  <2>6. ~ (\A i \in 1 .. n : r[i] = Truth(TRUE))
    BY <2>4
  <2>7. Truth(\A i \in 1 .. n : r[i] = Truth(TRUE)) = Truth(FALSE)
    BY <2>6 DEF Truth
  <2>8. QED
    BY <2>4, <2>5, <2>7
<1>5. QED
  BY <1>3, <1>4

LEMMA ChainIs ==
  ASSUME NEW l \in Seq(Values), l # <<>>
  PROVE  /\ Sound(Chain(gt, l)) /\ (AllWhole(l) => Chain(gt, l) = Truth(\A i \in 1 .. Len(l) - 1 : l[i].n > l[i + 1].n))
         /\ Sound(Chain(lt, l)) /\ (AllWhole(l) => Chain(lt, l) = Truth(\A i \in 1 .. Len(l) - 1 : l[i].n < l[i + 1].n))
         /\ Sound(Chain(ge, l)) /\ (AllWhole(l) => Chain(ge, l) = Truth(\A i \in 1 .. Len(l) - 1 : l[i].n >= l[i + 1].n))
         /\ Sound(Chain(le, l)) /\ (AllWhole(l) => Chain(le, l) = Truth(\A i \in 1 .. Len(l) - 1 : l[i].n <= l[i + 1].n))
         /\ Sound(Chain(numeq, l)) /\ (AllWhole(l) => Chain(numeq, l) = Truth(\A i \in 1 .. Len(l) - 1 : l[i].n = l[i + 1].n))
<1> DEFINE n == Len(l) - 1
<1>1. n \in Nat /\ \A i \in 1 .. n : l[i] \in Values /\ l[i + 1] \in Values
  BY ElementsAre
<1>2. \A v \in Values : Sound(v) => v \in Values
  OBVIOUS
<1>3. AllWhole(l) => \A i \in 1 .. n : Whole(l[i]) /\ Whole(l[i + 1])
  BY ElementsAre DEF AllWhole
<1>4. Truth(TRUE) # Truth(FALSE)
  BY ConstantsAre
<1> HIDE DEF n
<1>5. Sound(Chain(gt, l)) /\ (AllWhole(l) => Chain(gt, l) = Truth(\A i \in 1 .. n : l[i].n > l[i + 1].n))
  <2> DEFINE r == [i \in 1 .. n |-> gt(l[i], l[i + 1])]
  <2>1. \A i \in 1 .. n : Sound(gt(l[i], l[i + 1]))
    BY <1>1, CompareIs
  <2>2. r \in [1 .. n -> Values] /\ \A i \in 1 .. n : Sound(r[i])
    BY <2>1 DEF Sound
  <2>3. Chain(gt, l) = Settled(r)
    BY DEF Chain, n
  <2>4. ASSUME AllWhole(l) PROVE \A i \in 1 .. n : r[i] = Truth(l[i].n > l[i + 1].n)
    BY <1>1, <1>3, <2>4, CompareIs
  <2> HIDE DEF r
  <2>5. Sound(Settled(r))
    BY <1>1, <2>2, SettledIs
  <2>6. ASSUME AllWhole(l) PROVE Settled(r) = Truth(\A i \in 1 .. n : l[i].n > l[i + 1].n)
    <3>1. \A i \in 1 .. n : r[i] \in {Truth(TRUE), Truth(FALSE)} /\ (r[i] = Truth(TRUE) <=> l[i].n > l[i + 1].n)
      <4>1. SUFFICES ASSUME NEW i \in 1 .. n
                     PROVE  r[i] \in {Truth(TRUE), Truth(FALSE)} /\ (r[i] = Truth(TRUE) <=> l[i].n > l[i + 1].n)
        OBVIOUS
      <4>2. r[i] = Truth(l[i].n > l[i + 1].n)
        BY <2>4, <2>6
      <4>3. CASE l[i].n > l[i + 1].n
        <5>1. r[i] = Truth(TRUE)
          BY <4>2, <4>3 DEF Truth
        <5>2. QED
          BY <4>3, <5>1
      <4>4. CASE ~ (l[i].n > l[i + 1].n)
        <5>1. r[i] = Truth(FALSE)
          BY <4>2, <4>4 DEF Truth
        <5>2. QED
          BY <1>4, <4>4, <5>1
      <4>5. QED
        BY <4>3, <4>4
    <3>2. Settled(r) = Truth(\A i \in 1 .. n : r[i] = Truth(TRUE))
      BY <1>1, <2>2, <3>1, SettledIs
    <3>3. (\A i \in 1 .. n : r[i] = Truth(TRUE)) <=> \A i \in 1 .. n : l[i].n > l[i + 1].n
      BY <3>1
    <3>4. QED
      BY <3>2, <3>3 DEF Truth
  <2>7. QED
    BY <2>3, <2>5, <2>6
<1>6. Sound(Chain(lt, l)) /\ (AllWhole(l) => Chain(lt, l) = Truth(\A i \in 1 .. n : l[i].n < l[i + 1].n))
  <2> DEFINE r == [i \in 1 .. n |-> lt(l[i], l[i + 1])]
  <2>1. \A i \in 1 .. n : Sound(lt(l[i], l[i + 1]))
    BY <1>1, CompareIs
  <2>2. r \in [1 .. n -> Values] /\ \A i \in 1 .. n : Sound(r[i])
    BY <2>1 DEF Sound
  <2>3. Chain(lt, l) = Settled(r)
    BY DEF Chain, n
  <2>4. ASSUME AllWhole(l) PROVE \A i \in 1 .. n : r[i] = Truth(l[i].n < l[i + 1].n)
    BY <1>1, <1>3, <2>4, CompareIs
  <2> HIDE DEF r
  <2>5. Sound(Settled(r))
    BY <1>1, <2>2, SettledIs
  <2>6. ASSUME AllWhole(l) PROVE Settled(r) = Truth(\A i \in 1 .. n : l[i].n < l[i + 1].n)
    <3>1. \A i \in 1 .. n : r[i] \in {Truth(TRUE), Truth(FALSE)} /\ (r[i] = Truth(TRUE) <=> l[i].n < l[i + 1].n)
      <4>1. SUFFICES ASSUME NEW i \in 1 .. n
                     PROVE  r[i] \in {Truth(TRUE), Truth(FALSE)} /\ (r[i] = Truth(TRUE) <=> l[i].n < l[i + 1].n)
        OBVIOUS
      <4>2. r[i] = Truth(l[i].n < l[i + 1].n)
        BY <2>4, <2>6
      <4>3. CASE l[i].n < l[i + 1].n
        <5>1. r[i] = Truth(TRUE)
          BY <4>2, <4>3 DEF Truth
        <5>2. QED
          BY <4>3, <5>1
      <4>4. CASE ~ (l[i].n < l[i + 1].n)
        <5>1. r[i] = Truth(FALSE)
          BY <4>2, <4>4 DEF Truth
        <5>2. QED
          BY <1>4, <4>4, <5>1
      <4>5. QED
        BY <4>3, <4>4
    <3>2. Settled(r) = Truth(\A i \in 1 .. n : r[i] = Truth(TRUE))
      BY <1>1, <2>2, <3>1, SettledIs
    <3>3. (\A i \in 1 .. n : r[i] = Truth(TRUE)) <=> \A i \in 1 .. n : l[i].n < l[i + 1].n
      BY <3>1
    <3>4. QED
      BY <3>2, <3>3 DEF Truth
  <2>7. QED
    BY <2>3, <2>5, <2>6
<1>7. Sound(Chain(ge, l)) /\ (AllWhole(l) => Chain(ge, l) = Truth(\A i \in 1 .. n : l[i].n >= l[i + 1].n))
  <2> DEFINE r == [i \in 1 .. n |-> ge(l[i], l[i + 1])]
  <2>1. \A i \in 1 .. n : Sound(ge(l[i], l[i + 1]))
    BY <1>1, CompareIs
  <2>2. r \in [1 .. n -> Values] /\ \A i \in 1 .. n : Sound(r[i])
    BY <2>1 DEF Sound
  <2>3. Chain(ge, l) = Settled(r)
    BY DEF Chain, n
  <2>4. ASSUME AllWhole(l) PROVE \A i \in 1 .. n : r[i] = Truth(l[i].n >= l[i + 1].n)
    BY <1>1, <1>3, <2>4, CompareIs
  <2> HIDE DEF r
  <2>5. Sound(Settled(r))
    BY <1>1, <2>2, SettledIs
  <2>6. ASSUME AllWhole(l) PROVE Settled(r) = Truth(\A i \in 1 .. n : l[i].n >= l[i + 1].n)
    <3>1. \A i \in 1 .. n : r[i] \in {Truth(TRUE), Truth(FALSE)} /\ (r[i] = Truth(TRUE) <=> l[i].n >= l[i + 1].n)
      <4>1. SUFFICES ASSUME NEW i \in 1 .. n
                     PROVE  r[i] \in {Truth(TRUE), Truth(FALSE)} /\ (r[i] = Truth(TRUE) <=> l[i].n >= l[i + 1].n)
        OBVIOUS
      <4>2. r[i] = Truth(l[i].n >= l[i + 1].n)
        BY <2>4, <2>6
      <4>3. CASE l[i].n >= l[i + 1].n
        <5>1. r[i] = Truth(TRUE)
          BY <4>2, <4>3 DEF Truth
        <5>2. QED
          BY <4>3, <5>1
      <4>4. CASE ~ (l[i].n >= l[i + 1].n)
        <5>1. r[i] = Truth(FALSE)
          BY <4>2, <4>4 DEF Truth
        <5>2. QED
          BY <1>4, <4>4, <5>1
      <4>5. QED
        BY <4>3, <4>4
    <3>2. Settled(r) = Truth(\A i \in 1 .. n : r[i] = Truth(TRUE))
      BY <1>1, <2>2, <3>1, SettledIs
    <3>3. (\A i \in 1 .. n : r[i] = Truth(TRUE)) <=> \A i \in 1 .. n : l[i].n >= l[i + 1].n
      BY <3>1
    <3>4. QED
      BY <3>2, <3>3 DEF Truth
  <2>7. QED
    BY <2>3, <2>5, <2>6
<1>8. Sound(Chain(le, l)) /\ (AllWhole(l) => Chain(le, l) = Truth(\A i \in 1 .. n : l[i].n <= l[i + 1].n))
  <2> DEFINE r == [i \in 1 .. n |-> le(l[i], l[i + 1])]
  <2>1. \A i \in 1 .. n : Sound(le(l[i], l[i + 1]))
    BY <1>1, CompareIs
  <2>2. r \in [1 .. n -> Values] /\ \A i \in 1 .. n : Sound(r[i])
    BY <2>1 DEF Sound
  <2>3. Chain(le, l) = Settled(r)
    BY DEF Chain, n
  <2>4. ASSUME AllWhole(l) PROVE \A i \in 1 .. n : r[i] = Truth(l[i].n <= l[i + 1].n)
    BY <1>1, <1>3, <2>4, CompareIs
  <2> HIDE DEF r
  <2>5. Sound(Settled(r))
    BY <1>1, <2>2, SettledIs
  <2>6. ASSUME AllWhole(l) PROVE Settled(r) = Truth(\A i \in 1 .. n : l[i].n <= l[i + 1].n)
    <3>1. \A i \in 1 .. n : r[i] \in {Truth(TRUE), Truth(FALSE)} /\ (r[i] = Truth(TRUE) <=> l[i].n <= l[i + 1].n)
      <4>1. SUFFICES ASSUME NEW i \in 1 .. n
                     PROVE  r[i] \in {Truth(TRUE), Truth(FALSE)} /\ (r[i] = Truth(TRUE) <=> l[i].n <= l[i + 1].n)
        OBVIOUS
      <4>2. r[i] = Truth(l[i].n <= l[i + 1].n)
        BY <2>4, <2>6
      <4>3. CASE l[i].n <= l[i + 1].n
        <5>1. r[i] = Truth(TRUE)
          BY <4>2, <4>3 DEF Truth
        <5>2. QED
          BY <4>3, <5>1
      <4>4. CASE ~ (l[i].n <= l[i + 1].n)
        <5>1. r[i] = Truth(FALSE)
          BY <4>2, <4>4 DEF Truth
        <5>2. QED
          BY <1>4, <4>4, <5>1
      <4>5. QED
        BY <4>3, <4>4
    <3>2. Settled(r) = Truth(\A i \in 1 .. n : r[i] = Truth(TRUE))
      BY <1>1, <2>2, <3>1, SettledIs
    <3>3. (\A i \in 1 .. n : r[i] = Truth(TRUE)) <=> \A i \in 1 .. n : l[i].n <= l[i + 1].n
      BY <3>1
    <3>4. QED
      BY <3>2, <3>3 DEF Truth
  <2>7. QED
    BY <2>3, <2>5, <2>6
<1>9. Sound(Chain(numeq, l)) /\ (AllWhole(l) => Chain(numeq, l) = Truth(\A i \in 1 .. n : l[i].n = l[i + 1].n))
  <2> DEFINE r == [i \in 1 .. n |-> numeq(l[i], l[i + 1])]
  <2>1. \A i \in 1 .. n : Sound(numeq(l[i], l[i + 1]))
    BY <1>1, CompareIs
  <2>2. r \in [1 .. n -> Values] /\ \A i \in 1 .. n : Sound(r[i])
    BY <2>1 DEF Sound
  <2>3. Chain(numeq, l) = Settled(r)
    BY DEF Chain, n
  <2>4. ASSUME AllWhole(l) PROVE \A i \in 1 .. n : r[i] = Truth(l[i].n = l[i + 1].n)
    BY <1>1, <1>3, <2>4, CompareIs
  <2> HIDE DEF r
  <2>5. Sound(Settled(r))
    BY <1>1, <2>2, SettledIs
  <2>6. ASSUME AllWhole(l) PROVE Settled(r) = Truth(\A i \in 1 .. n : l[i].n = l[i + 1].n)
    <3>1. \A i \in 1 .. n : r[i] \in {Truth(TRUE), Truth(FALSE)} /\ (r[i] = Truth(TRUE) <=> l[i].n = l[i + 1].n)
      <4>1. SUFFICES ASSUME NEW i \in 1 .. n
                     PROVE  r[i] \in {Truth(TRUE), Truth(FALSE)} /\ (r[i] = Truth(TRUE) <=> l[i].n = l[i + 1].n)
        OBVIOUS
      <4>2. r[i] = Truth(l[i].n = l[i + 1].n)
        BY <2>4, <2>6
      <4>3. CASE l[i].n = l[i + 1].n
        <5>1. r[i] = Truth(TRUE)
          BY <4>2, <4>3 DEF Truth
        <5>2. QED
          BY <4>3, <5>1
      <4>4. CASE ~ (l[i].n = l[i + 1].n)
        <5>1. r[i] = Truth(FALSE)
          BY <4>2, <4>4 DEF Truth
        <5>2. QED
          BY <1>4, <4>4, <5>1
      <4>5. QED
        BY <4>3, <4>4
    <3>2. Settled(r) = Truth(\A i \in 1 .. n : r[i] = Truth(TRUE))
      BY <1>1, <2>2, <3>1, SettledIs
    <3>3. (\A i \in 1 .. n : r[i] = Truth(TRUE)) <=> \A i \in 1 .. n : l[i].n = l[i + 1].n
      BY <3>1
    <3>4. QED
      BY <3>2, <3>3 DEF Truth
  <2>7. QED
    BY <2>3, <2>5, <2>6
<1>10. QED
  BY <1>5, <1>6, <1>7, <1>8, <1>9 DEF n

-----------------------------------------------------------------------------
\* The random numbers below m are natural numbers, whatever words they are
\* drawn from.
LEMMA DrawsAre ==
  ASSUME NEW m \in Int
  PROVE  \A v \in Draws(m) : v \in Nat /\ v < m
<1> DEFINE bits == highest_bit(Abs(m))
           words == (bits + RAND_BIT - 1) \div RAND_BIT
           over == bits % RAND_BIT
           firsts == IF over > 0 THEN 0 .. Pow2[over] - 1 ELSE 0 .. Pow2[RAND_BIT] - 1
           word(i) == IF i = 1 THEN firsts ELSE 0 .. Pow2[RAND_BIT] - 1
           more(s, i) == {k * Pow2[RAND_BIT] + w : k \in s, w \in word(i)}
           Is(g) == g = [i \in 0 .. words |-> IF i = 0 THEN {0} ELSE more(g[i - 1], i)]
           F == [v \in (1 .. words) \X SUBSET Nat |-> more(v[2], v[1])]
<1>1. RAND_BIT \in Nat \ {0} /\ Abs(m) \in Nat
  BY ArithSizes DEF Abs
<1>2. bits \in Nat
  BY <1>1, HighestBit
<1> HIDE DEF bits
<1>3. words \in Nat /\ over \in Nat
  BY <1>1, <1>2
<1>4. Pow2[RAND_BIT] \in Nat /\ Pow2[over] \in Nat
  BY <1>1, <1>3, Pow2Is
<1>5. \A i \in 1 .. words : word(i) \subseteq Nat
  BY <1>4
<1> HIDE DEF words, word
<1>6. ASSUME NEW s \in SUBSET Nat, NEW i \in 1 .. words PROVE more(s, i) \in SUBSET Nat
  <2>1. \A k \in s, w \in word(i) : k * Pow2[RAND_BIT] + w \in Nat
    BY <1>4, <1>5
  <2>2. QED
    BY <2>1
<1> HIDE DEF more
<1>7. F \in Steps(words, SUBSET Nat) /\ \A i \in 1 .. words, s \in SUBSET Nat : F[<<i, s>>] = more(s, i)
  BY <1>6 DEF Steps
<1> HIDE DEF F
<1>8. PICK g : Solves(g, {0}, F, words, SUBSET Nat)
  <2>1. {0} \in SUBSET Nat
    OBVIOUS
  <2>2. QED
    BY <1>3, <1>7, <2>1, Recursion, Zenon
<1>9. Is(g)
  <2>1. g \in [0 .. words -> SUBSET Nat] /\ g[0] = {0}
    BY <1>8 DEF Solves
  <2>2. ASSUME NEW i \in 1 .. words PROVE g[i] = more(g[i - 1], i)
    <3>1. i - 1 \in 0 .. words
      BY <1>3
    <3>2. g[i - 1] \in SUBSET Nat /\ g[i] = F[<<i, g[i - 1]>>]
      BY <1>8, <2>1, <3>1 DEF Solves
    <3>3. QED
      BY <1>7, <3>2
  <2>3. QED
    BY <1>3, <2>1, <2>2
<1>10. Is(CHOOSE h : Is(h))
  <2> HIDE DEF Is
  <2>1. QED
    BY <1>9, Zenon
<1>11. PICK d : Is(d) /\ Draws(m) = {v \in d[words] : v < m}
  <2>1. Draws(m) = {v \in (CHOOSE h : Is(h))[words] : v < m}
    BY DEF Draws, bits, words, word, more
  <2> HIDE DEF Is
  <2>2. QED
    BY <1>10, <2>1, Zenon
<1> DEFINE T == {i \in Nat : i \in 0 .. words => d[i] \in SUBSET Nat}
<1>12. 0 \in T
  <2>1. 0 \in 0 .. words
    BY <1>3
  <2>2. d[0] = {0}
    BY <1>11, <2>1
  <2>3. QED
    BY <2>2
<1>13. ASSUME NEW i \in Nat, i \in T PROVE i + 1 \in T
  <2>1. SUFFICES ASSUME i + 1 \in 0 .. words PROVE d[i + 1] \in SUBSET Nat
    OBVIOUS
  <2>2. i \in 0 .. words /\ i + 1 \in 1 .. words /\ (i + 1) - 1 = i /\ i + 1 # 0
    BY <1>3, <2>1
  <2>3. d[i + 1] = more(d[i], i + 1) /\ d[i] \in SUBSET Nat
    BY <1>11, <1>13, <2>1, <2>2
  <2>4. QED
    BY <1>6, <2>2, <2>3
<1> HIDE DEF T
<1>14. Nat \subseteq T
  BY <1>12, <1>13, SetInduction
<1>15. d[words] \in SUBSET Nat
  BY <1>3, <1>14 DEF T
<1>16. QED
  BY <1>11, <1>15

-----------------------------------------------------------------------------
\* The calls. What a call is made on:
TypeOK == double \in BOOLEAN /\ call.args \in Seq(Values) /\ call.r \in Values
Inv == TypeOK /\ OneRepresentation /\ ArithExact

LEMMA GivenAre == Given \subseteq Values
BY ArithSizes, NumIs, ConstantsAre, OfIs DEF Given, Whole, Kinds

\* What two arguments amount to.
IsPair(p) ==
  /\ p \in Seq(Values) /\ p # <<>> /\ Len(p) = 2 /\ p[1] \in Values /\ p[2] \in Values
  /\ AllCanonical(p) => Canonical(p[1]) /\ Canonical(p[2])
  /\ AllWhole(p) => Whole(p[1]) /\ Whole(p[2])

LEMMA PairIs ==
  ASSUME NEW x \in Values, NEW y \in Values
  PROVE  LET p == <<x, y>> IN
         /\ IsPair(p) /\ Total(p) = x.n + y.n /\ Times(p) = x.n * y.n
         /\ InOrder(Greater, p) = Truth(x.n > y.n) /\ InOrder(Less, p) = Truth(x.n < y.n)
         /\ InOrder(AtLeast, p) = Truth(x.n >= y.n) /\ InOrder(AtMost, p) = Truth(x.n <= y.n)
         /\ InOrder(Same, p) = Truth(x.n = y.n)
<1> DEFINE p == <<x, y>>
<1>1. p \in Seq(Values) /\ p # <<>> /\ Len(p) = 2 /\ p[1] = x /\ p[2] = y
  OBVIOUS
<1>2. x.n \in Int /\ y.n \in Int
  BY DEF Values
<1> HIDE DEF p
<1>3. 1 \in 1 .. Len(p) /\ 2 \in 1 .. Len(p)
  BY <1>1
<1>4. IsPair(p)
  BY <1>1, <1>3 DEF IsPair, AllCanonical, AllWhole
<1>5. Total(p) = x.n + y.n
  <2>1. PICK t : Total(p) = t[Len(p)] /\ Sums(t, p)
    BY <1>1, TotalIs
  <2>2. t[0] = 0 /\ t[1] = t[1 - 1] + p[1].n /\ t[2] = t[2 - 1] + p[2].n
    BY <1>3, <2>1 DEF Sums
  <2>3. 1 - 1 = 0 /\ 2 - 1 = 1
    OBVIOUS
  <2>4. QED
    BY <1>1, <1>2, <2>1, <2>2, <2>3
<1>6. Times(p) = x.n * y.n
  <2>1. PICK t : Times(p) = t[Len(p)] /\ Products(t, p)
    BY <1>1, TimesIs
  <2>2. t[0] = 1 /\ t[1] = t[1 - 1] * p[1].n /\ t[2] = t[2 - 1] * p[2].n
    BY <1>3, <2>1 DEF Products
  <2>3. 1 - 1 = 0 /\ 2 - 1 = 1 /\ 1 * x.n = x.n
    BY <1>2
  <2>4. QED
    BY <1>1, <1>2, <2>1, <2>2, <2>3
<1>7. 1 .. Len(p) - 1 = {1} /\ p[1 + 1] = y
  <2>1. 1 .. 2 - 1 = {1} /\ 1 + 1 = 2
    OBVIOUS
  <2>2. QED
    BY <1>1, <2>1
<1>8. /\ (\A i \in 1 .. Len(p) - 1 : p[i].n > p[i + 1].n) <=> x.n > y.n
      /\ (\A i \in 1 .. Len(p) - 1 : p[i].n < p[i + 1].n) <=> x.n < y.n
      /\ (\A i \in 1 .. Len(p) - 1 : p[i].n >= p[i + 1].n) <=> x.n >= y.n
      /\ (\A i \in 1 .. Len(p) - 1 : p[i].n <= p[i + 1].n) <=> x.n <= y.n
      /\ (\A i \in 1 .. Len(p) - 1 : p[i].n = p[i + 1].n) <=> x.n = y.n
  BY <1>1, <1>7
<1>9. /\ InOrder(Greater, p) = Truth(x.n > y.n) /\ InOrder(Less, p) = Truth(x.n < y.n)
      /\ InOrder(AtLeast, p) = Truth(x.n >= y.n) /\ InOrder(AtMost, p) = Truth(x.n <= y.n)
      /\ InOrder(Same, p) = Truth(x.n = y.n)
  BY <1>8 DEF InOrder, Greater, Less, AtLeast, AtMost, Same, Truth
<1>10. QED
  BY <1>4, <1>5, <1>6, <1>9 DEF p

LEMMA PairsAre ==
  ASSUME TypeOK, NEW p \in Pairs
  PROVE  p = <<p[1], p[2]>> /\ p[1] \in Values /\ p[2] \in Values
BY GivenAre DEF Pairs, TypeOK

LEMMA ListsAre ==
  ASSUME TypeOK, NEW l \in Lists
  PROVE  l \in Seq(Values) /\ l # <<>>
<1>1. CASE l = <<call.r>>
  BY <1>1 DEF TypeOK
<1>2. CASE \E p \in Pairs : l = <<p[1], p[2], p[1]>>
  <2>1. PICK p \in Pairs : l = <<p[1], p[2], p[1]>>
    BY <1>2
  <2>2. p[1] \in Values /\ p[2] \in Values
    BY PairsAre
  <2>3. QED
    BY <2>1, <2>2
<1>3. QED
  BY <1>1, <1>2 DEF Lists

LEMMA SingleIs ==
  ASSUME NEW x \in Values
  PROVE  LET l == <<x>> IN
         /\ l \in Seq(Values) /\ l # <<>> /\ Len(l) = 1 /\ l[1] = x
         /\ AllCanonical(l) => Canonical(x)
         /\ AllWhole(l) => Whole(x)
BY DEF AllCanonical, AllWhole

\* A call that returns what it should keeps the invariant.
Right(fn, l, r) ==
  /\ r \in Values
  /\ AllCanonical(l) => Canonical(r) \/ fn = "gcd" \/ (fn \in {"mul", "mulv"} /\ r = Big(0))
  /\ AllWhole(l) /\ ~ SignLost(fn, l) => Exact(fn, l, r)

LEMMA ReturnKeeps ==
  ASSUME TypeOK, NEW fn, NEW l \in Seq(Values), NEW r, Return(fn, l, r), Right(fn, l, r)
  PROVE  Inv'
<1>1. call' = [fn |-> fn, args |-> l, r |-> r] /\ double' = double
  BY DEF Return
<1>2. call'.fn = fn /\ call'.args = l /\ call'.r = r
  BY <1>1
<1>3. TypeOK'
  BY <1>1, <1>2 DEF TypeOK, Right
<1>4. l # <<>> => DOMAIN l = 1 .. Len(l) /\ \A i \in DOMAIN l : l[i] \in Values
  BY EmptyIs
<1>5. CanonicalCall' /\ l # <<>> => AllCanonical(l)
  BY <1>2, <1>4 DEF CanonicalCall, AllCanonical, Canonical
<1>6. OneRepresentation'
  BY <1>2, <1>5 DEF OneRepresentation, Right, Canonical
<1>7. CanonicalCall' /\ l # <<>> /\ (\A i \in DOMAIN l : integerp(l[i])) => AllWhole(l)
  BY <1>4, <1>5 DEF AllCanonical, AllWhole, Whole
<1>8. SignLost(fn, l)' = SignLost(fn, l)
  BY <1>1 DEF SignLost
<1>9. ArithExact'
  BY <1>2, <1>7, <1>8 DEF ArithExact, Right
<1>10. QED
  BY <1>3, <1>6, <1>9 DEF Inv

LEMMA UseKeeps ==
  ASSUME Inv, Use
  PROVE  Inv'
<1>1. call' = [fn |-> "none", args |-> <<>>, r |-> call.r] /\ double' = double
  BY DEF Use, Ready
<1>2. call'.args = <<>>
  BY <1>1
<1>3. TypeOK'
  <2>1. <<>> \in Seq(Values) /\ call.r \in Values /\ double \in BOOLEAN
    BY DEF Inv, TypeOK
  <2>2. call'.args = <<>> /\ call'.r = call.r
    BY <1>1
  <2>3. QED
    BY <1>1, <2>1, <2>2 DEF TypeOK
<1>4. QED
  BY <1>2, <1>3 DEF Inv, OneRepresentation, ArithExact

LEMMA InitKeeps == Init => Inv
<1> SUFFICES ASSUME Init PROVE Inv
  OBVIOUS
<1>1. PICK x \in Given : call = [fn |-> "none", args |-> <<>>, r |-> x]
  BY DEF Init, Ready
<1>2. call.args = <<>>
  BY <1>1
<1>3. TypeOK
  <2>1. <<>> \in Seq(Values) /\ x \in Values /\ double \in BOOLEAN
    BY GivenAre DEF Init
  <2>2. QED
    BY <1>1, <2>1 DEF TypeOK
<1>4. QED
  BY <1>2, <1>3 DEF Inv, OneRepresentation, ArithExact

\* Each call returns what it should.
LEMMA PlusKeeps ==
  ASSUME TypeOK, Plus
  PROVE  Inv'
<1>0. double \in BOOLEAN
  BY DEF TypeOK
<1>1. ASSUME NEW p \in Pairs, Return("plus", p, plus(p[1], p[2])) PROVE Inv'
  <2>1. p = <<p[1], p[2]>> /\ p[1] \in Values /\ p[2] \in Values
    BY PairsAre
  <2>2. PICK x, y : x = p[1] /\ y = p[2]
    OBVIOUS
  <2>3. x \in Values /\ y \in Values /\ IsPair(p) /\ Total(p) = x.n + y.n
    BY <2>1, <2>2, PairIs
  <2>4. Right("plus", p, plus(x, y))
    BY <1>0, <2>2, <2>3, PlusIs DEF Right, Exact, Sound, IsWhole, IsPair, AsIntegers, Whole
  <2>5. QED
    BY <2>2, <2>3, <2>4, <1>1, ReturnKeeps DEF IsPair
<1>2. ASSUME NEW l \in Lists, Return("plusv", l, plusv(l)) PROVE Inv'
  <2>1. l \in Seq(Values) /\ l # <<>>
    BY ListsAre
  <2>2. Right("plusv", l, plusv(l))
    BY <1>0, <2>1, PlusvIs DEF Right, Exact
  <2>3. QED
    BY <1>2, <2>1, <2>2, ReturnKeeps
<1>3. QED
  BY <1>1, <1>2 DEF Plus, Call2, CallF

LEMMA MinusKeeps ==
  ASSUME TypeOK, Minus
  PROVE  Inv'
<1>0. double \in BOOLEAN
  BY DEF TypeOK
<1>1. ASSUME NEW p \in Pairs, Return("minus", p, minus(p[1], p[2])) PROVE Inv'
  <2>1. p = <<p[1], p[2]>> /\ p[1] \in Values /\ p[2] \in Values
    BY PairsAre
  <2>2. PICK x, y : x = p[1] /\ y = p[2]
    OBVIOUS
  <2>3. x \in Values /\ y \in Values /\ IsPair(p) /\ Total(p) = x.n + y.n
    BY <2>1, <2>2, PairIs
  <2>4. Right("minus", p, minus(x, y))
    <3>1. x.n \in Int /\ y.n \in Int /\ 2 * x.n - (x.n + y.n) = x.n - y.n
      BY <2>3 DEF Values
    <3>2. ~ SignLost("minus", p) => (x.kind = "fix" /\ y.kind = "big" => x.n >= 0)
      BY <2>2, <2>3, <3>1 DEF SignLost, IsPair
    <3>3. AllWhole(p) /\ ~ SignLost("minus", p) => minus(x, y).n = x.n - y.n
      BY <1>0, <2>2, <2>3, <3>2, MinusIs DEF IsPair, IsWhole, AsIntegers, Whole
    <3>4. Sound(minus(x, y))
      BY <1>0, <2>3, MinusIs
    <3>5. QED
      BY <2>2, <2>3, <3>1, <3>3, <3>4 DEF Right, Exact, Sound, IsPair
  <2>5. QED
    BY <2>2, <2>3, <2>4, <1>1, ReturnKeeps DEF IsPair
<1>2. ASSUME NEW l \in Lists, Return("minusv", l, minusv(l)) PROVE Inv'
  <2>1. l \in Seq(Values) /\ l # <<>>
    BY ListsAre
  <2>2. Right("minusv", l, minusv(l))
    BY <1>0, <2>1, MinusvIs DEF Right, Exact, SignLost, NoneBig
  <2>3. QED
    BY <1>2, <2>1, <2>2, ReturnKeeps
<1>3. QED
  BY <1>1, <1>2 DEF Minus, Call2, CallF

LEMMA MulKeeps ==
  ASSUME TypeOK, Mul
  PROVE  Inv'
<1>0. double \in BOOLEAN
  BY DEF TypeOK
<1>1. ASSUME NEW p \in Pairs, Return("mul", p, mul(p[1], p[2])) PROVE Inv'
  <2>1. p = <<p[1], p[2]>> /\ p[1] \in Values /\ p[2] \in Values
    BY PairsAre
  <2>2. PICK x, y : x = p[1] /\ y = p[2]
    OBVIOUS
  <2>3. x \in Values /\ y \in Values /\ IsPair(p) /\ Times(p) = x.n * y.n
    BY <2>1, <2>2, PairIs
  <2>4. Right("mul", p, mul(x, y))
    <3>1. x.n \in Int
      BY <2>3 DEF Values
    <3>2. ~ SignLost("mul", p) => (x.kind = "fix" /\ y.kind = "big" => x.n >= 0)
      BY <2>2, <2>3, <3>1 DEF SignLost, IsPair
    <3>3. AllWhole(p) /\ ~ SignLost("mul", p) => mul(x, y).n = x.n * y.n
      BY <1>0, <2>2, <2>3, <3>2, MulIs DEF IsPair, AsIntegers, Whole
    <3>4. mul(x, y) \in Values /\ (AllCanonical(p) => Canonical(mul(x, y)) \/ mul(x, y) = Big(0))
      BY <1>0, <2>2, <2>3, MulIs DEF IsPair
    <3>5. QED
      BY <2>2, <2>3, <3>3, <3>4 DEF Right, Exact
  <2>5. QED
    BY <2>2, <2>3, <2>4, <1>1, ReturnKeeps DEF IsPair
<1>2. ASSUME NEW l \in Lists, Return("mulv", l, mulv(l)) PROVE Inv'
  <2>1. l \in Seq(Values) /\ l # <<>>
    BY ListsAre
  <2>2. Right("mulv", l, mulv(l))
    BY <1>0, <2>1, MulvIs DEF Right, Exact, SignLost, NoneBig
  <2>3. QED
    BY <1>2, <2>1, <2>2, ReturnKeeps
<1>3. QED
  BY <1>1, <1>2 DEF Mul, Call2, CallF

LEMMA NegKeeps ==
  ASSUME TypeOK, Neg
  PROVE  Inv'
<1>0. double \in BOOLEAN
  BY DEF TypeOK
<1>1. ASSUME Return("neg", <<call.r>>, neg(call.r)) PROVE Inv'
  <2>1. PICK x : x = call.r
    OBVIOUS
  <2>2. x \in Values
    BY <2>1 DEF TypeOK
  <2>3. PICK l : l = <<x>>
    OBVIOUS
  <2>4. l \in Seq(Values) /\ l # <<>> /\ Len(l) = 1 /\ l[1] = x /\ (AllCanonical(l) => Canonical(x)) /\ (AllWhole(l) => Whole(x))
    BY <2>2, <2>3, SingleIs
  <2>5. Right("neg", l, neg(x))
    BY <2>2, <2>4, NegIs DEF Right, Exact, Sound, Whole, IsWhole
  <2>6. QED
    BY <1>1, <2>1, <2>3, <2>4, <2>5, ReturnKeeps
<1>2. ASSUME Return("abso", <<call.r>>, abso(call.r)) PROVE Inv'
  <2>1. PICK x : x = call.r
    OBVIOUS
  <2>2. x \in Values
    BY <2>1 DEF TypeOK
  <2>3. PICK l : l = <<x>>
    OBVIOUS
  <2>4. l \in Seq(Values) /\ l # <<>> /\ Len(l) = 1 /\ l[1] = x /\ (AllCanonical(l) => Canonical(x)) /\ (AllWhole(l) => Whole(x))
    BY <2>2, <2>3, SingleIs
  <2>5. Right("abso", l, abso(x))
    BY <2>2, <2>4, NegIs DEF Right, Exact, Sound, Whole, IsWhole
  <2>6. QED
    BY <1>2, <2>1, <2>3, <2>4, <2>5, ReturnKeeps
<1>3. QED
  BY <1>1, <1>2 DEF Neg, Call1

LEMMA TruncKeeps ==
  ASSUME TypeOK, Trunc
  PROVE  Inv'
<1>0. double \in BOOLEAN
  BY DEF TypeOK
<1>1. ASSUME NEW p \in Pairs, Return("trunc", p, trunc(p[1], p[2])) PROVE Inv'
  <2>1. p = <<p[1], p[2]>> /\ p[1] \in Values /\ p[2] \in Values
    BY PairsAre
  <2>2. PICK x, y : x = p[1] /\ y = p[2]
    OBVIOUS
  <2>3. x \in Values /\ y \in Values /\ IsPair(p) /\ TRUE
    BY <2>1, <2>2, PairIs
  <2>4. Right("trunc", p, trunc(x, y))
    <3>1. ~ SignLost("trunc", p) => ~ (x.kind = "big" /\ y.kind = "fix" /\ x.n < 0)
      BY <2>2, <2>3 DEF SignLost, IsPair
    <3>2. QED
      BY <2>2, <2>3, <3>1, TruncIs DEF Right, Exact, Sound, IsPair, Whole
  <2>5. QED
    BY <2>2, <2>3, <2>4, <1>1, ReturnKeeps DEF IsPair
<1>2. QED
  BY <1>1 DEF Trunc, Call2

LEMMA ParityKeeps ==
  ASSUME TypeOK, Parity
  PROVE  Inv'
<1>0. double \in BOOLEAN
  BY DEF TypeOK
<1>1. ASSUME Return("zerop", <<call.r>>, zerop(call.r)) PROVE Inv'
  <2>1. PICK x : x = call.r
    OBVIOUS
  <2>2. x \in Values
    BY <2>1 DEF TypeOK
  <2>3. PICK l : l = <<x>>
    OBVIOUS
  <2>4. l \in Seq(Values) /\ l # <<>> /\ Len(l) = 1 /\ l[1] = x /\ (AllCanonical(l) => Canonical(x)) /\ (AllWhole(l) => Whole(x))
    BY <2>2, <2>3, SingleIs
  <2>5. Right("zerop", l, zerop(x))
    BY <2>2, <2>4, ParityIs DEF Right, Exact, Sound, Whole, IsWhole
  <2>6. QED
    BY <1>1, <2>1, <2>3, <2>4, <2>5, ReturnKeeps
<1>2. ASSUME Return("evenp", <<call.r>>, evenp(call.r)) PROVE Inv'
  <2>1. PICK x : x = call.r
    OBVIOUS
  <2>2. x \in Values
    BY <2>1 DEF TypeOK
  <2>3. PICK l : l = <<x>>
    OBVIOUS
  <2>4. l \in Seq(Values) /\ l # <<>> /\ Len(l) = 1 /\ l[1] = x /\ (AllCanonical(l) => Canonical(x)) /\ (AllWhole(l) => Whole(x))
    BY <2>2, <2>3, SingleIs
  <2>5. Right("evenp", l, evenp(x))
    BY <2>2, <2>4, ParityIs DEF Right, Exact, Sound, Whole, IsWhole
  <2>6. QED
    BY <1>2, <2>1, <2>3, <2>4, <2>5, ReturnKeeps
<1>3. ASSUME Return("oddp", <<call.r>>, oddp(call.r)) PROVE Inv'
  <2>1. PICK x : x = call.r
    OBVIOUS
  <2>2. x \in Values
    BY <2>1 DEF TypeOK
  <2>3. PICK l : l = <<x>>
    OBVIOUS
  <2>4. l \in Seq(Values) /\ l # <<>> /\ Len(l) = 1 /\ l[1] = x /\ (AllCanonical(l) => Canonical(x)) /\ (AllWhole(l) => Whole(x))
    BY <2>2, <2>3, SingleIs
  <2>5. Right("oddp", l, oddp(x))
    BY <2>2, <2>4, ParityIs DEF Right, Exact, Sound, Whole, IsWhole
  <2>6. QED
    BY <1>3, <2>1, <2>3, <2>4, <2>5, ReturnKeeps
<1>4. QED
  BY <1>1, <1>2, <1>3 DEF Parity, Call1

LEMMA GtKeeps ==
  ASSUME TypeOK, Gt
  PROVE  Inv'
<1>0. double \in BOOLEAN
  BY DEF TypeOK
<1>1. ASSUME NEW p \in Pairs, Return("gt", p, gt(p[1], p[2])) PROVE Inv'
  <2>1. p = <<p[1], p[2]>> /\ p[1] \in Values /\ p[2] \in Values
    BY PairsAre
  <2>2. PICK x, y : x = p[1] /\ y = p[2]
    OBVIOUS
  <2>3. x \in Values /\ y \in Values /\ IsPair(p) /\ InOrder(Greater, p) = Truth(x.n > y.n)
    BY <2>1, <2>2, PairIs
  <2>4. Right("gt", p, gt(x, y))
    BY <1>0, <2>2, <2>3, CompareIs DEF Right, Exact, Sound, IsWhole, IsPair, AsIntegers, Whole
  <2>5. QED
    BY <2>2, <2>3, <2>4, <1>1, ReturnKeeps DEF IsPair
<1>2. ASSUME NEW l \in Lists, Return("gtv", l, Chain(gt, l)) PROVE Inv'
  <2>1. l \in Seq(Values) /\ l # <<>>
    BY ListsAre
  <2>2. Right("gtv", l, Chain(gt, l))
    BY <1>0, <2>1, ChainIs DEF Right, Exact, Sound, InOrder, Greater
  <2>3. QED
    BY <1>2, <2>1, <2>2, ReturnKeeps
<1>3. QED
  BY <1>1, <1>2 DEF Gt, Call2, CallV

LEMMA LtKeeps ==
  ASSUME TypeOK, Lt
  PROVE  Inv'
<1>0. double \in BOOLEAN
  BY DEF TypeOK
<1>1. ASSUME NEW p \in Pairs, Return("lt", p, lt(p[1], p[2])) PROVE Inv'
  <2>1. p = <<p[1], p[2]>> /\ p[1] \in Values /\ p[2] \in Values
    BY PairsAre
  <2>2. PICK x, y : x = p[1] /\ y = p[2]
    OBVIOUS
  <2>3. x \in Values /\ y \in Values /\ IsPair(p) /\ InOrder(Less, p) = Truth(x.n < y.n)
    BY <2>1, <2>2, PairIs
  <2>4. Right("lt", p, lt(x, y))
    BY <1>0, <2>2, <2>3, CompareIs DEF Right, Exact, Sound, IsWhole, IsPair, AsIntegers, Whole
  <2>5. QED
    BY <2>2, <2>3, <2>4, <1>1, ReturnKeeps DEF IsPair
<1>2. ASSUME NEW l \in Lists, Return("ltv", l, Chain(lt, l)) PROVE Inv'
  <2>1. l \in Seq(Values) /\ l # <<>>
    BY ListsAre
  <2>2. Right("ltv", l, Chain(lt, l))
    BY <1>0, <2>1, ChainIs DEF Right, Exact, Sound, InOrder, Less
  <2>3. QED
    BY <1>2, <2>1, <2>2, ReturnKeeps
<1>3. QED
  BY <1>1, <1>2 DEF Lt, Call2, CallV

LEMMA GeKeeps ==
  ASSUME TypeOK, Ge
  PROVE  Inv'
<1>0. double \in BOOLEAN
  BY DEF TypeOK
<1>1. ASSUME NEW p \in Pairs, Return("ge", p, ge(p[1], p[2])) PROVE Inv'
  <2>1. p = <<p[1], p[2]>> /\ p[1] \in Values /\ p[2] \in Values
    BY PairsAre
  <2>2. PICK x, y : x = p[1] /\ y = p[2]
    OBVIOUS
  <2>3. x \in Values /\ y \in Values /\ IsPair(p) /\ InOrder(AtLeast, p) = Truth(x.n >= y.n)
    BY <2>1, <2>2, PairIs
  <2>4. Right("ge", p, ge(x, y))
    BY <1>0, <2>2, <2>3, CompareIs DEF Right, Exact, Sound, IsWhole, IsPair, AsIntegers, Whole
  <2>5. QED
    BY <2>2, <2>3, <2>4, <1>1, ReturnKeeps DEF IsPair
<1>2. ASSUME NEW l \in Lists, Return("gev", l, Chain(ge, l)) PROVE Inv'
  <2>1. l \in Seq(Values) /\ l # <<>>
    BY ListsAre
  <2>2. Right("gev", l, Chain(ge, l))
    BY <1>0, <2>1, ChainIs DEF Right, Exact, Sound, InOrder, AtLeast
  <2>3. QED
    BY <1>2, <2>1, <2>2, ReturnKeeps
<1>3. ASSUME NEW l \in Lists, Return("maxv", l, maxv(l)) PROVE Inv'
  <2>1. l \in Seq(Values) /\ l # <<>>
    BY ListsAre
  <2>2. Right("maxv", l, maxv(l))
    BY <1>0, <2>1, MaxvIs DEF Right, Exact
  <2>3. QED
    BY <1>3, <2>1, <2>2, ReturnKeeps
<1>4. QED
  BY <1>1, <1>2, <1>3 DEF Ge, Call2, CallV

LEMMA LeKeeps ==
  ASSUME TypeOK, Le
  PROVE  Inv'
<1>0. double \in BOOLEAN
  BY DEF TypeOK
<1>1. ASSUME NEW p \in Pairs, Return("le", p, le(p[1], p[2])) PROVE Inv'
  <2>1. p = <<p[1], p[2]>> /\ p[1] \in Values /\ p[2] \in Values
    BY PairsAre
  <2>2. PICK x, y : x = p[1] /\ y = p[2]
    OBVIOUS
  <2>3. x \in Values /\ y \in Values /\ IsPair(p) /\ InOrder(AtMost, p) = Truth(x.n <= y.n)
    BY <2>1, <2>2, PairIs
  <2>4. Right("le", p, le(x, y))
    BY <1>0, <2>2, <2>3, CompareIs DEF Right, Exact, Sound, IsWhole, IsPair, AsIntegers, Whole
  <2>5. QED
    BY <2>2, <2>3, <2>4, <1>1, ReturnKeeps DEF IsPair
<1>2. ASSUME NEW l \in Lists, Return("lev", l, Chain(le, l)) PROVE Inv'
  <2>1. l \in Seq(Values) /\ l # <<>>
    BY ListsAre
  <2>2. Right("lev", l, Chain(le, l))
    BY <1>0, <2>1, ChainIs DEF Right, Exact, Sound, InOrder, AtMost
  <2>3. QED
    BY <1>2, <2>1, <2>2, ReturnKeeps
<1>3. ASSUME NEW l \in Lists, Return("minv", l, minv(l)) PROVE Inv'
  <2>1. l \in Seq(Values) /\ l # <<>>
    BY ListsAre
  <2>2. Right("minv", l, minv(l))
    BY <1>0, <2>1, MinvIs DEF Right, Exact
  <2>3. QED
    BY <1>3, <2>1, <2>2, ReturnKeeps
<1>4. QED
  BY <1>1, <1>2, <1>3 DEF Le, Call2, CallV

LEMMA NumeqKeeps ==
  ASSUME TypeOK, Numeq
  PROVE  Inv'
<1>0. double \in BOOLEAN
  BY DEF TypeOK
<1>1. ASSUME NEW p \in Pairs, Return("numeq", p, numeq(p[1], p[2])) PROVE Inv'
  <2>1. p = <<p[1], p[2]>> /\ p[1] \in Values /\ p[2] \in Values
    BY PairsAre
  <2>2. PICK x, y : x = p[1] /\ y = p[2]
    OBVIOUS
  <2>3. x \in Values /\ y \in Values /\ IsPair(p) /\ InOrder(Same, p) = Truth(x.n = y.n)
    BY <2>1, <2>2, PairIs
  <2>4. Right("numeq", p, numeq(x, y))
    BY <1>0, <2>2, <2>3, CompareIs DEF Right, Exact, Sound, IsWhole, IsPair, AsIntegers, Whole
  <2>5. QED
    BY <2>2, <2>3, <2>4, <1>1, ReturnKeeps DEF IsPair
<1>2. ASSUME NEW l \in Lists, Return("numeqv", l, Chain(numeq, l)) PROVE Inv'
  <2>1. l \in Seq(Values) /\ l # <<>>
    BY ListsAre
  <2>2. Right("numeqv", l, Chain(numeq, l))
    BY <1>0, <2>1, ChainIs DEF Right, Exact, Sound, InOrder, Same
  <2>3. QED
    BY <1>2, <2>1, <2>2, ReturnKeeps
<1>3. QED
  BY <1>1, <1>2 DEF Numeq, Call2, CallV

LEMMA GcdKeeps ==
  ASSUME TypeOK, Gcd
  PROVE  Inv'
<1>0. double \in BOOLEAN
  BY DEF TypeOK
<1>1. ASSUME NEW p \in Pairs, Return("gcd", p, gcd(p[1], p[2])) PROVE Inv'
  <2>1. p = <<p[1], p[2]>> /\ p[1] \in Values /\ p[2] \in Values
    BY PairsAre
  <2>2. PICK x, y : x = p[1] /\ y = p[2]
    OBVIOUS
  <2>3. x \in Values /\ y \in Values /\ IsPair(p) /\ TRUE
    BY <2>1, <2>2, PairIs
  <2>4. Right("gcd", p, gcd(x, y))
    BY <1>0, <2>2, <2>3, GcdIs DEF Right, Exact, Sound, IsWhole, IsPair, AsIntegers, Whole
  <2>5. QED
    BY <2>2, <2>3, <2>4, <1>1, ReturnKeeps DEF IsPair
<1>2. QED
  BY <1>1 DEF Gcd, Call2

LEMMA IsqrtKeeps ==
  ASSUME TypeOK, Isqrt
  PROVE  Inv'
<1>0. double \in BOOLEAN
  BY DEF TypeOK
<1>1. ASSUME Return("isqrt", <<call.r>>, isqrt(call.r)) PROVE Inv'
  <2>1. PICK x : x = call.r
    OBVIOUS
  <2>2. x \in Values
    BY <2>1 DEF TypeOK
  <2>3. PICK l : l = <<x>>
    OBVIOUS
  <2>4. l \in Seq(Values) /\ l # <<>> /\ Len(l) = 1 /\ l[1] = x /\ (AllCanonical(l) => Canonical(x)) /\ (AllWhole(l) => Whole(x))
    BY <2>2, <2>3, SingleIs
  <2>5. Right("isqrt", l, isqrt(x))
    BY <2>2, <2>4, SqrtIs DEF Right, Exact, Sound, Whole, IsWhole
  <2>6. QED
    BY <1>1, <2>1, <2>3, <2>4, <2>5, ReturnKeeps
<1>2. QED
  BY <1>1 DEF Isqrt, Call1

LEMMA FloIntKeeps ==
  ASSUME TypeOK, FloInt
  PROVE  Inv'
<1>0. double \in BOOLEAN
  BY DEF TypeOK
<1>1. ASSUME Return("int_flo", <<call.r>>, int_flo(call.r)) PROVE Inv'
  <2>1. PICK x : x = call.r
    OBVIOUS
  <2>2. x \in Values
    BY <2>1 DEF TypeOK
  <2>3. PICK l : l = <<x>>
    OBVIOUS
  <2>4. l \in Seq(Values) /\ l # <<>> /\ Len(l) = 1 /\ l[1] = x /\ (AllCanonical(l) => Canonical(x)) /\ (AllWhole(l) => Whole(x))
    BY <2>2, <2>3, SingleIs
  <2>5. Right("int_flo", l, int_flo(x))
    BY <2>2, <2>4, FloatsAre DEF Right, Exact, Sound, Whole, IsWhole
  <2>6. QED
    BY <1>1, <2>1, <2>3, <2>4, <2>5, ReturnKeeps
<1>2. ASSUME Return("flo_int", <<call.r>>, flo_int(call.r)) PROVE Inv'
  <2>1. PICK x : x = call.r
    OBVIOUS
  <2>2. x \in Values
    BY <2>1 DEF TypeOK
  <2>3. PICK l : l = <<x>>
    OBVIOUS
  <2>4. l \in Seq(Values) /\ l # <<>> /\ Len(l) = 1 /\ l[1] = x /\ (AllCanonical(l) => Canonical(x)) /\ (AllWhole(l) => Whole(x))
    BY <2>2, <2>3, SingleIs
  <2>5. Right("flo_int", l, flo_int(x))
    BY <2>2, <2>4, FloatsAre DEF Right, Exact, Sound, Whole, IsWhole
  <2>6. QED
    BY <1>2, <2>1, <2>3, <2>4, <2>5, ReturnKeeps
<1>3. QED
  BY <1>1, <1>2 DEF FloInt, Call1

LEMMA ModKeeps ==
  ASSUME TypeOK, Mod
  PROVE  Inv'
<1>0. double \in BOOLEAN
  BY DEF TypeOK
<1>1. PICK p \in Pairs : ~ (AsFloats(p[1], p[2]) /\ p[2].n = 0) /\ Return("mod", p, mod(p[1], p[2]))
  BY DEF Mod
<1>2. p = <<p[1], p[2]>> /\ p[1] \in Values /\ p[2] \in Values
  BY PairsAre
<1>3. PICK x, y : x = p[1] /\ y = p[2]
  OBVIOUS
<1>4. x \in Values /\ y \in Values /\ IsPair(p)
  BY <1>2, <1>3, PairIs
<1>5. /\ Sound(mod(x, y))
      /\ /\ Whole(x) /\ Whole(y)
         /\ x.kind = "big" /\ y.kind = "fix" => Sign(x.n) = Sign(y.n)
         => IF y.n = 0 THEN mod(x, y) = Error ELSE Whole(mod(x, y)) /\ IsModulo(mod(x, y).n, x.n, y.n)
  BY <1>0, <1>1, <1>3, <1>4, ModIs
<1>6. ~ SignLost("mod", p) => (x.kind = "big" /\ y.kind = "fix" => Sign(x.n) = Sign(y.n))
  BY <1>3, <1>4 DEF SignLost, IsPair
<1>7. Right("mod", p, mod(x, y))
  BY <1>3, <1>4, <1>5, <1>6 DEF Right, Exact, Sound, IsPair, Whole
<1>8. QED
  BY <1>1, <1>3, <1>4, <1>7, ReturnKeeps DEF IsPair

LEMMA DiviKeeps ==
  ASSUME TypeOK, Divi
  PROVE  Inv'
<1>1. PICK p \in Pairs : Return("divi", p, divi(p[1], p[2]))
  BY DEF Divi
<1>2. p = <<p[1], p[2]>> /\ p[1] \in Values /\ p[2] \in Values
  BY PairsAre
<1>3. IsPair(p) /\ Sound(divi(p[1], p[2]))
  BY <1>2, PairIs, DiviIs
<1>4. Right("divi", p, divi(p[1], p[2]))
  BY <1>3 DEF Right, Exact, Sound
<1>5. QED
  BY <1>1, <1>3, <1>4, ReturnKeeps DEF IsPair

LEMMA ExptKeeps ==
  ASSUME TypeOK, Expt
  PROVE  Inv'
<1>1. PICK p \in Pairs : Return("expt", p, expt(p[1], p[2]))
  BY DEF Expt
<1>2. p = <<p[1], p[2]>> /\ p[1] \in Values /\ p[2] \in Values
  BY PairsAre
<1>3. PICK x, y : x = p[1] /\ y = p[2]
  OBVIOUS
<1>4. x \in Values /\ y \in Values /\ IsPair(p)
  BY <1>2, <1>3, PairIs
<1>5. Right("expt", p, expt(x, y))
  <2>1. ~ SignLost("expt", p) => ~ (y.kind = "big" /\ x.n < 0)
    BY <1>3, <1>4 DEF SignLost, IsPair
  <2>2. QED
    BY <1>3, <1>4, <2>1, ExptIs DEF Right, Exact, IsPair
<1>6. QED
  BY <1>1, <1>3, <1>4, <1>5, ReturnKeeps DEF IsPair

LEMMA ExptmodKeeps ==
  ASSUME TypeOK, Exptmod
  PROVE  Inv'
<1>1. PICK x \in Given, m \in Given : Return("exptmod", <<call.r, x, m>>, exptmod(call.r, x, m))
  BY DEF Exptmod
<1>2. x \in Values /\ m \in Values /\ call.r \in Values
  BY GivenAre DEF TypeOK
<1>3. PICK l : l = <<call.r, x, m>>
  OBVIOUS
<1>4. l \in Seq(Values)
  BY <1>2, <1>3
<1>5. Sound(exptmod(call.r, x, m))
  BY <1>2, ExptmodIs
<1>6. Right("exptmod", l, exptmod(call.r, x, m))
  BY <1>5 DEF Right, Exact, Sound
<1>7. QED
  BY <1>1, <1>3, <1>4, <1>6, ReturnKeeps

LEMMA RandomKeeps ==
  ASSUME TypeOK, Random
  PROVE  Inv'
<1>1. PICK x, l : x = call.r /\ l = <<x>>
  OBVIOUS
<1>2. x \in Values /\ x.n \in Int /\ integerp(x)
  BY <1>1 DEF TypeOK, Values, Random
<1>3. l \in Seq(Values) /\ Len(l) = 1 /\ l[1] = x
  BY <1>1, <1>2, SingleIs
<1>4. CASE x.kind = "fix" /\ x.n <= 0
  <2>1. Return("random", l, Error)
    BY <1>1, <1>4 DEF Random
  <2>2. Right("random", l, Error)
    BY <1>3, <1>4, ConstantsAre DEF Right, Exact
  <2>3. QED
    BY <1>3, <2>1, <2>2, ReturnKeeps
<1>5. CASE ~ (x.kind = "fix" /\ x.n <= 0)
  <2>1. PICK n \in Draws(x.n) : Return("random", l, num(n))
    BY <1>1, <1>5 DEF Random
  <2>2. n \in Nat /\ n < x.n
    BY <1>2, DrawsAre
  <2>3. Whole(num(n)) /\ num(n).n = n
    BY <2>2, NumIs
  <2>4. Right("random", l, num(n))
    BY <1>2, <1>3, <2>2, <2>3 DEF Right, Exact, Whole
  <2>5. QED
    BY <1>3, <2>1, <2>4, ReturnKeeps
<1>6. QED
  BY <1>4, <1>5

-----------------------------------------------------------------------------
LEMMA NextKeeps == Inv /\ [Next]_vars => Inv'
<1> SUFFICES ASSUME Inv, [Next]_vars PROVE Inv'
  OBVIOUS
<1>0. TypeOK
  BY DEF Inv
<1>1. CASE Use
  BY <1>1, UseKeeps
<1>2. CASE Plus \/ Minus \/ Mul \/ Neg
  BY <1>0, <1>2, PlusKeeps, MinusKeeps, MulKeeps, NegKeeps
<1>3. CASE Trunc \/ Mod \/ Divi \/ Parity
  BY <1>0, <1>3, TruncKeeps, ModKeeps, DiviKeeps, ParityKeeps
<1>4. CASE Gt \/ Lt \/ Ge \/ Le \/ Numeq
  BY <1>0, <1>4, GtKeeps, LtKeeps, GeKeeps, LeKeeps, NumeqKeeps
<1>5. CASE Expt \/ Exptmod \/ Isqrt \/ Gcd \/ FloInt \/ Random
  BY <1>0, <1>5, ExptKeeps, ExptmodKeeps, IsqrtKeeps, GcdKeeps, FloIntKeeps, RandomKeeps
<1>6. CASE UNCHANGED vars
  <2>1. double' = double /\ call' = call
    BY <1>6 DEF vars
  <2>2. CanonicalCall' = CanonicalCall /\ SignLost(call.fn, call.args)' = SignLost(call.fn, call.args)
    BY <2>1 DEF CanonicalCall, Canonical, SignLost
  <2>3. QED
    BY <2>1, <2>2 DEF Inv, TypeOK, OneRepresentation, Canonical, ArithExact
<1>7. QED
  BY <1>1, <1>2, <1>3, <1>4, <1>5, <1>6 DEF Next

\* For every size of a cnum and of the random words, with and without a double
\* cnum, and whatever integers of one digit, which is as wide as a cnum, the calls
\* are given: in every behavior of calls on each other's results, every integer
\* has one representation but those that gcd, and products of a bignum with 0,
\* return.
THEOREM ArithRepresentation == Spec => []OneRepresentation
<1>1. Inv => OneRepresentation
  BY DEF Inv
<1>2. QED
  BY <1>1, InitKeeps, NextKeeps, PTL DEF Spec

\* And every such call on integers, each in its representation, whose result has
\* one digit as well, returns what arithmetic says, or an error where there is
\* nothing to return; but for the calls of SignLost, gcd of 0, and isqrt of a
\* bignum, which returns the largest even root of its absolute value.
THEOREM ArithIsExact == Spec => []ArithExact
<1>1. Inv => ArithExact
  BY DEF Inv
<1>2. QED
  BY <1>1, InitKeeps, NextKeeps, PTL DEF Spec
=============================================================================
