--------------------------- MODULE FreeListProofs ---------------------------
(***************************************************************************)
(* Proofs about FreeList, for blocks of any number and size.  The links    *)
(* from free_list on are taken for what they spell out, a sequence of      *)
(* distinct cells; each operation of gc.c is shown to make a sequence of   *)
(* a sequence.  When debugging, free_tail may be anywhere: in the middle   *)
(* of the list, which then loses its rest, or in a cell that is not on it. *)
(***************************************************************************)
EXTENDS FreeList, FiniteSetTheorems, SequenceTheorems, Induction

List == [head : Cell \cup {nil}, tail : Cell \cup {FreeListVar}, next : [Cell -> Cell \cup {nil}]]

\* The links of l spell out the cells p[1] .. p[n].
Spells(l, n, p) ==
  /\ p \in [1 .. n -> Cell] /\ \A i, j \in 1 .. n : p[i] = p[j] => i = j
  /\ l.head = IF n = 0 THEN nil ELSE p[1]
  /\ \A i \in 1 .. n : l.next[p[i]] = IF i = n THEN nil ELSE p[i + 1]

\* The cells on l are in S, and unless debugging they are all of S.
Lists(l, S) ==
  \E n \in Nat : \E p \in [1 .. n -> Cell] :
    /\ Spells(l, n, p)
    /\ \A i \in 1 .. n : p[i] \in S
    /\ ~ opt_gc_debug => \A c \in S : \E i \in 1 .. n : p[i] = c

TypeOK ==
  /\ list \in List /\ free \in SUBSET Heap /\ blocks \in 0 .. Len(Blocks)
  /\ opt_gc_debug \in BOOLEAN

\* The inductive invariant.
IInv == TypeOK /\ Lists(list, free)

-----------------------------------------------------------------------------
LEMMA PushKeeps ==
  ASSUME BlocksAreDisjoint, NEW l \in List, NEW S \in SUBSET Cell, NEW c \in Cell \ S, Lists(l, S)
  PROVE  Push(l, c) \in List /\ Lists(Push(l, c), S \cup {c})
<1> DEFINE m == Push(l, c)
<1>1. m \in List /\ m.head = c /\ m.next = [l.next EXCEPT ![c] = l.head]
  BY DEF Push, List
<1>2. PICK n \in Nat : \E p \in [1 .. n -> Cell] :
        /\ Spells(l, n, p)
        /\ \A i \in 1 .. n : p[i] \in S
        /\ ~ opt_gc_debug => \A d \in S : \E i \in 1 .. n : p[i] = d
  BY DEF Lists
<1>3. PICK p \in [1 .. n -> Cell] :
        /\ Spells(l, n, p)
        /\ \A i \in 1 .. n : p[i] \in S
        /\ ~ opt_gc_debug => \A d \in S : \E i \in 1 .. n : p[i] = d
  BY <1>2
<1> HIDE DEF m
<1> DEFINE q == [i \in 1 .. n + 1 |-> IF i = 1 THEN c ELSE p[i - 1]]
<1>4. q \in [1 .. n + 1 -> Cell] /\ q[1] = c /\ \A i \in 1 .. n : q[i + 1] = p[i]
  OBVIOUS
<1>5. \A j \in 1 .. n + 1 : j # 1 => j - 1 \in 1 .. n /\ q[j] = p[j - 1]
  OBVIOUS
<1> HIDE DEF q
<1>6. \A i, j \in 1 .. n + 1 : q[i] = q[j] => i = j
  BY <1>3, <1>4, <1>5 DEF Spells
<1>7. ASSUME NEW i \in 1 .. n + 1 PROVE m.next[q[i]] = IF i = n + 1 THEN nil ELSE q[i + 1]
  <2>1. CASE i = 1
    <3>1. m.next[q[i]] = l.head
      BY <1>1, <1>4, <2>1 DEF List
    <3>2. QED
      BY <1>3, <1>4, <2>1, <3>1 DEF Spells
  <2>2. CASE i # 1
    <3>1. i - 1 \in 1 .. n /\ q[i] = p[i - 1] /\ q[i] # c
      BY <1>3, <1>5, <2>2
    <3>2. m.next[q[i]] = l.next[p[i - 1]]
      BY <1>1, <1>3, <3>1 DEF List
    <3>3. i # n + 1 => q[i + 1] = p[i]
      BY <1>4
    <3>4. QED
      BY <1>3, <3>1, <3>2, <3>3 DEF Spells
  <2>3. QED
    BY <2>1, <2>2
<1>8. Spells(m, n + 1, q)
  <2>1. m.head = IF n + 1 = 0 THEN nil ELSE q[1]
    BY <1>1, <1>4
  <2>2. QED
    BY <1>4, <1>6, <1>7, <2>1 DEF Spells
<1>9. \A i \in 1 .. n + 1 : q[i] \in S \cup {c}
  BY <1>3, <1>4, <1>5
<1>10. ~ opt_gc_debug => \A d \in S \cup {c} : \E i \in 1 .. n + 1 : q[i] = d
  <2>1. \A i \in 1 .. n : i + 1 \in 1 .. n + 1
    OBVIOUS
  <2>2. QED
    BY <1>3, <1>4, <2>1
<1>11. Lists(m, S \cup {c})
  <2> DEFINE k == n + 1
  <2>1. k \in Nat /\ q \in [1 .. k -> Cell]
    BY <1>4
  <2>2. /\ Spells(m, k, q)
        /\ \A i \in 1 .. k : q[i] \in S \cup {c}
        /\ ~ opt_gc_debug => \A d \in S \cup {c} : \E i \in 1 .. k : q[i] = d
    BY <1>8, <1>9, <1>10
  <2> HIDE DEF k
  <2>3. QED
    BY <2>1, <2>2 DEF Lists
<1>12. QED
  BY <1>1, <1>11 DEF m

\* Appended to the list at a cell in the middle of it, a cell is its last; at
\* a cell that is not on it, it is not on the list either.
LEMMA AppendKeeps ==
  ASSUME BlocksAreDisjoint, opt_gc_debug,
         NEW l \in List, NEW S \in SUBSET Cell, NEW c \in Cell \ S, Lists(l, S)
  PROVE  AppendTail(l, c) \in List /\ Lists(AppendTail(l, c), S \cup {c})
<1> DEFINE m == AppendTail(l, c)
<1>1. l.tail # FreeListVar => l.tail \in Cell
  BY DEF List
<1>2. m \in List
  BY <1>1 DEF AppendTail, List
<1>3. PICK n \in Nat : \E p \in [1 .. n -> Cell] : Spells(l, n, p) /\ \A i \in 1 .. n : p[i] \in S
  BY DEF Lists
<1>4. PICK p \in [1 .. n -> Cell] : Spells(l, n, p) /\ \A i \in 1 .. n : p[i] \in S
  BY <1>3
<1>5. SUFFICES \E k \in Nat : \E q \in [1 .. k -> Cell] :
                 Spells(m, k, q) /\ \A i \in 1 .. k : q[i] \in S \cup {c}
  BY <1>2 DEF Lists
<1>6. CASE l.tail = FreeListVar
  <2> DEFINE q == [i \in 1 .. 1 |-> c]
  <2>1. m.head = c /\ m.next[c] = nil
    BY <1>6 DEF AppendTail, List
  <2>2. q \in [1 .. 1 -> Cell] /\ q[1] = c /\ \A i \in 1 .. 1 : i = 1
    OBVIOUS
  <2> HIDE DEF m, q
  <2>3. Spells(m, 1, q)
    BY <2>1, <2>2 DEF Spells
  <2>4. QED
    BY <2>2, <2>3
<1>7. CASE l.tail # FreeListVar
  <2>1. m.head = l.head /\ m.next = [[l.next EXCEPT ![l.tail] = c] EXCEPT ![c] = nil]
    BY <1>7 DEF AppendTail, List
  <2>2. \A d \in Cell : m.next[d] = IF d = c THEN nil ELSE IF d = l.tail THEN c ELSE l.next[d]
    BY <1>1, <1>7, <2>1 DEF List
  <2> HIDE DEF m
  <2>3. CASE \E j \in 1 .. n : p[j] = l.tail
    <3>1. PICK j \in 1 .. n : p[j] = l.tail
      BY <2>3
    <3> DEFINE q == [i \in 1 .. j + 1 |-> IF i = j + 1 THEN c ELSE p[i]]
    <3>2. q \in [1 .. j + 1 -> Cell] /\ q[j + 1] = c /\ \A i \in 1 .. j : q[i] = p[i] /\ p[i] # c
      BY <1>4
    <3>3. \A i \in 1 .. j + 1 : i # j + 1 => i \in 1 .. j
      OBVIOUS
    <3> HIDE DEF q
    <3>4. \A i, k \in 1 .. j + 1 : q[i] = q[k] => i = k
      BY <1>4, <3>1, <3>2, <3>3 DEF Spells
    <3>5. ASSUME NEW i \in 1 .. j + 1 PROVE m.next[q[i]] = IF i = j + 1 THEN nil ELSE q[i + 1]
      <4>1. CASE i = j + 1
        BY <2>2, <3>2, <4>1
      <4>2. CASE i = j
        BY <2>2, <3>1, <3>2, <4>2
      <4>3. CASE i \in 1 .. j - 1
        <5>1. q[i] = p[i] /\ q[i + 1] = p[i + 1] /\ q[i] # c /\ q[i] # l.tail
          BY <1>4, <3>1, <3>2, <4>3 DEF Spells
        <5>2. l.next[p[i]] = p[i + 1]
          BY <1>4, <3>1, <4>3 DEF Spells
        <5>3. QED
          BY <2>2, <3>2, <4>3, <5>1, <5>2
      <4>4. QED
        BY <4>1, <4>2, <4>3
    <3>6. m.head = q[1]
      BY <1>4, <2>1, <3>1, <3>2 DEF Spells
    <3>7. Spells(m, j + 1, q) /\ j + 1 \in Nat
      BY <3>2, <3>4, <3>5, <3>6 DEF Spells
    <3>8. \A i \in 1 .. j + 1 : q[i] \in S \cup {c}
      BY <1>4, <3>2, <3>3
    <3>9. QED
      BY <3>2, <3>7, <3>8
  <2>4. CASE \A j \in 1 .. n : p[j] # l.tail
    <3>1. \A i \in 1 .. n : m.next[p[i]] = l.next[p[i]]
      BY <1>4, <2>2, <2>4
    <3>2. Spells(m, n, p)
      BY <1>4, <2>1, <3>1 DEF Spells
    <3>3. QED
      BY <1>4, <3>2
  <2>5. QED
    BY <2>3, <2>4
<1>8. QED
  BY <1>6, <1>7

-----------------------------------------------------------------------------
\* N cells that are not in S, and the lists g[0] .. g[N] as each is added in turn.
NewCells(cells, N, S) ==
  cells \in [1 .. N -> Cell \ S] /\ \A i, j \in 1 .. N : cells[i] = cells[j] => i = j

AddsEach(g, l, cells, N) ==
  /\ g[0] = l
  /\ \A k \in 1 .. N :
       \/ g[k] = Push(g[k - 1], cells[k])
       \/ opt_gc_debug /\ g[k] = AppendTail(g[k - 1], cells[k])

\* Cells that are added one by one are on the list.
LEMMA AllKept ==
  ASSUME BlocksAreDisjoint, opt_gc_debug \in BOOLEAN,
         NEW l \in List, NEW S \in SUBSET Cell, Lists(l, S),
         NEW N \in Nat, NEW cells, NewCells(cells, N, S), NEW g, AddsEach(g, l, cells, N)
  PROVE  g[N] \in List /\ Lists(g[N], S \cup Range(cells))
<1> DEFINE Added(k) == {cells[i] : i \in 1 .. k}
           Kept(k) == g[k] \in List /\ Lists(g[k], S \cup Added(k))
           T == {k \in Nat : k <= N => Kept(k)}
<1> USE DEF NewCells, AddsEach
<1>1. 0 \in T
  <2>1. S \cup Added(0) = S
    OBVIOUS
  <2> HIDE DEF Added
  <2>2. QED
    BY <2>1
<1>2. ASSUME NEW k \in Nat, k \in T PROVE k + 1 \in T
  <2>1. SUFFICES ASSUME k + 1 <= N PROVE Kept(k + 1)
    OBVIOUS
  <2>2. Kept(k)
    BY <1>2, <2>1
  <2> DEFINE c == cells[k + 1]
             R == S \cup Added(k)
  <2>3. c \in Cell \ R /\ R \in SUBSET Cell
    <3>1. \A i \in 1 .. k : cells[i] # c /\ cells[i] \in Cell
      BY <2>1
    <3>2. c \in Cell \ S
      BY <2>1
    <3>3. QED
      BY <3>1, <3>2
  <2>4. Added(k + 1) = Added(k) \cup {c}
    <3>1. \A i \in 1 .. k + 1 : i = k + 1 \/ i \in 1 .. k
      OBVIOUS
    <3>2. \A i \in 1 .. k : i \in 1 .. k + 1
      OBVIOUS
    <3>3. k + 1 \in 1 .. k + 1
      OBVIOUS
    <3>4. QED
      BY <3>1, <3>2, <3>3
  <2>5. k + 1 \in 1 .. N /\ (k + 1) - 1 = k
    BY <2>1
  <2>6. \/ g[k + 1] = Push(g[k], c)
        \/ opt_gc_debug /\ g[k + 1] = AppendTail(g[k], c)
    BY <2>5
  <2>7. g[k] \in List /\ Lists(g[k], R)
    BY <2>2
  <2>8. S \cup Added(k + 1) = R \cup {c}
    BY <2>4
  <2> HIDE DEF c, R, Added
  <2>10. CASE g[k + 1] = Push(g[k], c)
    <3>1. \A m \in List : Lists(m, R) => Push(m, c) \in List /\ Lists(Push(m, c), R \cup {c})
      BY <2>3, PushKeeps
    <3>2. QED
      BY <2>7, <2>8, <2>10, <3>1
  <2>11. CASE opt_gc_debug /\ g[k + 1] = AppendTail(g[k], c)
    <3>1. \A m \in List :
            Lists(m, R) => AppendTail(m, c) \in List /\ Lists(AppendTail(m, c), R \cup {c})
      BY <2>3, <2>11, AppendKeeps
    <3>2. g[k + 1] \in List /\ Lists(g[k + 1], R \cup {c})
      BY <2>7, <2>11, <3>1
    <3>3. QED
      BY <2>8, <2>11, <3>2
  <2>12. QED
    BY <2>6, <2>10, <2>11
<1> HIDE DEF T
<1>3. N \in T
  BY <1>1, <1>2, SetInduction
<1>4. Range(cells) = Added(N)
  BY DEF Range
<1>5. QED
  BY <1>3, <1>4 DEF T

\* more() and the sweep add cells one by one.
LEMMA EachPushed ==
  ASSUME NEW l \in List, NEW cells \in Seq(Cell)
  PROVE  \E g : AddsEach(g, l, cells, Len(cells)) /\ Each(Push, l, cells) = g[Len(cells)]
<1> DEFINE N == Len(cells)
           F == [p \in (1 .. N) \X List |-> Push(p[2], cells[p[1]])]
           Is(g) == g = [k \in 0 .. N |-> IF k = 0 THEN l ELSE Push(g[k - 1], cells[k])]
<1>1. N \in Nat /\ \A k \in 1 .. N : cells[k] \in Cell
  OBVIOUS
<1>2. \A k \in 1 .. N, m \in List : Push(m, cells[k]) \in List /\ F[<<k, m>>] = Push(m, cells[k])
  BY <1>1 DEF Push, List
<1>3. F \in Steps(N, List)
  BY <1>2 DEF Steps
<1> HIDE DEF F, N
<1>4. PICK g : Solves(g, l, F, N, List)
  BY <1>1, <1>3, Recursion
<1>5. Is(g)
  <2>1. g \in [0 .. N -> List] /\ g[0] = l
    BY <1>4 DEF Solves
  <2>2. ASSUME NEW k \in 0 .. N
        PROVE g[k] = IF k = 0 THEN l ELSE Push(g[k - 1], cells[k])
    <3>1. CASE k = 0
      BY <2>1, <3>1
    <3>2. CASE k \in 1 .. N
      <4>1. g[k - 1] \in List
        BY <1>1, <2>1, <3>2
      <4>2. g[k] = F[<<k, g[k - 1]>>]
        BY <1>4, <3>2 DEF Solves
      <4>3. k # 0
        BY <3>2
      <4>4. QED
        BY <1>2, <3>2, <4>1, <4>2, <4>3
    <3>3. QED
      BY <3>1, <3>2
  <2>3. QED
    BY <2>1, <2>2
<1>6. Is(CHOOSE h : Is(h))
  <2> HIDE DEF Is
  <2>1. QED
    BY <1>5, Zenon
<1>7. PICK h : Is(h) /\ Each(Push, l, cells) = h[N]
  <2>1. Each(Push, l, cells) = (CHOOSE h : Is(h))[N]
    BY DEF Each, N
  <2> HIDE DEF Is
  <2>2. QED
    BY <1>6, <2>1, Zenon
<1>8. h[0] = l /\ \A k \in 1 .. N : h[k] = Push(h[k - 1], cells[k])
  BY <1>1, <1>7
<1>9. AddsEach(h, l, cells, N)
  BY <1>8, Zenon DEF AddsEach
<1>10. QED
  BY <1>7, <1>9 DEF N

LEMMA EachReleased ==
  ASSUME opt_gc_debug \in BOOLEAN, NEW l \in List, NEW cells \in Seq(Cell)
  PROVE  \E g : AddsEach(g, l, cells, Len(cells)) /\ Each(Release, l, cells) = g[Len(cells)]
<1> DEFINE N == Len(cells)
           F == [p \in (1 .. N) \X List |-> Release(p[2], cells[p[1]])]
           Is(g) == g = [k \in 0 .. N |-> IF k = 0 THEN l ELSE Release(g[k - 1], cells[k])]
<1>1. N \in Nat /\ \A k \in 1 .. N : cells[k] \in Cell
  OBVIOUS
<1>2. \A k \in 1 .. N, m \in List : Release(m, cells[k]) \in List /\ F[<<k, m>>] = Release(m, cells[k])
  <2>1. \A c \in Cell, m \in List : Push(m, c) \in List
    BY DEF Push, List
  <2>2. ASSUME NEW c \in Cell, NEW m \in List PROVE AppendTail(m, c) \in List
    <3>1. m.tail # FreeListVar => m.tail \in Cell
      BY DEF List
    <3>2. QED
      BY <3>1 DEF AppendTail, List
  <2>3. \A c \in Cell, m \in List : Release(m, c) \in List
    BY <2>1, <2>2, Zenon DEF Release
  <2>4. QED
    BY <1>1, <2>3
<1>3. F \in Steps(N, List)
  BY <1>2 DEF Steps
<1> HIDE DEF F, N
<1>4. PICK g : Solves(g, l, F, N, List)
  BY <1>1, <1>3, Recursion
<1>5. Is(g)
  <2>1. g \in [0 .. N -> List] /\ g[0] = l
    BY <1>4 DEF Solves
  <2>2. ASSUME NEW k \in 0 .. N
        PROVE g[k] = IF k = 0 THEN l ELSE Release(g[k - 1], cells[k])
    <3>1. CASE k = 0
      BY <2>1, <3>1
    <3>2. CASE k \in 1 .. N
      <4>1. g[k - 1] \in List
        BY <1>1, <2>1, <3>2
      <4>2. g[k] = F[<<k, g[k - 1]>>]
        BY <1>4, <3>2 DEF Solves
      <4>3. k # 0
        BY <3>2
      <4>4. QED
        BY <1>2, <3>2, <4>1, <4>2, <4>3
    <3>3. QED
      BY <3>1, <3>2
  <2>3. QED
    BY <2>1, <2>2
<1>6. Is(CHOOSE h : Is(h))
  <2> HIDE DEF Is
  <2>1. QED
    BY <1>5, Zenon
<1>7. PICK h : Is(h) /\ Each(Release, l, cells) = h[N]
  <2>1. Each(Release, l, cells) = (CHOOSE h : Is(h))[N]
    BY DEF Each, N
  <2> HIDE DEF Is
  <2>2. QED
    BY <1>6, <2>1, Zenon
<1>8. h[0] = l /\ \A k \in 1 .. N : h[k] = Release(h[k - 1], cells[k])
  BY <1>1, <1>7
<1>9. AddsEach(h, l, cells, N)
  BY <1>8, Zenon DEF AddsEach, Release
<1>10. QED
  BY <1>7, <1>9 DEF N

-----------------------------------------------------------------------------
\* A block is added to a list.
LEMMA MoreKeeps ==
  ASSUME BlocksAreDisjoint, opt_gc_debug \in BOOLEAN, blocks \in Nat, blocks < Len(Blocks),
         NEW l \in List, NEW S \in SUBSET Heap, Lists(l, S)
  PROVE  /\ More(l) \in List
         /\ Lists(More(l), S \cup BlockCells(blocks + 1))
<1> DEFINE new == Blocks[blocks + 1]
           N == Len(new)
<1>1. blocks + 1 \in 1 .. Len(Blocks)
  BY DEF BlocksAreDisjoint
<1>2. new \in Seq(Cell) /\ N = HEAP_SIZE /\ IsInjective(new) /\ N \in Nat \ {0}
  BY <1>1 DEF BlocksAreDisjoint
<1>3. BlockCells(blocks + 1) = Range(new)
  BY <1>2 DEF BlockCells, Range
<1>4. \A i \in 1 .. blocks : BlockCells(i) \cap BlockCells(blocks + 1) = {}
  <2>1. \A i \in 1 .. blocks : i \in 1 .. Len(Blocks) /\ i # blocks + 1
    BY <1>1
  <2>2. QED
    BY <1>1, <2>1 DEF BlocksAreDisjoint
<1>5. BlockCells(blocks + 1) \cap S = {}
  BY <1>4 DEF Heap
<1>6. S \in SUBSET Cell
  BY <1>1 DEF Heap, Cell
<1> HIDE DEF new, N
<1>7. NewCells(new, N, S)
  <2>1. new \in [1 .. N -> Cell]
    BY <1>2 DEF N
  <2>2. \A i \in 1 .. N : new[i] \notin S
    BY <1>2, <1>3, <1>5 DEF Range, N
  <2>3. QED
    BY <1>2, <2>1, <2>2 DEF IsInjective, NewCells
<1>8. PICK g : AddsEach(g, l, new, N) /\ Each(Push, l, new) = g[N]
  BY <1>2, EachPushed DEF N
<1> DEFINE m == Each(Push, l, new)
<1>9. m \in List /\ Lists(m, S \cup BlockCells(blocks + 1))
  <2>1. g[N] \in List /\ Lists(g[N], S \cup Range(new))
    <3>1. N \in Nat /\ AddsEach(g, l, new, N)
      BY <1>2, <1>8
    <3>2. QED
      BY <1>6, <1>7, <3>1, AllKept
  <2>2. QED
    BY <1>3, <1>8, <2>1
<1>10. More(l) = [m EXCEPT !.tail = new[1]] /\ new[1] \in Cell
  <2>1. new[1] \in Cell
    BY <1>2 DEF N
  <2>2. QED
    BY <2>1 DEF More, new
<1> HIDE DEF m
<1>11. /\ More(l) \in List
       /\ More(l).head = m.head /\ More(l).next = m.next
  BY <1>9, <1>10 DEF List
<1>12. Lists(More(l), S \cup BlockCells(blocks + 1))
  <2>1. \A n, p : Spells(m, n, p) => Spells(More(l), n, p)
    BY <1>11 DEF Spells
  <2>2. QED
    BY <1>9, <2>1 DEF Lists
<1>13. QED
  BY <1>9, <1>11, <1>12

\* The dead are swept: free_tail is set first, and only if the list is empty.
LEMMA SweepKeeps ==
  ASSUME BlocksAreDisjoint, IInv, NEW some \in SUBSET (Heap \ free), NEW dead \in SetToSeqs(some),
         IsFiniteSet(some)
  PROVE  /\ Sweep(dead) \in List
         /\ Lists(Sweep(dead), free \cup Range(dead))
         /\ Range(dead) \subseteq Heap
<1> DEFINE N == Cardinality(some)
           l == IF list.head = nil THEN [list EXCEPT !.tail = FreeListVar] ELSE list
<1>1. N \in Nat
  BY FS_CardinalityType
<1>2. /\ dead \in [1 .. N -> some]
      /\ \A i, j \in 1 .. N : i # j => dead[i] # dead[j]
  BY DEF SetToSeqs
<1>3. Heap \subseteq Cell
  BY DEF IInv, TypeOK, Heap, Cell
<1> HIDE DEF N
<1>4. dead \in Seq(Cell) /\ Len(dead) = N /\ Range(dead) \subseteq Heap
  <2>1. dead \in [1 .. N -> Cell]
    BY <1>2, <1>3
  <2>2. dead \in Seq(Cell) /\ Len(dead) = N
    BY <1>1, <2>1
  <2>3. QED
    BY <1>2, <2>2 DEF Range
<1>5. NewCells(dead, N, free) /\ free \in SUBSET Cell
  BY <1>2, <1>3 DEF NewCells, IInv, TypeOK
<1>6. l \in List /\ l.next = list.next /\ l.head = list.head
  BY DEF IInv, TypeOK, List
<1>7. Lists(l, free)
  <2> HIDE DEF l
  <2>1. \A n, p : Spells(list, n, p) => Spells(l, n, p)
    BY <1>6 DEF Spells
  <2>2. QED
    BY <2>1 DEF Lists, IInv
<1>8. opt_gc_debug \in BOOLEAN
  BY DEF IInv, TypeOK
<1>9. Sweep(dead) = Each(Release, l, dead)
  BY DEF Sweep
<1> HIDE DEF l
<1>10. PICK g : AddsEach(g, l, dead, N) /\ Each(Release, l, dead) = g[N]
  BY <1>4, <1>6, <1>8, EachReleased
<1>11. AddsEach(g, l, dead, N) /\ Sweep(dead) = g[N]
  BY <1>9, <1>10
<1>12. g[N] \in List /\ Lists(g[N], free \cup Range(dead))
  BY <1>1, <1>5, <1>6, <1>7, <1>8, <1>11, AllKept
<1>13. QED
  BY <1>4, <1>6, <1>11, <1>12

\* make_obj() takes the first cell off the list.
LEMMA TakeKeeps ==
  ASSUME BlocksAreDisjoint, IInv, Take
  PROVE  list' \in List /\ Lists(list', free')
<1>1. PICK n \in Nat : \E p \in [1 .. n -> Cell] :
        /\ Spells(list, n, p)
        /\ \A i \in 1 .. n : p[i] \in free
        /\ ~ opt_gc_debug => \A c \in free : \E i \in 1 .. n : p[i] = c
  BY DEF IInv, Lists
<1>2. PICK p \in [1 .. n -> Cell] :
        /\ Spells(list, n, p)
        /\ \A i \in 1 .. n : p[i] \in free
        /\ ~ opt_gc_debug => \A c \in free : \E i \in 1 .. n : p[i] = c
  BY <1>1
<1>3. n # 0 /\ list.head = p[1] /\ 1 \in 1 .. n
  BY <1>2 DEF Take, Spells
<1>4. list.next[p[1]] = IF n = 1 THEN nil ELSE p[2]
  BY <1>2, <1>3 DEF Spells
<1>5. list \in List /\ p[1] \in Cell
  BY <1>3 DEF IInv, TypeOK
<1>6. list' = [list EXCEPT !.head = list.next[p[1]]]
  BY <1>3 DEF Take
<1>7. /\ list' \in List /\ list'.next = list.next
      /\ list'.head = IF n = 1 THEN nil ELSE p[2]
  BY <1>4, <1>5, <1>6 DEF List
<1> DEFINE k == n - 1
           q == [i \in 1 .. k |-> p[i + 1]]
<1>8. k \in Nat /\ \A i \in 1 .. k : i + 1 \in 1 .. n /\ i + 1 # 1
  BY <1>3
<1>9. q \in [1 .. k -> Cell] /\ \A i \in 1 .. k : q[i] = p[i + 1]
  BY <1>8
<1>10. \A j \in 1 .. n : j # 1 => j - 1 \in 1 .. k /\ q[j - 1] = p[j]
  BY <1>8
<1>11. (k = 0) = (n = 1) /\ \A i \in 1 .. k : (i = k) = (i + 1 = n)
  BY <1>3
<1> HIDE DEF k, q
<1>12. Spells(list', k, q)
  <2>1. list'.head = IF k = 0 THEN nil ELSE q[1]
    BY <1>7, <1>8, <1>9, <1>11
  <2>2. ASSUME NEW i \in 1 .. k, NEW j \in 1 .. k, q[i] = q[j] PROVE i = j
    <3>1. i + 1 \in 1 .. n /\ j + 1 \in 1 .. n /\ p[i + 1] = p[j + 1]
      BY <1>8, <1>9, <2>2
    <3>2. i + 1 = j + 1
      BY <1>2, <3>1 DEF Spells
    <3>3. QED
      BY <3>2
  <2>3. ASSUME NEW i \in 1 .. k PROVE list'.next[q[i]] = IF i = k THEN nil ELSE q[i + 1]
    <3>1. list'.next[q[i]] = IF i = k THEN nil ELSE p[(i + 1) + 1]
      <4>1. i + 1 \in 1 .. n /\ (i = k) = (i + 1 = n)
        BY <1>8, <1>11
      <4>2. list.next[p[i + 1]] = IF i + 1 = n THEN nil ELSE p[(i + 1) + 1]
        BY <1>2, <4>1 DEF Spells
      <4>3. QED
        BY <1>7, <1>9, <4>1, <4>2
    <3>2. i # k => q[i + 1] = p[(i + 1) + 1]
      BY <1>8, <1>9
    <3>3. QED
      BY <3>1, <3>2
  <2>4. QED
    BY <1>9, <2>1, <2>2, <2>3 DEF Spells
<1>13. free' = free \ {p[1]}
  BY <1>3 DEF Take
<1>14. \A i \in 1 .. k : q[i] \in free'
  BY <1>2, <1>3, <1>8, <1>9, <1>13 DEF Spells
<1>15. ~ opt_gc_debug => \A c \in free' : \E i \in 1 .. k : q[i] = c
  BY <1>2, <1>10, <1>13
<1>16. QED
  BY <1>2, <1>3, <1>7, <1>8, <1>9, <1>12, <1>14, <1>15 DEF Lists

-----------------------------------------------------------------------------
\* What a step does with the list, whatever it is.
StepKeeps ==
  /\ list' \in List /\ free' \in SUBSET Heap' /\ blocks' \in 0 .. Len(Blocks)
  /\ Lists(list', free')

\* more() for a list l on which are the cells of S.
LEMMA ExtendKeeps ==
  ASSUME BlocksAreDisjoint, opt_gc_debug \in BOOLEAN, blocks \in Nat,
         NEW l \in List, NEW S \in SUBSET Heap, Lists(l, S), Extend(l, S)
  PROVE  StepKeeps
<1>1. /\ blocks < Len(Blocks) /\ list' = More(l) /\ free' = S \cup BlockCells(blocks + 1)
      /\ blocks' = blocks + 1
  BY DEF Extend
<1>2. list' \in List /\ Lists(list', free')
  BY <1>1, MoreKeeps
<1>3. Heap' = Heap \cup BlockCells(blocks + 1)
  <2>1. 1 .. blocks + 1 = (1 .. blocks) \cup {blocks + 1}
    OBVIOUS
  <2>2. Heap' = UNION {BlockCells(i) : i \in 1 .. blocks + 1}
    BY <1>1 DEF Heap, BlockCells
  <2>3. QED
    BY <2>1, <2>2 DEF Heap
<1>4. free' \in SUBSET Heap' /\ blocks' \in 0 .. Len(Blocks)
  BY <1>1, <1>3 DEF BlocksAreDisjoint
<1>5. QED
  BY <1>2, <1>4 DEF StepKeeps

LEMMA GcKeeps ==
  ASSUME BlocksAreDisjoint, IInv, NEW full \in BOOLEAN, NEW some \in SUBSET (Heap \ free),
         NEW dead \in SetToSeqs(some), Gc(full, dead)
  PROVE  StepKeeps
<1>1. IsFiniteSet(some)
  <2>1. some \in SUBSET Cell
    BY DEF IInv, TypeOK, Heap, Cell
  <2>2. QED
    BY <2>1, FS_Subset DEF BlocksAreDisjoint
<1>2. /\ Sweep(dead) \in List
      /\ Lists(Sweep(dead), free \cup Range(dead))
      /\ Range(dead) \subseteq Heap
  BY <1>1, SweepKeeps
<1>3. opt_gc_debug \in BOOLEAN /\ blocks \in Nat /\ free \in SUBSET Heap
      /\ blocks \in 0 .. Len(Blocks)
  BY DEF IInv, TypeOK
<1>4. CASE Extend(Sweep(dead), free \cup Range(dead))
  <2>1. free \cup Range(dead) \in SUBSET Heap
    BY <1>2, <1>3
  <2>2. QED
    BY <1>2, <1>3, <1>4, <2>1, ExtendKeeps
<1>5. CASE list' = Sweep(dead) /\ free' = free \cup Range(dead) /\ UNCHANGED blocks
  <2>1. Heap' = Heap
    BY <1>5 DEF Heap, BlockCells
  <2>2. QED
    BY <1>2, <1>3, <1>5, <2>1 DEF StepKeeps
<1>6. QED
  BY <1>4, <1>5 DEF Gc

LEMMA Step ==
  ASSUME BlocksAreDisjoint, IInv, Next
  PROVE  StepKeeps
<1>1. opt_gc_debug \in BOOLEAN /\ blocks \in 0 .. Len(Blocks) /\ free \in SUBSET Heap
      /\ list \in List /\ Lists(list, free) /\ blocks \in Nat
  BY DEF IInv, TypeOK
<1>2. CASE Take
  <2>1. Heap' = Heap /\ free' \subseteq free /\ blocks' = blocks
    BY <1>2 DEF Take, Heap, BlockCells
  <2>2. list' \in List /\ Lists(list', free')
    BY <1>2, TakeKeeps
  <2>3. QED
    BY <1>1, <2>1, <2>2 DEF StepKeeps
<1>3. CASE MakeObjMore
  <2>1. Extend(list, free)
    BY <1>3 DEF MakeObjMore
  <2>2. QED
    BY <1>1, <2>1, ExtendKeeps
<1>4. ASSUME NEW full \in BOOLEAN, NEW n \in 0 .. MaxDead, NEW some \in kSubset(n, Heap \ free),
             NEW dead \in SetToSeqs(some), Gc(full, dead)
      PROVE  StepKeeps
  <2>1. some \in SUBSET (Heap \ free)
    BY DEF kSubset
  <2>2. QED
    BY <1>4, <2>1, GcKeeps
<1>5. QED
  BY <1>2, <1>3, <1>4 DEF Next

\* The links from free_list on spell out a list of free cells, all of them
\* unless debugging, after any sequence of allocations and collections.
THEOREM Invariance ==
  ASSUME BlocksAreDisjoint
  PROVE  Spec => []IInv
<1>1. Init => IInv
  <2> SUFFICES ASSUME Init PROVE IInv
    OBVIOUS
  <2>1. list \in List /\ list.head = nil
    BY DEF Init, List
  <2>2. free = {} /\ 0 \in 0 .. Len(Blocks)
    BY DEF Init, BlocksAreDisjoint
  <2>3. Lists(list, free)
    <3> DEFINE p == [i \in 1 .. 0 |-> nil]
    <3>1. p \in [1 .. 0 -> Cell] /\ \A i \in 1 .. 0 : FALSE
      OBVIOUS
    <3> HIDE DEF p
    <3>2. Spells(list, 0, p)
      BY <2>1, <3>1 DEF Spells
    <3>3. QED
      BY <2>2, <3>1, <3>2 DEF Lists
  <2>4. QED
    BY <2>1, <2>2, <2>3 DEF Init, IInv, TypeOK
<1>2. IInv /\ [Next]_vars => IInv'
  <2> SUFFICES ASSUME IInv, [Next]_vars PROVE IInv'
    OBVIOUS
  <2>1. CASE Next
    <3>1. opt_gc_debug' = opt_gc_debug
      BY <2>1 DEF Next
    <3>2. Lists(list, free)'
      BY <2>1, <3>1, Step DEF StepKeeps, Lists, Spells
    <3>3. TypeOK'
      BY <2>1, <3>1, Step DEF StepKeeps, TypeOK, List, IInv
    <3>4. QED
      BY <3>2, <3>3 DEF IInv
  <2>2. CASE UNCHANGED vars
    <3>1. list' = list /\ free' = free /\ blocks' = blocks /\ opt_gc_debug' = opt_gc_debug
      BY <2>2 DEF vars
    <3>2. Heap' = Heap
      BY <3>1 DEF Heap, BlockCells
    <3>3. Lists(list, free)'
      BY <3>1 DEF IInv, Lists, Spells
    <3>4. TypeOK'
      BY <3>1, <3>2 DEF IInv, TypeOK, List
    <3>5. QED
      BY <3>3, <3>4 DEF IInv
  <2>3. QED
    BY <2>1, <2>2
<1>3. QED
  BY <1>1, <1>2, PTL DEF Spec

-----------------------------------------------------------------------------
\* Walk visits the cells that the links spell out, and then nothing.
LEMMA WalkIs ==
  ASSUME BlocksAreDisjoint, NEW n \in Nat, NEW p \in [1 .. n -> Cell], Spells(list, n, p),
         n <= Cardinality(Cell), NEW k \in 0 .. Cardinality(Cell)
  PROVE  Walk[k] = IF k < n THEN p[k + 1] ELSE nil
<1> DEFINE N == Cardinality(Cell)
           next == [c \in Cell \cup {nil} |-> IF c = nil THEN nil ELSE list.next[c]]
           At(j) == IF j < n THEN p[j + 1] ELSE nil
           Is(w) == w = [j \in 0 .. N |-> IF j = 0 THEN list.head ELSE next[w[j - 1]]]
<1>1. N \in Nat /\ nil \notin Cell
  BY FS_CardinalityType DEF BlocksAreDisjoint
<1>2. At(0) = list.head
  BY DEF Spells
<1>3. ASSUME NEW j \in 1 .. N PROVE At(j) = next[At(j - 1)]
  <2>1. CASE j - 1 < n
    <3>1. j \in 1 .. n /\ At(j - 1) = p[j] /\ p[j] \in Cell
      BY <2>1
    <3>2. list.next[p[j]] = At(j)
      BY <3>1 DEF Spells
    <3>3. next[p[j]] = list.next[p[j]]
      BY <1>1, <3>1
    <3> HIDE DEF At, next
    <3>4. QED
      BY <3>1, <3>2, <3>3
  <2>2. CASE ~ (j - 1 < n)
    <3>1. At(j - 1) = nil /\ At(j) = nil
      BY <2>2
    <3>2. next[nil] = nil
      OBVIOUS
    <3> HIDE DEF At, next
    <3>3. QED
      BY <3>1, <3>2
  <2>3. QED
    BY <2>1, <2>2
<1> HIDE DEF next, N
<1>4. Is([j \in 0 .. N |-> At(j)])
  <2> DEFINE w == [j \in 0 .. N |-> At(j)]
  <2>1. ASSUME NEW j \in 0 .. N PROVE w[j] = IF j = 0 THEN list.head ELSE next[w[j - 1]]
    <3>1. CASE j = 0
      BY <1>2, <3>1
    <3>2. CASE j \in 1 .. N
      <4>1. w[j] = At(j) /\ w[j - 1] = At(j - 1) /\ j # 0
        BY <1>1, <3>2
      <4> HIDE DEF w, At
      <4>2. QED
        BY <1>3, <3>2, <4>1
    <3>3. QED
      BY <1>1, <3>1, <3>2
  <2>2. QED
    BY <2>1
<1> HIDE DEF At
<1>5. ASSUME NEW w, Is(w) PROVE w[k] = At(k)
  <2> DEFINE T == {j \in Nat : j <= N => w[j] = At(j)}
  <2>1. 0 \in T
    BY <1>1, <1>2, <1>5
  <2>2. ASSUME NEW j \in Nat, j \in T PROVE j + 1 \in T
    <3>1. CASE j + 1 <= N
      <4>1. j + 1 \in 1 .. N /\ (j + 1) - 1 = j /\ w[j] = At(j)
            /\ j + 1 \in 0 .. N /\ j + 1 # 0
        BY <1>1, <2>2, <3>1
      <4>2. \A i \in 0 .. N : w[i] = IF i = 0 THEN list.head ELSE next[w[i - 1]]
        BY <1>5
      <4>3. w[j + 1] = next[w[j]]
        BY <4>1, <4>2
      <4>4. QED
        BY <1>3, <4>1, <4>3
    <3>2. QED
      BY <3>1
  <2> HIDE DEF T
  <2>3. Nat \subseteq T
    BY <2>1, <2>2, SetInduction
  <2>4. QED
    BY <1>1, <2>3 DEF T, N
<1>6. Is(CHOOSE w : Is(w))
  <2> HIDE DEF Is
  <2>1. QED
    BY <1>4, Zenon
<1>7. (CHOOSE w : Is(w))[k] = At(k)
  <2> HIDE DEF Is
  <2>2. QED
    BY <1>5, <1>6
<1>8. QED
  BY <1>7 DEF Walk, N, next, At

LEMMA ListIsFreeHolds ==
  ASSUME BlocksAreDisjoint, IInv
  PROVE  ListIsFree
<1>1. PICK n \in Nat : \E p \in [1 .. n -> Cell] :
        /\ Spells(list, n, p)
        /\ \A i \in 1 .. n : p[i] \in free
        /\ ~ opt_gc_debug => \A c \in free : \E i \in 1 .. n : p[i] = c
  BY DEF IInv, Lists
<1>2. PICK p \in [1 .. n -> Cell] :
        /\ Spells(list, n, p)
        /\ \A i \in 1 .. n : p[i] \in free
        /\ ~ opt_gc_debug => \A c \in free : \E i \in 1 .. n : p[i] = c
  BY <1>1
<1> DEFINE N == Cardinality(Cell)
<1>3. IsFiniteSet(Cell) /\ nil \notin Cell /\ N \in Nat
  BY FS_CardinalityType DEF BlocksAreDisjoint
<1>4. Cardinality(1 .. n) = n /\ IsFiniteSet(1 .. n)
  BY FS_Interval
<1>5. n <= N
  <2>1. p \in Injection(1 .. n, Cell)
    BY <1>2 DEF Spells, Injection, IsInjective
  <2>2. QED
    BY <1>3, <1>4, <2>1, FS_Injection
<1>6. \A k \in 0 .. N : Walk[k] = IF k < n THEN p[k + 1] ELSE nil
  BY <1>2, <1>5, WalkIs
<1> HIDE DEF N
<1>7. Listed = {p[i] : i \in 1 .. n}
  <2>1. Listed = {Walk[k] : k \in 0 .. N} \ {nil}
    BY DEF Listed, N
  <2>2. ASSUME NEW k \in 0 .. N, Walk[k] # nil PROVE Walk[k] \in {p[i] : i \in 1 .. n}
    <3>1. k < n /\ Walk[k] = p[k + 1] /\ k + 1 \in 1 .. n
      BY <1>6, <2>2
    <3>2. QED
      BY <3>1
  <2>3. ASSUME NEW i \in 1 .. n PROVE p[i] \in {Walk[k] : k \in 0 .. N} /\ p[i] # nil
    <3>1. i - 1 \in 0 .. N /\ Walk[i - 1] = p[i]
      BY <1>3, <1>5, <1>6
    <3>2. QED
      BY <1>3, <3>1
  <2>4. QED
    BY <2>1, <2>2, <2>3
<1>8. Cardinality(Listed) = n
  <2>1. p \in Bijection(1 .. n, Listed)
    BY <1>2, <1>7 DEF Spells, Bijection, Injection, Surjection, IsInjective
  <2>2. ExistsBijection(1 .. n, Listed)
    BY <2>1 DEF ExistsBijection
  <2>3. QED
    BY <2>2, FS_CountingElements
<1>9. Walk[n] = nil
  BY <1>3, <1>5, <1>6
<1>10. QED
  BY <1>2, <1>7, <1>8, <1>9 DEF ListIsFree

\* make_obj never hands out an object in use, nor a cell twice, and finds
\* every free cell for as long as recycled cells are pushed.
THEOREM TheListIsFree ==
  ASSUME BlocksAreDisjoint
  PROVE  Spec => []ListIsFree
<1>1. IInv => ListIsFree
  BY ListIsFreeHolds
<1>2. QED
  BY <1>1, Invariance, PTL

=============================================================================
