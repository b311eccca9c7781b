----------------------------- MODULE TextProofs -----------------------------
(***************************************************************************)
(* Proofs about CharClasses, for every size of the cells, blocks and nodes *)
(* and every class.                                                        *)
(*                                                                         *)
(* What filling a range does to a node at one level follows from what it   *)
(* does at the level below (Good); a set then grows by what an item names  *)
(* (Grows), but for what L0_fill_range misses.                             *)
(***************************************************************************)
EXTENDS CharClasses, Induction

-----------------------------------------------------------------------------
\* Division.
LEMMA DivIs ==
  ASSUME NEW a \in Nat, NEW b \in Nat \ {0}
  PROVE  a \div b \in Nat /\ a % b \in 0 .. b - 1 /\ a = b * (a \div b) + (a % b)
<1>1. PICK q, r : q = a \div b /\ r = a % b
  OBVIOUS
<1>2. q \in Nat /\ r \in 0 .. b - 1 /\ a = b * q + r
  BY <1>1
<1>3. QED
  BY <1>1, <1>2

LEMMA DivUnique ==
  ASSUME NEW a \in Nat, NEW b \in Nat \ {0}, NEW q \in Nat, NEW r \in 0 .. b - 1, a = b * q + r
  PROVE  a \div b = q /\ a % b = r
<1>1. PICK p, s : p = a \div b /\ s = a % b
  OBVIOUS
<1>2. p \in Nat /\ s \in 0 .. b - 1 /\ a = b * p + s
  BY <1>1
<1>3. p = q
  <2>1. ASSUME p < q PROVE FALSE
    <3>1. PICK d \in Nat : q = p + 1 + d
      BY <1>2, <2>1
    <3>2. b * q = b * p + b + b * d /\ b * d >= 0
      BY <1>2, <3>1
    <3>3. QED
      BY <1>2, <3>2
  <2>2. ASSUME q < p PROVE FALSE
    <3>1. PICK d \in Nat : p = q + 1 + d
      BY <1>2, <2>2
    <3>2. b * p = b * q + b + b * d /\ b * d >= 0
      BY <1>2, <3>1
    <3>3. QED
      BY <1>2, <3>2
  <2>3. QED
    BY <1>2, <2>1, <2>2
<1>4. QED
  BY <1>1, <1>2, <1>3

LEMMA DivGrows ==
  ASSUME NEW a \in Nat, NEW c \in Nat, NEW b \in Nat \ {0}, a <= c
  PROVE  a \div b <= c \div b
<1>1. PICK p, q : p = a \div b /\ q = c \div b
  OBVIOUS
<1>2. p \in Nat /\ q \in Nat /\ b * p <= a /\ c < b * q + b
  <2>1. b * p \in Nat /\ b * q \in Nat
    BY <1>1, DivIs
  <2>2. QED
    BY <1>1, <2>1, DivIs
<1>3. ASSUME q < p PROVE FALSE
  <2>1. PICK d \in Nat : p = q + 1 + d
    BY <1>2, <1>3
  <2>2. b * p = b * q + b + b * d /\ b * d \in Nat /\ b * p \in Nat /\ b * q \in Nat
    BY <1>2, <2>1
  <2>3. QED
    BY <1>2, <2>2
<1>4. QED
  BY <1>1, <1>2, <1>3

\* The quotient by a product, and where a number lies in it.
LEMMA DivDiv ==
  ASSUME NEW a \in Nat, NEW b \in Nat \ {0}, NEW d \in Nat \ {0}
  PROVE  a \div (b * d) = (a \div b) \div d
<1>1. PICK q, r : q = a \div b /\ r = a % b
  OBVIOUS
<1>2. q \in Nat /\ r \in 0 .. b - 1 /\ a = b * q + r
  BY <1>1, DivIs
<1>3. PICK u, v : u = q \div d /\ v = q % d
  OBVIOUS
<1>4. u \in Nat /\ v \in 0 .. d - 1 /\ q = d * u + v
  BY <1>2, <1>3, DivIs
<1>5. a = (b * d) * u + (b * v + r)
  BY <1>2, <1>4
<1>6. b * v + r \in 0 .. b * d - 1 /\ b * d \in Nat \ {0}
  <2>1. PICK w \in Nat : d = v + 1 + w
    BY <1>4
  <2>2. b * d = b * v + b + b * w /\ b * w \in Nat /\ b * v \in Nat
    BY <1>4, <2>1
  <2>3. QED
    BY <1>2, <2>2
<1>7. a \div (b * d) = u
  BY <1>4, <1>5, <1>6, DivUnique
<1>8. QED
  BY <1>1, <1>3, <1>7

-----------------------------------------------------------------------------
\* The levels. Reg(k, c) is the entry at level k that c lies in, counted from the
\* beginning of the code.
Reg(k, c) == c \div Entry(k)

LEMMA EntriesAre ==
  /\ CELL \in Nat \ {0, 1} /\ CELLS \in Nat \ {0, 1} /\ Entry(1) = CELL * CELLS
  /\ \A k \in 1 .. 4 : Entry(k) \in Nat \ {0}
  /\ \A k \in 1 .. 3 : Fan(k) \in Nat \ {0, 1} /\ Entry(k + 1) = Entry(k) * Fan(k)
  /\ Entry(1) <= Entry(2) /\ Entry(2) <= Entry(3) /\ Entry(3) <= Entry(4)
<1>1. CELL \in Nat \ {0, 1} /\ CELLS \in Nat \ {0, 1} /\ FAN \in Nat \ {0, 1} /\ FAN3 \in Nat \ {0, 1}
  BY SetSizes
<1>2. \A a, b \in Nat \ {0} : a * b \in Nat \ {0} /\ a <= a * b
  <2> SUFFICES ASSUME NEW a \in Nat \ {0}, NEW b \in Nat \ {0} PROVE a * b \in Nat \ {0} /\ a <= a * b
    OBVIOUS
  <2>1. PICK d \in Nat : b = d + 1
    OBVIOUS
  <2>2. a * b = a * d + a /\ a * d \in Nat
    BY <2>1
  <2>3. QED
    BY <2>2
<1>3. PICK e1, e2, e3, e4 : e1 = CELL * CELLS /\ e2 = e1 * FAN /\ e3 = e2 * FAN /\ e4 = e3 * FAN3
  OBVIOUS
<1>4. e1 \in Nat \ {0} /\ e2 \in Nat \ {0} /\ e3 \in Nat \ {0} /\ e4 \in Nat \ {0} /\ e1 <= e2 /\ e2 <= e3 /\ e3 <= e4
  BY <1>1, <1>2, <1>3
<1>5. Entry(1) = e1 /\ Entry(2) = e2 /\ Entry(3) = e3 /\ Entry(4) = e4
  BY <1>3 DEF Entry
<1>6. Fan(1) = FAN /\ Fan(2) = FAN /\ Fan(3) = FAN3
  BY DEF Fan
<1>7. \A k \in 1 .. 3 : k = 1 \/ k = 2 \/ k = 3
  OBVIOUS
<1>8. \A k \in 1 .. 4 : k = 1 \/ k = 2 \/ k = 3 \/ k = 4
  OBVIOUS
<1>9. 1 + 1 = 2 /\ 2 + 1 = 3 /\ 3 + 1 = 4
  OBVIOUS
<1>10. \A k \in 1 .. 4 : Entry(k) \in Nat \ {0}
  BY <1>4, <1>5, <1>8
<1>11. \A k \in 1 .. 3 : Fan(k) \in Nat \ {0, 1} /\ Entry(k + 1) = Entry(k) * Fan(k)
  BY <1>1, <1>3, <1>5, <1>6, <1>7, <1>9
<1>12. QED
  BY <1>1, <1>3, <1>4, <1>5, <1>10, <1>11

LEMMA EntryIs ==
  ASSUME NEW k \in 1 .. 3
  PROVE  k \in 1 .. 4 /\ Entry(k) \in Nat \ {0} /\ Fan(k) \in Nat \ {0} /\ Entry(k + 1) = Entry(k) * Fan(k)
<1>1. k \in 1 .. 4
  OBVIOUS
<1>2. Entry(k) \in Nat \ {0}
  BY <1>1, EntriesAre
<1>3. Fan(k) \in Nat \ {0, 1} /\ Entry(k + 1) = Entry(k) * Fan(k)
  BY EntriesAre
<1>4. QED
  BY <1>1, <1>2, <1>3

LEMMA FirstIs == Entry(1) \in Nat \ {0} /\ Entry(1) = CELL * CELLS
<1>1. 1 \in 1 .. 3
  OBVIOUS
<1>2. QED
  BY <1>1, EntryIs, EntriesAre

\* Where a character lies: in entry Index of the node it belongs to.
LEMMA RegIs ==
  ASSUME NEW k \in 1 .. 3, NEW c \in Nat
  PROVE  /\ Reg(k, c) \in Nat /\ Reg(k + 1, c) \in Nat /\ Index(k, c) \in 0 .. Fan(k) - 1
         /\ Reg(k, c) = Fan(k) * Reg(k + 1, c) + Index(k, c)
<1>1. Entry(k) \in Nat \ {0} /\ Fan(k) \in Nat \ {0} /\ Entry(k + 1) = Entry(k) * Fan(k)
  BY EntriesAre
<1>2. Reg(k, c) \in Nat
  BY <1>1, DivIs DEF Reg
<1>3. Reg(k + 1, c) = Reg(k, c) \div Fan(k)
  BY <1>1, DivDiv DEF Reg
<1>4. Index(k, c) = Reg(k, c) % Fan(k)
  BY DEF Index, Reg
<1>5. QED
  BY <1>1, <1>2, <1>3, <1>4, DivIs

\* The ends of the entry that c lies in.
Low(k, c) == c - (c % Entry(k))
High(k, c) == c - (c % Entry(k)) + Entry(k) - 1

LEMMA EndsAre ==
  ASSUME NEW k \in 1 .. 4, NEW c \in Nat
  PROVE  /\ Low(k, c) \in Nat /\ High(k, c) \in Nat /\ Low(k, c) <= c /\ c <= High(k, c)
         /\ Reg(k, Low(k, c)) = Reg(k, c) /\ Reg(k, High(k, c)) = Reg(k, c)
         /\ \A d \in Nat : Reg(k, d) = Reg(k, c) <=> Low(k, c) <= d /\ d <= High(k, c)
<1> DEFINE low == Low(k, c)
           high == High(k, c)
<1>1. PICK E, q, r : E = Entry(k) /\ q = c \div E /\ r = c % E
  OBVIOUS
<1>2. E \in Nat \ {0} /\ q \in Nat /\ r \in 0 .. E - 1 /\ c = E * q + r
  BY <1>1, EntriesAre, DivIs
<1>3. PICK p : p = E * q
  OBVIOUS
<1>4. p \in Nat /\ low = p /\ high = p + E - 1
  <2>1. p \in Nat /\ c = p + r
    BY <1>2, <1>3
  <2>2. low = c - r
    BY <1>1 DEF Low
  <2>3. high = c - r + E - 1
    BY <1>1 DEF High
  <2>4. r \in Nat /\ E \in Nat
    BY <1>2
  <2>5. QED
    BY <2>1, <2>2, <2>3, <2>4
<1> HIDE DEF low, high
<1>5. \A s \in 0 .. E - 1 : (p + s) \div E = q
  <2> SUFFICES ASSUME NEW s \in 0 .. E - 1 PROVE (p + s) \div E = q
    OBVIOUS
  <2>1. p + s = E * q + s /\ p + s \in Nat
    BY <1>2, <1>3, <1>4
  <2>2. QED
    BY <1>2, <2>1, DivUnique
<1>6. ASSUME NEW d \in Nat PROVE d \div E = q <=> p <= d /\ d <= p + E - 1
  <2>1. d \div E = q => p <= d /\ d <= p + E - 1
    <3>1. d = E * (d \div E) + (d % E) /\ d % E \in 0 .. E - 1
      BY <1>2, DivIs
    <3>2. QED
      BY <1>2, <1>3, <1>4, <3>1
  <2>2. p <= d /\ d <= p + E - 1 => d \div E = q
    <3>1. SUFFICES ASSUME p <= d /\ d <= p + E - 1 PROVE d \div E = q
      OBVIOUS
    <3>2. d - p \in 0 .. E - 1 /\ p + (d - p) = d
      BY <1>2, <1>4, <3>1
    <3>3. QED
      BY <1>5, <3>2
  <2>3. QED
    BY <2>1, <2>2
<1>7. \A d \in Nat : Reg(k, d) = Reg(k, c) <=> low <= d /\ d <= high
  BY <1>1, <1>4, <1>6 DEF Reg
<1>8. low \in Nat /\ high \in Nat /\ low <= c /\ c <= high /\ low <= high
  BY <1>2, <1>3, <1>4
<1>9. Reg(k, low) = Reg(k, c) /\ Reg(k, high) = Reg(k, c)
  BY <1>7, <1>8
<1>10. QED
  BY <1>7, <1>8, <1>9 DEF low, high

LEMMA IndexIs == \A k \in 1 .. 3, c \in Nat : Index(k, c) \in Nat
<1> SUFFICES ASSUME NEW k \in 1 .. 3, NEW c \in Nat PROVE Index(k, c) \in Nat
  OBVIOUS
<1>1. Index(k, c) \in 0 .. Fan(k) - 1 /\ Fan(k) \in Nat
  BY RegIs, EntryIs
<1>2. QED
  BY <1>1

\* An entry lies in one node, at one place.
LEMMA NodeOf ==
  ASSUME NEW k \in 1 .. 3, NEW c \in Nat, NEW d \in Nat, Reg(k, c) = Reg(k, d)
  PROVE  Index(k, c) = Index(k, d) /\ Reg(k + 1, c) = Reg(k + 1, d)
<1>1. \A x \in Nat : Index(k, x) = Reg(k, x) % Fan(k)
  BY DEF Index, Reg
<1>2. \A x \in Nat : Reg(k + 1, x) = Reg(k, x) \div Fan(k)
  <2>1. Entry(k) \in Nat \ {0} /\ Fan(k) \in Nat \ {0} /\ Entry(k + 1) = Entry(k) * Fan(k)
    BY EntryIs
  <2>2. QED
    BY <2>1, DivDiv DEF Reg
<1>3. QED
  BY <1>1, <1>2

LEMMA RegGrows == \A k \in 1 .. 4, c, d \in Nat : c <= d => Reg(k, c) <= Reg(k, d)
BY EntriesAre, DivGrows DEF Reg

LEMMA Multiples == \A k \in 1 .. 3 : \E j \in Nat \ {0} : Entry(k) = Entry(1) * j
<1>1. CELL * CELLS \in Nat \ {0} /\ FAN \in Nat \ {0} /\ Entry(1) = CELL * CELLS
  BY EntriesAre, SetSizes
<1>2. Entry(2) = Entry(1) * FAN /\ Entry(3) = (Entry(1) * FAN) * FAN
  BY DEF Entry
<1>3. PICK e : e = Entry(1)
  OBVIOUS
<1>4. e = e * 1 /\ FAN * FAN \in Nat \ {0} /\ (e * FAN) * FAN = e * (FAN * FAN)
  BY <1>1, <1>3
<1>5. QED
  BY <1>1, <1>2, <1>3, <1>4

\* The last character of an entry is in the last cell of its block, and what
\* comes after the entry is in a later block.
LEMMA TopIs ==
  ASSUME NEW k \in 1 .. 3, NEW c \in Nat, NEW high \in Nat, high = c - (c % Entry(k)) + Entry(k) - 1
  PROVE  /\ InLastCell(high)
         /\ \A b \in Nat : Reg(k, high) < Reg(k, b) => Reg(1, high) < Reg(1, b)
<1>1. PICK j \in Nat \ {0} : Entry(k) = Entry(1) * j
  BY Multiples
<1>2. PICK e, q : e = Entry(1) /\ q = c \div Entry(k)
  OBVIOUS
<1>3. e \in Nat \ {0} /\ e = CELL * CELLS /\ e * j \in Nat \ {0} /\ Entry(k) = e * j
  BY <1>1, <1>2, EntriesAre
<1>4. q \in Nat /\ c = (e * j) * q + (c % (e * j)) /\ c % (e * j) \in 0 .. e * j - 1
  BY <1>2, <1>3, DivIs
<1>5. high + 1 = (e * j) * q + e * j
  <2>1. PICK r, p, s : r = c % (e * j) /\ p = (e * j) * q /\ s = e * j
    OBVIOUS
  <2>2. c = p + r /\ high = c - r + s - 1 /\ r \in Nat /\ s \in Nat
    BY <1>3, <1>4, <2>1
  <2>3. p \in Nat
    <3>1. p = s * q /\ s \in Nat /\ q \in Nat
      BY <1>3, <1>4, <2>1
    <3>2. QED
      BY <3>1
  <2>4. high + 1 = p + s
    BY <2>2, <2>3
  <2>5. QED
    BY <2>1, <2>4
<1>6. PICK m \in Nat \ {0} : high + 1 = e * m
  <2>1. e \in Nat /\ j \in Nat \ {0} /\ q \in Nat
    BY <1>3, <1>4
  <2>2. j * q \in Nat
    BY <2>1
  <2>3. j * q + j \in Nat \ {0}
    BY <2>1, <2>2
  <2>4. (e * j) * q + e * j = e * (j * q + j)
    BY <2>1
  <2>5. QED
    BY <1>5, <2>3, <2>4
<1>7. high = CELL * (CELLS * m - 1) + (CELL - 1) /\ CELLS * m - 1 \in Nat /\ CELLS * m \in Nat
  <2>1. CELL \in Nat \ {0} /\ CELLS \in Nat \ {0}
    BY EntriesAre
  <2>2. CELLS * m \in Nat \ {0} /\ (CELL * CELLS) * m = CELL * (CELLS * m)
    BY <2>1
  <2>3. PICK u : u = CELLS * m
    OBVIOUS
  <2>4. high + 1 = CELL * u /\ u \in Nat \ {0}
    BY <1>3, <1>6, <2>2, <2>3
  <2>5. CELL * (u - 1) = CELL * u - CELL
    BY <2>1, <2>4
  <2>6. CELL * u \in Nat
    BY <2>1, <2>4
  <2>7. high = CELL * (u - 1) + (CELL - 1)
    BY <2>1, <2>4, <2>5, <2>6
  <2>8. QED
    BY <2>3, <2>4, <2>7
<1>8. InLastCell(high)
  <2>1. high \div CELL = CELLS * m - 1
    <3>1. CELL \in Nat \ {0} /\ CELL - 1 \in 0 .. CELL - 1
      BY EntriesAre
    <3>2. QED
      BY <1>7, <3>1, DivUnique
  <2>2. high \div CELL + 1 = CELLS * m
    BY <1>7, <2>1
  <2>3. CELLS \in Nat \ {0} /\ 0 \in 0 .. CELLS - 1
    BY EntriesAre
  <2>4. CELLS * m = CELLS * m + 0 /\ CELLS * m \in Nat /\ m \in Nat
    BY <1>7
  <2>5. (CELLS * m) % CELLS = 0
    BY <2>3, <2>4, DivUnique, Zenon
  <2>6. QED
    BY <2>2, <2>5 DEF InLastCell
<1>9. ASSUME NEW b \in Nat, Reg(k, high) < Reg(k, b) PROVE Reg(1, high) < Reg(1, b)
  <2>1. Reg(k, high) = Reg(1, high) \div j /\ Reg(k, b) = Reg(1, b) \div j
    BY <1>1, <1>2, <1>3, DivDiv DEF Reg
  <2>2. Reg(1, high) \in Nat /\ Reg(1, b) \in Nat
    BY <1>2, <1>3, DivIs DEF Reg
  <2>3. Reg(1, high) \div j \in Nat /\ Reg(1, b) \div j \in Nat
    BY <2>2, DivIs
  <2>4. Reg(1, b) <= Reg(1, high) => Reg(k, b) <= Reg(k, high)
    BY <2>1, <2>2, DivGrows
  <2>5. QED
    BY <1>9, <2>1, <2>2, <2>3, <2>4
<1>10. QED
  BY <1>8, <1>9

-----------------------------------------------------------------------------
\* Nodes of all levels, and what is done with them.
Block == SUBSET (0 .. Entry(1) - 1)
Entries(S) == {Null, Full} \cup {Node(b) : b \in S}
Nodes1 == [0 .. FAN - 1 -> Entries(Block)]
Nodes2 == [0 .. FAN - 1 -> Entries(Nodes1)]
Nodes3 == [0 .. FAN3 - 1 -> Entries(Nodes2)]
Nodes(k) == IF k = 0 THEN Block ELSE IF k = 1 THEN Nodes1 ELSE IF k = 2 THEN Nodes2 ELSE Nodes3

FillAt(k, n, a, b) ==
  IF k = 0 THEN L0_fill_range(n, a % Entry(1), b % Entry(1))
  ELSE IF k = 1 THEN L1_fill_range(n, a, b)
  ELSE IF k = 2 THEN L2_fill_range(n, a, b) ELSE L3_fill_range(n, a, b)
FreesAt(k, n, a, b) ==
  IF k = 0 THEN FALSE
  ELSE IF k = 1 THEN FreesFull(1, n, a, b)
  ELSE IF k = 2 THEN L2_frees(n, a, b) ELSE L3_frees(n, a, b)
Contains(k, n, c) ==
  IF k = 0 THEN L0_contains(n, c)
  ELSE IF k = 1 THEN L1_contains(n, c)
  ELSE IF k = 2 THEN L2_contains(n, c) ELSE L3_contains(n, c)

\* What is written at one level, from the level below.
Holding(k, e, c) == e = Full \/ (e # Null /\ Contains(k - 1, e[2], c))
Filled(k, n, a, b) ==
  [i \in Edges(k, a, b) |-> FillAt(k - 1, Below(k, n[i]), LowEnd(k, i, a, b), HighEnd(k, i, a, b))]

LEMMA LevelsAre ==
  ASSUME NEW k \in 1 .. 3
  PROVE  /\ Nodes(k) = [0 .. Fan(k) - 1 -> Entries(Nodes(k - 1))]
         /\ \A n, c : Contains(k, n, c) <=> Holding(k, n[Index(k, c)], c)
         /\ \A n, a, b : FillAt(k, n, a, b) = Fill(k, n, a, b, Filled(k, n, a, b))
         /\ \A n, a, b : FreesAt(k, n, a, b) <=>
              \/ FreesFull(k, n, a, b)
              \/ \E i \in Edges(k, a, b) : n[i] # Full /\ FreesAt(k - 1, Below(k, n[i]), LowEnd(k, i, a, b), HighEnd(k, i, a, b))
<1>1. CASE k = 1
  <2>1. Nodes(k) = [0 .. Fan(k) - 1 -> Entries(Nodes(k - 1))]
    BY <1>1 DEF Nodes, Nodes1, Fan
  <2>2. \A n, c : Contains(k, n, c) <=> Holding(k, n[Index(k, c)], c)
    BY <1>1 DEF Contains, Holding, L1_contains
  <2>3. \A n, a, b : FillAt(k, n, a, b) = Fill(k, n, a, b, Filled(k, n, a, b))
    BY <1>1 DEF FillAt, Filled, L1_fill_range
  <2>4. \A n, a, b : FreesAt(k, n, a, b) <=>
              \/ FreesFull(k, n, a, b)
              \/ \E i \in Edges(k, a, b) : n[i] # Full /\ FreesAt(k - 1, Below(k, n[i]), LowEnd(k, i, a, b), HighEnd(k, i, a, b))
    BY <1>1 DEF FreesAt
  <2>5. QED
    BY <2>1, <2>2, <2>3, <2>4
<1>2. CASE k = 2
  <2>1. Nodes(k) = [0 .. Fan(k) - 1 -> Entries(Nodes(k - 1))]
    BY <1>2 DEF Nodes, Nodes2, Fan
  <2>2. \A n, c : Contains(k, n, c) <=> Holding(k, n[Index(k, c)], c)
    BY <1>2 DEF Contains, Holding, L2_contains
  <2>3. \A n, a, b : FillAt(k, n, a, b) = Fill(k, n, a, b, Filled(k, n, a, b))
    BY <1>2 DEF FillAt, Filled, L2_fill_range
  <2>4. \A n, a, b : FreesAt(k, n, a, b) <=>
              \/ FreesFull(k, n, a, b)
              \/ \E i \in Edges(k, a, b) : n[i] # Full /\ FreesAt(k - 1, Below(k, n[i]), LowEnd(k, i, a, b), HighEnd(k, i, a, b))
    BY <1>2 DEF FreesAt, L2_frees
  <2>5. QED
    BY <2>1, <2>2, <2>3, <2>4
<1>3. CASE k = 3
  <2>1. Nodes(k) = [0 .. Fan(k) - 1 -> Entries(Nodes(k - 1))]
    BY <1>3 DEF Nodes, Nodes3, Fan
  <2>2. \A n, c : Contains(k, n, c) <=> Holding(k, n[Index(k, c)], c)
    BY <1>3 DEF Contains, Holding, L3_contains
  <2>3. \A n, a, b : FillAt(k, n, a, b) = Fill(k, n, a, b, Filled(k, n, a, b))
    BY <1>3 DEF FillAt, Filled, L3_fill_range
  <2>4. \A n, a, b : FreesAt(k, n, a, b) <=>
              \/ FreesFull(k, n, a, b)
              \/ \E i \in Edges(k, a, b) : n[i] # Full /\ FreesAt(k - 1, Below(k, n[i]), LowEnd(k, i, a, b), HighEnd(k, i, a, b))
    BY <1>3 DEF FreesAt, L3_frees
  <2>5. QED
    BY <2>1, <2>2, <2>3, <2>4
<1>4. QED
  BY <1>1, <1>2, <1>3

LEMMA Marks == Null # Full /\ \A b : Node(b) # Null /\ Node(b) # Full /\ Node(b)[2] = b
BY DEF Null, Full, Node

LEMMA BlankIs == \A k \in 0 .. 3 : Blank(k) \in Nodes(k) /\ \A c \in Nat : ~ Contains(k, Blank(k), c)
<1> SUFFICES ASSUME NEW k \in 0 .. 3 PROVE Blank(k) \in Nodes(k) /\ \A c \in Nat : ~ Contains(k, Blank(k), c)
  OBVIOUS
<1>1. CASE k = 0
  BY <1>1 DEF Blank, Nodes, Block, Contains, L0_contains
<1>2. CASE k \in 1 .. 3
  <2>1. Blank(k) = [i \in 0 .. Fan(k) - 1 |-> Null]
    BY <1>2 DEF Blank
  <2>2. Null \in Entries(Nodes(k - 1))
    BY DEF Entries
  <2>3. \A c \in Nat : ~ Contains(k, Blank(k), c)
    <3> SUFFICES ASSUME NEW c \in Nat PROVE ~ Contains(k, Blank(k), c)
      OBVIOUS
    <3>1. Blank(k)[Index(k, c)] = Null
      BY <1>2, <2>1, RegIs
    <3>2. QED
      BY <1>2, <3>1, LevelsAre, Marks DEF Holding
  <2>4. Nodes(k) = [0 .. Fan(k) - 1 -> Entries(Nodes(k - 1))]
    BY <1>2, LevelsAre
  <2>5. QED
    BY <2>1, <2>2, <2>3, <2>4
<1>3. QED
  BY <1>1, <1>2

LEMMA FullIs ==
  ASSUME NEW k \in 0 .. 2, NEW n \in Nodes(k), IsFull(k, n), NEW c \in Nat
  PROVE  Contains(k, n, c)
<1>1. CASE k = 0
  <2>1. n = 0 .. CELL * CELLS - 1 /\ Entry(1) = CELL * CELLS
    BY <1>1, EntriesAre DEF IsFull
  <2>2. c % Entry(1) \in 0 .. Entry(1) - 1
    BY FirstIs, DivIs
  <2>3. c % Entry(1) \in n
    BY <2>1, <2>2
  <2>4. QED
    BY <1>1, <2>3 DEF Contains, L0_contains
<1>2. CASE k \in 1 .. 2
  <2>1. k \in 1 .. 3 /\ k # 0
    BY <1>2
  <2>2. Index(k, c) \in 0 .. Fan(k) - 1
    BY <2>1, RegIs
  <2>3. n \in [0 .. Fan(k) - 1 -> Entries(Nodes(k - 1))]
    BY <2>1, LevelsAre
  <2>4. n[Index(k, c)] = Full
    BY <2>1, <2>2, <2>3 DEF IsFull
  <2>5. QED
    BY <2>1, <2>4, LevelsAre DEF Holding
<1>3. QED
  BY <1>1, <1>2

LEMMA BelowIs ==
  ASSUME NEW k \in 1 .. 3, NEW e \in Entries(Nodes(k - 1))
  PROVE  /\ Below(k, e) \in Nodes(k - 1)
         /\ \A c \in Nat : e # Full => (Holding(k, e, c) <=> Contains(k - 1, Below(k, e), c))
<1>1. k - 1 \in 0 .. 3 /\ Blank(k - 1) \in Nodes(k - 1) /\ \A c \in Nat : ~ Contains(k - 1, Blank(k - 1), c)
  BY BlankIs
<1>2. e = Null \/ e = Full \/ \E b \in Nodes(k - 1) : e = Node(b)
  BY DEF Entries
<1>3. CASE e \in {Null, Full}
  <2>1. Below(k, e) = Blank(k - 1)
    BY <1>3 DEF Below
  <2>2. QED
    BY <1>1, <1>3, <2>1, Marks DEF Holding
<1>4. CASE \E b \in Nodes(k - 1) : e = Node(b)
  <2>1. PICK b \in Nodes(k - 1) : e = Node(b)
    BY <1>4
  <2>2. e # Null /\ e # Full /\ e[2] = b
    BY <2>1, Marks
  <2>3. Below(k, e) = b
    BY <2>2 DEF Below
  <2>4. QED
    BY <2>2, <2>3 DEF Holding
<1>5. QED
  BY <1>2, <1>3, <1>4

\* Where the ends of a range lie within a node, and what lies between them.
SameNode(k, a, b) == Reg(k + 1, a) = Reg(k + 1, b)

LEMMA RangeIs ==
  ASSUME NEW k \in 1 .. 3, NEW a \in Nat, NEW b \in Nat, a <= b, SameNode(k, a, b),
         NEW c \in Nat, SameNode(k, c, a)
  PROVE  /\ a <= c /\ c <= b => Index(k, a) <= Index(k, c) /\ Index(k, c) <= Index(k, b)
         /\ Index(k, a) < Index(k, c) /\ Index(k, c) < Index(k, b) => a <= c /\ c <= b
         /\ \A d \in Nat : SameNode(k, d, a) /\ Index(k, d) = Index(k, c) => Reg(k, d) = Reg(k, c)
<1>1. k \in 1 .. 4 /\ Fan(k) \in Nat
  BY EntriesAre
<1>2. PICK p : p = Fan(k) * Reg(k + 1, a)
  OBVIOUS
<1>3. p \in Nat
  <2>1. Reg(k + 1, a) \in Nat
    BY RegIs
  <2>2. QED
    BY <1>1, <1>2, <2>1
<1>4. ASSUME NEW d \in Nat, SameNode(k, d, a) PROVE Reg(k, d) = p + Index(k, d) /\ Index(k, d) \in Nat
  <2>1. Index(k, d) \in 0 .. Fan(k) - 1 /\ Reg(k, d) = Fan(k) * Reg(k + 1, d) + Index(k, d)
    BY RegIs
  <2>2. Reg(k + 1, d) = Reg(k + 1, a)
    BY <1>4 DEF SameNode
  <2>3. QED
    BY <1>1, <1>2, <2>1, <2>2
<1>5. Reg(k, a) = p + Index(k, a) /\ Reg(k, b) = p + Index(k, b) /\ Reg(k, c) = p + Index(k, c)
      /\ Index(k, a) \in Nat /\ Index(k, b) \in Nat /\ Index(k, c) \in Nat
  <2>1. SameNode(k, a, a) /\ SameNode(k, b, a)
    BY DEF SameNode
  <2>2. QED
    BY <1>4, <2>1
<1>6. a <= c /\ c <= b => Reg(k, a) <= Reg(k, c) /\ Reg(k, c) <= Reg(k, b)
  BY <1>1, RegGrows
<1>7. (c <= a => Reg(k, c) <= Reg(k, a)) /\ (b <= c => Reg(k, b) <= Reg(k, c))
  BY <1>1, RegGrows
<1>8. QED
  BY <1>3, <1>4, <1>5, <1>6, <1>7

LEMMA EdgeIs ==
  ASSUME NEW k \in 1 .. 3, NEW a \in Nat, NEW b \in Nat, a <= b, SameNode(k, a, b),
         NEW i \in Edges(k, a, b), NEW low, NEW high, low = LowEnd(k, i, a, b), high = HighEnd(k, i, a, b)
  PROVE  /\ low \in Nat /\ high \in Nat /\ a <= low /\ low <= high /\ high <= b
         /\ Reg(k, low) = Reg(k, high) /\ Index(k, low) = i /\ SameNode(k, low, a)
         /\ high = b \/ (InLastCell(high) /\ Reg(1, high) < Reg(1, b))
         /\ \A c \in Nat : SameNode(k, c, a) /\ Index(k, c) = i =>
              Reg(k, c) = Reg(k, low) /\ (a <= c /\ c <= b <=> low <= c /\ c <= high)
<1> DEFINE start == Low(k, b)
           stop == High(k, a)
<1>1. Entry(k) \in Nat \ {0} /\ Fan(k) \in Nat \ {0} /\ k \in 1 .. 4 /\ Entry(k + 1) = Entry(k) * Fan(k)
  BY EntryIs
<1>2. /\ start \in Nat /\ start <= b /\ Reg(k, start) = Reg(k, b)
      /\ \A d \in Nat : Reg(k, d) = Reg(k, b) => start <= d
  BY <1>1, EndsAre
<1>3. /\ stop \in Nat /\ a <= stop /\ Reg(k, stop) = Reg(k, a)
      /\ \A d \in Nat : Reg(k, d) = Reg(k, a) => d <= stop
  BY <1>1, EndsAre
<1>4. Reg(k, a) <= Reg(k, b) /\ Reg(k, a) \in Nat /\ Reg(k, b) \in Nat
  BY <1>1, RegGrows, RegIs
<1>5. \A c, d \in Nat : Reg(k, c) = Reg(k, d) => Index(k, c) = Index(k, d) /\ SameNode(k, c, d)
  BY NodeOf DEF SameNode
<1>6. InLastCell(stop) /\ \A d \in Nat : Reg(k, stop) < Reg(k, d) => Reg(1, stop) < Reg(1, d)
  <2>1. stop \in Nat /\ stop = a - (a % Entry(k)) + Entry(k) - 1
    BY <1>3 DEF High
  <2> HIDE DEF stop
  <2>2. QED
    BY <2>1, TopIs
<1>7. low = (IF i = Index(k, a) THEN a ELSE start) /\ high = (IF i = Index(k, b) THEN b ELSE stop)
  BY DEF LowEnd, HighEnd, Low, High
<1> HIDE DEF start, stop
<1>8. Index(k, a) = Index(k, b) <=> Reg(k, a) = Reg(k, b)
  BY <1>5, RangeIs DEF SameNode
<1>9. i = Index(k, a) \/ i = Index(k, b)
  BY DEF Edges
<1>10. CASE Index(k, a) = Index(k, b)
  <2>1. low = a /\ high = b /\ Reg(k, a) = Reg(k, b) /\ i = Index(k, a)
    BY <1>7, <1>8, <1>9, <1>10
  <2>2. \A c \in Nat : SameNode(k, c, a) /\ Index(k, c) = i => Reg(k, c) = Reg(k, a)
    BY <2>1, RangeIs DEF SameNode
  <2>3. QED
    BY <2>1, <2>2 DEF SameNode
<1>11. CASE Index(k, a) # Index(k, b) /\ i = Index(k, a)
  <2>1. low = a /\ high = stop /\ Reg(k, a) < Reg(k, b)
    BY <1>4, <1>7, <1>8, <1>11
  <2>2. high <= b
    <3>1. SUFFICES ASSUME b <= stop PROVE FALSE
      BY <1>3, <2>1
    <3>2. Reg(k, b) <= Reg(k, stop)
      BY <1>1, <1>3, <3>1, RegGrows
    <3>3. QED
      BY <1>3, <1>4, <2>1, <3>2
  <2>3. \A c \in Nat : SameNode(k, c, a) /\ Index(k, c) = i => Reg(k, c) = Reg(k, a)
    BY <1>11, RangeIs DEF SameNode
  <2>4. Reg(1, high) < Reg(1, b)
    BY <1>3, <1>6, <2>1
  <2>5. QED
    BY <1>3, <1>6, <1>11, <2>1, <2>2, <2>3, <2>4 DEF SameNode
<1>12. CASE Index(k, a) # Index(k, b) /\ i = Index(k, b)
  <2>1. low = start /\ high = b /\ Reg(k, a) < Reg(k, b)
    BY <1>4, <1>7, <1>8, <1>12
  <2>2. a <= low
    <3>1. SUFFICES ASSUME start <= a PROVE FALSE
      BY <1>2, <2>1
    <3>2. Reg(k, start) <= Reg(k, a)
      BY <1>1, <1>2, <3>1, RegGrows
    <3>3. QED
      BY <1>2, <1>4, <2>1, <3>2
  <2>3. Index(k, start) = Index(k, b) /\ SameNode(k, start, b)
    BY <1>2, <1>5
  <2>4. \A c \in Nat : SameNode(k, c, a) /\ Index(k, c) = i => Reg(k, c) = Reg(k, b)
    BY <1>12, RangeIs DEF SameNode
  <2>5. QED
    BY <1>2, <1>12, <2>1, <2>2, <2>3, <2>4 DEF SameNode
<1>13. QED
  BY <1>9, <1>10, <1>11, <1>12

LEMMA BetweenIs ==
  ASSUME NEW k \in 1 .. 3, NEW a \in Nat, NEW b \in Nat, a <= b, SameNode(k, a, b), NEW i \in Between(k, a, b)
  PROVE  \E d \in Nat : a <= d /\ d <= b /\ SameNode(k, d, a) /\ Index(k, d) = i
<1>1. /\ Entry(k) \in Nat \ {0} /\ Fan(k) \in Nat \ {0} /\ k \in 1 .. 4 /\ Reg(k + 1, a) \in Nat
      /\ Entry(k + 1) = Entry(k) * Fan(k)
  BY EntryIs, RegIs
<1>2. Index(k, a) \in 0 .. Fan(k) - 1 /\ Index(k, b) \in 0 .. Fan(k) - 1
  BY RegIs
<1>3. i \in 0 .. Fan(k) - 1 /\ Index(k, a) < i /\ i < Index(k, b)
  BY <1>1, <1>2 DEF Between
<1>4. PICK q : q = Fan(k) * Reg(k + 1, a) + i
  OBVIOUS
<1>5. q \in Nat /\ q \div Fan(k) = Reg(k + 1, a) /\ q % Fan(k) = i
  <2>1. Fan(k) * Reg(k + 1, a) \in Nat
    BY <1>1
  <2>2. q \in Nat
    BY <1>3, <1>4, <2>1
  <2>3. QED
    BY <1>1, <1>3, <1>4, <2>2, DivUnique
<1>6. PICK d : d = Entry(k) * q + 0
  OBVIOUS
<1>7. d \in Nat /\ Reg(k, d) = q
  <2>1. d \in Nat
    BY <1>1, <1>5, <1>6
  <2>2. 0 \in 0 .. Entry(k) - 1
    BY <1>1
  <2>3. QED
    BY <1>1, <1>5, <1>6, <2>1, <2>2, DivUnique DEF Reg
<1>8. Index(k, d) = i
  BY <1>5, <1>7 DEF Index, Reg
<1>9. SameNode(k, d, a)
  <2>1. Reg(k + 1, d) = Reg(k, d) \div Fan(k)
    BY <1>1, <1>7, DivDiv DEF Reg
  <2>2. QED
    BY <1>5, <1>7, <2>1 DEF SameNode
<1>10. a <= d /\ d <= b
  BY <1>3, <1>7, <1>8, <1>9, RangeIs
<1>11. QED
  BY <1>7, <1>8, <1>9, <1>10

-----------------------------------------------------------------------------
\* What filling the range from a to b does to a node: the node keeps what it
\* holds, gets nothing but the range, and what it does not get is one of the
\* characters that L0_fill_range skips; and a mark is only freed of an entry
\* that holds some of the range.
Skips(k, b, c) ==
  \/ LastOfCell(b) /\ c \div CELL = b \div CELL
  \/ k > 0 /\ InLastCell(c) /\ Reg(1, c) < Reg(1, b)

Gets(k, n, n2, a, b, c) ==
  /\ Contains(k, n, c) => Contains(k, n2, c)
  /\ Contains(k, n2, c) => Contains(k, n, c) \/ (a <= c /\ c <= b)
  /\ a <= c /\ c <= b => Contains(k, n2, c) \/ Skips(k, b, c)

Effect(k, n, a, b) ==
  /\ FillAt(k, n, a, b) \in Nodes(k)
  /\ \A c \in Nat : SameNode(k, c, a) => Gets(k, n, FillAt(k, n, a, b), a, b, c)
  /\ FreesAt(k, n, a, b) => \E d \in Nat : a <= d /\ d <= b /\ Contains(k, n, d)

Good(k) == \A n \in Nodes(k), a, b \in Nat : a <= b /\ SameNode(k, a, b) => Effect(k, n, a, b)

\* What is skipped below an edge is skipped.
LEMMA SkipsOn ==
  ASSUME NEW k \in 1 .. 3, NEW b \in Nat, NEW high \in Nat, NEW c \in Nat, Skips(k - 1, high, c),
         high = b \/ (InLastCell(high) /\ Reg(1, high) < Reg(1, b))
  PROVE  Skips(k, b, c)
<1>1. CASE high = b
  BY <1>1 DEF Skips
<1>2. CASE InLastCell(high) /\ Reg(1, high) < Reg(1, b)
  <2>1. \A d \in Nat : Reg(1, d) \in Nat
    BY FirstIs, DivIs DEF Reg
  <2>2. InLastCell(c) /\ Reg(1, c) <= Reg(1, high)
    <3>1. CASE c \div CELL = high \div CELL
      <4>1. \A d \in Nat : Reg(1, d) = (d \div CELL) \div CELLS
        <5>1. CELL \in Nat \ {0} /\ CELLS \in Nat \ {0}
          BY EntriesAre
        <5>2. \A d \in Nat : d \div (CELL * CELLS) = (d \div CELL) \div CELLS
          BY <5>1, DivDiv
        <5>3. QED
          BY <5>2, FirstIs DEF Reg
      <4>2. QED
        BY <1>2, <2>1, <3>1, <4>1 DEF InLastCell
    <3>2. CASE InLastCell(c) /\ Reg(1, c) < Reg(1, high)
      BY <2>1, <3>2
    <3>3. QED
      BY <3>1, <3>2 DEF Skips
  <2>3. QED
    BY <1>2, <2>1, <2>2 DEF Skips
<1>3. QED
  BY <1>1, <1>2

\* What becomes of an entry at an end of the range.
LEMMA EdgeFills ==
  ASSUME NEW k \in 1 .. 3, Good(k - 1), NEW n \in Nodes(k), NEW a \in Nat, NEW b \in Nat, a <= b, SameNode(k, a, b),
         NEW i \in Edges(k, a, b), NEW e, e = FillAt(k, n, a, b)[i]
  PROVE  /\ i \in 0 .. Fan(k) - 1 /\ e \in Entries(Nodes(k - 1))
         /\ \A c \in Nat : SameNode(k, c, a) /\ Index(k, c) = i =>
              /\ Holding(k, n[i], c) => Holding(k, e, c)
              /\ Holding(k, e, c) => Holding(k, n[i], c) \/ (a <= c /\ c <= b)
              /\ a <= c /\ c <= b => Holding(k, e, c) \/ Skips(k, b, c)
         /\ n[i] # Full /\ FreesAt(k - 1, Below(k, n[i]), LowEnd(k, i, a, b), HighEnd(k, i, a, b)) =>
              \E d \in Nat : a <= d /\ d <= b /\ SameNode(k, d, a) /\ Index(k, d) = i /\ Holding(k, n[i], d)
<1>1. PICK low, high : low = LowEnd(k, i, a, b) /\ high = HighEnd(k, i, a, b)
  OBVIOUS
<1>2. /\ low \in Nat /\ high \in Nat /\ a <= low /\ low <= high /\ high <= b
      /\ Reg(k, low) = Reg(k, high) /\ Index(k, low) = i /\ SameNode(k, low, a)
      /\ high = b \/ (InLastCell(high) /\ Reg(1, high) < Reg(1, b))
      /\ \A c \in Nat : SameNode(k, c, a) /\ Index(k, c) = i =>
           Reg(k, c) = Reg(k, low) /\ (a <= c /\ c <= b <=> low <= c /\ c <= high)
  BY <1>1, EdgeIs
<1>3. i \in 0 .. Fan(k) - 1
  BY RegIs DEF Edges
<1>4. n \in [0 .. Fan(k) - 1 -> Entries(Nodes(k - 1))] /\ n[i] \in Entries(Nodes(k - 1))
  <2>1. Nodes(k) = [0 .. Fan(k) - 1 -> Entries(Nodes(k - 1))]
    BY LevelsAre
  <2>2. QED
    BY <1>3, <2>1
<1>5. PICK m, m2 : m = Below(k, n[i]) /\ m2 = FillAt(k - 1, m, low, high)
  OBVIOUS
<1>6. m \in Nodes(k - 1) /\ \A c \in Nat : n[i] # Full => (Holding(k, n[i], c) <=> Contains(k - 1, m, c))
  BY <1>4, <1>5, BelowIs
<1>7. SameNode(k - 1, low, high) /\ \A c \in Nat : SameNode(k - 1, c, low) <=> Reg(k, c) = Reg(k, low)
  BY <1>2 DEF SameNode
<1>8. Effect(k - 1, m, low, high)
  BY <1>2, <1>6, <1>7 DEF Good
<1>9. i \notin Between(k, a, b)
  <2>1. Index(k, a) \in Nat /\ Index(k, b) \in Nat
    BY IndexIs
  <2>2. QED
    BY <2>1 DEF Edges, Between
<1>10. e = IF n[i] = Full THEN Full ELSE IF IsFull(k - 1, m2) THEN Full ELSE Node(m2)
  <2>1. Filled(k, n, a, b)[i] = m2
    BY <1>1, <1>5 DEF Filled
  <2>2. FillAt(k, n, a, b) = Fill(k, n, a, b, Filled(k, n, a, b))
    BY LevelsAre
  <2>3. Fill(k, n, a, b, Filled(k, n, a, b))[i] = IF n[i] = Full THEN Full ELSE IF IsFull(k - 1, m2) THEN Full ELSE Node(m2)
    BY <1>3, <1>4, <1>9, <2>1 DEF Fill
  <2>4. QED
    BY <2>2, <2>3
<1>11. e \in Entries(Nodes(k - 1))
  BY <1>5, <1>8, <1>10 DEF Effect, Entries
<1>12. \A c \in Nat : n[i] # Full => (Holding(k, e, c) <=> Contains(k - 1, m2, c))
  <2> SUFFICES ASSUME NEW c \in Nat, n[i] # Full PROVE Holding(k, e, c) <=> Contains(k - 1, m2, c)
    OBVIOUS
  <2>1. CASE IsFull(k - 1, m2)
    <3>1. e = Full /\ k - 1 \in 0 .. 2 /\ m2 \in Nodes(k - 1)
      BY <1>5, <1>8, <1>10, <2>1 DEF Effect
    <3>2. QED
      BY <2>1, <3>1, FullIs DEF Holding
  <2>2. CASE ~ IsFull(k - 1, m2)
    BY <1>10, <2>2, Marks DEF Holding
  <2>3. QED
    BY <2>1, <2>2
<1>13. ASSUME NEW c \in Nat, SameNode(k, c, a), Index(k, c) = i
       PROVE  /\ Holding(k, n[i], c) => Holding(k, e, c)
              /\ Holding(k, e, c) => Holding(k, n[i], c) \/ (a <= c /\ c <= b)
              /\ a <= c /\ c <= b => Holding(k, e, c) \/ Skips(k, b, c)
  <2>1. CASE n[i] = Full
    BY <1>10, <2>1 DEF Holding
  <2>2. CASE n[i] # Full
    <3>1. SameNode(k - 1, c, low) /\ (a <= c /\ c <= b <=> low <= c /\ c <= high)
      BY <1>2, <1>7, <1>13
    <3>2. Gets(k - 1, m, m2, low, high, c)
      BY <1>5, <1>8, <3>1 DEF Effect
    <3>3. Skips(k - 1, high, c) => Skips(k, b, c)
      BY <1>2, SkipsOn
    <3>4. (Holding(k, e, c) <=> Contains(k - 1, m2, c)) /\ (Holding(k, n[i], c) <=> Contains(k - 1, m, c))
      BY <1>6, <1>12, <2>2
    <3>5. QED
      BY <3>1, <3>2, <3>3, <3>4 DEF Gets
  <2>3. QED
    BY <2>1, <2>2
<1>14. ASSUME n[i] # Full, FreesAt(k - 1, Below(k, n[i]), LowEnd(k, i, a, b), HighEnd(k, i, a, b))
       PROVE  \E d \in Nat : a <= d /\ d <= b /\ SameNode(k, d, a) /\ Index(k, d) = i /\ Holding(k, n[i], d)
  <2>1. PICK d \in Nat : low <= d /\ d <= high /\ Contains(k - 1, m, d)
    BY <1>1, <1>5, <1>8, <1>14 DEF Effect
  <2>2. Reg(k, low) <= Reg(k, d) /\ Reg(k, d) <= Reg(k, high) /\ Reg(k, d) \in Nat /\ Reg(k, low) \in Nat
    <3>1. k \in 1 .. 4
      OBVIOUS
    <3>2. QED
      BY <1>2, <2>1, <3>1, RegGrows, RegIs
  <2>3. Reg(k, d) = Reg(k, low)
    BY <1>2, <2>2
  <2>4. Index(k, d) = Index(k, low)
    BY <1>2, <2>1, <2>3, NodeOf
  <2>5. SameNode(k, d, low)
    BY <1>2, <2>1, <2>3, NodeOf DEF SameNode
  <2>6. a <= d /\ d <= b
    BY <1>2, <2>1
  <2>7. Holding(k, n[i], d)
    BY <1>6, <1>14, <2>1
  <2>8. QED
    BY <1>2, <2>4, <2>5, <2>6, <2>7 DEF SameNode
<1>15. QED
  BY <1>3, <1>11, <1>13, <1>14

LEMMA GoodAbove ==
  ASSUME NEW k \in 1 .. 3, Good(k - 1)
  PROVE  Good(k)
<1> SUFFICES ASSUME NEW n \in Nodes(k), NEW a \in Nat, NEW b \in Nat, a <= b, SameNode(k, a, b)
             PROVE  Effect(k, n, a, b)
  BY DEF Good
<1>1. PICK n2 : n2 = FillAt(k, n, a, b)
  OBVIOUS
<1>2. Nodes(k) = [0 .. Fan(k) - 1 -> Entries(Nodes(k - 1))]
  BY LevelsAre
<1>3. /\ n2 = Fill(k, n, a, b, Filled(k, n, a, b))
      /\ \A c : Contains(k, n, c) <=> Holding(k, n[Index(k, c)], c)
      /\ \A c : Contains(k, n2, c) <=> Holding(k, n2[Index(k, c)], c)
      /\ FreesAt(k, n, a, b) <=>
           \/ FreesFull(k, n, a, b)
           \/ \E i \in Edges(k, a, b) : n[i] # Full /\ FreesAt(k - 1, Below(k, n[i]), LowEnd(k, i, a, b), HighEnd(k, i, a, b))
  BY <1>1, LevelsAre
<1>4. n2 = [i \in 0 .. Fan(k) - 1 |-> n2[i]]
  BY <1>2, <1>3 DEF Fill
<1>5. \A i \in 0 .. Fan(k) - 1 :
        /\ i \in Between(k, a, b) => n2[i] = Full
        /\ i \notin Between(k, a, b) /\ i \notin Edges(k, a, b) => n2[i] = n[i]
  <2>1. DOMAIN n = 0 .. Fan(k) - 1
    BY <1>2
  <2>2. QED
    BY <1>3, <2>1 DEF Fill
<1>6. \A i \in 0 .. Fan(k) - 1 : n2[i] \in Entries(Nodes(k - 1))
  <2> SUFFICES ASSUME NEW i \in 0 .. Fan(k) - 1 PROVE n2[i] \in Entries(Nodes(k - 1))
    OBVIOUS
  <2>1. CASE i \in Edges(k, a, b)
    BY <1>1, <2>1, EdgeFills
  <2>2. CASE i \notin Edges(k, a, b)
    BY <1>2, <1>5, <2>2 DEF Entries
  <2>3. QED
    BY <2>1, <2>2
<1>7. n2 \in Nodes(k)
  BY <1>2, <1>4, <1>6
<1>8. ASSUME NEW c \in Nat, SameNode(k, c, a)
      PROVE  Gets(k, n, n2, a, b, c)
  <2>1. PICK i : i = Index(k, c)
    OBVIOUS
  <2>2. i \in 0 .. Fan(k) - 1 /\ i \in Nat /\ Index(k, a) \in Nat /\ Index(k, b) \in Nat
    BY <2>1, RegIs, IndexIs
  <2>3. CASE i \in Edges(k, a, b)
    <3>1. /\ Holding(k, n[i], c) => Holding(k, n2[i], c)
          /\ Holding(k, n2[i], c) => Holding(k, n[i], c) \/ (a <= c /\ c <= b)
          /\ a <= c /\ c <= b => Holding(k, n2[i], c) \/ Skips(k, b, c)
      BY <1>1, <1>8, <2>1, <2>3, EdgeFills
    <3>2. QED
      BY <1>3, <2>1, <3>1 DEF Gets
  <2>4. CASE i \in Between(k, a, b)
    <3>1. n2[i] = Full
      BY <1>5, <2>2, <2>4
    <3>2. a <= c /\ c <= b
      <4>1. Index(k, a) < i /\ i < Index(k, b)
        BY <2>2, <2>4 DEF Between
      <4>2. QED
        BY <1>8, <2>1, <4>1, RangeIs
    <3>3. QED
      BY <1>3, <2>1, <3>1, <3>2 DEF Gets, Holding
  <2>5. CASE i \notin Edges(k, a, b) /\ i \notin Between(k, a, b)
    <3>1. n2[i] = n[i]
      BY <1>5, <2>2, <2>5
    <3>2. ~ (a <= c /\ c <= b)
      <4>1. ~ (Index(k, a) <= i /\ i <= Index(k, b))
        BY <2>2, <2>5 DEF Between, Edges
      <4>2. QED
        BY <1>8, <2>1, <4>1, RangeIs
    <3>3. QED
      BY <1>3, <2>1, <3>1, <3>2 DEF Gets
  <2>6. QED
    BY <2>3, <2>4, <2>5
<1>9. ASSUME FreesAt(k, n, a, b)
      PROVE  \E d \in Nat : a <= d /\ d <= b /\ Contains(k, n, d)
  <2>1. CASE FreesFull(k, n, a, b)
    <3>1. PICK i \in Between(k, a, b) : n[i] = Full
      BY <2>1 DEF FreesFull
    <3>2. PICK d \in Nat : a <= d /\ d <= b /\ SameNode(k, d, a) /\ Index(k, d) = i
      BY BetweenIs
    <3>3. QED
      BY <1>3, <3>1, <3>2 DEF Holding
  <2>2. CASE \E i \in Edges(k, a, b) : n[i] # Full /\ FreesAt(k - 1, Below(k, n[i]), LowEnd(k, i, a, b), HighEnd(k, i, a, b))
    <3>1. PICK i \in Edges(k, a, b) : n[i] # Full /\ FreesAt(k - 1, Below(k, n[i]), LowEnd(k, i, a, b), HighEnd(k, i, a, b))
      BY <2>2
    <3>2. PICK d \in Nat : a <= d /\ d <= b /\ SameNode(k, d, a) /\ Index(k, d) = i /\ Holding(k, n[i], d)
      BY <3>1, EdgeFills
    <3>3. QED
      BY <1>3, <3>2
  <2>3. QED
    BY <1>3, <1>9, <2>1, <2>2
<1>10. QED
  BY <1>1, <1>7, <1>8, <1>9 DEF Effect

\* A block. Its characters are counted from 0; they are in the cells of their quotients.
LEMMA CellIs ==
  ASSUME NEW x \in 0 .. Entry(1) - 1, NEW c \in Nat, NEW S \in SUBSET (0 .. CELL - 1)
  PROVE  x \in {c * CELL + s : s \in S} <=> x \div CELL = c /\ x % CELL \in S
<1>1. CELL \in Nat \ {0} /\ Entry(1) \in Nat
  BY EntriesAre, FirstIs
<1>2. x \in Nat /\ x = CELL * (x \div CELL) + (x % CELL)
  BY <1>1, DivIs
<1>3. ASSUME NEW s \in S, x = c * CELL + s PROVE x \div CELL = c /\ x % CELL = s
  <2>1. s \in 0 .. CELL - 1 /\ x = CELL * c + s
    BY <1>1, <1>3
  <2>2. QED
    BY <1>1, <1>2, <2>1, DivUnique
<1>4. x \div CELL = c => x = c * CELL + (x % CELL)
  <2>1. SUFFICES ASSUME x \div CELL = c PROVE x = c * CELL + (x % CELL)
    OBVIOUS
  <2>2. x = CELL * c + (x % CELL) /\ CELL * c = c * CELL
    BY <1>1, <1>2, <2>1
  <2>3. QED
    BY <2>2
<1>5. QED
  BY <1>3, <1>4

\* The order of the characters, and the last of a cell.
LEMMA CellOrder ==
  ASSUME NEW x \in Nat, NEW z \in Nat
  PROVE  x <= z <=> x \div CELL < z \div CELL \/ (x \div CELL = z \div CELL /\ x % CELL <= z % CELL)
<1>1. CELL \in Nat \ {0}
  BY EntriesAre
<1>2. PICK p, r, q, s : p = x \div CELL /\ r = x % CELL /\ q = z \div CELL /\ s = z % CELL
  OBVIOUS
<1>3. /\ p \in Nat /\ r \in 0 .. CELL - 1 /\ x = CELL * p + r
      /\ q \in Nat /\ s \in 0 .. CELL - 1 /\ z = CELL * q + s
  BY <1>1, <1>2, DivIs
<1>4. x <= z => p <= q
  BY <1>1, <1>2, DivGrows
<1>5. z <= x => q <= p
  BY <1>1, <1>2, DivGrows
<1>6. p = q => (x <= z <=> r <= s)
  <2>1. PICK u : u = CELL * p
    OBVIOUS
  <2>2. u \in Nat
    BY <1>1, <1>3, <2>1
  <2>3. p = q => x = u + r /\ z = u + s
    BY <1>3, <2>1
  <2>4. r \in Nat /\ s \in Nat
    BY <1>1, <1>3
  <2>5. QED
    BY <2>2, <2>3, <2>4
<1>7. QED
  BY <1>2, <1>3, <1>4, <1>5, <1>6

LEMMA LastIs ==
  ASSUME NEW x \in Nat
  PROVE  /\ LastOfCell(x) <=> x % CELL = CELL - 1
         /\ ~ LastOfCell(x) => (x + 1) % CELL = (x % CELL) + 1
<1>1. CELL \in Nat \ {0}
  BY EntriesAre
<1>2. PICK p, r : p = x \div CELL /\ r = x % CELL
  OBVIOUS
<1>3. p \in Nat /\ r \in 0 .. CELL - 1 /\ x = CELL * p + r
  BY <1>1, <1>2, DivIs
<1>4. CASE r = CELL - 1
  <2>1. x + 1 = CELL * (p + 1) + 0 /\ p + 1 \in Nat /\ 0 \in 0 .. CELL - 1 /\ x + 1 \in Nat
    BY <1>1, <1>3, <1>4
  <2>2. (x + 1) % CELL = 0
    BY <1>1, <2>1, DivUnique, Zenon
  <2>3. QED
    BY <1>2, <1>4, <2>2 DEF LastOfCell
<1>5. CASE r # CELL - 1
  <2>1. PICK y, s : y = x + 1 /\ s = r + 1
    OBVIOUS
  <2>2. s \in 0 .. CELL - 1 /\ y \in Nat /\ s # 0
    BY <1>1, <1>3, <1>5, <2>1
  <2>3. y = CELL * p + s
    <3>1. CELL * p \in Nat
      BY <1>1, <1>3
    <3>2. r \in Nat
      BY <1>1, <1>3
    <3>3. QED
      BY <1>3, <2>1, <3>1, <3>2
  <2>4. y % CELL = s
    BY <1>1, <1>3, <2>2, <2>3, DivUnique
  <2>5. QED
    BY <1>2, <1>5, <2>1, <2>2, <2>4 DEF LastOfCell
<1>6. QED
  BY <1>4, <1>5

\* What L0_fill_range sets in a block.
LEMMA BlockFills ==
  ASSUME NEW n \in Block, NEW x \in 0 .. Entry(1) - 1, NEW y \in 0 .. Entry(1) - 1, x <= y,
         NEW n2, n2 = L0_fill_range(n, x, y)
  PROVE  /\ n2 \in Block
         /\ \A z \in 0 .. Entry(1) - 1 :
              /\ z \in n => z \in n2
              /\ z \in n2 => z \in n \/ (x <= z /\ z <= y)
              /\ x <= z /\ z <= y => z \in n2 \/ (LastOfCell(y) /\ z \div CELL = y \div CELL)
<1> DEFINE cell(c, bits) == {c * CELL + b : b \in bits}
           first == x \div CELL
           last == y \div CELL
           mask0 == (x % CELL) .. CELL - 1
           mask1 == 0 .. ((y + 1) % CELL) - 1
           all == 0 .. CELL - 1
<1>1. CELL \in Nat \ {0} /\ CELLS \in Nat \ {0} /\ Entry(1) = CELL * CELLS /\ Entry(1) \in Nat \ {0}
  BY EntriesAre, FirstIs
<1>2. x \in Nat /\ y \in Nat /\ \A z \in 0 .. Entry(1) - 1 : z \in Nat
  BY <1>1
<1>3. first \in Nat /\ last \in Nat /\ x % CELL \in all /\ y % CELL \in all
  BY <1>1, <1>2, DivIs
<1>4. first < last \/ (first = last /\ x % CELL <= y % CELL)
  BY <1>2, CellOrder
<1>5. mask0 \in SUBSET all /\ mask1 \in SUBSET all /\ mask0 \cap mask1 \in SUBSET all /\ all \in SUBSET all
      /\ mask1 = IF LastOfCell(y) THEN {} ELSE 0 .. (y % CELL)
  <2>1. CASE LastOfCell(y)
    <3>1. (y + 1) % CELL = 0
      BY <2>1 DEF LastOfCell
    <3>2. mask1 = {}
      BY <3>1
    <3>3. QED
      BY <1>3, <2>1, <3>2
  <2>2. CASE ~ LastOfCell(y)
    <3>1. (y + 1) % CELL = (y % CELL) + 1
      BY <1>2, <2>2, LastIs
    <3>2. mask1 = 0 .. (y % CELL)
      BY <1>1, <1>3, <3>1
    <3>3. QED
      BY <1>1, <1>3, <2>2, <3>2
  <2>3. QED
    BY <2>1, <2>2
<1>6. n2 = IF first = last THEN n \cup cell(first, mask0 \cap mask1)
           ELSE n \cup cell(first, mask0) \cup cell(last, mask1) \cup UNION {cell(c, all) : c \in first + 1 .. last - 1}
  BY DEF L0_fill_range
<1>7. \A c \in Nat, b \in all : c <= last => c * CELL + b \in 0 .. Entry(1) - 1
  <2> SUFFICES ASSUME NEW c \in Nat, NEW b \in all, c <= last PROVE c * CELL + b \in 0 .. Entry(1) - 1
    OBVIOUS
  <2>1. last < CELLS
    <3>1. PICK r : r = y % CELL
      OBVIOUS
    <3>2. y = CELL * last + r /\ r \in Nat
      BY <1>1, <1>2, <3>1, DivIs
    <3>3. CELL * last <= y /\ y < CELL * CELLS
      <4>1. CELL * last \in Nat
        BY <1>1, <1>3
      <4>2. QED
        BY <1>1, <1>2, <3>2, <4>1
    <3>4. ASSUME CELLS <= last PROVE FALSE
      <4>1. CELL * CELLS <= CELL * last
        BY <1>1, <1>3, <3>4
      <4>2. CELL * last \in Nat /\ CELL * CELLS \in Nat
        BY <1>1, <1>3
      <4>3. QED
        BY <1>1, <1>2, <3>3, <4>1, <4>2
    <3>5. QED
      BY <1>1, <1>3, <3>4
  <2>2. PICK d \in Nat : CELLS = c + 1 + d
    BY <1>1, <1>3, <2>1
  <2>3. CELL * CELLS = c * CELL + CELL + CELL * d /\ CELL * d \in Nat /\ c * CELL \in Nat
    BY <1>1, <2>2
  <2>4. QED
    BY <1>1, <2>3
<1> HIDE DEF first, last, mask0, mask1, all
<1>8. n2 \in Block
  <2>1. ASSUME NEW c \in Nat, c <= last, NEW bits \in SUBSET all PROVE cell(c, bits) \subseteq 0 .. Entry(1) - 1
    BY <1>7, <2>1
  <2>2. first <= last /\ \A c \in first + 1 .. last - 1 : c \in Nat /\ c <= last
    BY <1>3, <1>4
  <2>3. cell(first, mask0 \cap mask1) \subseteq 0 .. Entry(1) - 1 /\ cell(first, mask0) \subseteq 0 .. Entry(1) - 1
        /\ cell(last, mask1) \subseteq 0 .. Entry(1) - 1
    BY <1>3, <1>5, <2>1, <2>2
  <2>4. \A c \in first + 1 .. last - 1 : cell(c, all) \subseteq 0 .. Entry(1) - 1
    BY <1>5, <2>1, <2>2
  <2> HIDE DEF cell
  <2>5. QED
    BY <1>6, <2>3, <2>4 DEF Block
<1>9. ASSUME NEW z \in 0 .. Entry(1) - 1
      PROVE  z \in n2 <=> \/ z \in n
                          \/ first = last /\ z \div CELL = first /\ z % CELL \in mask0 \cap mask1
                          \/ first # last /\ z \div CELL = first /\ z % CELL \in mask0
                          \/ first # last /\ z \div CELL = last /\ z % CELL \in mask1
                          \/ first # last /\ z \div CELL \in first + 1 .. last - 1
  <2>1. \A c \in Nat, bits \in SUBSET all : z \in cell(c, bits) <=> z \div CELL = c /\ z % CELL \in bits
    BY CellIs DEF all
  <2>2. z \in Nat /\ z % CELL \in all
    BY <1>1, <1>2, DivIs DEF all
  <2>3. \A c \in first + 1 .. last - 1 : c \in Nat /\ (z \in cell(c, all) <=> z \div CELL = c)
    BY <1>3, <1>5, <2>1, <2>2
  <2>4. z \in cell(first, mask0 \cap mask1) <=> z \div CELL = first /\ z % CELL \in mask0 \cap mask1
    BY <1>3, <1>5, <2>1
  <2>5. z \in cell(first, mask0) <=> z \div CELL = first /\ z % CELL \in mask0
    BY <1>3, <1>5, <2>1
  <2>6. z \in cell(last, mask1) <=> z \div CELL = last /\ z % CELL \in mask1
    BY <1>3, <1>5, <2>1
  <2> HIDE DEF cell
  <2>7. z \in UNION {cell(c, all) : c \in first + 1 .. last - 1} <=> z \div CELL \in first + 1 .. last - 1
    BY <2>3
  <2>8. CASE first = last
    BY <1>6, <2>4, <2>8
  <2>9. CASE first # last
    BY <1>6, <2>5, <2>6, <2>7, <2>9
  <2>10. QED
    BY <2>8, <2>9
<1>10. ASSUME NEW z \in 0 .. Entry(1) - 1
       PROVE  /\ z \in n2 => z \in n \/ (x <= z /\ z <= y)
              /\ x <= z /\ z <= y => z \in n2 \/ (LastOfCell(y) /\ z \div CELL = last)
  <2>1. PICK zc, zr : zc = z \div CELL /\ zr = z % CELL
    OBVIOUS
  <2>2. z \in Nat /\ zc \in Nat /\ zr \in 0 .. CELL - 1
    BY <1>1, <1>2, <2>1, DivIs
  <2>3. /\ x <= z <=> first < zc \/ (first = zc /\ x % CELL <= zr)
        /\ z <= y <=> zc < last \/ (zc = last /\ zr <= y % CELL)
    BY <1>2, <2>1, <2>2, CellOrder DEF first, last
  <2>4. zr \in mask0 <=> x % CELL <= zr
    BY <1>1, <1>3, <2>2 DEF mask0, all
  <2>5. zr \in mask1 <=> ~ LastOfCell(y) /\ zr <= y % CELL
    BY <1>1, <1>3, <1>5, <2>2 DEF all
  <2>6. zc \in first + 1 .. last - 1 <=> first < zc /\ zc < last
    BY <1>3, <2>2
  <2>7. z \in n2 <=> \/ z \in n
                     \/ first = last /\ zc = first /\ zr \in mask0 /\ zr \in mask1
                     \/ first # last /\ zc = first /\ zr \in mask0
                     \/ first # last /\ zc = last /\ zr \in mask1
                     \/ first # last /\ zc \in first + 1 .. last - 1
    BY <1>9, <2>1
  <2>8. QED
    BY <1>3, <1>4, <2>1, <2>2, <2>3, <2>4, <2>5, <2>6, <2>7
<1>11. QED
  BY <1>8, <1>9, <1>10 DEF last

\* The cells and the order of characters that lie in the same block.
LEMMA WithinBlock ==
  ASSUME NEW c \in Nat, NEW x, x = c % Entry(1)
  PROVE  /\ x \in 0 .. Entry(1) - 1 /\ x \in Nat /\ c = Entry(1) * Reg(1, c) + x
         /\ c \div CELL = CELLS * Reg(1, c) + (x \div CELL) /\ c % CELL = x % CELL
<1>1. CELL \in Nat \ {0} /\ CELLS \in Nat \ {0} /\ Entry(1) = CELL * CELLS /\ Entry(1) \in Nat \ {0}
  BY EntriesAre, FirstIs
<1>2. PICK q : q = Reg(1, c)
  OBVIOUS
<1>3. q \in Nat /\ x \in 0 .. Entry(1) - 1 /\ x \in Nat /\ c = Entry(1) * q + x
  <2>1. q = c \div Entry(1)
    BY <1>2 DEF Reg
  <2>2. q \in Nat /\ x \in 0 .. Entry(1) - 1 /\ c = Entry(1) * q + x
    BY <1>1, <2>1, DivIs, Zenon
  <2>3. QED
    BY <1>1, <2>2
<1>4. PICK p, r : p = x \div CELL /\ r = x % CELL
  OBVIOUS
<1>5. p \in Nat /\ r \in 0 .. CELL - 1 /\ x = CELL * p + r
  BY <1>1, <1>3, <1>4, DivIs
<1>6. (CELL * CELLS) * q = CELL * (CELLS * q) /\ CELLS * q \in Nat
  BY <1>1, <1>3
<1>7. PICK u : u = CELLS * q
  OBVIOUS
<1>8. u \in Nat /\ u + p \in Nat /\ CELL * (u + p) = CELL * u + CELL * p /\ CELL * u \in Nat /\ CELL * p \in Nat
  BY <1>1, <1>5, <1>6, <1>7
<1>9. c = CELL * (u + p) + r
  <2>1. c = CELL * u + x
    BY <1>1, <1>3, <1>6, <1>7
  <2>2. r \in Nat
    BY <1>1, <1>5
  <2>3. QED
    BY <1>5, <1>8, <2>1, <2>2
<1>10. c \div CELL = u + p /\ c % CELL = r
  BY <1>1, <1>5, <1>8, <1>9, DivUnique
<1>11. QED
  BY <1>2, <1>3, <1>4, <1>7, <1>10

LEMMA GoodBlock == Good(0)
<1> SUFFICES ASSUME NEW n \in Nodes(0), NEW a \in Nat, NEW b \in Nat, a <= b, SameNode(0, a, b)
             PROVE  Effect(0, n, a, b)
  BY DEF Good
<1>1. PICK x, y : x = a % Entry(1) /\ y = b % Entry(1)
  OBVIOUS
<1>2. PICK q : q = Reg(1, a)
  OBVIOUS
<1>3. PICK u : u = Entry(1) * q
  OBVIOUS
<1>4. u \in Nat /\ CELLS * q \in Nat
  <2>1. q \in Nat /\ Entry(1) \in Nat /\ CELLS \in Nat
    BY <1>2, FirstIs, EntriesAre, DivIs DEF Reg
  <2>2. QED
    BY <1>3, <2>1
<1>5. \A c \in Nat : SameNode(0, c, a) <=> Reg(1, c) = q
  BY <1>2 DEF SameNode
<1>6. ASSUME NEW c \in Nat, SameNode(0, c, a)
      PROVE  /\ c % Entry(1) \in 0 .. Entry(1) - 1 /\ c % Entry(1) \in Nat /\ c = u + (c % Entry(1))
             /\ c \div CELL = CELLS * q + ((c % Entry(1)) \div CELL) /\ c % CELL = (c % Entry(1)) % CELL
             /\ (c % Entry(1)) \div CELL \in Nat
  <2>1. Reg(1, c) = q
    BY <1>5, <1>6
  <2>2. CELL \in Nat \ {0}
    BY EntriesAre
  <2>3. c % Entry(1) \in Nat
    BY WithinBlock
  <2>4. (c % Entry(1)) \div CELL \in Nat
    BY <2>2, <2>3, DivIs
  <2>5. QED
    BY <1>3, <2>1, <2>4, WithinBlock
<1>7. SameNode(0, a, a) /\ SameNode(0, b, a)
  BY DEF SameNode
<1>8. /\ x \in 0 .. Entry(1) - 1 /\ y \in 0 .. Entry(1) - 1 /\ x \in Nat /\ y \in Nat /\ a = u + x /\ b = u + y /\ x <= y
      /\ b \div CELL = CELLS * q + (y \div CELL) /\ b % CELL = y % CELL /\ y \div CELL \in Nat
  BY <1>1, <1>4, <1>6, <1>7
<1>9. n \in Block
  BY DEF Nodes
<1>10. PICK n2 : n2 = FillAt(0, n, a, b)
  OBVIOUS
<1>11. n2 = L0_fill_range(n, x, y)
  BY <1>1, <1>10 DEF FillAt
<1>12. /\ n2 \in Block
       /\ \A z \in 0 .. Entry(1) - 1 :
            /\ z \in n => z \in n2
            /\ z \in n2 => z \in n \/ (x <= z /\ z <= y)
            /\ x <= z /\ z <= y => z \in n2 \/ (LastOfCell(y) /\ z \div CELL = y \div CELL)
  BY <1>8, <1>9, <1>11, BlockFills
<1>13. LastOfCell(y) => LastOfCell(b)
  BY <1>8, LastIs
<1>14. ASSUME NEW c \in Nat, SameNode(0, c, a) PROVE Gets(0, n, n2, a, b, c)
  <2>1. PICK z : z = c % Entry(1)
    OBVIOUS
  <2>2. z \in 0 .. Entry(1) - 1 /\ z \in Nat /\ c = u + z /\ c \div CELL = CELLS * q + (z \div CELL) /\ z \div CELL \in Nat
    BY <1>6, <1>14, <2>1
  <2>3. (Contains(0, n, c) <=> z \in n) /\ (Contains(0, n2, c) <=> z \in n2)
    BY <2>1 DEF Contains, L0_contains
  <2>4. (a <= c /\ c <= b <=> x <= z /\ z <= y)
    BY <1>4, <1>8, <2>2
  <2>5. z \div CELL = y \div CELL => c \div CELL = b \div CELL
    BY <1>8, <2>2
  <2>6. QED
    BY <1>12, <1>13, <2>2, <2>3, <2>4, <2>5 DEF Gets, Skips
<1>15. n2 \in Nodes(0) /\ ~ FreesAt(0, n, a, b)
  BY <1>12 DEF Nodes, FreesAt
<1>16. QED
  BY <1>10, <1>14, <1>15 DEF Effect

LEMMA AllGood == \A k \in {0, 2, 3} : Good(k)
<1>1. Good(0)
  BY GoodBlock
<1>2. Good(1)
  BY <1>1, GoodAbove
<1>3. Good(2)
  BY <1>2, GoodAbove
<1>4. Good(3)
  BY <1>3, GoodAbove
<1>5. QED
  BY <1>1, <1>3, <1>4

-----------------------------------------------------------------------------
\* The sets of a type and base.
Form(ty, ba) ==
  /\ ty \in {"small", "displaced", "large", "xlarge"} /\ ba \in Nat
  /\ ty # "displaced" => ba = 0
Sets(ty, ba) == [type : {ty}, comp : BOOLEAN, base : {ba}, n : Nodes(Level(ty)), bad : BOOLEAN]

LEMMA RoomIs ==
  ASSUME NEW ty, NEW ba, Form(ty, ba), NEW k, k = Level(ty)
  PROVE  /\ k \in {0, 2, 3} /\ (k = 0 <=> ty \in {"small", "displaced"}) /\ (k = 2 <=> ty = "large") /\ (k = 3 <=> ty = "xlarge")
         /\ k > 0 => ba = 0
         /\ Entry(k + 1) \in Nat \ {0} /\ Entry(k + 1) <= Entry(4)
         /\ \A x \in Nat : x < Entry(k + 1) => Reg(k + 1, x) = 0 /\ (k = 0 => x % Entry(1) = x)
<1>1. /\ k \in {0, 2, 3} /\ (k = 0 <=> ty \in {"small", "displaced"}) /\ (k = 2 <=> ty = "large") /\ (k = 3 <=> ty = "xlarge")
      /\ k > 0 => ba = 0
  BY DEF Level, Form
<1>2. Entry(k + 1) \in Nat \ {0} /\ Entry(k + 1) <= Entry(4)
  <2>1. Entry(1) \in Nat \ {0} /\ Entry(2) \in Nat \ {0} /\ Entry(3) \in Nat \ {0} /\ Entry(4) \in Nat \ {0}
    <3>1. 1 \in 1 .. 4 /\ 2 \in 1 .. 4 /\ 3 \in 1 .. 4 /\ 4 \in 1 .. 4
      OBVIOUS
    <3>2. QED
      BY <3>1, EntriesAre
  <2>2. Entry(1) <= Entry(4) /\ Entry(3) <= Entry(4)
    BY <2>1, EntriesAre
  <2>3. k + 1 = 1 \/ k + 1 = 3 \/ k + 1 = 4
    BY <1>1
  <2>4. QED
    BY <2>1, <2>2, <2>3
<1>3. ASSUME NEW x \in Nat, x < Entry(k + 1) PROVE Reg(k + 1, x) = 0 /\ (k = 0 => x % Entry(1) = x)
  <2>1. PICK e : e = Entry(k + 1)
    OBVIOUS
  <2>2. e \in Nat \ {0} /\ x \in 0 .. e - 1 /\ x = e * 0 + x
    BY <1>2, <1>3, <2>1
  <2>3. x \div e = 0 /\ x % e = x
    BY <2>2, DivUnique
  <2>4. QED
    BY <2>1, <2>3 DEF Reg
<1>4. QED
  BY <1>1, <1>2, <1>3

LEMMA CharsAre == Entry(4) \in Nat \ {0} /\ \A c \in Chars : c \in Nat
<1>1. 4 \in 1 .. 4
  OBVIOUS
<1>2. Entry(4) \in Nat \ {0}
  BY <1>1, EntriesAre
<1>3. QED
  BY <1>2 DEF Chars

LEMMA HasIs ==
  ASSUME NEW ty, NEW ba, Form(ty, ba), NEW s \in Sets(ty, ba), NEW c \in Nat
  PROVE  Has(s, c) <=> Room(ty, ba, c) /\ Contains(Level(ty), s.n, c - ba)
<1>1. s.type = ty /\ s.base = ba
  BY DEF Sets
<1>2. Level(ty) > 0 => c - ba = c
  BY RoomIs
<1>3. CASE ty \in {"small", "displaced"}
  BY <1>1, <1>3 DEF Has, Room, Contains, Level, Form
<1>4. CASE ty = "large"
  BY <1>1, <1>2, <1>4 DEF Has, Room, Contains, Level, Form
<1>5. CASE ty = "xlarge"
  BY <1>1, <1>2, <1>5 DEF Has, Room, Contains, Level, Form
<1>6. QED
  BY <1>3, <1>4, <1>5 DEF Form

\* A set that gets characters of X, all but some of M, and keeps what it has.
Grows(s, s2, X, M) ==
  \A c \in Chars : /\ Has(s, c) => Has(s2, c)
                   /\ Has(s2, c) => Has(s, c) \/ c \in X
                   /\ c \in X => Has(s2, c) \/ c \in M
\* A mark is only freed when the set has one of X.
FreesIn(s, s2, X) == s2.bad => s.bad \/ \E c \in Chars : c \in X /\ Has(s, c)

LEMMA GrowsOn ==
  ASSUME NEW s, NEW s2, NEW s3, NEW X, NEW Y, NEW M, NEW N, Grows(s, s2, X, M), Grows(s2, s3, Y, N)
  PROVE  Grows(s, s3, X \cup Y, M \cup N)
BY DEF Grows

\* The range from a to b, and what is missed of it.
Extent(a, b) == {c \in Chars : a <= c /\ c <= b}
Missed(ty, ba, a, b) == {c \in Extent(a, b) : MissedOf(ty, ba, a, b, c)}

LEMMA FillGrows ==
  ASSUME NEW ty, NEW ba, Form(ty, ba), NEW s \in Sets(ty, ba), NEW a \in Chars, NEW b \in Chars, a <= b,
         Room(ty, ba, a), Room(ty, ba, b), NEW k, k = Level(ty),
         NEW s2 \in Sets(ty, ba), s2.n = FillAt(k, s.n, a - ba, b - ba)
  PROVE  /\ Grows(s, s2, Extent(a, b), {c \in Extent(a, b) : Skips(k, b - ba, c - ba)})
         /\ FreesAt(k, s.n, a - ba, b - ba) => \E c \in Chars : c \in Extent(a, b) /\ Has(s, c)
<1>1. PICK x, y : x = a - ba /\ y = b - ba
  OBVIOUS
<1>2. Entry(4) \in Nat
  BY CharsAre
<1>3. a \in Nat /\ b \in Nat /\ ba \in Nat /\ \A c \in Chars : c \in Nat
  BY <1>2 DEF Chars, Form
<1>4. x \in Nat /\ y \in Nat /\ x <= y /\ x < Entry(k + 1) /\ y < Entry(k + 1) /\ Entry(k + 1) \in Nat
  BY <1>1, <1>3, RoomIs DEF Room
<1>5. \A z \in Nat : z < Entry(k + 1) => SameNode(k, z, x)
  BY <1>4, RoomIs DEF SameNode
<1>6. Effect(k, s.n, x, y)
  <2>1. Good(k)
    BY AllGood, RoomIs
  <2>2. s.n \in Nodes(k)
    BY DEF Sets
  <2>3. SameNode(k, x, y)
    BY <1>4, RoomIs DEF SameNode
  <2>4. QED
    BY <1>4, <2>1, <2>2, <2>3 DEF Good
<1>7. ASSUME NEW c \in Chars
      PROVE  /\ Has(s, c) => Has(s2, c)
             /\ Has(s2, c) => Has(s, c) \/ c \in Extent(a, b)
             /\ c \in Extent(a, b) => Has(s2, c) \/ Skips(k, b - ba, c - ba)
  <2>1. PICK z : z = c - ba
    OBVIOUS
  <2>2. c \in Nat
    BY <1>3
  <2>3. (Has(s, c) <=> Room(ty, ba, c) /\ Contains(k, s.n, z)) /\ (Has(s2, c) <=> Room(ty, ba, c) /\ Contains(k, s2.n, z))
    BY <2>1, <2>2, HasIs
  <2>4. c \in Extent(a, b) => Room(ty, ba, c)
    <3>1. PICK e : e = Entry(Level(ty) + 1)
      OBVIOUS
    <3>2. ba <= a /\ b - ba < e /\ e \in Nat
      BY <1>4, <3>1 DEF Room
    <3>3. a <= c /\ c <= b => ba <= c /\ c - ba < e
      BY <1>3, <2>2, <3>2
    <3>4. QED
      BY <3>1, <3>3 DEF Extent, Room
  <2>5. Room(ty, ba, c) => z \in Nat /\ z < Entry(k + 1) /\ (c \in Extent(a, b) <=> x <= z /\ z <= y)
    BY <1>1, <1>3, <2>1, <2>2 DEF Extent, Room
  <2>6. Room(ty, ba, c) => Gets(k, s.n, s2.n, x, y, z)
    BY <1>1, <1>5, <1>6, <2>5 DEF Effect
  <2>7. QED
    BY <1>1, <2>1, <2>3, <2>4, <2>5, <2>6 DEF Gets
<1>8. ASSUME FreesAt(k, s.n, a - ba, b - ba) PROVE \E c \in Chars : c \in Extent(a, b) /\ Has(s, c)
  <2>1. PICK z \in Nat : x <= z /\ z <= y /\ Contains(k, s.n, z)
    BY <1>1, <1>6, <1>8 DEF Effect
  <2>2. PICK c : c = z + ba
    OBVIOUS
  <2>3. c \in Nat /\ c - ba = z /\ a <= c /\ c <= b
    BY <1>1, <1>3, <2>1, <2>2
  <2>4. c \in Chars
    BY <1>2, <2>3 DEF Chars
  <2>5. Room(ty, ba, c)
    BY <1>3, <1>4, <2>1, <2>3 DEF Room
  <2>6. Has(s, c)
    BY <2>1, <2>3, <2>5, HasIs
  <2>7. QED
    BY <2>3, <2>4, <2>6 DEF Extent
<1>9. QED
  BY <1>7, <1>8 DEF Grows

\* The operations on a set.
LEMMA AddIs ==
  ASSUME NEW ty, NEW ba, Form(ty, ba), NEW s \in Sets(ty, ba), NEW ch \in Chars, Room(ty, ba, ch),
         NEW s2, s2 = char_set_add(s, ch)
  PROVE  /\ s2 \in Sets(ty, ba) /\ s2.bad = s.bad /\ s2.comp = s.comp
         /\ Grows(s, s2, {ch}, {c \in {ch} : Level(ty) > 0 /\ LastOfCell(c)})
<1>1. PICK k : k = Level(ty)
  OBVIOUS
<1>2. s.n \in Nodes(k) /\ s.type = ty /\ s.base = ba
  BY <1>1 DEF Sets
<1>3. /\ k \in {0, 2, 3} /\ (k = 0 <=> ty \in {"small", "displaced"}) /\ (k = 2 <=> ty = "large") /\ (k = 3 <=> ty = "xlarge")
      /\ k > 0 => ba = 0
  BY <1>1, RoomIs
<1>4. ch \in Nat /\ ba \in Nat /\ ch - ba \in Nat /\ ch - ba < Entry(k + 1) /\ Entry(k + 1) \in Nat
  <2>1. Entry(k + 1) \in Nat \ {0}
    BY <1>1, RoomIs
  <2>2. ba <= ch /\ ch - ba < Entry(k + 1) /\ ba \in Nat
    BY <1>1 DEF Form, Room
  <2>3. QED
    BY <2>1, <2>2, CharsAre
<1>5. CASE k = 0
  <2>1. s2 = [s EXCEPT !.n = s.n \cup {ch - ba}]
    BY <1>2, <1>3, <1>5 DEF char_set_add
  <2>2. ch - ba \in 0 .. Entry(1) - 1
    BY <1>4, <1>5
  <2>3. s.n \cup {ch - ba} \in Nodes(k)
    BY <1>2, <1>5, <2>2 DEF Nodes, Block
  <2>4. s2 \in Sets(ty, ba) /\ s2.bad = s.bad /\ s2.comp = s.comp /\ s2.n = s.n \cup {ch - ba}
    BY <1>1, <2>1, <2>3 DEF Sets
  <2>5. ASSUME NEW c \in Chars
        PROVE  Has(s2, c) <=> Has(s, c) \/ c = ch
    <3>1. c \in Nat
      BY CharsAre
    <3>2. (Has(s, c) <=> Room(ty, ba, c) /\ Contains(k, s.n, c - ba)) /\ (Has(s2, c) <=> Room(ty, ba, c) /\ Contains(k, s2.n, c - ba))
      BY <1>1, <2>4, <3>1, HasIs
    <3>3. Room(ty, ba, c) => c - ba \in Nat /\ c - ba < Entry(k + 1)
      BY <1>1, <1>4, <3>1 DEF Room
    <3>4. Room(ty, ba, c) => (c - ba) % Entry(1) = c - ba
      BY <1>1, <1>5, <3>3, RoomIs
    <3>5. c - ba = ch - ba <=> c = ch
      BY <1>4, <3>1
    <3>6. \A n : Room(ty, ba, c) => (Contains(k, n, c - ba) <=> c - ba \in n)
      BY <1>5, <3>4 DEF Contains, L0_contains
    <3>7. QED
      BY <2>4, <3>2, <3>5, <3>6
  <2>6. QED
    BY <2>4, <2>5 DEF Grows
<1>6. CASE k \in {2, 3}
  <2>1. ch - ba = ch /\ k > 0
    BY <1>3, <1>4, <1>6
  <2>2. s2 = [s EXCEPT !.n = FillAt(k, s.n, ch, ch)]
    BY <1>2, <1>3, <1>6 DEF char_set_add, FillAt
  <2>3. FillAt(k, s.n, ch, ch) \in Nodes(k)
    <3>1. Good(k) /\ SameNode(k, ch, ch)
      BY <1>3, AllGood DEF SameNode
    <3>2. QED
      BY <1>2, <1>4, <3>1 DEF Good, Effect
  <2>4. s2 \in Sets(ty, ba) /\ s2.bad = s.bad /\ s2.comp = s.comp /\ s2.n = FillAt(k, s.n, ch, ch)
    BY <1>1, <2>2, <2>3 DEF Sets
  <2>5. Grows(s, s2, Extent(ch, ch), {c \in Extent(ch, ch) : Skips(k, ch - ba, c - ba)})
    BY <1>1, <1>4, <2>1, <2>4, FillGrows
  <2>6. Extent(ch, ch) = {ch}
    <3>1. \A c \in Chars : ch <= c /\ c <= ch <=> c = ch
      BY <1>4, CharsAre
    <3>2. QED
      BY <3>1 DEF Extent
  <2>7. Skips(k, ch, ch) => LastOfCell(ch)
    <3>1. Reg(1, ch) \in Nat
      BY <1>4, FirstIs, DivIs DEF Reg
    <3>2. QED
      BY <3>1 DEF Skips
  <2>8. QED
    BY <1>1, <2>1, <2>4, <2>5, <2>6, <2>7 DEF Grows
<1>7. QED
  BY <1>3, <1>5, <1>6

LEMMA AddRangeIs ==
  ASSUME NEW ty, NEW ba, Form(ty, ba), NEW s \in Sets(ty, ba), NEW a \in Chars, NEW b \in Chars, Room(ty, ba, a), Room(ty, ba, b),
         NEW s2, s2 = char_set_add_range(s, a, b)
  PROVE  /\ s2 \in Sets(ty, ba) /\ s2.comp = s.comp
         /\ Grows(s, s2, Extent(a, b), Missed(ty, ba, a, b)) /\ FreesIn(s, s2, Extent(a, b))
<1>1. PICK k : k = Level(ty)
  OBVIOUS
<1>2. s.n \in Nodes(k) /\ s.type = ty /\ s.base = ba /\ s.bad \in BOOLEAN
  BY <1>1 DEF Sets
<1>3. /\ k \in {0, 2, 3} /\ (k = 0 <=> ty \in {"small", "displaced"}) /\ (k = 2 <=> ty = "large") /\ (k = 3 <=> ty = "xlarge")
      /\ k > 0 => ba = 0
  BY <1>1, RoomIs
<1>4. a \in Nat /\ b \in Nat /\ ba \in Nat
  BY CharsAre DEF Form
<1>5. CASE a >= b
  <2>1. s2 = s
    BY <1>5 DEF char_set_add_range
  <2>2. \A c \in Chars : c \in Extent(a, b) => c \in Missed(ty, ba, a, b)
    <3> SUFFICES ASSUME NEW c \in Chars, a <= c, c <= b PROVE MissedOf(ty, ba, a, b, c)
      BY DEF Extent, Missed
    <3>1. a = b
      BY <1>4, <1>5, CharsAre
    <3>2. QED
      BY <3>1 DEF MissedOf
  <2>3. QED
    BY <2>1, <2>2 DEF Grows, FreesIn
<1>6. CASE a < b
  <2>1. PICK x, y : x = a - ba /\ y = b - ba
    OBVIOUS
  <2>2. x \in Nat /\ y \in Nat /\ x <= y /\ x < Entry(k + 1) /\ y < Entry(k + 1) /\ Entry(k + 1) \in Nat /\ a <= b /\ ~ (a >= b)
    BY <1>1, <1>4, <1>6, <2>1, RoomIs DEF Room
  <2>3. s2 = [s EXCEPT !.n = FillAt(k, s.n, x, y), !.bad = s.bad \/ FreesAt(k, s.n, x, y)]
    <3>1. CASE k = 0
      <4>1. x % Entry(1) = x /\ y % Entry(1) = y
        BY <1>1, <2>2, <3>1, RoomIs
      <4>2. s2 = [s EXCEPT !.n = L0_fill_range(s.n, x, y)]
        BY <1>2, <1>3, <2>1, <2>2, <3>1 DEF char_set_add_range
      <4>3. FillAt(k, s.n, x, y) = L0_fill_range(s.n, x, y) /\ ~ FreesAt(k, s.n, x, y)
        BY <3>1, <4>1 DEF FillAt, FreesAt
      <4>4. (s.bad \/ FreesAt(k, s.n, x, y)) = s.bad
        BY <1>2, <4>3
      <4>5. s = [type |-> s.type, comp |-> s.comp, base |-> s.base, n |-> s.n, bad |-> s.bad]
        BY DEF Sets
      <4>6. QED
        BY <4>2, <4>3, <4>4, <4>5
    <3>2. CASE k \in {2, 3}
      <4>1. x = a /\ y = b
        BY <1>3, <1>4, <2>1, <3>2
      <4>2. CASE k = 2
        <5>1. s2 = [s EXCEPT !.n = L2_fill_range(s.n, a, b), !.bad = s.bad \/ L2_frees(s.n, a, b)]
          BY <1>2, <1>3, <2>2, <4>2 DEF char_set_add_range
        <5>2. FillAt(k, s.n, x, y) = L2_fill_range(s.n, a, b) /\ FreesAt(k, s.n, x, y) = L2_frees(s.n, a, b)
          BY <4>1, <4>2 DEF FillAt, FreesAt
        <5>3. QED
          BY <5>1, <5>2, Zenon
      <4>3. CASE k = 3
        <5>1. s2 = [s EXCEPT !.n = L3_fill_range(s.n, a, b), !.bad = s.bad \/ L3_frees(s.n, a, b)]
          BY <1>2, <1>3, <2>2, <4>3 DEF char_set_add_range
        <5>2. FillAt(k, s.n, x, y) = L3_fill_range(s.n, a, b) /\ FreesAt(k, s.n, x, y) = L3_frees(s.n, a, b)
          BY <4>1, <4>3 DEF FillAt, FreesAt
        <5>3. QED
          BY <5>1, <5>2, Zenon
      <4>4. QED
        BY <3>2, <4>2, <4>3
    <3>3. QED
      BY <1>3, <3>1, <3>2
  <2>4. FillAt(k, s.n, x, y) \in Nodes(k)
    <3>1. Good(k)
      BY <1>3, AllGood
    <3>2. SameNode(k, x, y)
      BY <1>1, <2>2, RoomIs DEF SameNode
    <3>3. QED
      BY <1>2, <2>2, <3>1, <3>2 DEF Good, Effect
  <2>5. /\ s2 \in Sets(ty, ba) /\ s2.comp = s.comp /\ s2.n = FillAt(k, s.n, x, y) /\ (s2.bad <=> s.bad \/ FreesAt(k, s.n, x, y))
    BY <1>1, <1>2, <2>3, <2>4 DEF Sets
  <2>6. /\ Grows(s, s2, Extent(a, b), {c \in Extent(a, b) : Skips(k, b - ba, c - ba)})
        /\ FreesAt(k, s.n, a - ba, b - ba) => \E c \in Chars : c \in Extent(a, b) /\ Has(s, c)
    BY <1>1, <2>1, <2>2, <2>5, FillGrows
  <2>7. ASSUME NEW c \in Extent(a, b), Skips(k, b - ba, c - ba) PROVE MissedOf(ty, ba, a, b, c)
    <3>1. c \in Nat /\ (k > 0 => c - ba = c /\ b - ba = b)
      BY <1>3, <1>4, CharsAre DEF Extent
    <3>2. QED
      BY <1>1, <2>7, <3>1 DEF Skips, MissedOf, Reg
  <2>8. Grows(s, s2, Extent(a, b), Missed(ty, ba, a, b))
    BY <2>6, <2>7 DEF Grows, Missed
  <2>9. FreesIn(s, s2, Extent(a, b))
    BY <2>1, <2>5, <2>6 DEF FreesIn
  <2>10. QED
    BY <2>5, <2>8, <2>9
<1>7. QED
  BY <1>4, <1>5, <1>6

\* Where the special classes lie.
LEMMA SpecialsAre ==
  /\ Len(Spaces) \in Nat \ {0} /\ DOMAIN Spaces = 1 .. Len(Spaces)
  /\ \A i \in 1 .. Len(Spaces) : Spaces[i] \in Chars /\ Spaces[1] <= Spaces[i] /\ Spaces[i] <= Spaces[Len(Spaces)]
  /\ Spaces[Len(Spaces)] < Entry(3)
  /\ \A c \in {Digits[1], Digits[2], Upper[1], Upper[2], Underscore, Lower[1], Lower[2]} : c \in Chars /\ c \in Nat /\ c < Entry(1)
  /\ Digits[1] < Digits[2] /\ Digits[2] < Upper[1] /\ Upper[1] < Upper[2] /\ Upper[2] < Underscore
  /\ Underscore < Lower[1] /\ Lower[1] < Lower[2]
<1>1. Entry(1) \in Nat \ {0} /\ Entry(3) \in Nat \ {0} /\ Entry(4) \in Nat \ {0} /\ Entry(1) <= Entry(4) /\ Entry(3) <= Entry(4)
  <2>1. 1 \in 1 .. 4 /\ 2 \in 1 .. 4 /\ 3 \in 1 .. 4 /\ 4 \in 1 .. 4
    OBVIOUS
  <2>2. Entry(1) \in Nat \ {0} /\ Entry(2) \in Nat \ {0} /\ Entry(3) \in Nat \ {0} /\ Entry(4) \in Nat \ {0}
    BY <2>1, EntriesAre
  <2>3. QED
    BY <2>2, EntriesAre
<1>2. Len(Spaces) \in Nat \ {0} /\ DOMAIN Spaces = 1 .. Len(Spaces) /\ \A i \in 1 .. Len(Spaces) : Spaces[i] \in Nat
  <2>1. Spaces \in Seq(Nat) /\ Spaces # <<>>
    BY SpecialClasses
  <2>2. QED
    BY <2>1
<1>3. \A i \in 1 .. Len(Spaces) : Spaces[1] <= Spaces[i] /\ Spaces[i] <= Spaces[Len(Spaces)]
  BY <1>2, SpecialClasses
<1>4. Spaces[Len(Spaces)] < Entry(3) /\ Spaces[Len(Spaces)] \in Nat
  <2>1. Len(Spaces) \in 1 .. Len(Spaces)
    BY <1>2
  <2>2. QED
    BY <1>2, <2>1, SpecialClasses
<1>5. \A i \in 1 .. Len(Spaces) : Spaces[i] \in Chars
  BY <1>1, <1>2, <1>3, <1>4 DEF Chars
<1>6. \A c \in {Digits[1], Digits[2], Upper[1], Upper[2], Underscore, Lower[1], Lower[2]} : c \in 0 .. Entry(1) - 1
  BY SpecialClasses
<1>7. \A c \in 0 .. Entry(1) - 1 : c \in Chars /\ c \in Nat /\ c < Entry(1)
  BY <1>1 DEF Chars
<1>8. QED
  BY <1>2, <1>3, <1>4, <1>5, <1>6, <1>7, SpecialClasses

AllSpaces == {Spaces[i] : i \in 1 .. Len(Spaces)}

LEMMA AddStrIs ==
  ASSUME NEW ty, NEW ba, Form(ty, ba), NEW s \in Sets(ty, ba), \A c \in AllSpaces : Room(ty, ba, c),
         NEW s2, s2 = char_set_add_str(s, Spaces)
  PROVE  /\ s2 \in Sets(ty, ba) /\ s2.bad = s.bad /\ s2.comp = s.comp
         /\ Grows(s, s2, AllSpaces, {c \in AllSpaces : Level(ty) > 0 /\ LastOfCell(c)})
<1> DEFINE N == Len(Spaces)
           F == [v \in (1 .. N) \X Sets(ty, ba) |-> char_set_add(v[2], Spaces[v[1]])]
           Is(g) == g = [i \in 0 .. N |-> IF i = 0 THEN s ELSE char_set_add(g[i - 1], Spaces[i])]
           first(i) == {Spaces[j] : j \in 1 .. i}
           lost(i) == {c \in first(i) : Level(ty) > 0 /\ LastOfCell(c)}
<1>1. N \in Nat /\ \A i \in 1 .. N : Spaces[i] \in Chars /\ Room(ty, ba, Spaces[i])
  BY SpecialsAre DEF AllSpaces
<1> HIDE DEF N
<1>2. ASSUME NEW i \in 1 .. N, NEW v \in Sets(ty, ba)
      PROVE  /\ char_set_add(v, Spaces[i]) \in Sets(ty, ba)
             /\ char_set_add(v, Spaces[i]).bad = v.bad /\ char_set_add(v, Spaces[i]).comp = v.comp
             /\ Grows(v, char_set_add(v, Spaces[i]), {Spaces[i]}, {c \in {Spaces[i]} : Level(ty) > 0 /\ LastOfCell(c)})
  <2>1. PICK ch, v2 : ch = Spaces[i] /\ v2 = char_set_add(v, ch)
    OBVIOUS
  <2>2. ch \in Chars /\ Room(ty, ba, ch)
    BY <1>1, <2>1
  <2>3. /\ v2 \in Sets(ty, ba) /\ v2.bad = v.bad /\ v2.comp = v.comp
        /\ Grows(v, v2, {ch}, {c \in {ch} : Level(ty) > 0 /\ LastOfCell(c)})
    BY <2>1, <2>2, AddIs
  <2>4. QED
    BY <2>1, <2>3
<1>3. F \in Steps(N, Sets(ty, ba)) /\ \A i \in 1 .. N, v \in Sets(ty, ba) : F[<<i, v>>] = char_set_add(v, Spaces[i])
  BY <1>2 DEF Steps
<1> HIDE DEF F
<1>4. PICK g : Solves(g, s, F, N, Sets(ty, ba))
  BY <1>1, <1>3, Recursion, Zenon
<1>5. Is(g)
  <2>1. g \in [0 .. N -> Sets(ty, ba)] /\ g[0] = s
    BY <1>4 DEF Solves
  <2>2. ASSUME NEW i \in 1 .. N PROVE g[i] = char_set_add(g[i - 1], Spaces[i])
    <3>1. i - 1 \in 0 .. N
      BY <1>1
    <3>2. g[i - 1] \in Sets(ty, ba) /\ g[i] = F[<<i, g[i - 1]>>]
      BY <1>4, <2>1, <3>1 DEF Solves
    <3>3. QED
      BY <1>3, <3>2
  <2>3. QED
    BY <1>1, <2>1, <2>2
<1>6. Is(CHOOSE h : Is(h))
  <2> HIDE DEF Is
  <2>1. QED
    BY <1>5, Zenon
<1>7. PICK p : Is(p) /\ s2 = p[N]
  BY <1>6, Zenon DEF char_set_add_str, N
<1>8. p[0] = s /\ \A i \in 1 .. N : p[i] = char_set_add(p[i - 1], Spaces[i])
  BY <1>1, <1>7
<1> DEFINE T == {i \in Nat : i <= N =>
                   /\ p[i] \in Sets(ty, ba) /\ p[i].bad = s.bad /\ p[i].comp = s.comp
                   /\ Grows(s, p[i], first(i), lost(i))}
<1>9. 0 \in T
  <2>1. first(0) = {}
    OBVIOUS
  <2>2. Grows(s, s, first(0), lost(0))
    BY <2>1 DEF Grows
  <2>3. QED
    BY <1>8, <2>2
<1>10. ASSUME NEW i \in Nat, i \in T PROVE i + 1 \in T
  <2>1. SUFFICES ASSUME i + 1 <= N
                 PROVE  /\ p[i + 1] \in Sets(ty, ba) /\ p[i + 1].bad = s.bad /\ p[i + 1].comp = s.comp
                        /\ Grows(s, p[i + 1], first(i + 1), lost(i + 1))
    OBVIOUS
  <2>2. i <= N /\ i + 1 \in 1 .. N /\ (i + 1) - 1 = i
    BY <1>1, <2>1
  <2>3. /\ p[i] \in Sets(ty, ba) /\ p[i].bad = s.bad /\ p[i].comp = s.comp
        /\ Grows(s, p[i], first(i), lost(i)) /\ p[i + 1] = char_set_add(p[i], Spaces[i + 1])
    BY <1>8, <1>10, <2>2
  <2>4. first(i + 1) = first(i) \cup {Spaces[i + 1]}
    <3>1. 1 .. (i + 1) = (1 .. i) \cup {i + 1}
      OBVIOUS
    <3>2. QED
      BY <3>1
  <2>5. lost(i + 1) = lost(i) \cup {c \in {Spaces[i + 1]} : Level(ty) > 0 /\ LastOfCell(c)}
    BY <2>4
  <2>6. Grows(p[i], p[i + 1], {Spaces[i + 1]}, {c \in {Spaces[i + 1]} : Level(ty) > 0 /\ LastOfCell(c)})
        /\ p[i + 1] \in Sets(ty, ba) /\ p[i + 1].bad = p[i].bad /\ p[i + 1].comp = p[i].comp
    BY <1>2, <2>2, <2>3, ZenonT(60)
  <2> HIDE DEF first, lost
  <2>7. Grows(s, p[i + 1], first(i + 1), lost(i + 1))
    BY <2>3, <2>4, <2>5, <2>6, GrowsOn
  <2>8. QED
    BY <2>3, <2>6, <2>7
<1> HIDE DEF T
<1>11. N \in T
  BY <1>1, <1>9, <1>10, SetInduction
<1>12. first(N) = AllSpaces
  BY DEF N, AllSpaces
<1>13. /\ s2 \in Sets(ty, ba) /\ s2.bad = s.bad /\ s2.comp = s.comp
       /\ Grows(s, s2, first(N), lost(N))
  BY <1>1, <1>7, <1>11 DEF T
<1>14. QED
  BY <1>12, <1>13

\* What an item names, and what may be missed of it.
Named(item) == {c \in Chars : Names(item, c)}
MissedBy(ty, ba, item) == {c \in Named(item) : Misses(ty, ba, item, c)}

LEMMA ItemIs ==
  ASSUME NEW item, IsItem(item)
  PROVE  \/ /\ item[1] = "chr" /\ item[2] \in Chars /\ Named(item) = {item[2]}
            /\ \A ty, ba : {c \in {item[2]} : Level(ty) > 0 /\ LastOfCell(c)} \subseteq MissedBy(ty, ba, item)
         \/ /\ item[1] = "range" /\ item[2] \in Chars /\ item[3] \in Chars /\ Named(item) = Extent(item[2], item[3])
            /\ \A ty, ba : Missed(ty, ba, item[2], item[3]) \subseteq MissedBy(ty, ba, item)
         \/ /\ item = Special("space") /\ item[1] = "class" /\ Named(item) = AllSpaces
            /\ \A ty, ba : {c \in AllSpaces : Level(ty) > 0 /\ LastOfCell(c)} \subseteq MissedBy(ty, ba, item)
         \/ /\ item = Special("digit") /\ item[1] = "class" /\ item # Special("space") /\ Named(item) = Extent(Digits[1], Digits[2])
            /\ \A ty, ba : Missed(ty, ba, Digits[1], Digits[2]) \subseteq MissedBy(ty, ba, item)
         \/ /\ item = Special("word") /\ item[1] = "class" /\ item # Special("space") /\ item # Special("digit")
            /\ Named(item) = Extent(Upper[1], Upper[2]) \cup Extent(Lower[1], Lower[2]) \cup {Underscore}
            /\ \A ty, ba : Missed(ty, ba, Upper[1], Upper[2]) \cup Missed(ty, ba, Lower[1], Lower[2])
                             \cup {c \in {Underscore} : Level(ty) > 0 /\ LastOfCell(c)} \subseteq MissedBy(ty, ba, item)
<1>1. /\ Special("space")[1] = "class" /\ Special("digit")[1] = "class" /\ Special("word")[1] = "class"
      /\ Special("space") # Special("digit") /\ Special("space") # Special("word") /\ Special("digit") # Special("word")
  BY DEF Special
<1>2. CASE item[1] = "chr" /\ item[2] \in Chars
  <2>1. item \notin {Special("space"), Special("digit"), Special("word")}
    BY <1>1, <1>2
  <2>2. Named(item) = {item[2]}
    BY <1>2, <2>1 DEF Named, Names
  <2>3. \A ty, ba : {c \in {item[2]} : Level(ty) > 0 /\ LastOfCell(c)} \subseteq MissedBy(ty, ba, item)
    BY <1>2, <2>2 DEF MissedBy, Misses, Single
  <2>4. QED
    BY <1>2, <2>2, <2>3
<1>3. CASE item[1] = "range" /\ item[2] \in Chars /\ item[3] \in Chars
  <2>1. item \notin {Special("space"), Special("digit"), Special("word")}
    BY <1>1, <1>3
  <2>2. Named(item) = Extent(item[2], item[3])
    BY <1>3, <2>1 DEF Named, Names, Extent
  <2>3. Ranges(item) = {<<item[2], item[3]>>}
    BY <1>3 DEF Ranges
  <2>4. \A ty, ba : Missed(ty, ba, item[2], item[3]) \subseteq MissedBy(ty, ba, item)
    BY <2>2, <2>3 DEF MissedBy, Misses, Missed, Extent
  <2>5. QED
    BY <1>3, <2>2, <2>4
<1>4. CASE item = Special("space")
  <2>1. Named(item) = AllSpaces
    BY <1>1, <1>4, SpecialsAre DEF Named, Names, AllSpaces
  <2>2. \A ty, ba : {c \in AllSpaces : Level(ty) > 0 /\ LastOfCell(c)} \subseteq MissedBy(ty, ba, item)
    BY <1>4, <2>1 DEF MissedBy, Misses, Single
  <2>3. QED
    BY <1>1, <1>4, <2>1, <2>2
<1>5. CASE item = Special("digit")
  <2>1. Named(item) = Extent(Digits[1], Digits[2])
    BY <1>1, <1>5 DEF Named, Names, Extent
  <2>2. Ranges(item) = {<<Digits[1], Digits[2]>>}
    BY <1>1, <1>5 DEF Ranges
  <2>3. \A ty, ba : Missed(ty, ba, Digits[1], Digits[2]) \subseteq MissedBy(ty, ba, item)
    BY <2>1, <2>2 DEF MissedBy, Misses, Missed, Extent
  <2>4. QED
    BY <1>1, <1>5, <2>1, <2>3
<1>6. CASE item = Special("word")
  <2>1. Named(item) = Extent(Upper[1], Upper[2]) \cup Extent(Lower[1], Lower[2]) \cup {Underscore}
    <3>1. Underscore \in Chars
      BY SpecialsAre
    <3>2. \A c : Names(item, c) <=> (Upper[1] <= c /\ c <= Upper[2]) \/ (Lower[1] <= c /\ c <= Lower[2]) \/ c = Underscore
      BY <1>1, <1>6 DEF Names
    <3>3. QED
      BY <3>1, <3>2 DEF Named, Extent
  <2>2. Ranges(item) = {<<Upper[1], Upper[2]>>, <<Lower[1], Lower[2]>>}
    BY <1>1, <1>6 DEF Ranges
  <2>3. ASSUME NEW ty, NEW ba
        PROVE  /\ Missed(ty, ba, Upper[1], Upper[2]) \subseteq MissedBy(ty, ba, item)
               /\ Missed(ty, ba, Lower[1], Lower[2]) \subseteq MissedBy(ty, ba, item)
               /\ {c \in {Underscore} : Level(ty) > 0 /\ LastOfCell(c)} \subseteq MissedBy(ty, ba, item)
    <3>1. \A c \in Missed(ty, ba, Upper[1], Upper[2]) : c \in Named(item) /\ Misses(ty, ba, item, c)
      BY <2>1, <2>2 DEF Misses, Missed, Extent
    <3>2. \A c \in Missed(ty, ba, Lower[1], Lower[2]) : c \in Named(item) /\ Misses(ty, ba, item, c)
      BY <2>1, <2>2 DEF Misses, Missed, Extent
    <3>3. Level(ty) > 0 /\ LastOfCell(Underscore) => Underscore \in Named(item) /\ Misses(ty, ba, item, Underscore)
      BY <1>6, <2>1 DEF Misses, Single
    <3>4. QED
      BY <3>1, <3>2, <3>3 DEF MissedBy
  <2>4. QED
    BY <1>1, <1>6, <2>1, <2>3
<1>7. QED
  BY <1>2, <1>3, <1>4, <1>5, <1>6 DEF IsItem

\* An item adds what it names.
LEMMA AddItemIs ==
  ASSUME NEW ty, NEW ba, Form(ty, ba), NEW s \in Sets(ty, ba), NEW item, IsItem(item), \A c \in Named(item) : Room(ty, ba, c),
         NEW s2, s2 = AddItem(s, item)
  PROVE  /\ s2 \in Sets(ty, ba) /\ s2.comp = s.comp
         /\ Grows(s, s2, Named(item), MissedBy(ty, ba, item)) /\ FreesIn(s, s2, Named(item))
<1>1. \A X, M : M \subseteq MissedBy(ty, ba, item) /\ X = Named(item) /\ Grows(s, s2, X, M) => Grows(s, s2, Named(item), MissedBy(ty, ba, item))
  BY DEF Grows
<1>2. CASE item[1] = "chr" /\ item[2] \in Chars /\ Named(item) = {item[2]}
           /\ {c \in {item[2]} : Level(ty) > 0 /\ LastOfCell(c)} \subseteq MissedBy(ty, ba, item)
  <2>1. s2 = char_set_add(s, item[2])
    BY <1>2 DEF AddItem
  <2>2. Room(ty, ba, item[2])
    BY <1>2
  <2>3. /\ s2 \in Sets(ty, ba) /\ s2.bad = s.bad /\ s2.comp = s.comp
        /\ Grows(s, s2, {item[2]}, {c \in {item[2]} : Level(ty) > 0 /\ LastOfCell(c)})
    BY <1>2, <2>1, <2>2, AddIs
  <2>4. QED
    BY <1>1, <1>2, <2>3 DEF FreesIn
<1>3. CASE item[1] = "range" /\ item[2] \in Chars /\ item[3] \in Chars /\ Named(item) = Extent(item[2], item[3])
           /\ Missed(ty, ba, item[2], item[3]) \subseteq MissedBy(ty, ba, item)
  <2>1. s2 = char_set_add_range(s, item[2], item[3])
    BY <1>3 DEF AddItem
  <2>2. CASE item[2] <= item[3]
    <3>1. Room(ty, ba, item[2]) /\ Room(ty, ba, item[3])
      BY <1>3, <2>2, CharsAre DEF Extent
    <3>2. /\ s2 \in Sets(ty, ba) /\ s2.comp = s.comp
          /\ Grows(s, s2, Extent(item[2], item[3]), Missed(ty, ba, item[2], item[3])) /\ FreesIn(s, s2, Extent(item[2], item[3]))
      BY <1>3, <2>1, <3>1, AddRangeIs
    <3>3. QED
      BY <1>1, <1>3, <3>2
  <2>3. CASE ~ (item[2] <= item[3])
    <3>1. s2 = s
      BY <1>3, <2>1, <2>3, CharsAre DEF char_set_add_range
    <3>2. \A c \in Chars : c \notin Named(item)
      BY <1>3, <2>3, CharsAre DEF Extent
    <3>3. QED
      BY <3>1, <3>2 DEF Grows, FreesIn
  <2>4. QED
    BY <2>2, <2>3
<1>4. CASE item = Special("space") /\ item[1] = "class" /\ Named(item) = AllSpaces
           /\ {c \in AllSpaces : Level(ty) > 0 /\ LastOfCell(c)} \subseteq MissedBy(ty, ba, item)
  <2>1. s2 = char_set_add_str(s, Spaces)
    BY <1>4 DEF AddItem
  <2>2. /\ s2 \in Sets(ty, ba) /\ s2.bad = s.bad /\ s2.comp = s.comp
        /\ Grows(s, s2, AllSpaces, {c \in AllSpaces : Level(ty) > 0 /\ LastOfCell(c)})
    BY <1>4, <2>1, AddStrIs
  <2>3. QED
    BY <1>1, <1>4, <2>2 DEF FreesIn
<1>5. CASE item = Special("digit") /\ item[1] = "class" /\ item # Special("space") /\ Named(item) = Extent(Digits[1], Digits[2])
           /\ Missed(ty, ba, Digits[1], Digits[2]) \subseteq MissedBy(ty, ba, item)
  <2>1. s2 = char_set_add_range(s, Digits[1], Digits[2])
    BY <1>5 DEF AddItem
  <2>2. Digits[1] \in Chars /\ Digits[2] \in Chars /\ Digits[1] \in Extent(Digits[1], Digits[2]) /\ Digits[2] \in Extent(Digits[1], Digits[2])
    BY SpecialsAre DEF Extent
  <2>3. /\ s2 \in Sets(ty, ba) /\ s2.comp = s.comp
        /\ Grows(s, s2, Extent(Digits[1], Digits[2]), Missed(ty, ba, Digits[1], Digits[2])) /\ FreesIn(s, s2, Extent(Digits[1], Digits[2]))
    BY <1>5, <2>1, <2>2, AddRangeIs
  <2>4. QED
    BY <1>1, <1>5, <2>3
<1>6. CASE /\ item = Special("word") /\ item[1] = "class" /\ item # Special("space") /\ item # Special("digit")
           /\ Named(item) = Extent(Upper[1], Upper[2]) \cup Extent(Lower[1], Lower[2]) \cup {Underscore}
           /\ Missed(ty, ba, Upper[1], Upper[2]) \cup Missed(ty, ba, Lower[1], Lower[2])
                \cup {c \in {Underscore} : Level(ty) > 0 /\ LastOfCell(c)} \subseteq MissedBy(ty, ba, item)
  <2>1. PICK t, u : t = char_set_add_range(s, Upper[1], Upper[2]) /\ u = char_set_add_range(t, Lower[1], Lower[2])
    OBVIOUS
  <2>2. s2 = char_set_add(u, Underscore)
    BY <1>6, <2>1 DEF AddItem
  <2>3. /\ Upper[1] \in Extent(Upper[1], Upper[2]) /\ Upper[2] \in Extent(Upper[1], Upper[2])
        /\ Lower[1] \in Extent(Lower[1], Lower[2]) /\ Lower[2] \in Extent(Lower[1], Lower[2])
    BY SpecialsAre DEF Extent
  <2>4. /\ Upper[1] \in Chars /\ Upper[2] \in Chars /\ Lower[1] \in Chars /\ Lower[2] \in Chars /\ Underscore \in Chars
        /\ Room(ty, ba, Upper[1]) /\ Room(ty, ba, Upper[2]) /\ Room(ty, ba, Lower[1]) /\ Room(ty, ba, Lower[2]) /\ Room(ty, ba, Underscore)
    BY <1>6, <2>3, SpecialsAre
  <2>5. /\ t \in Sets(ty, ba) /\ t.comp = s.comp
        /\ Grows(s, t, Extent(Upper[1], Upper[2]), Missed(ty, ba, Upper[1], Upper[2])) /\ FreesIn(s, t, Extent(Upper[1], Upper[2]))
    <3>1. PICK a, b : a = Upper[1] /\ b = Upper[2]
      OBVIOUS
    <3>2. a \in Chars /\ b \in Chars /\ Room(ty, ba, a) /\ Room(ty, ba, b) /\ t = char_set_add_range(s, a, b)
      BY <2>1, <2>4, <3>1
    <3>3. /\ t \in Sets(ty, ba) /\ t.comp = s.comp
          /\ Grows(s, t, Extent(a, b), Missed(ty, ba, a, b)) /\ FreesIn(s, t, Extent(a, b))
      BY <3>2, AddRangeIs
    <3>4. QED
      BY <3>1, <3>3
  <2>6. /\ u \in Sets(ty, ba) /\ u.comp = t.comp
        /\ Grows(t, u, Extent(Lower[1], Lower[2]), Missed(ty, ba, Lower[1], Lower[2])) /\ FreesIn(t, u, Extent(Lower[1], Lower[2]))
    <3>1. PICK a, b : a = Lower[1] /\ b = Lower[2]
      OBVIOUS
    <3>2. a \in Chars /\ b \in Chars /\ Room(ty, ba, a) /\ Room(ty, ba, b) /\ u = char_set_add_range(t, a, b)
      BY <2>1, <2>4, <3>1
    <3>3. /\ u \in Sets(ty, ba) /\ u.comp = t.comp
          /\ Grows(t, u, Extent(a, b), Missed(ty, ba, a, b)) /\ FreesIn(t, u, Extent(a, b))
      BY <3>2, <2>5, AddRangeIs
    <3>4. QED
      BY <3>1, <3>3
  <2>7. /\ s2 \in Sets(ty, ba) /\ s2.bad = u.bad /\ s2.comp = u.comp
        /\ Grows(u, s2, {Underscore}, {c \in {Underscore} : Level(ty) > 0 /\ LastOfCell(c)})
    BY <2>2, <2>4, <2>6, AddIs
  <2>8. \A c \in Chars : c \in Extent(Lower[1], Lower[2]) => c \notin Extent(Upper[1], Upper[2])
    BY CharsAre, SpecialsAre DEF Extent
  <2>9. FreesIn(s, s2, Named(item))
    <3>1. \A c \in Chars : c \in Extent(Lower[1], Lower[2]) /\ Has(t, c) => Has(s, c)
      BY <2>5, <2>8 DEF Grows
    <3>2. QED
      BY <1>6, <2>5, <2>6, <2>7, <3>1 DEF FreesIn
  <2>10. PICK X, M : /\ X = (Extent(Upper[1], Upper[2]) \cup Extent(Lower[1], Lower[2])) \cup {Underscore}
                     /\ M = (Missed(ty, ba, Upper[1], Upper[2]) \cup Missed(ty, ba, Lower[1], Lower[2]))
                              \cup {c \in {Underscore} : Level(ty) > 0 /\ LastOfCell(c)}
    OBVIOUS
  <2>11. Grows(s, s2, X, M)
    <3>1. Grows(s, u, Extent(Upper[1], Upper[2]) \cup Extent(Lower[1], Lower[2]), Missed(ty, ba, Upper[1], Upper[2]) \cup Missed(ty, ba, Lower[1], Lower[2]))
      BY <2>5, <2>6, GrowsOn
    <3>2. QED
      BY <2>7, <2>10, <3>1, GrowsOn
  <2>12. QED
    BY <1>1, <1>6, <2>5, <2>6, <2>7, <2>9, <2>10, <2>11
<1>7. QED
  BY <1>2, <1>3, <1>4, <1>5, <1>6, ItemIs

-----------------------------------------------------------------------------
\* The limits of the items. Those of the digits may leave out characters of the
\* first block, which every kind of set has room for that starts with it.
AllLimits == [min : Nat, max : Nat]
InLimits(m, c) == m.min <= c /\ (c <= m.max \/ c < Entry(1))

LEMMA WidenIs ==
  ASSUME NEW m \in AllLimits, NEW low \in Nat, NEW high \in Nat
  PROVE  /\ Widen(m, low, high) \in AllLimits
         /\ \A c \in Nat : InLimits(m, c) \/ (low <= c /\ c <= high) => InLimits(Widen(m, low, high), c)
<1>1. m.min \in Nat /\ m.max \in Nat
  BY DEF AllLimits
<1>2. Widen(m, low, high).min = (IF low < m.min THEN low ELSE m.min) /\ Widen(m, low, high).max = (IF high > m.max THEN high ELSE m.max)
  BY DEF Widen
<1>3. Widen(m, low, high) \in AllLimits
  BY <1>1 DEF AllLimits, Widen
<1>4. PICK p, q : p = Widen(m, low, high).min /\ q = Widen(m, low, high).max
  OBVIOUS
<1>5. p \in Nat /\ q \in Nat /\ p <= low /\ p <= m.min /\ high <= q /\ m.max <= q
  BY <1>1, <1>2, <1>4
<1>6. ASSUME NEW c \in Nat, InLimits(m, c) \/ (low <= c /\ c <= high) PROVE p <= c /\ (c <= q \/ c < Entry(1))
  <2>1. CASE InLimits(m, c)
    BY <1>1, <1>5, <2>1 DEF InLimits
  <2>2. CASE low <= c /\ c <= high
    BY <1>5, <2>2
  <2>3. QED
    BY <1>6, <2>1, <2>2
<1>7. QED
  BY <1>3, <1>4, <1>6 DEF InLimits

LEMMA LimitsIs ==
  ASSUME NEW m \in AllLimits, NEW item, IsItem(item), NEW m2, m2 = Limits(m, item)
  PROVE  m2 \in AllLimits /\ \A c \in Chars : InLimits(m, c) \/ c \in Named(item) => InLimits(m2, c)
<1>1. CASE item[1] = "chr" /\ item[2] \in Chars /\ Named(item) = {item[2]}
  <2>1. m2 = Widen(m, item[2], item[2]) /\ item[2] \in Nat
    BY <1>1, CharsAre DEF Limits
  <2>2. PICK low : low = item[2]
    OBVIOUS
  <2>3. low \in Nat /\ m2 = Widen(m, low, low)
    BY <2>1, <2>2
  <2>4. m2 \in AllLimits /\ \A c \in Nat : InLimits(m, c) \/ (low <= c /\ c <= low) => InLimits(m2, c)
    BY <2>3, WidenIs
  <2>5. \A c \in Named(item) : low <= c /\ c <= low
    BY <1>1, <2>2, <2>3
  <2>6. QED
    BY <2>4, <2>5, CharsAre
<1>2. CASE item[1] = "range" /\ item[2] \in Chars /\ item[3] \in Chars /\ Named(item) = Extent(item[2], item[3])
  <2>1. PICK low, high : low = item[2] /\ high = item[3]
    OBVIOUS
  <2>2. low \in Nat /\ high \in Nat
    BY <1>2, <2>1, CharsAre
  <2>3. PICK w : w = Widen(m, low, low)
    OBVIOUS
  <2>4. m2 = Widen(w, high, high)
    BY <1>2, <2>1, <2>3 DEF Limits
  <2>5. w \in AllLimits /\ (\A c \in Nat : InLimits(m, c) => InLimits(w, c)) /\ InLimits(w, low)
    BY <2>2, <2>3, WidenIs
  <2>6. m2 \in AllLimits /\ (\A c \in Nat : InLimits(w, c) => InLimits(m2, c)) /\ InLimits(m2, high)
    BY <2>2, <2>4, <2>5, WidenIs
  <2>7. InLimits(m2, low) /\ m2.min \in Nat /\ m2.max \in Nat
    BY <2>2, <2>5, <2>6 DEF AllLimits
  <2>8. ASSUME NEW c \in Chars, low <= c, c <= high PROVE InLimits(m2, c)
    <3>1. c \in Nat /\ Entry(1) \in Nat
      BY CharsAre, FirstIs
    <3>2. m2.min <= low /\ (high <= m2.max \/ high < Entry(1))
      BY <2>6, <2>7 DEF InLimits
    <3>3. QED
      BY <2>2, <2>7, <2>8, <3>1, <3>2 DEF InLimits
  <2>9. QED
    BY <1>2, <2>1, <2>5, <2>6, <2>8, CharsAre DEF Extent
<1>3. CASE item = Special("space") /\ item[1] = "class" /\ Named(item) = AllSpaces
  <2>1. PICK low, high : low = Spaces[1] /\ high = Spaces[Len(Spaces)]
    OBVIOUS
  <2>2. 1 \in 1 .. Len(Spaces) /\ Len(Spaces) \in 1 .. Len(Spaces)
    BY SpecialsAre
  <2>3. low \in Nat /\ high \in Nat /\ \A c \in AllSpaces : low <= c /\ c <= high
    BY <2>1, <2>2, SpecialsAre, CharsAre DEF AllSpaces
  <2>4. m2 = Widen(m, low, high)
    BY <1>3, <2>1 DEF Limits
  <2>5. m2 \in AllLimits /\ \A c \in Nat : InLimits(m, c) \/ (low <= c /\ c <= high) => InLimits(m2, c)
    BY <2>3, <2>4, WidenIs
  <2>6. QED
    BY <1>3, <2>3, <2>5, CharsAre
<1>4. CASE item = Special("digit") /\ item[1] = "class" /\ item # Special("space") /\ Named(item) = Extent(Digits[1], Digits[2])
  <2>1. PICK low, high : low = Digits[1] /\ high = Digits[2]
    OBVIOUS
  <2>2. low \in Nat /\ high \in Nat /\ high < Entry(1) /\ Entry(1) \in Nat /\ m.min \in Nat /\ m.max \in Nat
    BY <2>1, SpecialsAre, FirstIs DEF AllLimits
  <2>3. m2 = [min |-> IF m.min > low THEN 0 ELSE m.min, max |-> IF m.max < high THEN 0 ELSE m.max]
    BY <1>4, <2>1 DEF Limits
  <2>4. PICK p, q : p = m2.min /\ q = m2.max
    OBVIOUS
  <2>5. p \in Nat /\ q \in Nat /\ p <= low /\ p <= m.min /\ (q = m.max \/ m.max < high) /\ m2 \in AllLimits
    BY <2>2, <2>3, <2>4 DEF AllLimits
  <2>6. ASSUME NEW c \in Chars, InLimits(m, c) \/ (low <= c /\ c <= high) PROVE p <= c /\ (c <= q \/ c < Entry(1))
    <3>1. c \in Nat
      BY CharsAre
    <3>2. CASE InLimits(m, c)
      <4>1. m.min <= c /\ (c <= m.max \/ c < Entry(1))
        BY <3>2 DEF InLimits
      <4>2. QED
        BY <2>2, <2>5, <3>1, <4>1
    <3>3. CASE low <= c /\ c <= high
      BY <2>2, <2>5, <3>1, <3>3
    <3>4. QED
      BY <2>6, <3>2, <3>3
  <2>7. QED
    BY <1>4, <2>1, <2>4, <2>5, <2>6 DEF InLimits, Extent
<1>5. CASE /\ item = Special("word") /\ item[1] = "class" /\ item # Special("space") /\ item # Special("digit")
           /\ Named(item) = Extent(Upper[1], Upper[2]) \cup Extent(Lower[1], Lower[2]) \cup {Underscore}
  <2>1. PICK low, high : low = Upper[1] /\ high = Lower[2]
    OBVIOUS
  <2>2. low \in Nat /\ high \in Nat /\ \A c \in Named(item) : low <= c /\ c <= high
    <3>1. /\ Upper[1] \in Nat /\ Upper[2] \in Nat /\ Underscore \in Nat /\ Lower[1] \in Nat /\ Lower[2] \in Nat
          /\ Upper[1] < Upper[2] /\ Upper[2] < Underscore /\ Underscore < Lower[1] /\ Lower[1] < Lower[2]
      BY SpecialsAre
    <3>2. ASSUME NEW c \in Named(item) PROVE low <= c /\ c <= high
      <4>1. c \in Nat /\ (c \in Extent(Upper[1], Upper[2]) \/ c \in Extent(Lower[1], Lower[2]) \/ c = Underscore)
        BY <1>5, <3>1, CharsAre DEF Extent
      <4>2. QED
        BY <2>1, <3>1, <4>1 DEF Extent
    <3>3. QED
      BY <2>1, <3>1, <3>2
  <2>3. m2 = Widen(m, low, high)
    BY <1>5, <2>1 DEF Limits
  <2>4. m2 \in AllLimits /\ \A c \in Nat : InLimits(m, c) \/ (low <= c /\ c <= high) => InLimits(m2, c)
    BY <2>2, <2>3, WidenIs
  <2>5. QED
    BY <2>2, <2>4, CharsAre
<1>6. QED
  BY <1>1, <1>2, <1>3, <1>4, <1>5, ItemIs

\* The items of a class.
AreItems(items) == Len(items) \in Nat /\ DOMAIN items = 1 .. Len(items) /\ \A k \in 1 .. Len(items) : IsItem(items[k])

LEMMA LimitsOfIs ==
  ASSUME NEW items, AreItems(items), NEW m, m = LimitsOf(items)
  PROVE  m \in AllLimits /\ \A k \in 1 .. Len(items) : \A c \in Named(items[k]) : InLimits(m, c)
<1> DEFINE N == Len(items)
           zero == [min |-> Entry(4), max |-> 0]
           F == [v \in (1 .. N) \X AllLimits |-> Limits(v[2], items[v[1]])]
           Is(g) == g = [k \in 0 .. N |-> IF k = 0 THEN zero ELSE Limits(g[k - 1], items[k])]
<1>1. N \in Nat /\ \A k \in 1 .. N : IsItem(items[k])
  BY DEF AreItems
<1>2. zero \in AllLimits
  BY CharsAre DEF AllLimits
<1> HIDE DEF N, zero
<1>3. ASSUME NEW k \in 1 .. N, NEW v \in AllLimits
      PROVE  Limits(v, items[k]) \in AllLimits /\ \A c \in Chars : InLimits(v, c) \/ c \in Named(items[k]) => InLimits(Limits(v, items[k]), c)
  <2>1. PICK item, v2 : item = items[k] /\ v2 = Limits(v, item)
    OBVIOUS
  <2>2. IsItem(item)
    BY <1>1, <2>1
  <2>3. v2 \in AllLimits /\ \A c \in Chars : InLimits(v, c) \/ c \in Named(item) => InLimits(v2, c)
    BY <2>1, <2>2, LimitsIs
  <2>4. QED
    BY <2>1, <2>3
<1>4. F \in Steps(N, AllLimits) /\ \A k \in 1 .. N, v \in AllLimits : F[<<k, v>>] = Limits(v, items[k])
  BY <1>3 DEF Steps
<1> HIDE DEF F
<1>5. PICK g : Solves(g, zero, F, N, AllLimits)
  BY <1>1, <1>2, <1>4, Recursion, Zenon
<1>6. Is(g)
  <2>1. g \in [0 .. N -> AllLimits] /\ g[0] = zero
    BY <1>5 DEF Solves
  <2>2. ASSUME NEW k \in 1 .. N PROVE g[k] = Limits(g[k - 1], items[k])
    <3>1. k - 1 \in 0 .. N
      BY <1>1
    <3>2. g[k - 1] \in AllLimits /\ g[k] = F[<<k, g[k - 1]>>]
      BY <1>5, <2>1, <3>1 DEF Solves
    <3>3. QED
      BY <1>4, <3>2
  <2>3. QED
    BY <1>1, <2>1, <2>2
<1>7. Is(CHOOSE h : Is(h))
  <2> HIDE DEF Is
  <2>1. QED
    BY <1>6, Zenon
<1>8. PICK p : Is(p) /\ m = p[N]
  BY <1>7, Zenon DEF LimitsOf, N, zero
<1>9. p[0] = zero /\ \A k \in 1 .. N : p[k] = Limits(p[k - 1], items[k])
  BY <1>1, <1>8
<1> DEFINE T == {k \in Nat : k <= N => p[k] \in AllLimits /\ \A j \in 1 .. k : \A c \in Named(items[j]) : InLimits(p[k], c)}
<1>10. 0 \in T
  BY <1>2, <1>9
<1>11. ASSUME NEW k \in Nat, k \in T PROVE k + 1 \in T
  <2>1. SUFFICES ASSUME k + 1 <= N PROVE p[k + 1] \in AllLimits /\ \A j \in 1 .. k + 1 : \A c \in Named(items[j]) : InLimits(p[k + 1], c)
    OBVIOUS
  <2>2. k <= N /\ k + 1 \in 1 .. N /\ (k + 1) - 1 = k
    BY <1>1, <2>1
  <2>3. p[k] \in AllLimits /\ (\A j \in 1 .. k : \A c \in Named(items[j]) : InLimits(p[k], c)) /\ p[k + 1] = Limits(p[k], items[k + 1])
    BY <1>9, <1>11, <2>2
  <2>4. p[k + 1] \in AllLimits /\ \A c \in Chars : InLimits(p[k], c) \/ c \in Named(items[k + 1]) => InLimits(p[k + 1], c)
    BY <1>3, <2>2, <2>3
  <2>5. \A j \in 1 .. k + 1 : j \in 1 .. k \/ j = k + 1
    OBVIOUS
  <2>6. \A item : \A c \in Named(item) : c \in Chars
    BY DEF Named
  <2>7. QED
    BY <2>3, <2>4, <2>5, <2>6
<1> HIDE DEF T
<1>12. N \in T
  BY <1>1, <1>10, <1>11, SetInduction
<1>13. QED
  BY <1>1, <1>8, <1>12 DEF T, N

\* The set of a class has room for all that its items name.
LEMMA StartIs ==
  ASSUME NEW items, AreItems(items), NEW s, s = Start(items)
  PROVE  /\ Form(s.type, s.base) /\ s \in Sets(s.type, s.base) /\ s.comp = FALSE /\ s.bad = FALSE
         /\ \A c \in Chars : ~ Has(s, c)
         /\ \A k \in 1 .. Len(items) : \A c \in Named(items[k]) : Room(s.type, s.base, c)
<1>1. PICK m : m = LimitsOf(items)
  OBVIOUS
<1>2. m \in AllLimits /\ (\A k \in 1 .. Len(items) : \A c \in Named(items[k]) : InLimits(m, c)) /\ m.min \in Nat /\ m.max \in Nat
  BY <1>1, LimitsOfIs DEF AllLimits
<1>3. PICK ty, ba : ty = Kind(m) /\ ba = IF ty = "displaced" THEN m.min ELSE 0
  OBVIOUS
<1>4. s = [type |-> ty, comp |-> FALSE, base |-> ba, n |-> Blank(Level(ty)), bad |-> FALSE]
  BY <1>1, <1>3 DEF Start, char_set_create
<1>5. Form(ty, ba)
  BY <1>2, <1>3 DEF Form, Kind
<1>6. Level(ty) \in 0 .. 3
  BY <1>5, RoomIs
<1>7. Blank(Level(ty)) \in Nodes(Level(ty)) /\ \A c \in Nat : ~ Contains(Level(ty), Blank(Level(ty)), c)
  BY <1>6, BlankIs
<1>8. s \in Sets(ty, ba) /\ s.type = ty /\ s.base = ba
  BY <1>4, <1>7 DEF Sets
<1>9. ASSUME NEW c \in Chars PROVE ~ Has(s, c)
  <2>1. c \in Nat /\ s.n = Blank(Level(ty)) /\ ba \in Nat
    BY <1>4, <1>5, CharsAre DEF Form
  <2>2. Room(ty, ba, c) => c - ba \in Nat
    BY <2>1 DEF Room
  <2>3. QED
    BY <1>5, <1>7, <1>8, <2>1, <2>2, HasIs
<1>10. ASSUME NEW c \in Chars, InLimits(m, c) PROVE Room(ty, ba, c)
  <2>1. PICK e1, e3, e4 : e1 = Entry(1) /\ e3 = Entry(3) /\ e4 = Entry(4)
    OBVIOUS
  <2>2. e1 \in Nat /\ e3 \in Nat /\ e4 \in Nat /\ e1 <= e3 /\ c \in 0 .. e4 - 1
    <3>1. 1 \in 1 .. 4 /\ 2 \in 1 .. 4 /\ 3 \in 1 .. 4 /\ 4 \in 1 .. 4
      OBVIOUS
    <3>2. Entry(1) \in Nat \ {0} /\ Entry(2) \in Nat \ {0} /\ Entry(3) \in Nat \ {0} /\ Entry(4) \in Nat \ {0}
      BY <3>1, EntriesAre
    <3>3. QED
      BY <2>1, <3>2, EntriesAre DEF Chars
  <2>3. m.min <= c /\ (c <= m.max \/ c < e1)
    BY <1>10, <2>1 DEF InLimits
  <2>4. ty = IF m.max < e1 THEN "small" ELSE IF m.max - m.min < e1 THEN "displaced" ELSE IF m.max < e3 THEN "large" ELSE "xlarge"
    BY <1>3, <2>1 DEF Kind
  <2>5. Entry(Level(ty) + 1) = IF ty \in {"small", "displaced"} THEN e1 ELSE IF ty = "large" THEN e3 ELSE e4
    BY <2>1, <2>4 DEF Level
  <2>6. PICK e : e = Entry(Level(ty) + 1)
    OBVIOUS
  <2>7. ba <= c /\ c - ba < e
    <3>1. CASE m.max < e1
      BY <1>2, <1>3, <2>2, <2>3, <2>4, <2>5, <2>6, <3>1
    <3>2. CASE ~ (m.max < e1) /\ m.max - m.min < e1
      BY <1>2, <1>3, <2>2, <2>3, <2>4, <2>5, <2>6, <3>2
    <3>3. CASE ~ (m.max < e1) /\ ~ (m.max - m.min < e1)
      BY <1>2, <1>3, <2>2, <2>3, <2>4, <2>5, <2>6, <3>3
    <3>4. QED
      BY <3>1, <3>2, <3>3
  <2>8. QED
    BY <2>6, <2>7 DEF Room
<1>11. \A k \in 1 .. Len(items) : \A c \in Named(items[k]) : Room(ty, ba, c)
  BY <1>2, <1>10 DEF Named
<1>12. s.comp = FALSE /\ s.bad = FALSE
  BY <1>4
<1>13. QED
  BY <1>5, <1>8, <1>9, <1>11, <1>12

-----------------------------------------------------------------------------
\* A set with the first k items in it, before it is complemented.
Holds(items, k, s) ==
  /\ \A c \in Chars : Has(s, c) => \E j \in 1 .. k : c \in Named(items[j])
  /\ \A c \in Chars : \A j \in 1 .. k : c \in Named(items[j]) => Has(s, c) \/ c \in MissedBy(s.type, s.base, items[j])
  /\ s.bad => \E j \in 1 .. k : \E i \in 1 .. j - 1 : \E c \in Chars : c \in Named(items[i]) /\ c \in Named(items[j])
IsSetOf(items, s) == s \in Sets(Start(items).type, Start(items).base)

LEMMA HoldsOn ==
  ASSUME NEW items, AreItems(items), NEW k \in 0 .. Len(items), k < Len(items),
         NEW s, IsSetOf(items, s), Holds(items, k, s), NEW s2, s2 = AddItem(s, items[k + 1])
  PROVE  IsSetOf(items, s2) /\ s2.comp = s.comp /\ Holds(items, k + 1, s2)
<1>1. PICK ty, ba, item : ty = Start(items).type /\ ba = Start(items).base /\ item = items[k + 1]
  OBVIOUS
<1>2. k + 1 \in 1 .. Len(items) /\ k \in Nat
  BY DEF AreItems
<1>3. Form(ty, ba) /\ IsItem(item) /\ \A c \in Named(item) : Room(ty, ba, c)
  BY <1>1, <1>2, StartIs DEF AreItems
<1>4. s \in Sets(ty, ba)
  BY <1>1 DEF IsSetOf
<1>5. /\ s2 \in Sets(ty, ba) /\ s2.comp = s.comp
      /\ Grows(s, s2, Named(item), MissedBy(ty, ba, item)) /\ FreesIn(s, s2, Named(item))
  BY <1>1, <1>3, <1>4, AddItemIs
<1>6. s.type = ty /\ s.base = ba /\ s2.type = ty /\ s2.base = ba
  BY <1>4, <1>5 DEF Sets
<1>7. \A j : j \in 1 .. k + 1 <=> j \in 1 .. k \/ j = k + 1
  BY <1>2
<1>8. \A c \in Chars : Has(s2, c) => \E j \in 1 .. k + 1 : c \in Named(items[j])
  BY <1>1, <1>5, <1>7 DEF Grows, Holds
<1>9. ASSUME NEW c \in Chars, NEW j \in 1 .. k + 1, c \in Named(items[j])
      PROVE  Has(s2, c) \/ c \in MissedBy(s2.type, s2.base, items[j])
  <2>1. CASE j \in 1 .. k
    <3>1. Has(s, c) \/ c \in MissedBy(ty, ba, items[j])
      BY <1>6, <1>9, <2>1 DEF Holds
    <3>2. QED
      BY <1>5, <1>6, <3>1 DEF Grows
  <2>2. CASE j = k + 1
    BY <1>1, <1>5, <1>6, <1>9, <2>2 DEF Grows
  <2>3. QED
    BY <1>7, <2>1, <2>2
<1>10. ASSUME s2.bad
       PROVE  \E j \in 1 .. k + 1 : \E i \in 1 .. j - 1 : \E c \in Chars : c \in Named(items[i]) /\ c \in Named(items[j])
  <2>1. CASE s.bad
    <3>1. PICK j \in 1 .. k : \E i \in 1 .. j - 1 : \E c \in Chars : c \in Named(items[i]) /\ c \in Named(items[j])
      BY <2>1 DEF Holds
    <3>2. QED
      BY <1>7, <3>1
  <2>2. CASE \E c \in Chars : c \in Named(item) /\ Has(s, c)
    <3>1. PICK c \in Chars : c \in Named(item) /\ Has(s, c)
      BY <2>2
    <3>2. PICK i \in 1 .. k : c \in Named(items[i])
      BY <3>1 DEF Holds
    <3>3. i \in 1 .. (k + 1) - 1
      BY <1>2
    <3>4. QED
      BY <1>1, <1>7, <3>1, <3>2, <3>3
  <2>3. QED
    BY <1>5, <1>10, <2>1, <2>2 DEF FreesIn
<1>11. QED
  BY <1>1, <1>5, <1>8, <1>9, <1>10 DEF IsSetOf, Holds

\* The sets that lead to that of a class.
Course(items, g) == g[0] = Start(items) /\ \A k \in 1 .. Len(items) : g[k] = AddItem(g[k - 1], items[k])

LEMMA AddedIs ==
  ASSUME NEW items, AreItems(items)
  PROVE  \E g : Course(items, g) /\ Added(items) = g[Len(items)]
<1> DEFINE N == Len(items)
           start == Start(items)
           S == Sets(start.type, start.base)
           F == [v \in (1 .. N) \X S |-> AddItem(v[2], items[v[1]])]
           Is(g) == g = [k \in 0 .. N |-> IF k = 0 THEN start ELSE AddItem(g[k - 1], items[k])]
<1>1. N \in Nat /\ start \in S
  BY StartIs DEF AreItems
<1>2. ASSUME NEW k \in 1 .. N, NEW v \in S PROVE AddItem(v, items[k]) \in S
  <2>1. PICK ty, ba, item, v2 : ty = start.type /\ ba = start.base /\ item = items[k] /\ v2 = AddItem(v, item)
    OBVIOUS
  <2>2. Form(ty, ba) /\ IsItem(item) /\ \A c \in Named(item) : Room(ty, ba, c)
    BY <2>1, StartIs DEF AreItems
  <2>3. v \in Sets(ty, ba)
    BY <2>1
  <2>4. v2 \in Sets(ty, ba)
    BY <2>1, <2>2, <2>3, AddItemIs
  <2>5. QED
    BY <2>1, <2>4
<1> HIDE DEF N, start, S
<1>3. F \in Steps(N, S) /\ \A k \in 1 .. N, v \in S : F[<<k, v>>] = AddItem(v, items[k])
  BY <1>2 DEF Steps
<1> HIDE DEF F
<1>4. PICK g : Solves(g, start, F, N, S)
  BY <1>1, <1>3, Recursion, Zenon
<1>5. Is(g)
  <2>1. g \in [0 .. N -> S] /\ g[0] = start
    BY <1>4 DEF Solves
  <2>2. ASSUME NEW k \in 1 .. N PROVE g[k] = AddItem(g[k - 1], items[k])
    <3>1. k - 1 \in 0 .. N
      BY <1>1
    <3>2. g[k - 1] \in S /\ g[k] = F[<<k, g[k - 1]>>]
      BY <1>4, <2>1, <3>1 DEF Solves
    <3>3. QED
      BY <1>3, <3>2
  <2>3. QED
    BY <1>1, <2>1, <2>2
<1>6. Is(CHOOSE h : Is(h))
  <2> HIDE DEF Is
  <2>1. QED
    BY <1>5, Zenon
<1>7. PICK p : Is(p) /\ Added(items) = p[N]
  BY <1>6, Zenon DEF Added, N, start
<1>8. p[0] = start /\ \A k \in 1 .. N : p[k] = AddItem(p[k - 1], items[k])
  BY <1>1, <1>7
<1>9. QED
  BY <1>7, <1>8 DEF Course, N, start

-----------------------------------------------------------------------------
\* The invariant: where the building of the set is, what the set holds by then,
\* and that it is the next on its course.
ClassBuilt ==
  /\ IsSetOf(class.items, set) /\ Holds(class.items, added, set)
  /\ set.comp => class.comp /\ added = Len(class.items)
  /\ \A g : Course(class.items, g) => set = IF set.comp THEN char_set_compl(g[added]) ELSE g[added]
ClassInv ==
  /\ class \in Classes /\ added \in 0 .. Len(class.items)
  /\ (set = NoSet /\ added = 0) \/ ClassBuilt

LEMMA ItemsAre == \A c \in Classes : AreItems(c.items) /\ c.comp \in BOOLEAN
BY ClassesAreItems DEF AreItems

LEMMA SetIs == ASSUME NEW items, NEW s, IsSetOf(items, s)
               PROVE  s # NoSet /\ s.comp \in BOOLEAN /\ s.bad \in BOOLEAN /\ s.type = Start(items).type /\ s.base = Start(items).base
<1>1. s.type = Start(items).type /\ s.base = Start(items).base /\ s.comp \in BOOLEAN /\ s.bad \in BOOLEAN
  BY DEF IsSetOf, Sets
<1>2. Start(items).type # "none"
  BY DEF Start, char_set_create, Kind
<1>3. QED
  BY <1>1, <1>2 DEF NoSet

LEMMA ClassInvInit == ClassInit => ClassInv
<1>1. SUFFICES ASSUME ClassInit PROVE ClassInv
  OBVIOUS
<1>2. class \in Classes /\ set = NoSet /\ added = 0
  BY <1>1 DEF ClassInit
<1>3. 0 \in 0 .. Len(class.items)
  BY <1>2, ItemsAre DEF AreItems
<1>4. QED
  BY <1>2, <1>3 DEF ClassInv

LEMMA ClassInvNext == ClassInv /\ [ClassNext]_classvars => ClassInv'
<1> SUFFICES ASSUME ClassInv, [ClassNext]_classvars PROVE ClassInv'
  OBVIOUS
<1>1. class \in Classes /\ added \in 0 .. Len(class.items) /\ AreItems(class.items) /\ class.comp \in BOOLEAN
  BY ItemsAre DEF ClassInv
<1>2. CASE Create
  <2>1. set = NoSet /\ set' = Start(class.items) /\ class' = class /\ added' = added
    BY <1>2 DEF Create
  <2>2. added = 0
    BY <2>1, SetIs DEF ClassInv, ClassBuilt
  <2>3. IsSetOf(class.items, set') /\ set'.comp = FALSE /\ set'.bad = FALSE /\ \A c \in Chars : ~ Has(set', c)
    BY <1>1, <2>1, StartIs DEF IsSetOf
  <2>4. Holds(class.items, 0, set')
    BY <2>3 DEF Holds
  <2>5. \A g : Course(class.items, g) => set' = g[0]
    BY <2>1 DEF Course
  <2>6. ClassBuilt'
    BY <2>1, <2>2, <2>3, <2>4, <2>5 DEF ClassBuilt
  <2>7. QED
    BY <1>1, <2>1, <2>6 DEF ClassInv
<1>3. CASE AddNext
  <2>1. /\ set # NoSet /\ added < Len(class.items) /\ set' = AddItem(set, class.items[added + 1])
        /\ added' = added + 1 /\ class' = class
    BY <1>3 DEF AddNext
  <2>2. ClassBuilt
    BY <2>1 DEF ClassInv
  <2>3. added + 1 \in 1 .. Len(class.items) /\ added + 1 \in 0 .. Len(class.items) /\ (added + 1) - 1 = added /\ added # Len(class.items)
    BY <1>1, <2>1 DEF AreItems
  <2>4. ~ set.comp /\ set.comp \in BOOLEAN
    BY <2>2, <2>3, SetIs DEF ClassBuilt
  <2>5. IsSetOf(class.items, set') /\ set'.comp = set.comp /\ Holds(class.items, added + 1, set')
    BY <1>1, <2>1, <2>2, HoldsOn DEF ClassBuilt
  <2>6. ASSUME NEW g, Course(class.items, g) PROVE set' = g[added + 1]
    <3>1. set = g[added]
      BY <2>2, <2>4, <2>6 DEF ClassBuilt
    <3>2. g[added + 1] = AddItem(g[added], class.items[added + 1])
      BY <2>3, <2>6 DEF Course
    <3>3. QED
      BY <2>1, <3>1, <3>2
  <2>7. ClassBuilt'
    BY <2>1, <2>4, <2>5, <2>6 DEF ClassBuilt
  <2>8. QED
    BY <1>1, <2>1, <2>3, <2>7 DEF ClassInv
<1>4. CASE Complement
  <2>1. /\ set # NoSet /\ added = Len(class.items) /\ class.comp /\ ~ set.comp
        /\ set' = char_set_compl(set) /\ class' = class /\ added' = added
    BY <1>4 DEF Complement
  <2>2. ClassBuilt
    BY <2>1 DEF ClassInv
  <2>3. set \in Sets(Start(class.items).type, Start(class.items).base)
    BY <2>2 DEF ClassBuilt, IsSetOf
  <2>4. /\ IsSetOf(class.items, set') /\ set'.comp = TRUE /\ set'.n = set.n /\ set'.type = set.type /\ set'.base = set.base
        /\ set'.bad = set.bad
    BY <2>1, <2>3 DEF char_set_compl, Sets, IsSetOf
  <2>5. \A c : Has(set', c) <=> Has(set, c)
    BY <2>4 DEF Has
  <2>6. Holds(class.items, added, set')
    BY <2>2, <2>4, <2>5 DEF ClassBuilt, Holds
  <2>7. \A g : Course(class.items, g) => set' = char_set_compl(g[added])
    BY <2>1, <2>2 DEF ClassBuilt
  <2>8. ClassBuilt'
    BY <2>1, <2>4, <2>6, <2>7 DEF ClassBuilt
  <2>9. QED
    BY <1>1, <2>1, <2>8 DEF ClassInv
<1>5. CASE UNCHANGED classvars
  BY <1>5 DEF classvars, ClassInv, ClassBuilt
<1>6. QED
  BY <1>2, <1>3, <1>4, <1>5 DEF ClassNext

LEMMA ClassInvHolds == ClassInv => ClassHolds
<1> SUFFICES ASSUME ClassInv, set # NoSet PROVE HoldsNamed /\ FreesOnOverlap /\ BuiltWhole /\ HasRoom
  BY DEF ClassHolds
<1>1. ClassBuilt /\ AreItems(class.items) /\ class.comp \in BOOLEAN /\ added \in 0 .. Len(class.items)
  BY ItemsAre DEF ClassInv
<1>2. set.comp \in BOOLEAN /\ set.bad \in BOOLEAN
  BY <1>1, SetIs DEF ClassBuilt
<1>3. Holds(class.items, added, set)
  BY <1>1 DEF ClassBuilt
<1>4. HoldsNamed
  <2> SUFFICES ASSUME NEW ch \in Chars
               PROVE  IF char_set_contains(set, ch) # set.comp
                      THEN \E k \in 1 .. added : Names(class.items[k], ch)
                      ELSE \A k \in 1 .. added : Names(class.items[k], ch) => Misses(set.type, set.base, class.items[k], ch)
    BY DEF HoldsNamed
  <2>1. char_set_contains(set, ch) # set.comp <=> Has(set, ch)
    <3>1. Has(set, ch) \in BOOLEAN
      BY DEF Has, L0_contains
    <3>2. CASE Has(set, ch) = TRUE
      BY <1>2, <3>2 DEF char_set_contains
    <3>3. CASE Has(set, ch) = FALSE
      BY <1>2, <3>3 DEF char_set_contains
    <3>4. QED
      BY <3>1, <3>2, <3>3
  <2>2. Has(set, ch) => \E k \in 1 .. added : Names(class.items[k], ch)
    BY <1>3 DEF Holds, Named
  <2>3. ~ Has(set, ch) => \A k \in 1 .. added : Names(class.items[k], ch) => Misses(set.type, set.base, class.items[k], ch)
    BY <1>3 DEF Holds, Named, MissedBy
  <2>4. QED
    BY <2>1, <2>2, <2>3
<1>5. FreesOnOverlap
  BY <1>3 DEF FreesOnOverlap, Holds, Named
<1>6. BuiltWhole
  <2> SUFFICES ASSUME added = Len(class.items), set.comp = class.comp PROVE set = char_set_compile(class.items, class.comp)
    BY DEF BuiltWhole
  <2>1. PICK g : Course(class.items, g) /\ Added(class.items) = g[Len(class.items)]
    BY <1>1, AddedIs
  <2>2. set = IF set.comp THEN char_set_compl(g[added]) ELSE g[added]
    BY <1>1, <2>1 DEF ClassBuilt
  <2>3. QED
    BY <2>1, <2>2 DEF char_set_compile
<1>7. HasRoom
  <2> SUFFICES ASSUME NEW k \in DOMAIN class.items, NEW ch \in Chars, Names(class.items[k], ch)
               PROVE  Room(set.type, set.base, ch)
    BY DEF HasRoom
  <2>1. k \in 1 .. Len(class.items) /\ ch \in Named(class.items[k])
    BY <1>1 DEF AreItems, Named
  <2>2. set.type = Start(class.items).type /\ set.base = Start(class.items).base
    BY <1>1, SetIs DEF ClassBuilt
  <2>3. QED
    BY <1>1, <2>1, <2>2, StartIs
<1>8. QED
  BY <1>4, <1>5, <1>6, <1>7

\* The set that char_set_compile builds for a class, for every size of the cells,
\* blocks and nodes, holds no character that the items added so far do not name
\* and each one that they name but those that L0_fill_range misses, in whichever of
\* the four kinds of set; it frees a mark only when items overlap; it has room for
\* all that the class names, so that no assertion about that fails; and once
\* complete it is the one the expressions are compiled with.
THEOREM ClassesHoldNamed == ClassSpec => []ClassHolds
<1>1. ClassInit => ClassInv
  BY ClassInvInit
<1>2. ClassInv /\ [ClassNext]_classvars => ClassInv'
  BY ClassInvNext
<1>3. ClassInv => ClassHolds
  BY ClassInvHolds
<1>4. QED
  BY <1>1, <1>2, <1>3, PTL DEF ClassSpec
=============================================================================
