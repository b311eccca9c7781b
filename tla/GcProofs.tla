------------------------------ MODULE GcProofs ------------------------------
(***************************************************************************)
(* Proofs about Gc, for every number of cells, variables and fields, every *)
(* size of the vectors and either setting of --gc-debug.                   *)
(*                                                                         *)
(* The argument for NoDangling: every cell that survives a collection is   *)
(* in the set S of the marked cells and, in a generational collection, the *)
(* mature ones; and S is closed under following fields.  From a marked     *)
(* cell mark() has gone on to every cell it enters.  From a mature cell    *)
(* there may be a pointer to a baby, but then the baby is in checkobj      *)
(* (Remembered), so mark() started from it too.                            *)
(***************************************************************************)
EXTENDS Gc, FiniteSetTheorems, TLAPS

Mature == {c \in Allocated : gen[c] = 1}

\* checkobj lists exactly the babies of generation -1, each once.
CheckobjExact ==
  /\ IsInjective(checkobj)
  /\ \A c \in Cell : c \in Range(checkobj) <=> c \in Allocated /\ gen[c] = -1

\* There is room in freshobj for what make_obj is about to return.
FreshobjRoom ==
  /\ Len(freshobj) <= FRESHOBJ_VEC_SIZE
  /\ pc \in {"try0", "try1", "try2"} => Len(freshobj) < FRESHOBJ_VEC_SIZE

\* No call is on the path of gc_set that collects, and none has failed.
FastPath == pc \notin {"gc_set", "record", "gc_mutated", "mutated", "overrun", "abort"}

\* The inductive invariant.
IInv ==
  /\ TypeOK
  /\ NoDangling
  /\ BabiesAreFresh
  /\ CheckobjExact
  /\ Remembered
  /\ MarksCleared
  /\ FreshobjRoom
  /\ FastPath

-----------------------------------------------------------------------------
(***************************************************************************)
(* Sequences.                                                              *)
(***************************************************************************)

LEMMA RangeAppend ==
  ASSUME NEW S, NEW s \in Seq(S), NEW x \in S
  PROVE  /\ Append(s, x) \in Seq(S)
         /\ Len(Append(s, x)) = Len(s) + 1
         /\ Range(Append(s, x)) = Range(s) \cup {x}
         /\ IsInjective(s) /\ x \notin Range(s) => IsInjective(Append(s, x))
<1> DEFINE u == Append(s, x)
<1>1. u \in Seq(S) /\ Len(u) = Len(s) + 1 /\ Len(s) \in Nat
  OBVIOUS
<1>2. DOMAIN s = 1 .. Len(s) /\ DOMAIN u = 1 .. Len(s) + 1
  BY <1>1
<1>3. /\ \A i \in 1 .. Len(s) : u[i] = s[i]
      /\ u[Len(s) + 1] = x
  OBVIOUS
<1>4. Range(u) = Range(s) \cup {x}
  BY <1>1, <1>2, <1>3 DEF Range
<1>5. IsInjective(s) /\ x \notin Range(s) => IsInjective(u)
  BY <1>1, <1>2, <1>3 DEF IsInjective, Range
<1> QED BY <1>1, <1>4, <1>5

LEMMA EmptyRange ==
  /\ Range(<<>>) = {} /\ IsInjective(<<>>) /\ Len(<<>>) = 0
  /\ \A S : <<>> \in Seq(S)
BY DEF Range, IsInjective

\* A sequence without repetitions that misses an element of another one is
\* the shorter of the two.
LEMMA MissingOneIsShorter ==
  ASSUME NEW S, NEW s \in Seq(S), NEW u \in Seq(S), NEW x \in Range(u),
         IsInjective(s), Range(s) \subseteq Range(u) \ {x}
  PROVE  Len(s) < Len(u)
<1> DEFINE y(i) == IF i = Len(s) + 1 THEN x ELSE s[i]
<1> DEFINE h == [i \in 1 .. Len(s) + 1 |-> CHOOSE j \in 1 .. Len(u) : u[j] = y(i)]
<1>1. Len(s) \in Nat /\ Len(u) \in Nat /\ DOMAIN s = 1 .. Len(s) /\ DOMAIN u = 1 .. Len(u)
  OBVIOUS
<1>2. \A i \in 1 .. Len(s) : s[i] \in Range(s)
  BY <1>1 DEF Range
<1>3. \A i \in 1 .. Len(s) + 1 : y(i) \in Range(u)
  BY <1>1, <1>2
<1>4. \A i \in 1 .. Len(s) + 1 : \E j \in 1 .. Len(u) : u[j] = y(i)
  BY <1>1, <1>3 DEF Range
<1>5. \A i \in 1 .. Len(s) + 1 : h[i] \in 1 .. Len(u) /\ u[h[i]] = y(i)
  BY <1>4
<1>6. \A i, j \in 1 .. Len(s) + 1 : y(i) = y(j) => i = j
  BY <1>1, <1>2 DEF IsInjective
<1>7. SUFFICES ASSUME Len(u) < Len(s) + 1 PROVE FALSE
  BY <1>1
<1>8. /\ IsFiniteSet(1 .. Len(s) + 1) /\ Cardinality(1 .. Len(s) + 1) = Len(s) + 1
      /\ IsFiniteSet(1 .. Len(u)) /\ Cardinality(1 .. Len(u)) = Len(u)
  <2> HIDE DEF h, y
  <2>1. \A n \in Nat : IsFiniteSet(1 .. n) /\ Cardinality(1 .. n) = n
    <3> TAKE n \in Nat
    <3>1. IsFiniteSet(1 .. n) /\ Cardinality(1 .. n) = IF 1 > n THEN 0 ELSE n - 1 + 1
      BY FS_Interval
    <3> QED BY <3>1
  <2> QED BY <1>1, <2>1
<1>9. h \in [1 .. Len(s) + 1 -> 1 .. Len(u)]
  BY <1>5
<1>10. \E i, j \in 1 .. Len(s) + 1 : i # j /\ h[i] = h[j]
  <2> DEFINE A == 1 .. Len(s) + 1
             B == 1 .. Len(u)
  <2>1. IsFiniteSet(A) /\ IsFiniteSet(B) /\ Cardinality(B) < Cardinality(A) /\ h \in [A -> B]
    BY <1>7, <1>8, <1>9
  <2>2. \E i, j \in A : i # j /\ h[i] = h[j]
    <3> HIDE DEF A, B, h, y
    <3> QED BY <2>1, FS_PigeonHole
  <2> QED BY <2>2
<1> QED
  <2> HIDE DEF h, y
  <2> QED BY <1>5, <1>6, <1>10

\* Nor is it longer than a sequence that has all its elements.
LEMMA InjectiveIsNoLonger ==
  ASSUME NEW S, NEW s \in Seq(S), NEW u \in Seq(S),
         IsInjective(s), Range(s) \subseteq Range(u)
  PROVE  Len(s) <= Len(u)
<1>1. Len(s) \in Nat /\ Len(u) \in Nat /\ DOMAIN s = 1 .. Len(s)
  OBVIOUS
<1>2. CASE Len(s) = 0
  BY <1>1, <1>2
<1>4. \A i \in 1 .. Len(s) : s[i] \in Range(u)
  BY <1>1 DEF Range
<1>5. \A i, j \in 1 .. Len(s) : s[i] = s[j] => i = j
  BY <1>1 DEF IsInjective
<1>3. CASE Len(s) > 0
  <2> DEFINE n == Len(s) - 1
             v == SubSeq(s, 1, n)
             x == s[Len(s)]
  <2>1. /\ v \in Seq(S) /\ Len(v) = n /\ n \in Nat
        /\ \A i \in 1 .. n : v[i] = s[i]
    BY <1>1, <1>3
  <2>2. DOMAIN v = 1 .. n
    BY <2>1
  <2>3. x \in Range(u)
    BY <1>1, <1>3, <1>4
  <2>4. IsInjective(v)
    BY <1>1, <2>1, <2>2, <1>5 DEF IsInjective
  <2>5. Range(v) \subseteq Range(u) \ {x}
    <3>1. \A i \in 1 .. n : v[i] \in Range(u) /\ v[i] # x
      BY <1>1, <1>3, <1>4, <1>5, <2>1
    <3> QED
      <4> HIDE DEF v, x
      <4> QED BY <3>1, <2>2 DEF Range
  <2>6. Len(v) < Len(u)
    <3> HIDE DEF v, x
    <3> QED BY <2>1, <2>3, <2>4, <2>5, MissingOneIsShorter
  <2> QED BY <2>1, <2>6, <1>1
<1> QED BY <1>1, <1>2, <1>3

-----------------------------------------------------------------------------
(***************************************************************************)
(* Reachability.                                                           *)
(***************************************************************************)

LEMMA ReachIsClosed ==
  ASSUME NEW enter, NEW from
  PROVE  /\ ReachVia(enter, from) \subseteq enter
         /\ ClosedUnder(ReachVia(enter, from), enter, from)
BY DEF ReachVia, ClosedUnder

LEMMA ReachIsLeast ==
  ASSUME NEW enter, NEW from, NEW S \in SUBSET enter, ClosedUnder(S, enter, from)
  PROVE  ReachVia(enter, from) \subseteq S
BY DEF ReachVia

-----------------------------------------------------------------------------
(***************************************************************************)
(* The invariant, read out cell by cell.                                   *)
(***************************************************************************)

LEMMA Values ==
  ASSUME IInv
  PROVE  /\ \A x \in StackVals \ {nil} : x \in Allocated
         /\ \A r \in Root : root[r] \in Allocated \cup {nil}
         /\ \A c \in Allocated, f \in Field : field[c][f] \in Allocated \cup {nil}
         /\ Allocated \subseteq Cell /\ nil \notin Cell
         /\ \A x \in Loadable : x \in Allocated \cup {nil}
<1>1. \A x \in StackVals \ {nil} : x \in Allocated
  BY DEF IInv, NoDangling
<1>2. \A r \in Root : root[r] \in Allocated \cup {nil}
  BY <1>1 DEF StackVals
<1>3. \A c \in Allocated, f \in Field : field[c][f] \in Allocated \cup {nil}
  BY DEF IInv, NoDangling
<1>4. Allocated \subseteq Cell /\ nil \notin Cell
  BY GcAssumption DEF IInv, TypeOK, Allocated
<1>5. \A x \in Loadable : x \in Allocated \cup {nil}
  BY <1>1, <1>3 DEF Loadable, Known
<1> QED BY <1>1, <1>2, <1>3, <1>4, <1>5

LEMMA Babies ==
  ASSUME IInv
  PROVE  /\ \A c \in Allocated : gen[c] \in {-1, 0, 1}
         /\ Range(freshobj) = Allocated \ Mature
         /\ \A c \in Allocated : c \in Mature <=> gen[c] > 0
         /\ Range(checkobj) \subseteq Range(freshobj)
<1>1. \A c \in Cell : gen[c] \in {-1, 0, 1}
  BY DEF IInv, TypeOK
<1>2. Allocated \subseteq Cell
  BY Values
<1>3. \A c \in Allocated : c \in Mature <=> gen[c] > 0
  BY <1>1, <1>2 DEF Mature
<1>4. /\ Range(freshobj) \subseteq Cell
      /\ Range(checkobj) \subseteq Cell
  BY DEF IInv, TypeOK, Range
<1>5. Range(freshobj) = Allocated \ Mature
  BY <1>1, <1>2, <1>4 DEF IInv, BabiesAreFresh, Mature
<1>6. Range(checkobj) \subseteq Range(freshobj)
  BY <1>4, <1>1 DEF IInv, BabiesAreFresh, CheckobjExact
<1> QED BY <1>1, <1>2, <1>3, <1>5, <1>6

-----------------------------------------------------------------------------
(***************************************************************************)
(* A collection.                                                           *)
(***************************************************************************)

\* What sweep() leaves in use when mark() has marked M.
Kept(full, M) == M \cup (Allocated \ SweepSet(full))

LEMMA MarkStaysInUse ==
  ASSUME IInv, NEW full \in BOOLEAN, NEW junk \in SUBSET Allocated
  PROVE  /\ Marked(full, junk) \subseteq Allocated
         /\ ~full => Marked(full, junk) \subseteq Range(freshobj)
<1> DEFINE S == Enter(full) \cap Allocated
<1>1. \A x \in MarkFrom(full, junk) : x \in Allocated \cup {nil}
  BY Values, Babies, GcAssumption DEF MarkFrom
<1>2. ClosedUnder(S, Enter(full), MarkFrom(full, junk))
  BY <1>1, Values DEF ClosedUnder, Enter
<1>3. Marked(full, junk) \subseteq S
  BY <1>2, ReachIsLeast DEF Marked
<1>4. ~full => S \subseteq Range(freshobj)
  BY Babies DEF Enter
<1> QED BY <1>3, <1>4

LEMMA MarkIsClean ==
  ASSUME IInv, NEW full \in BOOLEAN, NEW junk \in SUBSET Allocated
  PROVE  ~Corrupt(full, reachable \cup Marked(full, junk))
<1>1. reachable = {}
  BY DEF IInv, MarksCleared
<1>2. Marked(full, junk) \cap free_list = {}
  BY MarkStaysInUse DEF Allocated
<1>3. ~full => \A c \in SweepSet(full) : ~(gen[c] > 0)
  BY Babies DEF SweepSet
<1> QED BY <1>1, <1>2, <1>3 DEF Corrupt

\* The heart of the matter: what is kept refers only to what is kept.
LEMMA KeptIsClosed ==
  ASSUME IInv, NEW full \in BOOLEAN, NEW junk \in SUBSET Allocated
  PROVE  LET K == Kept(full, Marked(full, junk))
         IN  /\ \A x \in StackVals \ {nil} : x \in K
             /\ \A c \in K, f \in Field : field[c][f] \in K \cup {nil}
             /\ K \subseteq Allocated
<1> DEFINE M == Marked(full, junk)
           K == Kept(full, M)
<1>1. M \subseteq Allocated /\ (~full => M \subseteq Range(freshobj))
  BY MarkStaysInUse
<1>2. K \subseteq Allocated
  BY <1>1 DEF Kept
<1>3. /\ M \subseteq Enter(full)
      /\ \A c \in Enter(full) :
           c \in MarkFrom(full, junk) \/ (\E p \in M, f \in Field : field[p][f] = c) => c \in M
  BY ReachIsClosed DEF Marked, ClosedUnder
<1>4. CASE full
  <2>1. Enter(full) = Cell
    BY <1>4 DEF Enter, IInv, MarksCleared
  <2>2. K = M
    BY <1>4, <1>1 DEF Kept, SweepSet, Allocated
  <2>3. \A x \in StackVals \ {nil} : x \in M
    BY <1>3, <2>1, Values DEF MarkFrom
  <2>4. \A c \in M, f \in Field : field[c][f] \in M \cup {nil}
    BY <1>1, <1>3, <2>1, Values
  <2> QED BY <1>2, <2>2, <2>3, <2>4
<1>5. CASE ~full
  <2>1. \A c \in Allocated : c \in Enter(full) <=> c \in Range(freshobj)
    BY <1>5, Babies, Values DEF Enter, IInv, MarksCleared
  <2>2. K = M \cup Mature
    BY <1>5, Babies DEF Kept, SweepSet, Mature
  <2>3. \A c \in Allocated : c \in Mature \/ c \in Range(freshobj)
    BY Babies
  <2>4. \A x \in StackVals \ {nil} : x \in K
    <3> SUFFICES ASSUME NEW x \in StackVals \ {nil}, x \notin Mature PROVE x \in M
      BY <2>2
    <3>1. x \in Allocated
      BY Values
    <3>2. x \in MarkFrom(full, junk) /\ x \in Enter(full)
      BY <3>1, <2>1, <2>3 DEF MarkFrom
    <3> QED BY <3>2, <1>3
  <2>5. \A c \in K, f \in Field : field[c][f] \in K \cup {nil}
    <3> SUFFICES ASSUME NEW c \in K, NEW f \in Field,
                        field[c][f] # nil, field[c][f] \notin Mature
                 PROVE  field[c][f] \in M
      BY <2>2
    <3> DEFINE x == field[c][f]
    <3>1. x \in Allocated /\ c \in Allocated
      BY <1>2, Values
    <3>2. x \in Range(freshobj) /\ x \in Enter(full)
      BY <3>1, <2>1, <2>3
    <3>3. CASE c \in M
      BY <3>3, <3>2, <1>3
    <3>4. CASE c \in Mature
      <4>1. gen[c] = 1 /\ gen[x] <= 0 /\ x \in Cell
        BY <3>1, <3>2, <3>4, <1>5, Values DEF Mature, Enter
      <4>2. x \in Range(checkobj)
        BY <4>1, <3>1 DEF IInv, Remembered
      <4>3. x \in MarkFrom(full, junk)
        BY <4>2, <1>5 DEF MarkFrom
      <4> QED BY <4>3, <3>2, <1>3
    <3> QED BY <3>3, <3>4, <2>2
  <2> QED BY <1>2, <2>4, <2>5
<1> QED BY <1>4, <1>5

LEMMA CollectPreserves ==
  ASSUME IInv, NEW full \in BOOLEAN, NEW junk \in SUBSET Allocated,
         NEW next \in {"checked", "try1"},
         Collect(full, junk, next), pend # nil,
         UNCHANGED <<root, pend, gc_enabled>>, gc_counter' \in 0 .. FULL_GC_INTERVAL - 1
  PROVE  IInv'
<1> DEFINE M == Marked(full, junk)
           K == Kept(full, M)
           dead == SweepSet(full) \ M
<1>1. reachable \cup M = M
  BY DEF IInv, MarksCleared
<1>2. /\ reachable' = M \ SweepSet(full)
      /\ gen' = [c \in Cell |-> IF c \in SweepSet(full) \cap M THEN 1 ELSE gen[c]]
      /\ field' = [c \in Cell |-> IF c \in dead THEN [f \in Field |-> nil] ELSE field[c]]
      /\ checkobj' = <<>> /\ freshobj' = <<>>
  BY <1>1 DEF Collect, Unmark
<1>3. \E new \in SUBSET (Cell \ heap) :
         heap' = heap \cup new /\ free_list' = free_list \cup dead \cup new
  <2>1. CASE \E new \in Chunks : heap' = heap \cup new /\ free_list' = free_list \cup dead \cup new
    BY <2>1 DEF Chunks
  <2>2. CASE heap' = heap /\ free_list' = free_list \cup dead
    <3>1. heap' = heap \cup {} /\ free_list' = free_list \cup dead \cup {}
      BY <2>2
    <3> QED BY <3>1
  <2> QED BY <1>1, <2>1, <2>2 DEF Collect, More
<1>4. pc' \in {"checked", "try1", "oom"}
  BY DEF Collect, More
<1>5. heap \subseteq Cell /\ free_list \subseteq heap /\ M \subseteq Allocated
  BY MarkStaysInUse DEF IInv, TypeOK
<1>6. /\ SweepSet(full) \subseteq heap
      /\ Allocated \ SweepSet(full) \subseteq Mature
      /\ M \subseteq SweepSet(full)
  <2>1. CASE full
    BY <2>1, <1>5 DEF SweepSet, Allocated
  <2>2. CASE ~full
    BY <2>2, <1>5, Babies, MarkStaysInUse DEF SweepSet, Allocated
  <2> QED BY <2>1, <2>2
<1>7. Allocated' = K
  BY <1>3, <1>5, <1>6 DEF Allocated, Kept
<1>8. /\ \A x \in StackVals \ {nil} : x \in K
      /\ \A c \in K, f \in Field : field[c][f] \in K \cup {nil}
  BY KeptIsClosed
<1>9. \A c \in K : gen'[c] = 1
  BY <1>2, <1>5, <1>6 DEF Kept, Mature, Allocated
<1>10. TypeOK'
  <2>1. pc' \in Steps \cup Stopped /\ (pc' \in Steps \ {"run"} => pend' # nil)
    BY <1>4 DEF Steps, Stopped
  <2>2. /\ pend' \in [place : Place, vals : [Field -> Value]] \cup {nil}
        /\ root' \in [Root -> Value] /\ gc_enabled' \in BOOLEAN
    BY DEF IInv, TypeOK
  <2>3. heap' \subseteq Cell /\ free_list' \subseteq heap' /\ reachable' \subseteq Cell
    BY <1>2, <1>3, <1>5, <1>6
  <2>4. field' \in [Cell -> [Field -> Value]] /\ gen' \in [Cell -> -1 .. 1]
    BY <1>2 DEF IInv, TypeOK, Value
  <2> QED BY <2>1, <2>2, <2>3, <2>4, <1>2, EmptyRange DEF TypeOK
<1>11. NoDangling'
  <2>1. StackVals' = StackVals
    BY DEF StackVals, PendVals
  <2>2. \A c \in K : field'[c] = field[c]
    BY <1>2, <1>5, <1>6 DEF Kept, Allocated
  <2> QED BY <1>7, <1>8, <2>1, <2>2 DEF NoDangling
<1>12. BabiesAreFresh' /\ CheckobjExact' /\ Remembered'
  <2>1. Range(freshobj)' = {} /\ IsInjective(freshobj)'
        /\ Range(checkobj)' = {} /\ IsInjective(checkobj)'
    BY <1>2, EmptyRange
  <2>2. Remembered'
    BY <1>7, <1>9, <1>11, GcAssumption DEF Remembered, NoDangling
  <2> QED BY <1>7, <1>9, <2>1, <2>2 DEF BabiesAreFresh, CheckobjExact
<1>13. MarksCleared'
  BY <1>2, <1>6 DEF MarksCleared
<1>14. FreshobjRoom' /\ FastPath'
  BY <1>2, <1>4, EmptyRange, GcAssumption DEF FreshobjRoom, FastPath
<1> QED BY <1>10, <1>11, <1>12, <1>13, <1>14 DEF IInv

\* A call of gc(), whether or not collection is enabled.
LEMMA GcPreserves ==
  ASSUME IInv, NEW next \in {"checked", "try1"}, Gc(next), pend # nil,
         next = "try1" => Len(freshobj) < FRESHOBJ_VEC_SIZE,
         UNCHANGED <<root, pend, gc_enabled>>
  PROVE  IInv'
<1>1. CASE ~gc_enabled
  <2>1. pc' = next /\ UNCHANGED <<field, gcvars>>
    BY <1>1 DEF Gc
  <2>2. TypeOK'
    BY <2>1 DEF IInv, TypeOK, gcvars, Steps
  <2>3. Allocated' = Allocated /\ StackVals' = StackVals
    BY <2>1 DEF Allocated, StackVals, PendVals, gcvars
  <2>4. /\ NoDangling' /\ BabiesAreFresh' /\ CheckobjExact' /\ Remembered' /\ MarksCleared'
    BY <2>1, <2>3 DEF IInv, NoDangling, BabiesAreFresh, CheckobjExact, Remembered,
                      MarksCleared, gcvars
  <2>5. FreshobjRoom' /\ FastPath'
    BY <2>1 DEF IInv, FreshobjRoom, FastPath, gcvars
  <2> QED BY <2>2, <2>4, <2>5 DEF IInv
<1>2. CASE gc_enabled
  <2>1. PICK full \in BOOLEAN : full = FullTurn
    <3>1. FullTurn = TRUE \/ FullTurn = FALSE
      <4>1. CASE FullTurn
        BY <4>1 DEF FullTurn
      <4>2. CASE ~FullTurn
        BY <4>2 DEF FullTurn
      <4> QED BY <4>1, <4>2
    <3> QED BY <3>1
  <2>2. PICK junk \in SUBSET Allocated :
          \/ Collect(full, junk, next)
          \/ Corrupt(full, reachable \cup Marked(full, junk))
    BY <1>2, <2>1 DEF Gc
  <2>3. Collect(full, junk, next)
    BY <2>2, MarkIsClean
  <2>4. gc_counter' \in 0 .. FULL_GC_INTERVAL - 1
    <3>1. gc_counter' = IF gc_counter + 1 >= FULL_GC_INTERVAL THEN 0 ELSE gc_counter + 1
      BY <1>2 DEF Gc, FullTurn
    <3> QED BY <3>1, GcAssumption DEF IInv, TypeOK
  <2> QED BY <2>3, <2>4, CollectPreserves
<1> QED BY <1>1, <1>2

-----------------------------------------------------------------------------
(***************************************************************************)
(* The other steps.                                                        *)
(***************************************************************************)

LEMMA InitIInv == Init => IInv
<1> SUFFICES ASSUME Init PROVE IInv
  OBVIOUS
<1>1. TypeOK
  BY GcAssumption, EmptyRange DEF Init, TypeOK, Steps, Value
<1>2. Allocated = {} /\ StackVals \ {nil} = {}
  BY DEF Init, Allocated, StackVals, PendVals
<1>3. NoDangling /\ Remembered /\ MarksCleared
  BY <1>2 DEF Init, NoDangling, Remembered, MarksCleared
<1>4. BabiesAreFresh /\ CheckobjExact
  BY <1>2, EmptyRange DEF Init, BabiesAreFresh, CheckobjExact
<1>5. FreshobjRoom /\ FastPath
  BY EmptyRange, GcAssumption DEF Init, FreshobjRoom, FastPath
<1> QED BY <1>1, <1>3, <1>4, <1>5 DEF IInv

LEMMA ConstructPreserves ==
  ASSUME IInv, NEW r \in Root, NEW vals \in [Field -> Loadable], Construct(r, vals)
  PROVE  IInv'
<1>1. pend' = [place |-> r, vals |-> vals] /\ pc' = "make_obj"
  BY DEF Construct
<1>2. vals \in [Field -> Value] /\ \A f \in Field : vals[f] \in Allocated \cup {nil}
  BY Values DEF Value
<1>3. pend' \in [place : Place, vals : [Field -> Value]] /\ pend' # nil
  BY <1>1, <1>2, GcAssumption DEF Place
<1>4. TypeOK'
  BY <1>1, <1>3 DEF IInv, TypeOK, Construct, gcvars, Steps
<1>5. UNCHANGED <<root, field, gcvars, gc_enabled>> /\ Allocated' = Allocated
  BY DEF Construct, Allocated, gcvars
<1>6. NoDangling'
  <2>1. PendVals' = {vals[f] : f \in Field}
    BY <1>1, <1>3 DEF PendVals
  <2>2. \A x \in (StackVals \ {nil})' : x \in Allocated
    BY <2>1, <1>2, <1>5, Values DEF StackVals
  <2> QED BY <2>2, <1>5, Values DEF NoDangling
<1>7. BabiesAreFresh' /\ CheckobjExact' /\ Remembered' /\ MarksCleared'
  BY <1>5 DEF IInv, BabiesAreFresh, CheckobjExact, Remembered, MarksCleared, gcvars
<1>8. FreshobjRoom' /\ FastPath'
  BY <1>1, <1>5 DEF IInv, FreshobjRoom, FastPath, gcvars
<1> QED BY <1>4, <1>6, <1>7, <1>8 DEF IInv

\* A step that only moves pc to another step of the allocator.
LEMMA MovePreserves ==
  ASSUME IInv, UNCHANGED <<pend, root, field, gcvars, gc_enabled>>, pend # nil,
         pc' \in {"assert", "try0"}, pc' = "try0" => ~FreshobjFull
  PROVE  IInv'
<1>1. TypeOK'
  BY DEF IInv, TypeOK, gcvars, Steps, Stopped
<1>2. Allocated' = Allocated /\ StackVals' = StackVals
  BY DEF Allocated, StackVals, PendVals, gcvars
<1>3. NoDangling' /\ BabiesAreFresh' /\ CheckobjExact' /\ Remembered' /\ MarksCleared'
  BY <1>2 DEF IInv, NoDangling, BabiesAreFresh, CheckobjExact, Remembered, MarksCleared, gcvars
<1>4. Len(freshobj) \in Nat
  BY DEF IInv, TypeOK
<1>5. FreshobjRoom' /\ FastPath'
  BY <1>4, GcAssumption DEF IInv, FreshobjRoom, FastPath, FreshobjFull, gcvars
<1> QED BY <1>1, <1>3, <1>5 DEF IInv

LEMMA TakePreserves ==
  ASSUME IInv, NEW c \in free_list, Take(c), pend # nil, UNCHANGED gc_enabled,
         Len(freshobj) < FRESHOBJ_VEC_SIZE
  PROVE  IInv'
<1>1. /\ c \in Cell /\ c \in heap /\ c \notin Allocated
      /\ pend.vals \in [Field -> Value]
      /\ pend.place \in Place
      /\ freshobj \in Seq(Cell) /\ gen \in [Cell -> -1 .. 1]
      /\ field \in [Cell -> [Field -> Value]] /\ root \in [Root -> Value]
  BY DEF IInv, TypeOK, Allocated
<1>2. \A f \in Field : pend.vals[f] \in Allocated \cup {nil}
  BY Values DEF StackVals, PendVals
<1>3. Allocated' = Allocated \cup {c}
  BY <1>1 DEF Take, Allocated
<1>4. /\ gen' = [gen EXCEPT ![c] = 0] /\ freshobj' = Append(freshobj, c)
      /\ field' = [field EXCEPT ![c] = pend.vals] /\ root' = [root EXCEPT ![pend.place] = c]
      /\ pc' = "run" /\ pend' = nil
      /\ UNCHANGED <<heap, reachable, checkobj, gc_counter>>
  BY DEF Take, Return
<1>5. /\ Len(freshobj') = Len(freshobj) + 1 /\ freshobj' \in Seq(Cell)
      /\ Range(freshobj') = Range(freshobj) \cup {c}
      /\ IsInjective(freshobj) /\ c \notin Range(freshobj) => IsInjective(freshobj')
  BY <1>1, <1>4, RangeAppend
<1>6. TypeOK'
  <2>1. free_list' \subseteq heap'
    BY <1>4 DEF Take, IInv, TypeOK
  <2>2. field' \in [Cell -> [Field -> Value]] /\ gen' \in [Cell -> -1 .. 1]
    BY <1>1, <1>4 DEF Value
  <2>3. root' \in [Root -> Value]
    <3>1. root' = [r \in Root |-> IF r = pend.place THEN c ELSE root[r]]
      BY <1>1, <1>4
    <3> QED BY <3>1, <1>1 DEF Value
  <2> QED BY <2>1, <2>2, <2>3, <1>4, <1>5 DEF IInv, TypeOK, Steps
<1>7. NoDangling'
  <2>1. PendVals' = {}
    BY <1>4 DEF PendVals
  <2>2. \A r \in Root : root'[r] \in Allocated' \cup {nil}
    BY <1>1, <1>3, <1>4, Values
  <2>3. \A p \in Allocated', f \in Field : field'[p][f] \in Allocated' \cup {nil}
    BY <1>1, <1>2, <1>3, <1>4, Values
  <2> QED BY <2>1, <2>2, <2>3 DEF NoDangling, StackVals
<1>8. BabiesAreFresh'
  <2>1. \A p \in Cell : p \in Allocated' /\ gen'[p] <= 0 <=> p = c \/ (p \in Allocated /\ gen[p] <= 0)
    BY <1>1, <1>3, <1>4
  <2>2. c \notin Range(freshobj) /\ IsInjective(freshobj)
    BY <1>1 DEF IInv, BabiesAreFresh
  <2> QED BY <1>1, <1>5, <2>1, <2>2 DEF IInv, BabiesAreFresh
<1>9. CheckobjExact'
  <2>1. \A p \in Cell : p \in Allocated' /\ gen'[p] = -1 <=> p \in Allocated /\ gen[p] = -1
    BY <1>1, <1>3, <1>4
  <2> QED BY <1>4, <2>1 DEF IInv, CheckobjExact
<1>10. Remembered'
  <2> SUFFICES ASSUME NEW p \in Allocated', NEW f \in Field, gen'[p] = 1,
                      field'[p][f] \in Cell, gen'[field'[p][f]] <= 0
               PROVE  field'[p][f] \in Range(checkobj')
    BY DEF Remembered
  <2>1. p # c
    BY <1>1, <1>4
  <2>2. p \in Allocated /\ p \in Cell /\ gen[p] = 1 /\ field'[p][f] = field[p][f]
    BY <2>1, <1>1, <1>3, <1>4, Values
  <2>3. field[p][f] # c
    BY <2>2, <1>1, Values
  <2>4. gen[field[p][f]] <= 0
    BY <2>2, <2>3, <1>1, <1>4
  <2> QED BY <2>2, <2>4, <1>4 DEF IInv, Remembered
<1>11. MarksCleared' /\ FastPath'
  BY <1>4 DEF IInv, MarksCleared, FastPath
<1>12. FreshobjRoom'
  BY <1>1, <1>4, <1>5, GcAssumption DEF FreshobjRoom
<1> QED BY <1>6, <1>7, <1>8, <1>9, <1>10, <1>11, <1>12 DEF IInv

\* set(place, x) when it has room in checkobj, or nothing to record.
LEMMA GcSetPreserves ==
  ASSUME IInv, NEW place \in KnownPlace, NEW x \in Loadable, GcSet(place, x)
  PROVE  IInv'
<1>1. /\ root \in [Root -> Value] /\ field \in [Cell -> [Field -> Value]]
      /\ gen \in [Cell -> -1 .. 1] /\ checkobj \in Seq(Cell) /\ freshobj \in Seq(Cell)
      /\ pend \in [place : Place, vals : [Field -> Value]] \cup {nil}
  BY DEF IInv, TypeOK
<1>2. x \in Allocated \cup {nil} /\ x \in Value
  BY Values DEF Value
<1>3. \/ place \in Root
      \/ /\ place \notin Root
         /\ place[1] \in Allocated /\ place[2] \in Field
         /\ place = <<place[1], place[2]>>
  BY Values DEF KnownPlace, Known
<1>4. ASSUME x \in Cell, gen[x] = 0
      PROVE  Len(checkobj) < CHECKOBJ_VEC_SIZE /\ x \notin Range(checkobj)
  <2>1. x \in Range(freshobj)
    BY <1>2, <1>4, GcAssumption DEF IInv, BabiesAreFresh
  <2>2. x \notin Range(checkobj)
    BY <1>2, <1>4 DEF IInv, CheckobjExact
  <2>3. Range(checkobj) \subseteq Range(freshobj) \ {x} /\ IsInjective(checkobj)
    BY <2>2, Babies DEF IInv, CheckobjExact
  <2>4. Len(checkobj) < Len(freshobj)
    BY <1>1, <2>1, <2>3, MissingOneIsShorter
  <2>5. Len(freshobj) <= FRESHOBJ_VEC_SIZE /\ Len(checkobj) \in Nat /\ Len(freshobj) \in Nat
    BY <1>1 DEF IInv, FreshobjRoom
  <2> QED BY <2>2, <2>4, <2>5, GcAssumption
<1>5. UNCHANGED <<heap, free_list, reachable, freshobj, gc_counter, gc_enabled>>
  BY DEF GcSet
<1>6. /\ Store(place, x) /\ UNCHANGED <<pc, pend>>
      /\ \/ /\ UNCHANGED <<gen, checkobj>>
            /\ x \notin Cell \/ gen[x] # 0 \/ place \in Root
         \/ /\ x \in Cell /\ gen[x] = 0
            /\ gen' = [gen EXCEPT ![x] = -1] /\ checkobj' = Append(checkobj, x)
  <2>1. PICK in \in InMallocRange(place) :
          \/ /\ ~(in /\ x \in Cell /\ gen[x] = 0)
             /\ Store(place, x) /\ UNCHANGED <<pc, pend, gen, checkobj>>
          \/ /\ in /\ x \in Cell /\ gen[x] = 0
             /\ gen' = [gen EXCEPT ![x] = -1] /\ checkobj' = Append(checkobj, x)
             /\ Store(place, x) /\ UNCHANGED <<pc, pend>>
          \/ /\ x \in Cell /\ gen[x] = 0
             /\ Len(checkobj) >= CHECKOBJ_VEC_SIZE
    BY DEF GcSet, Records
  <2>2. ~(x \in Cell /\ gen[x] = 0 /\ Len(checkobj) >= CHECKOBJ_VEC_SIZE)
    BY <1>1, <1>4, GcAssumption
  <2>3. place \notin Root => in = TRUE
    BY DEF InMallocRange
  <2> QED BY <2>1, <2>2, <2>3
<1>7. Allocated' = Allocated
  BY <1>5 DEF Allocated
\* The store itself.
<1>8. /\ \A r \in Root : root'[r] \in {root[r], x}
      /\ \A c \in Cell, f \in Field : field'[c][f] = IF place \notin Root /\ place = <<c, f>> THEN x ELSE field[c][f]
      /\ root' \in [Root -> Value] /\ field' \in [Cell -> [Field -> Value]]
  <2>1. CASE place \in Root
    <3>1. root' = [root EXCEPT ![place] = x] /\ field' = field
      BY <2>1, <1>6 DEF Store
    <3>2. root' = [r \in Root |-> IF r = place THEN x ELSE root[r]]
      BY <3>1, <1>1
    <3>3. root' \in [Root -> Value] /\ \A r \in Root : root'[r] \in {root[r], x}
      BY <3>2, <1>1, <1>2
    <3> QED BY <2>1, <3>1, <3>3, <1>1
  <2>2. CASE place \notin Root
    <3>1. root' = root /\ field' = [field EXCEPT ![place[1]][place[2]] = x]
      BY <2>2, <1>6 DEF Store
    <3>2. place[1] \in Cell /\ place[2] \in Field
      BY <2>2, <1>3, Values
    <3>3. field' = [c \in Cell |-> [f \in Field |->
                      IF c = place[1] /\ f = place[2] THEN x ELSE field[c][f]]]
      BY <3>1, <3>2, <1>1
    <3>4. \A c \in Cell, f \in Field : (c = place[1] /\ f = place[2]) <=> place = <<c, f>>
      BY <2>2, <1>3
    <3>5. field' \in [Cell -> [Field -> Value]]
      BY <3>3, <1>1, <1>2
    <3>6. \A c \in Cell, f \in Field :
            field'[c][f] = IF place = <<c, f>> THEN x ELSE field[c][f]
      BY <3>3, <3>4
    <3>7. root' \in [Root -> Value] /\ \A r \in Root : root'[r] \in {root[r], x}
      BY <3>1, <1>1
    <3> QED BY <3>5, <3>6, <3>7, <2>2
  <2> QED BY <2>1, <2>2
\* The record of the assigned object.
<1>9. /\ gen' \in [Cell -> -1 .. 1] /\ checkobj' \in Seq(Cell)
      /\ IsInjective(checkobj')
      /\ \A c \in Cell : gen'[c] # gen[c] => c = x /\ gen[c] = 0 /\ gen'[c] = -1
      /\ \A c \in Cell : c \in Range(checkobj') <=> c \in Range(checkobj) \/ gen'[c] # gen[c]
  <2>1. CASE UNCHANGED <<gen, checkobj>>
    BY <2>1, <1>1 DEF IInv, CheckobjExact
  <2>2. CASE /\ x \in Cell /\ gen[x] = 0
             /\ gen' = [gen EXCEPT ![x] = -1] /\ checkobj' = Append(checkobj, x)
    <3>1. /\ checkobj' \in Seq(Cell) /\ Range(checkobj') = Range(checkobj) \cup {x}
          /\ IsInjective(checkobj')
      BY <2>2, <1>1, <1>4, RangeAppend DEF IInv, CheckobjExact
    <3> QED BY <2>2, <3>1, <1>1
  <2> QED BY <2>1, <2>2, <1>6
<1>10. TypeOK'
  BY <1>5, <1>6, <1>8, <1>9, <1>1 DEF IInv, TypeOK
<1>11. NoDangling'
  <2>1. PendVals' = PendVals
    BY <1>6 DEF PendVals
  <2>2. \A y \in (StackVals \ {nil})' : y \in Allocated
    BY <2>1, <1>2, <1>8, Values DEF StackVals
  <2>3. \A c \in Allocated, f \in Field : field'[c][f] \in Allocated \cup {nil}
    BY <1>2, <1>8, Values
  <2> QED BY <2>2, <2>3, <1>7 DEF NoDangling
<1>12. BabiesAreFresh'
  <2>1. \A c \in Cell : gen'[c] <= 0 <=> gen[c] <= 0
    BY <1>1, <1>9
  <2> QED BY <2>1, <1>5, <1>7 DEF IInv, BabiesAreFresh
<1>13. CheckobjExact'
  <2>1. \A c \in Cell : gen'[c] # gen[c] => c \in Allocated
    BY <1>9, <1>2, GcAssumption
  <2>2. \A c \in Cell : c \in Range(checkobj) <=> c \in Allocated /\ gen[c] = -1
    BY DEF IInv, CheckobjExact
  <2> QED BY <2>1, <2>2, <1>1, <1>7, <1>9 DEF CheckobjExact
<1>14. Remembered'
  <2> SUFFICES ASSUME NEW c \in Allocated, NEW f \in Field, gen'[c] = 1,
                      field'[c][f] \in Cell, gen'[field'[c][f]] <= 0
               PROVE  field'[c][f] \in Range(checkobj')
    BY <1>7 DEF Remembered
  <2> DEFINE y == field'[c][f]
  <2>1. c \in Cell /\ gen[c] = 1 /\ gen[y] <= 0
    <3> HIDE DEF y
    <3>1. \A p \in Cell : /\ gen[p] \in -1 .. 1
                          /\ gen'[p] = 1 => gen[p] = 1
                          /\ gen'[p] <= 0 => gen[p] <= 0
      BY <1>1, <1>9
    <3>2. c \in Cell /\ y \in Cell /\ gen'[y] <= 0
      BY Values DEF y
    <3> QED BY <3>1, <3>2
  <2>2. CASE y = field[c][f]
    <3>1. y \in Range(checkobj)
      BY <2>1, <2>2 DEF IInv, Remembered
    <3> QED BY <3>1, <1>9
  <2>3. CASE y # field[c][f]
    <3>1. place \notin Root /\ y = x
      BY <2>1, <2>3, <1>8
    <3>2. CASE gen[x] = 0
      <4>1. checkobj' = Append(checkobj, x)
        BY <3>1, <3>2, <1>6
      <4> QED BY <4>1, <3>1, <1>1, RangeAppend
    <3>3. CASE gen[x] # 0
      <4>1. gen[x] = -1 /\ x \in Allocated
        BY <3>3, <3>1, <2>1, <1>1, <1>2, GcAssumption
      <4> QED BY <4>1, <3>1, <1>9 DEF IInv, CheckobjExact
    <3> QED BY <3>2, <3>3
  <2> QED BY <2>2, <2>3
<1>15. MarksCleared' /\ FreshobjRoom' /\ FastPath'
  BY <1>5, <1>6 DEF IInv, MarksCleared, FreshobjRoom, FastPath
<1> QED BY <1>10, <1>11, <1>12, <1>13, <1>14, <1>15 DEF IInv

LEMMA GcStatePreserves ==
  ASSUME IInv, NEW enabled \in BOOLEAN, GcState(enabled)
  PROVE  IInv'
<1>1. UNCHANGED <<pc, pend, root, field, gcvars>> /\ gc_enabled' \in BOOLEAN
  BY DEF GcState
<1>2. TypeOK'
  BY <1>1 DEF IInv, TypeOK, gcvars
<1>3. Allocated' = Allocated /\ StackVals' = StackVals
  BY <1>1 DEF Allocated, StackVals, PendVals, gcvars
<1>4. /\ NoDangling' /\ BabiesAreFresh' /\ CheckobjExact' /\ Remembered' /\ MarksCleared'
      /\ FreshobjRoom' /\ FastPath'
  BY <1>1, <1>3 DEF IInv, NoDangling, BabiesAreFresh, CheckobjExact, Remembered,
                    MarksCleared, FreshobjRoom, FastPath, gcvars
<1> QED BY <1>2, <1>4 DEF IInv

\* more() called by make_obj itself, after a collection that freed nothing.
LEMMA MorePreserves ==
  ASSUME IInv, pc = "try1", free_list = {}, More({}, "try2"), pend # nil,
         UNCHANGED <<pend, root, field, reachable, gen, freshobj, checkobj, gc_counter, gc_enabled>>
  PROVE  IInv'
<1>1. \E new \in SUBSET (Cell \ heap) : heap' = heap \cup new /\ free_list' = new
  <2>1. CASE \E new \in Chunks : heap' = heap \cup new /\ free_list' = {} \cup new
    BY <2>1 DEF Chunks
  <2>2. CASE heap' = heap /\ free_list' = {}
    <3>1. heap' = heap \cup {} /\ free_list' = {}
      BY <2>2
    <3> QED BY <3>1
  <2> QED BY <2>1, <2>2 DEF More
<1>2. pc' \in {"try2", "oom"}
  BY DEF More
<1>3. Allocated' = Allocated /\ StackVals' = StackVals
  BY <1>1 DEF Allocated, StackVals, PendVals
<1>4. TypeOK'
  BY <1>1, <1>2 DEF IInv, TypeOK, Steps, Stopped
<1>5. /\ NoDangling' /\ BabiesAreFresh' /\ CheckobjExact' /\ Remembered' /\ MarksCleared'
      /\ FreshobjRoom' /\ FastPath'
  BY <1>2, <1>3 DEF IInv, NoDangling, BabiesAreFresh, CheckobjExact, Remembered,
                    MarksCleared, FreshobjRoom, FastPath
<1> QED BY <1>4, <1>5 DEF IInv

-----------------------------------------------------------------------------
(***************************************************************************)
(* The theorems.                                                           *)
(***************************************************************************)

LEMMA StepIInv == IInv /\ [Next]_vars => IInv'
<1> SUFFICES ASSUME IInv, [Next]_vars PROVE IInv'
  OBVIOUS
<1>0. /\ pc \in Steps \ {"run"} => pend # nil
      /\ FreshobjRoom /\ FastPath
      /\ Len(freshobj) \in Nat
  BY DEF IInv, TypeOK
<1>1. ASSUME NEW r \in Root, NEW vals \in [Field -> Loadable], Construct(r, vals)
      PROVE  IInv'
  BY <1>1, ConstructPreserves
<1>2. CASE MakeObjEntry
  <2>1. pend # nil /\ UNCHANGED <<pend, root, gc_enabled>>
    BY <1>0, <1>2 DEF MakeObjEntry, Steps
  <2>2. CASE Gc("checked")
    BY <2>1, <2>2, GcPreserves
  <2>3. CASE ~FreshobjFull /\ pc' = "try0" /\ UNCHANGED <<field, gcvars>>
    BY <2>1, <2>3, MovePreserves
  <2> QED BY <1>2, <2>2, <2>3 DEF MakeObjEntry
<1>3. CASE MakeObjAssert
  <2>1. pend # nil
    BY <1>0, <1>3 DEF MakeObjAssert, Steps
  <2> QED BY <2>1, <1>3, MovePreserves DEF MakeObjAssert
<1>4. CASE MakeObjTry
  <2>1. pend # nil /\ Len(freshobj) < FRESHOBJ_VEC_SIZE /\ UNCHANGED gc_enabled
    BY <1>0, <1>4 DEF MakeObjTry, Steps, FreshobjRoom
  <2>2. ASSUME NEW c \in free_list, Take(c) PROVE IInv'
    BY <2>1, <2>2, TakePreserves
  <2>3. CASE Gc("try1") /\ UNCHANGED <<pend, root>>
    BY <2>1, <2>3, GcPreserves
  <2>4. CASE /\ free_list = {} /\ pc = "try1" /\ More({}, "try2")
             /\ UNCHANGED <<pend, root, field, reachable, gen, freshobj, checkobj, gc_counter>>
    BY <2>1, <2>4, MorePreserves
  <2> QED BY <1>4, <2>2, <2>3, <2>4 DEF MakeObjTry
<1>5. ASSUME NEW place \in KnownPlace, NEW x \in Loadable, GcSet(place, x)
      PROVE  IInv'
  BY <1>5, GcSetPreserves
<1>6. ASSUME NEW enabled \in BOOLEAN, GcState(enabled) PROVE IInv'
  BY <1>6, GcStatePreserves
<1>7. CASE UNCHANGED vars
  BY <1>7 DEF vars, IInv, TypeOK, NoDangling, BabiesAreFresh, CheckobjExact, Remembered,
              MarksCleared, FreshobjRoom, FastPath, Allocated, StackVals, PendVals
<1> QED BY <1>1, <1>2, <1>3, <1>4, <1>5, <1>6, <1>7 DEF Next, Halted

\* The invariant holds in every state of every heap.
THEOREM Invariance == Spec => []IInv
<1>1. Init => IInv
  BY InitIInv
<1>2. IInv /\ [Next]_vars => IInv'
  BY StepIInv
<1> QED BY <1>1, <1>2, PTL DEF Spec

\* Type correctness.
THEOREM TypeCorrect == Spec => []TypeOK
<1>1. IInv => TypeOK
  BY DEF IInv
<1> QED BY <1>1, Invariance, PTL

\* The collector never reclaims an object that is still referred to, so
\* long as every assignment to a member goes through set().
THEOREM HeapIsSafe == Spec => []NoDangling
<1>1. IInv => NoDangling
  BY DEF IInv
<1> QED BY <1>1, Invariance, PTL

\* abort() in mark_obj and in sweep_one is never reached.
THEOREM NeverAborts == Spec => []NoAbort
<1>1. IInv => NoAbort
  BY DEF IInv, FastPath, NoAbort
<1> QED BY <1>1, Invariance, PTL

\* Between collections freshobj lists all babies, and nothing is marked.
THEOREM BookkeepingIsRight == Spec => []BetweenCollections
<1>1. IInv => BetweenCollections
  BY DEF IInv, BetweenCollections
<1> QED BY <1>1, Invariance, PTL

\* Every reference from a mature object to a baby is on record.
THEOREM BarrierIsComplete == Spec => []Remembered
<1>1. IInv => Remembered
  BY DEF IInv
<1> QED BY <1>1, Invariance, PTL

\* A write barrier finds room in checkobj: it neither collects nor writes
\* past the end of the vector, with collection enabled or disabled.
THEOREM BarrierHasRoom == Spec => []BarrierNeverCollects
<1>1. IInv => BarrierNeverCollects
  <2> SUFFICES ASSUME IInv PROVE BarrierNeverCollects
    OBVIOUS
  <2>1. checkobj \in Seq(Cell) /\ freshobj \in Seq(Cell) /\ Len(checkobj) \in Nat /\ Len(freshobj) \in Nat
    BY DEF IInv, TypeOK
  <2>2. Range(checkobj) \subseteq Range(freshobj)
    BY Babies
  <2>3. Len(checkobj) <= Len(freshobj)
    <3>1. IsInjective(checkobj)
      BY DEF IInv, CheckobjExact
    <3> QED BY <2>1, <2>2, <3>1, InjectiveIsNoLonger
  <2> QED BY <2>2, <2>3 DEF BarrierNeverCollects, IInv, FastPath
<1> QED BY <1>1, Invariance, PTL

-----------------------------------------------------------------------------
(***************************************************************************)
(* Completeness of a full collection.                                      *)
(***************************************************************************)

\* Without stale words on the stack, what a full collection marks is live.
LEMMA FullMarksLive ==
  ASSUME IInv
  PROVE  Marked(TRUE, {}) \subseteq Live
<1>1. Live \subseteq Cell /\ ClosedUnder(Live, Cell, StackVals)
  BY ReachIsClosed DEF Live
<1>2. Enter(TRUE) = Cell
  BY DEF Enter, IInv, MarksCleared
<1>3. \A x \in MarkFrom(TRUE, {}) : x \in StackVals
  BY GcAssumption DEF MarkFrom, StackVals
<1>4. ClosedUnder(Live, Enter(TRUE), MarkFrom(TRUE, {}))
  BY <1>1, <1>2, <1>3 DEF ClosedUnder
<1> QED BY <1>1, <1>2, <1>4, ReachIsLeast DEF Marked

LEMMA FullCollectIsComplete ==
  ASSUME IInv, NEW next, Collect(TRUE, {}, next)
  PROVE  Allocated' \subseteq Live
<1> DEFINE dead == heap \ Marked(TRUE, {})
<1>1. free_list \cup dead \subseteq free_list' /\ heap \subseteq heap'
      /\ heap' \ heap \subseteq free_list'
  BY DEF Collect, More, Chunks, SweepSet, IInv, MarksCleared
<1> QED BY <1>1, FullMarksLive DEF Allocated

\* A full collection that meets no stale words keeps only live objects.
THEOREM FullReclaimsGarbage == Spec => FullIsComplete
<1> DEFINE A == FullCollection /\ ~Conservative /\ pc' # "abort" => Allocated' \subseteq Live
<1>1. IInv /\ [Next]_vars => A
  <2> SUFFICES ASSUME IInv, [Next]_vars, FullCollection, ~Conservative
               PROVE  Allocated' \subseteq Live
    OBVIOUS
  <2>1. gc_counter' # gc_counter /\ gc_counter' = 0
    BY DEF FullCollection
  <2>2. \E next \in {"checked", "try1"} : Gc(next)
    BY <2>1 DEF Next, vars, gcvars, Construct, MakeObjEntry, MakeObjAssert, MakeObjTry, Take,
                GcSet, GcState, Halted
  <2>3. PICK next : Gc(next)
    BY <2>2
  <2>4. gc_enabled /\ gc_counter' = IF gc_counter + 1 >= FULL_GC_INTERVAL THEN 0 ELSE gc_counter + 1
    BY <2>1, <2>3 DEF Gc, gcvars, FullTurn
  <2>5. gc_counter + 1 >= FULL_GC_INTERVAL
    BY <2>1, <2>4, GcAssumption DEF IInv, TypeOK
  <2>6. FullTurn = TRUE
    BY <2>5 DEF FullTurn
  <2>7. Collect(TRUE, {}, next) \/ Corrupt(TRUE, reachable \cup Marked(TRUE, {}))
    BY <2>3, <2>4, <2>6 DEF Gc
  <2>8. Collect(TRUE, {}, next)
    <3>1. ~Corrupt(TRUE, reachable \cup Marked(TRUE, {}))
      BY MarkIsClean
    <3> QED BY <2>7, <3>1
  <2> QED BY <2>8, FullCollectIsComplete
<1>2. [][A]_vars => FullIsComplete
  BY PTL DEF FullIsComplete
<1>3. Spec => []IInv /\ [][Next]_vars
  BY Invariance, PTL DEF Spec
<1> QED BY <1>1, <1>2, <1>3, PTL

-----------------------------------------------------------------------------
(***************************************************************************)
(* The heap the program believes in.                                       *)
(*                                                                         *)
(* The objects it can reach are a least fixed point, which a step must be  *)
(* followed through: Reaches has the contents and the starting values for  *)
(* parameters, so that what it is after a step can be spoken of.           *)
(***************************************************************************)
Closing(S, F, V) ==
  \A c \in Cell : (c \in V \/ \E p \in S, f \in Field : F[p][f] = c) => c \in S

Reaches(F, V) == {c \in Cell : \A S \in SUBSET Cell : Closing(S, F, V) => c \in S}

\* What the variables hold, and what the objects in them do.
RootVals(R) == {R[r] : r \in Root}
Denoted(F, R) ==
  {nil} \cup RootVals(R) \cup {F[c][f] : c \in RootVals(R) \ {nil}, f \in Field}

\* A running constructor holds values that the program could still get by
\* other means, and no call is running that holds anything else.
Handled ==
  /\ pc = "run" => pend = nil
  /\ pend # nil => /\ pend.place \in Root
                   /\ pend.vals \in [Field -> Denoted(field, root)]

LEMMA LiveIsReached == Live = Reaches(field, StackVals)
BY DEF Live, ReachVia, ClosedUnder, Reaches, Closing

LEMMA ReachesIsClosing ==
  ASSUME NEW F, NEW V
  PROVE  Reaches(F, V) \subseteq Cell /\ Closing(Reaches(F, V), F, V)
BY DEF Reaches, Closing

LEMMA ReachesIsLeast ==
  ASSUME NEW F, NEW V, NEW S \in SUBSET Cell, Closing(S, F, V)
  PROVE  Reaches(F, V) \subseteq S
BY DEF Reaches

\* What is reached depends on the contents of what is reached only.
LEMMA ReachesSame ==
  ASSUME NEW F, NEW G, NEW V, \A c \in Reaches(F, V) : G[c] = F[c]
  PROVE  Reaches(G, V) = Reaches(F, V)
<1> DEFINE R == Reaches(F, V)
           T == Reaches(G, V)
<1>1. /\ R \subseteq Cell /\ Closing(R, F, V)
      /\ T \subseteq Cell /\ Closing(T, G, V)
  BY ReachesIsClosing
<1>2. Closing(R, G, V)
  BY <1>1 DEF Closing
<1>3. T \subseteq R
  BY <1>1, <1>2, ReachesIsLeast
<1>4. Closing(T, F, V)
  BY <1>1, <1>3 DEF Closing
<1>5. R \subseteq T
  BY <1>1, <1>4, ReachesIsLeast
<1> QED BY <1>3, <1>5

\* Nor does starting from values that are reached anyway make a difference.
LEMMA ReachesFurther ==
  ASSUME NEW F, NEW V, NEW W, V \subseteq W, W \cap Cell \subseteq Reaches(F, V)
  PROVE  Reaches(F, W) = Reaches(F, V)
<1>1. /\ Reaches(F, V) \subseteq Cell /\ Closing(Reaches(F, V), F, V)
      /\ Reaches(F, W) \subseteq Cell /\ Closing(Reaches(F, W), F, W)
  BY ReachesIsClosing
<1>2. Closing(Reaches(F, V), F, W)
  BY <1>1 DEF Closing
<1>3. Closing(Reaches(F, W), F, V)
  BY <1>1 DEF Closing
<1> QED BY <1>1, <1>2, <1>3, ReachesIsLeast

\* The reachable part of the ideal heap, for a set D of objects that holds
\* all that the variables and its members refer to.
LEMMA ReachedIs ==
  ASSUME NEW F, NEW R, NEW D \in SUBSET Cell,
         \A r \in Root : R[r] \in D \cup {nil},
         \A p \in D, f \in Field : F[p][f] \in D \cup {nil}
  PROVE  Ideal!Reached(R, [c \in D |-> F[c]]) = [c \in Reaches(F, RootVals(R)) |-> F[c]]
<1> DEFINE V == RootVals(R)
           C == [c \in D |-> F[c]]
           From(T) == {R[r] : r \in Root} \ {nil} \subseteq T /\ Ideal!Closed(T, C)
           S == {c \in D : \A T \in SUBSET D : From(T) => c \in T}
<1>0. nil \notin Cell /\ DOMAIN C = D /\ \A c \in D : C[c] = F[c]
  BY GcAssumption
<1>1. ASSUME NEW c \in S PROVE c \in Reaches(F, V)
  <2> SUFFICES ASSUME NEW T \in SUBSET Cell, Closing(T, F, V) PROVE c \in T
    BY <1>1 DEF Reaches
  <2>1. \A x \in V \ {nil} : x \in D \cap T
    BY DEF Closing, RootVals
  <2>2. \A p \in D \cap T, f \in Field : C[p][f] \in (D \cap T) \cup {nil}
    BY <1>0 DEF Closing
  <2>3. From(D \cap T)
    BY <2>1, <2>2 DEF Ideal!Closed, RootVals
  <2> QED BY <1>1, <2>3
<1>2. ASSUME NEW c \in Reaches(F, V) PROVE c \in S
  <2>1. Closing(D, F, V)
    BY <1>0 DEF Closing, RootVals
  <2>2. c \in D
    BY <1>2, <2>1, ReachesIsLeast
  <2>3. ASSUME NEW T \in SUBSET D, From(T) PROVE c \in T
    <3>1. \A x \in V \cap Cell : x \in T
      BY <2>3, <1>0 DEF RootVals
    <3>2. \A p \in T, f \in Field : F[p][f] \in T \cup {nil}
      BY <2>3, <1>0 DEF Ideal!Closed
    <3>3. Closing(T, F, V) /\ T \in SUBSET Cell
      BY <3>1, <3>2, <1>0 DEF Closing
    <3> QED BY <1>2, <3>3, ReachesIsLeast
  <2> QED BY <2>2, <2>3
<1>3. S = Reaches(F, V) /\ S \subseteq D
  BY <1>1, <1>2
<1>4. Ideal!Reached(R, C) = [c \in S |-> C[c]]
  BY <1>0 DEF Ideal!Reached
<1> HIDE DEF S
<1>5. [c \in S |-> C[c]] = [c \in S |-> F[c]]
  BY <1>3, <1>0
<1> QED BY <1>3, <1>4, <1>5

\* The objects the program can reach are allocated, and refer to each other.
LEMMA LiveHolds ==
  ASSUME IInv
  PROVE  /\ Live \subseteq Allocated /\ Live \subseteq Cell
         /\ \A x \in StackVals : x \in Live \cup {nil}
         /\ \A r \in Root : root[r] \in Live \cup {nil}
         /\ \A c \in Live, f \in Field : field[c][f] \in Live \cup {nil}
         /\ \A x \in Loadable : x \in Live \cup {nil}
<1>1. /\ Allocated \subseteq Cell
      /\ \A x \in StackVals \ {nil} : x \in Allocated
      /\ \A c \in Allocated, f \in Field : field[c][f] \in Allocated \cup {nil}
      /\ nil \notin Cell
  BY Values
<1>2. Live \subseteq Cell /\ ClosedUnder(Live, Cell, StackVals)
  BY ReachIsClosed DEF Live
<1>3. ClosedUnder(Allocated, Cell, StackVals)
  BY <1>1 DEF ClosedUnder
<1>4. Live \subseteq Allocated
  BY <1>1, <1>3, ReachIsLeast DEF Live
<1>5. \A x \in StackVals : x \in Live \cup {nil}
  BY <1>1, <1>2 DEF ClosedUnder
<1>6. \A r \in Root : root[r] \in Live \cup {nil}
  BY <1>5 DEF StackVals
<1>7. \A c \in Live, f \in Field : field[c][f] \in Live \cup {nil}
  BY <1>1, <1>2, <1>4 DEF ClosedUnder
<1>8. \A x \in Loadable : x \in Live \cup {nil}
  BY <1>5, <1>7 DEF Loadable, Known
<1> QED BY <1>2, <1>4, <1>5, <1>6, <1>7, <1>8

\* What the ideal program can denote is what Denoted says.
LEMMA DenotableIs ==
  ASSUME IInv
  PROVE  Ideal!Denotable = Denoted(field, root) /\ Ideal!Values = RootVals(root) \ {nil}
<1>1. \A c \in RootVals(root) \ {nil} : c \in Live
  BY LiveHolds DEF RootVals
<1>2. Ideal!Values = RootVals(root) \ {nil}
  BY DEF Ideal!Values, RootVals
<1>3. \A c \in Ideal!Values : Visible[c] = field[c]
  BY <1>1, <1>2 DEF Visible
<1>4. ASSUME NEW x PROVE x \in Ideal!Denotable <=> x \in Denoted(field, root)
  <2>1. x \in {nil} \cup Ideal!Values <=> x \in {nil} \cup RootVals(root)
    BY <1>2
  <2>2. (\E c \in Ideal!Values, f \in Field : x = Visible[c][f])
          <=> (\E c \in RootVals(root) \ {nil}, f \in Field : x = field[c][f])
    BY <1>2, <1>3
  <2> QED BY <2>1, <2>2 DEF Ideal!Denotable, Denoted
<1> QED BY <1>2, <1>4

\* Between calls, what can be loaded is what can be denoted.
LEMMA LoadableIs ==
  ASSUME pend = nil
  PROVE  Loadable = Denoted(field, root) /\ Known = RootVals(root) \ {nil}
<1>1. PendVals = {}
  BY DEF PendVals
<1>2. StackVals = RootVals(root)
  BY <1>1 DEF StackVals, RootVals
<1> QED BY <1>2 DEF Loadable, Known, Denoted

\* A step that leaves the variables and what they lead to is not seen.
LEMMA Unseen ==
  ASSUME IInv, root' = root, \A c \in Live : field'[c] = field[c],
         StackVals \subseteq StackVals', StackVals' \subseteq Live \cup {nil}
  PROVE  Visible' = Visible
<1>1. nil \notin Cell
  BY GcAssumption
<1>2. PICK V : V = StackVals'
  OBVIOUS
<1>3. PICK G : G = field'
  OBVIOUS
<1>4. Live = Reaches(field, StackVals)
  BY LiveIsReached
<1>5. Live' = Reaches(field', StackVals')
  BY DEF Live, ReachVia, ClosedUnder, Reaches, Closing
<1>6. Reaches(field, V) = Live
  BY <1>1, <1>2, <1>4, ReachesFurther
<1>7. Reaches(G, V) = Reaches(field, V)
  BY <1>3, <1>6, ReachesSame
<1>8. Live' = Live
  BY <1>2, <1>3, <1>5, <1>6, <1>7
<1> QED BY <1>8 DEF Visible

\* Nor does it change what a running constructor may hold.
LEMMA StaysHandled ==
  ASSUME IInv, Handled, root' = root, \A c \in Live : field'[c] = field[c],
         pend' = pend, pc' = "run" => pend' = nil
  PROVE  Handled'
<1>1. \A c \in RootVals(root) \ {nil} : field'[c] = field[c]
  BY LiveHolds DEF RootVals
<1>2. Denoted(field', root') = Denoted(field, root)
  BY <1>1 DEF Denoted
<1> QED BY <1>2 DEF Handled

LEMMA GcUnseen ==
  ASSUME IInv, NEW next \in {"checked", "try1"}, Gc(next), root' = root, pend' = pend
  PROVE  /\ \A c \in Live : field'[c] = field[c]
         /\ pc' # "run"
<1>1. CASE ~gc_enabled
  BY <1>1 DEF Gc
<1>2. CASE gc_enabled
  <2>1. PICK junk \in SUBSET (IF Conservative THEN Allocated ELSE {}) :
          \/ Collect(FullTurn, junk, next)
          \/ Corrupt(FullTurn, reachable \cup Marked(FullTurn, junk))
    BY <1>2 DEF Gc
  <2>2. junk \in SUBSET Allocated /\ FullTurn \in BOOLEAN
    BY <2>1 DEF FullTurn
  <2> DEFINE M == Marked(FullTurn, junk)
             K == Kept(FullTurn, M)
  <2>3. Collect(FullTurn, junk, next)
    BY <2>1, <2>2, MarkIsClean
  <2>4. /\ \A x \in StackVals \ {nil} : x \in K
        /\ \A c \in K, f \in Field : field[c][f] \in K \cup {nil}
        /\ K \subseteq Allocated
    BY <2>2, KeptIsClosed
  <2>5. K \subseteq Cell /\ nil \notin Cell
    BY <2>4, Values
  <2>6. ClosedUnder(K, Cell, StackVals)
    BY <2>4, <2>5 DEF ClosedUnder
  <2>7. Live \subseteq K
    BY <2>5, <2>6, ReachIsLeast DEF Live
  <2>8. field' = [c \in Cell |-> IF c \in SweepSet(FullTurn) \ M
                                   THEN [f \in Field |-> nil] ELSE field[c]]
    BY <2>3 DEF Collect, IInv, MarksCleared
  <2>9. \A c \in K : c \notin SweepSet(FullTurn) \ M
    BY DEF Kept
  <2>10. pc' # "run"
    BY <2>3 DEF Collect, More
  <2> QED BY <2>5, <2>7, <2>8, <2>9, <2>10
<1> QED BY <1>1, <1>2 DEF Gc

\* An allocation makes an object that the ideal heap does not have, with
\* the values that the constructor was called with.
LEMMA TakeIsNew ==
  ASSUME IInv, Handled, pend # nil, NEW c \in free_list, Take(c)
  PROVE  Ideal!New(pend.place, c, pend.vals) /\ Handled'
<1> DEFINE D == Live \cup {c}
<1>1. /\ field' = [field EXCEPT ![c] = pend.vals]
      /\ root' = [root EXCEPT ![pend.place] = c]
      /\ pc' = "run" /\ pend' = nil
  BY DEF Take, Return
<1>2. /\ field \in [Cell -> [Field -> Value]] /\ root \in [Root -> Value]
      /\ c \in Cell /\ c \notin Allocated
      /\ pend.place \in Root /\ pend.vals \in [Field -> Denoted(field, root)]
  BY DEF IInv, TypeOK, Handled, Allocated
<1>3. c \notin Live /\ D \in SUBSET Cell
  BY <1>2, LiveHolds
<1>4. \A f \in Field : pend.vals[f] \in Live \cup {nil}
  BY LiveHolds DEF PendVals, StackVals
<1>5. PICK F : F = field'
  OBVIOUS
<1>6. PICK R : R = root'
  OBVIOUS
<1>7. \A p \in Cell : F[p] = IF p = c THEN pend.vals ELSE field[p]
  BY <1>1, <1>2, <1>5
<1>8. \A r \in Root : R[r] = IF r = pend.place THEN c ELSE root[r]
  BY <1>1, <1>2, <1>6
<1>9. \A r \in Root : R[r] \in D \cup {nil}
  BY <1>8, LiveHolds
<1>10. \A p \in D, f \in Field : F[p][f] \in D \cup {nil}
  BY <1>3, <1>4, <1>7, LiveHolds
<1>11. Ideal!Reached(R, [o \in D |-> F[o]]) = [o \in Reaches(F, RootVals(R)) |-> F[o]]
  BY <1>3, <1>9, <1>10, ReachedIs
<1>12. StackVals' = RootVals(R)
  BY <1>1, <1>6 DEF StackVals, PendVals, RootVals
<1>13. Live' = Reaches(field', StackVals')
  BY DEF Live, ReachVia, ClosedUnder, Reaches, Closing
<1>14. Visible' = [o \in Reaches(F, RootVals(R)) |-> F[o]]
  BY <1>5, <1>12, <1>13 DEF Visible
<1>15. DOMAIN Visible = Live /\ \A o \in Live : Visible[o] = field[o]
  BY DEF Visible
<1>16. [o \in DOMAIN Visible \cup {c} |-> IF o = c THEN pend.vals ELSE Visible[o]]
         = [o \in D |-> F[o]]
  BY <1>3, <1>7, <1>15
<1>17. Ideal!New(pend.place, c, pend.vals)
  <2>1. Visible' = Ideal!Reached(root', [o \in DOMAIN Visible \cup {c} |->
                                           IF o = c THEN pend.vals ELSE Visible[o]])
    BY <1>6, <1>11, <1>14, <1>16
  <2> QED BY <2>1, <1>1, <1>3, <1>15 DEF Ideal!New
<1>18. Handled'
  BY <1>1 DEF Handled
<1> QED BY <1>17, <1>18

\* An assignment is the assignment of the ideal heap.
LEMMA GcSetIsStore ==
  ASSUME IInv, IInv', Handled, NEW place \in KnownPlace, NEW x \in Loadable, GcSet(place, x)
  PROVE  Ideal!Next /\ Handled'
<1>1. pc = "run" /\ pend = nil
  BY DEF GcSet, Handled
<1>2. Store(place, x) /\ UNCHANGED <<pc, pend>>
  <2>1. pc' # "gc_set"
    BY DEF IInv, FastPath
  <2> QED BY <2>1 DEF GcSet
<1>3. Handled'
  BY <1>1, <1>2 DEF Handled
<1>4. /\ field \in [Cell -> [Field -> Value]] /\ root \in [Root -> Value]
      /\ Live \subseteq Cell /\ x \in Live \cup {nil}
  BY LiveHolds DEF IInv, TypeOK
<1>5. /\ x \in Ideal!Denotable /\ Known = Ideal!Values
      /\ \A c \in Known : c \in Live
  BY <1>1, LoadableIs, DenotableIs, LiveHolds DEF Known
<1>6. PICK F : F = field'
  OBVIOUS
<1>7. PICK R : R = root'
  OBVIOUS
<1>8. StackVals' = RootVals(R)
  BY <1>1, <1>2, <1>7 DEF StackVals, PendVals, RootVals
<1>9. Live' = Reaches(field', StackVals')
  BY DEF Live, ReachVia, ClosedUnder, Reaches, Closing
<1>10. Visible' = [o \in Reaches(F, RootVals(R)) |-> F[o]]
  BY <1>6, <1>8, <1>9 DEF Visible
<1>11. ASSUME \A r \in Root : R[r] \in Live \cup {nil},
              \A p \in Live, f \in Field : F[p][f] \in Live \cup {nil}
       PROVE  Visible' = Ideal!Reached(R, [o \in Live |-> F[o]])
  BY <1>4, <1>10, <1>11, ReachedIs
<1>12. CASE place \in Root
  <2>1. root' = [root EXCEPT ![place] = x] /\ field' = field
    BY <1>2, <1>12 DEF Store
  <2>2. \A r \in Root : R[r] \in Live \cup {nil}
    BY <2>1, <1>4, <1>7, LiveHolds
  <2>3. \A p \in Live, f \in Field : F[p][f] \in Live \cup {nil}
    BY <2>1, <1>6, LiveHolds
  <2>4. [o \in Live |-> F[o]] = Visible
    BY <2>1, <1>6 DEF Visible
  <2>5. Visible' = Ideal!Reached(root', Visible)
    BY <1>7, <1>11, <2>2, <2>3, <2>4
  <2>6. Ideal!Assign(place, x)
    BY <2>1, <2>5 DEF Ideal!Assign
  <2> QED BY <1>3, <1>5, <1>12, <2>6 DEF Ideal!Next
<1>13. CASE place \notin Root
  <2>1. PICK c \in Known, f \in Field : place = <<c, f>>
    BY <1>13 DEF KnownPlace
  <2>2. root' = root /\ field' = [field EXCEPT ![c][f] = x]
    BY <1>2, <1>13, <2>1 DEF Store
  <2>3. c \in Live /\ c \in Cell
    BY <1>4, <1>5
  <2>4. F = [field EXCEPT ![c] = [field[c] EXCEPT ![f] = x]]
    BY <1>6, <2>2
  <2>5. \A p \in Cell : F[p] = IF p = c THEN [field[c] EXCEPT ![f] = x] ELSE field[p]
    BY <1>4, <2>3, <2>4
  <2>6. \A g \in Field : F[c][g] = IF g = f THEN x ELSE field[c][g]
    BY <1>4, <2>3, <2>5
  <2>7. \A r \in Root : R[r] \in Live \cup {nil}
    BY <1>7, <2>2, LiveHolds
  <2>8. \A p \in Live, g \in Field : F[p][g] \in Live \cup {nil}
    BY <1>4, <2>3, <2>5, <2>6, LiveHolds
  <2>9. [o \in Live |-> F[o]] = [Visible EXCEPT ![c][f] = x]
    <3>1. Visible[c] = field[c]
      BY <2>3 DEF Visible
    <3>2. \A o \in Live : F[o] = IF o = c THEN [Visible[c] EXCEPT ![f] = x] ELSE Visible[o]
      BY <1>4, <2>5, <3>1 DEF Visible
    <3>3. [Visible EXCEPT ![c][f] = x]
            = [o \in Live |-> IF o = c THEN [Visible[c] EXCEPT ![f] = x] ELSE Visible[o]]
      BY <2>3 DEF Visible
    <3> QED BY <3>2, <3>3
  <2>10. Visible' = Ideal!Reached(root, [Visible EXCEPT ![c][f] = x])
    BY <1>7, <1>11, <2>2, <2>7, <2>8, <2>9
  <2>11. Ideal!Set(c, f, x)
    BY <2>2, <2>10 DEF Ideal!Set
  <2> QED BY <1>3, <1>5, <2>1, <2>11 DEF Ideal!Next
<1> QED BY <1>12, <1>13

LEMMA StepIsIdeal ==
  ASSUME IInv, IInv', Handled, [Next]_vars
  PROVE  [Ideal!Next]_<<root, Visible>> /\ Handled'
<1>0. pc \in Steps \ {"run"} => pend # nil
  BY DEF IInv, TypeOK
\* make_obj looks for room, and comes back to its caller later.
<1>1. ASSUME UNCHANGED <<root, pend>>, \A c \in Live : field'[c] = field[c],
             pc' = "run" => pend' = nil
      PROVE  UNCHANGED <<root, Visible>> /\ Handled'
  <2>1. StackVals' = StackVals /\ StackVals \subseteq Live \cup {nil}
    BY <1>1, LiveHolds DEF StackVals, PendVals
  <2> QED BY <1>1, <2>1, Unseen, StaysHandled
<1>2. ASSUME NEW next \in {"checked", "try1"}, Gc(next), UNCHANGED <<root, pend>>
      PROVE  UNCHANGED <<root, Visible>> /\ Handled'
  BY <1>1, <1>2, GcUnseen
<1>3. ASSUME UNCHANGED <<root, pend, field>>, pc' # "run" \/ pc' = pc
      PROVE  UNCHANGED <<root, Visible>> /\ Handled'
  BY <1>1, <1>3 DEF Handled
<1>4. ASSUME NEW r \in Root, NEW vals \in [Field -> Loadable], Construct(r, vals)
      PROVE  UNCHANGED <<root, Visible>> /\ Handled'
  <2>1. /\ pc = "run" /\ pend = nil
        /\ pc' = "make_obj" /\ pend' = [place |-> r, vals |-> vals]
        /\ UNCHANGED <<root, field>>
    BY <1>4 DEF Construct, Handled
  <2>2. vals \in [Field -> Denoted(field, root)]
    BY <2>1, LoadableIs
  <2>3. Handled'
    BY <2>1, <2>2 DEF Handled
  <2>4. \A f \in Field : vals[f] \in Live \cup {nil}
    BY LiveHolds
  <2>5. PendVals = {} /\ PendVals' \subseteq Live \cup {nil}
    BY <2>1, <2>4 DEF PendVals
  <2>6. StackVals \subseteq StackVals' /\ StackVals' \subseteq Live \cup {nil}
    BY <2>1, <2>5, LiveHolds DEF StackVals
  <2>7. Visible' = Visible
    BY <2>1, <2>6, Unseen
  <2> QED BY <2>1, <2>3, <2>7
<1>5. CASE MakeObjEntry
  <2>1. CASE Gc("checked")
    BY <1>2, <1>5, <2>1 DEF MakeObjEntry
  <2>2. CASE pc' = "try0" /\ UNCHANGED <<field, gcvars>>
    BY <1>3, <1>5, <2>2 DEF MakeObjEntry
  <2> QED BY <1>5, <2>1, <2>2 DEF MakeObjEntry
<1>6. CASE MakeObjAssert
  BY <1>3, <1>6 DEF MakeObjAssert
<1>7. CASE MakeObjTry
  <2>1. pend # nil
    BY <1>0, <1>7 DEF MakeObjTry, Steps
  <2>2. ASSUME NEW c \in free_list, Take(c) PROVE Ideal!Next /\ Handled'
    <3>1. Ideal!New(pend.place, c, pend.vals) /\ Handled'
      BY <2>1, <2>2, TakeIsNew
    <3>2. pend.place \in Root /\ pend.vals \in [Field -> Ideal!Denotable] /\ c \in Cell
      BY <2>1, DenotableIs DEF Handled, IInv, TypeOK
    <3> QED BY <3>1, <3>2 DEF Ideal!Next
  <2>3. CASE Gc("try1") /\ UNCHANGED <<pend, root>>
    BY <1>2, <2>3
  <2>4. CASE More({}, "try2") /\ UNCHANGED <<pend, root, field>>
    <3>1. pc' # "run"
      BY <2>4 DEF More
    <3> QED BY <1>3, <2>4, <3>1
  <2> QED BY <1>7, <2>2, <2>3, <2>4 DEF MakeObjTry
<1>8. ASSUME NEW place \in KnownPlace, NEW x \in Loadable, GcSet(place, x)
      PROVE  Ideal!Next /\ Handled'
  BY <1>8, GcSetIsStore
<1>9. ASSUME NEW enabled \in BOOLEAN, GcState(enabled)
      PROVE  UNCHANGED <<root, Visible>> /\ Handled'
  BY <1>3, <1>9 DEF GcState
<1>10. CASE UNCHANGED vars
  BY <1>3, <1>10 DEF vars
<1> QED BY <1>4, <1>5, <1>6, <1>7, <1>8, <1>9, <1>10 DEF Next, Halted

\* Collection is invisible: whatever the program does, with the heap of
\* gc.c it sees what it would see with memory without end.
THEOREM HeapImplementsIdeal == Spec => ImplementsIdealHeap
<1>1. Init => Handled /\ Ideal!Init
  <2> SUFFICES ASSUME Init PROVE Handled /\ Ideal!Init
    OBVIOUS
  <2>1. pc = "run" /\ pend = nil /\ root = [r \in Root |-> nil]
    BY DEF Init
  <2>2. Handled
    BY <2>1 DEF Handled
  <2>3. ClosedUnder({}, Cell, StackVals)
    BY <2>1, GcAssumption DEF ClosedUnder, StackVals, PendVals
  <2>4. Live = {}
    BY <2>3, ReachIsLeast DEF Live
  <2>5. Visible = [c \in {} |-> nil]
    BY <2>4 DEF Visible
  <2> QED BY <2>1, <2>2, <2>5 DEF Ideal!Init
<1>2. IInv /\ IInv' /\ Handled /\ [Next]_vars => Handled' /\ [Ideal!Next]_(Ideal!vars)
  BY StepIsIdeal DEF Ideal!vars
<1> QED BY <1>1, <1>2, Invariance, PTL DEF Spec, ImplementsIdealHeap, Ideal!Spec
=============================================================================
