------------------------------ MODULE FreeList ------------------------------
(***************************************************************************)
(* The free list of gc.c as the linked list it is: free_list, the t.next   *)
(* member of each free cell, and free_tail, the address of the link to be  *)
(* overwritten when --gc-debug appends to the list instead of pushing.     *)
(* Gc takes the list for the set of the cells flagged FREE, as ListIsFree  *)
(* allows.  What an object in use keeps in the memory of t.next is not     *)
(* modelled: the link stays as it was.                                     *)
(***************************************************************************)
EXTENDS Integers, Sequences, FiniteSets, FiniteSetsExt, SequencesExt

CONSTANTS
  Blocks,         \* the heap blocks malloc will provide, each a sequence of cells
  HEAP_SIZE,      \* cells of a block
  MaxDead,        \* bound: objects one collection finds dead
  nil

BlockCells(i) == {Blocks[i][k] : k \in 1 .. HEAP_SIZE}
Cell == UNION {BlockCells(i) : i \in 1 .. Len(Blocks)}

\* The address of the variable free_list itself.
FreeListVar == "&free_list"

\* The blocks are made of HEAP_SIZE cells each and share none.
BlocksAreDisjoint ==
  /\ HEAP_SIZE \in Nat \ {0}
  /\ Blocks \in Seq(Seq(Cell))
  /\ \A i \in 1 .. Len(Blocks) : Len(Blocks[i]) = HEAP_SIZE /\ IsInjective(Blocks[i])
  /\ \A i, j \in 1 .. Len(Blocks) : i # j => BlockCells(i) \cap BlockCells(j) = {}
  /\ IsFiniteSet(Cell) /\ nil \notin Cell /\ FreeListVar \notin Cell \cup {nil}

VARIABLES
  list,     \* head: free_list; tail: free_tail, which is FreeListVar or the
            \* cell whose t.next it points at; next: t.next of every cell
  free,     \* cells with the FREE flag
  blocks,   \* number of blocks in heap_list
  opt_gc_debug    \* --gc-debug: recycle cells first in, first out

vars == <<list, free, blocks, opt_gc_debug>>

Heap == UNION {BlockCells(i) : i \in 1 .. blocks}

Init ==
  /\ list = [head |-> nil, tail |-> FreeListVar, next |-> [c \in Cell |-> nil]]
  /\ free = {} /\ blocks = 0
  /\ opt_gc_debug \in BOOLEAN

-----------------------------------------------------------------------------
\* block->t.next = free_list; free_list = block;
Push(l, c) == [l EXCEPT !.next[c] = l.head, !.head = c]

\* *free_tail = block; block->t.next = nil; free_tail = &block->t.next;
AppendTail(l, c) ==
  IF l.tail = FreeListVar
    THEN [l EXCEPT !.head = c, !.next[c] = nil, !.tail = c]
    ELSE [l EXCEPT !.next[l.tail] = c, !.next[c] = nil, !.tail = c]

\* What sweep_one() does with a dead object.
Release(l, c) == IF opt_gc_debug THEN AppendTail(l, c) ELSE Push(l, c)

\* The list after each of the cells in turn is added to it.
Each(Add(_, _), l, cells) ==
  LET after[k \in 0 .. Len(cells)] ==
        IF k = 0 THEN l ELSE Add(after[k - 1], cells[k])
  IN  after[Len(cells)]

\* Slip: the first of the new cells does not link to the old list.
MoreCut(l) ==
  LET new == Blocks[blocks + 1]
  IN  [Each(Push, [l EXCEPT !.head = nil], new) EXCEPT !.tail = new[1]]

\* more(): the cells of the new block are pushed, first to last.
More(l) ==
  LET new == Blocks[blocks + 1]
  IN  [Each(Push, l, new) EXCEPT !.tail = new[1]]

Extend(l, freed) ==
  /\ blocks < Len(Blocks)     \* else the process ends: out of memory
  /\ list' = More(l)
  /\ free' = freed \cup BlockCells(blocks + 1)
  /\ blocks' = blocks + 1

\* make_obj() takes the first free cell, and its caller sets the type.
Take ==
  /\ list.head # nil
  /\ list' = [list EXCEPT !.head = list.next[list.head]]
  /\ free' = free \ {list.head}
  /\ UNCHANGED blocks

\* make_obj() extends an exhausted heap.
MakeObjMore == list.head = nil /\ Extend(list, free)

\* sweep() of the dead objects, in the order it comes across them.
Sweep(dead) ==
  LET l == IF list.head = nil THEN [list EXCEPT !.tail = FreeListVar] ELSE list
  IN  Each(Release, l, dead)

\* Does gc() extend the heap?  A full sweep counts the cells that are free
\* already along with the dead ones.
WantMore(full, dead) ==
  \/ full /\ Cardinality(free) + Len(dead) < (3 * HEAP_SIZE) \div 4
  \/ ~full /\ Len(dead) < HEAP_SIZE \div 4 /\ list.head = nil

\* gc(), when it finds the objects in dead unmarked.
Gc(full, dead) ==
  LET freed == free \cup Range(dead)
  IN  \/ WantMore(full, dead) /\ Extend(Sweep(dead), freed)
      \/ /\ ~WantMore(full, dead)
         /\ list' = Sweep(dead) /\ free' = freed
         /\ UNCHANGED blocks

Next ==
  /\ UNCHANGED opt_gc_debug
  /\ \/ Take \/ MakeObjMore
     \/ \E full \in BOOLEAN, n \in 0 .. MaxDead : \E some \in kSubset(n, Heap \ free) :
          \E dead \in SetToSeqs(some) : Gc(full, dead)

Spec == Init /\ [][Next]_vars

-----------------------------------------------------------------------------
\* The cell n links down the list, nil past its end.
Walk[n \in 0 .. Cardinality(Cell)] ==
  LET next == [c \in Cell \cup {nil} |-> IF c = nil THEN nil ELSE list.next[c]]
  IN  IF n = 0 THEN list.head ELSE next[Walk[n - 1]]

Listed == {Walk[n] : n \in 0 .. Cardinality(Cell)} \ {nil}

\* Nothing in use is on the list, and the list ends: make_obj never hands
\* out an object that is in use, nor the same cell twice. And, as long as recycled
\* cells are pushed, all cells flagged FREE are on it, where make_obj finds them.
ListIsFree ==
  /\ Listed \subseteq free
  /\ Walk[Cardinality(Listed)] = nil
  /\ ~opt_gc_debug => free \subseteq Listed
=============================================================================
