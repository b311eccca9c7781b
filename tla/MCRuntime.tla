----------------------------- MODULE MCRuntime -----------------------------
\* Three parts of the run-time system, of which a behavior is about one: the
\* frames of unwind.c, with two tags and two exceptions; the types of exceptions,
\* with a chain of three built-in ones and two of the user's; and the free list
\* of the heap, with two blocks of three cells.
EXTENDS Unwind, TLC

CONSTANTS b1, b2, e1, e2,
          Type, t, Builtin, MaxChain, error, query_error, a1, a2,
          Blocks, HEAP_SIZE, MaxDead, b11, b12, b13, b21, b22, b23

VARIABLES part, exception_subtypes, outcome, list, free, blocks, opt_gc_debug

MCBuiltin == <<<<query_error, error>>>>
UnwindSymmetry == Permutations({b1, b2}) \cup Permutations({e1, e2})

Types == INSTANCE Subtypes

MCBlocks == << <<b11, b12, b13>>, <<b21, b22, b23>> >>
Heap == INSTANCE FreeList
ASSUME HeapAssumption == Heap!BlocksAreDisjoint
ASSUME TypesAssumption == Types!BuiltinsAreRanked

types == <<exception_subtypes, outcome>>
heap == <<list, free, blocks, opt_gc_debug>>
NoHeap == list = nil /\ free = nil /\ blocks = nil /\ opt_gc_debug = nil

RuntimeInit ==
  /\ Init /\ Types!Init
  /\ \/ part \in {"frames", "types"} /\ NoHeap
     \/ part = "heap" /\ Heap!Init
RuntimeNext ==
  \/ part = "frames" /\ Next /\ UNCHANGED <<part, types, heap>>
  \/ part = "types" /\ Types!Next /\ UNCHANGED <<part, vars, heap>>
  \/ part = "heap" /\ Heap!Next /\ UNCHANGED <<part, vars, types>>
RuntimeSpec == RuntimeInit /\ [][RuntimeNext]_<<part, vars, types, heap>>

\* The properties of Subtypes: every search through the types ends, and they form
\* a partial order.
PartialOrder == part = "types" => Types!PartialOrder
\* A @(defex) relates the types that it names, and parts only those it moves.
DefexRelates == [][part = "types" => Types!Relates]_<<part, types>>
\* Those of FreeList: no cell in use is on the list, and none that is free is
\* missing, unless debugging.
ListIsFree == part = "heap" => Heap!ListIsFree
=============================================================================
