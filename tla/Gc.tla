--------------------------------- MODULE Gc ---------------------------------
(***************************************************************************)
(* The garbage-collected object heap of gc.c, as it is built with          *)
(* CONFIG_GEN_GC: mark and sweep, with two generations.  The default       *)
(* (non-generational) build is the instance in which every collection is   *)
(* full (FULL_GC_INTERVAL = 1) and the two vectors never fill.             *)
(*                                                                         *)
(* A cell is one obj_t of a heap block.  What tells the object types apart *)
(* (CONS, VEC, ENV, ...) does not matter to the collector beyond the       *)
(* values each holds, so a cell has a value in every Field.  The program   *)
(* runs on one thread; a call of make_obj or gc_set that has to collect is *)
(* split into the steps of that function, named by pc.                     *)
(***************************************************************************)
EXTENDS Integers, Sequences, FiniteSets, Functions

CONSTANTS
  Cell,               \* the obj_t cells that malloc can ever provide
  nil,                \* any value that is not a heap pointer (nil, fixnum, ...)
  Field,              \* the val-typed members of an object
  Root,               \* the places gc scans: registered globals and the stack
  Prot,               \* those of them that prot1() registered
  HEAP_SIZE,          \* cells added by one call of more()
  FRESHOBJ_VEC_SIZE,
  CHECKOBJ_VEC_SIZE,
  FULL_GC_INTERVAL,
  opt_gc_debug,       \* --gc-debug: collect at every allocation
  Conservative        \* may the scanned stack hold stale words?

Value == Cell \cup {nil}

\* What a C lvalue of type val can be: a variable, or a member of an object.
Place == Root \cup (Cell \X Field)

ASSUME GcAssumption ==
  /\ nil \notin Cell
  /\ nil \notin [place : Place, vals : [Field -> Value]]
  /\ Prot \subseteq Root
  /\ Root \cap (Cell \X Field) = {}
  /\ Root # {} /\ Field # {}
  /\ HEAP_SIZE \in Nat \ {0}
  /\ FULL_GC_INTERVAL \in Nat \ {0}
  /\ FRESHOBJ_VEC_SIZE \in Nat \ {0}
  /\ CHECKOBJ_VEC_SIZE \in Nat
  /\ CHECKOBJ_VEC_SIZE >= FRESHOBJ_VEC_SIZE
  /\ opt_gc_debug \in BOOLEAN
  /\ Conservative \in BOOLEAN

VARIABLES
  pc,          \* "run" between calls, else the step the running call is at
  pend,        \* the arguments the running call holds on the stack
  root,        \* contents of the scanned variables
  field,       \* contents of the objects
  heap,        \* cells of the heap blocks allocated so far (heap_list)
  free_list,   \* cells whose type has the FREE flag
  reachable,   \* cells whose type has the REACHABLE flag
  gen,         \* generation of each cell: -1, 0 or 1
  freshobj,    \* freshobj[0 .. freshobj_idx - 1]
  checkobj,    \* checkobj[0 .. checkobj_idx - 1]
  gc_counter,
  gc_enabled

vars == <<pc, pend, root, field, heap, free_list, reachable, gen, freshobj,
          checkobj, gc_counter, gc_enabled>>

gcvars == <<heap, free_list, reachable, gen, freshobj, checkobj, gc_counter>>

Stopped == {"abort", "assert", "oom", "overrun"}
Steps == {"run", "make_obj", "checked", "try0", "try1", "try2", "gc_set", "record",
          "gc_mutated", "mutated"}

TypeOK ==
  /\ pc \in Steps \cup Stopped
  /\ pend \in [place : Place, vals : [Field -> Value]] \cup {nil}
  /\ pc \in Steps \ {"run"} => pend # nil
  /\ root \in [Root -> Value]
  /\ field \in [Cell -> [Field -> Value]]
  /\ heap \subseteq Cell
  /\ free_list \subseteq heap
  /\ reachable \subseteq Cell
  /\ gen \in [Cell -> -1 .. 1]
  /\ freshobj \in Seq(Cell)
  /\ checkobj \in Seq(Cell)
  /\ gc_counter \in 0 .. FULL_GC_INTERVAL - 1
  /\ gc_enabled \in BOOLEAN

Init ==
  /\ pc = "run" /\ pend = nil
  /\ root = [r \in Root |-> nil]
  /\ field = [c \in Cell |-> [f \in Field |-> nil]]
  /\ heap = {} /\ free_list = {} /\ reachable = {}
  /\ gen = [c \in Cell |-> 0]
  /\ freshobj = <<>> /\ checkobj = <<>>
  /\ gc_counter = 0 /\ gc_enabled = TRUE

-----------------------------------------------------------------------------
(***************************************************************************)
(* The mutator's view: which objects it can get hold of.                   *)
(***************************************************************************)
Allocated == heap \ free_list

PendVals == IF pend = nil THEN {} ELSE {pend.vals[f] : f \in Field}

StackVals == {root[r] : r \in Root} \cup PendVals

\* The cells a traversal from a set of values visits, through the cells
\* that satisfy enter: the least set closed under following fields.
ClosedUnder(S, enter, from) ==
  \A c \in enter : (c \in from \/ \E p \in S, f \in Field : field[p][f] = c)
                     => c \in S

ReachVia(enter, from) ==
  {c \in enter : \A S \in SUBSET enter : ClosedUnder(S, enter, from) => c \in S}

Live == ReachVia(Cell, StackVals)

-----------------------------------------------------------------------------
(***************************************************************************)
(* The collector.                                                          *)
(***************************************************************************)

\* The cells mark_obj does not return from at once: in a generational
\* collection it stops at a mature object, and always at a marked one.
Enter(full) == {c \in Cell : (full \/ gen[c] <= 0) /\ c \notin reachable}

\* Slip: a generational collection that forgets checkobj.
MarkFromNoCheckobj(full, junk) ==
  {root[r] : r \in Prot} \cup ((junk \cup StackVals) \cap Allocated)

\* Where mark() starts.  Registered variables and checkobj go to mark_obj
\* as they are; a stack word counts only if it points at a used cell.
MarkFrom(full, junk) ==
  {root[r] : r \in Prot}
    \cup (IF full THEN {} ELSE Range(checkobj))
    \cup ((junk \cup StackVals) \cap Allocated)

Marked(full, junk) == ReachVia(Enter(full), MarkFrom(full, junk))

\* Slip: a generational collection sweeps every block.
SweepSetAll(full) == heap
\* Slip: every collection sweeps freshobj alone.
SweepSetFresh(full) == Range(freshobj)

\* The cells sweep() looks at.
SweepSet(full) == IF full THEN heap ELSE Range(freshobj)

\* abort() in mark_obj (a free object is reached) and in sweep_one.
Corrupt(full, mark) ==
  \/ (mark \ reachable) \cap free_list # {}
  \/ ~full /\ \E c \in SweepSet(full) : gen[c] > 0
  \/ SweepSet(full) \cap mark \cap free_list # {}

Chunks == {S \in SUBSET (Cell \ heap) : Cardinality(S) = HEAP_SIZE}

\* more(), with freed being the free cells at the call.  When malloc has no
\* memory left the out-of-memory handler ends the process.
More(freed, next) ==
  \/ \E new \in Chunks :
       /\ heap' = heap \cup new
       /\ free_list' = freed \cup new
       /\ pc' = next
  \/ /\ Chunks = {}
     /\ heap' = heap /\ free_list' = freed
     /\ pc' = "oom"

\* The end of gc(): is the heap extended after a sweep that left swept
\* cells of the sweep set free?
WantMore(full, swept) ==
  \/ full /\ swept < (3 * HEAP_SIZE) \div 4
  \/ ~full /\ swept < HEAP_SIZE \div 4 /\ free_list = {}

\* The marks left after sweep(): sweep_one clears those it meets.
Unmark(mark, full) == mark \ SweepSet(full)

Collect(full, junk, next) ==
  LET mark == reachable \cup Marked(full, junk)
      dead == SweepSet(full) \ mark
  IN  /\ ~Corrupt(full, mark)
      /\ reachable' = Unmark(mark, full)
      /\ gen' = [c \in Cell |-> IF c \in SweepSet(full) \cap mark THEN 1 ELSE gen[c]]
      /\ field' = [c \in Cell |-> IF c \in dead THEN [f \in Field |-> nil] ELSE field[c]]
      /\ \/ /\ WantMore(full, Cardinality(dead))
            /\ More(free_list \cup dead, next)
         \/ /\ ~WantMore(full, Cardinality(dead))
            /\ heap' = heap /\ free_list' = free_list \cup dead
            /\ pc' = next
      /\ checkobj' = <<>> /\ freshobj' = <<>>

\* Slip: the counter is compared before it is incremented.
FullTurnLate == gc_counter >= FULL_GC_INTERVAL

\* Is it the turn of a full collection?
FullTurn == gc_counter + 1 >= FULL_GC_INTERVAL

\* gc(): the call returns to the step next of the caller.
Gc(next) ==
  \/ /\ ~gc_enabled
     /\ pc' = next
     /\ UNCHANGED <<field, gcvars>>
  \/ /\ gc_enabled
     /\ gc_counter' = IF FullTurn THEN 0 ELSE gc_counter + 1
     /\ \E junk \in SUBSET (IF Conservative THEN Allocated ELSE {}) :
          \/ Collect(FullTurn, junk, next)
          \/ /\ Corrupt(FullTurn, reachable \cup Marked(FullTurn, junk))
             /\ pc' = "abort"
             /\ UNCHANGED <<field, heap, free_list, reachable, gen,
                            freshobj, checkobj>>

-----------------------------------------------------------------------------
(***************************************************************************)
(* The allocator: make_obj, and the constructors that fill in the object   *)
(* it returns (cons, vector, make_env, cobj, ...).                         *)
(***************************************************************************)

\* Values the program has at hand: nil, its variables, and what it can load
\* from an object a variable points at.
Known == StackVals \ {nil}
Loadable == {nil} \cup StackVals \cup {field[c][f] : c \in Known, f \in Field}

Store(place, x) ==
  \/ /\ place \in Root
     /\ root' = [root EXCEPT ![place] = x]
     /\ field' = field
  \/ /\ place \notin Root
     /\ field' = [field EXCEPT ![place[1]][place[2]] = x]
     /\ root' = root

Return == pc' = "run" /\ pend' = nil

\* A constructor is called with vals, its result to be assigned to r.
Construct(r, vals) ==
  /\ pc = "run"
  /\ pc' = "make_obj"
  /\ pend' = [place |-> r, vals |-> vals]
  /\ UNCHANGED <<root, field, gcvars, gc_enabled>>

FreshobjFull == Len(freshobj) >= FRESHOBJ_VEC_SIZE

MakeObjEntry ==
  /\ pc = "make_obj"
  /\ \/ /\ opt_gc_debug \/ FreshobjFull
        /\ Gc("checked")
     \/ /\ ~opt_gc_debug /\ ~FreshobjFull
        /\ pc' = "try0"
        /\ UNCHANGED <<field, gcvars>>
  /\ UNCHANGED <<pend, root, gc_enabled>>

\* assert (freshobj_idx < FRESHOBJ_VEC_SIZE)
MakeObjAssert ==
  /\ pc = "checked"
  /\ pc' = IF FreshobjFull THEN "assert" ELSE "try0"
  /\ UNCHANGED <<pend, root, field, gcvars, gc_enabled>>

\* Slip: a recycled object keeps its generation.
TakeOldGen(c) ==
  /\ free_list' = free_list \ {c}
  /\ freshobj' = Append(freshobj, c)
  /\ field' = [field EXCEPT ![c] = pend.vals]
  /\ root' = [root EXCEPT ![pend.place] = c]
  /\ Return
  /\ UNCHANGED <<heap, reachable, gen, checkobj, gc_counter>>

\* The object comes off the free list, is entered in freshobj, and the
\* constructor initialises it and returns it.
Take(c) ==
  /\ free_list' = free_list \ {c}
  /\ gen' = [gen EXCEPT ![c] = 0]
  /\ freshobj' = Append(freshobj, c)
  /\ field' = [field EXCEPT ![c] = pend.vals]
  /\ root' = [root EXCEPT ![pend.place] = c]
  /\ Return
  /\ UNCHANGED <<heap, reachable, checkobj, gc_counter>>

\* Slip: the second try starts the loop over instead of extending the heap.
MakeObjTryAgain ==
  /\ pc \in {"try0", "try1", "try2"}
  /\ \/ \E c \in free_list : Take(c)
     \/ /\ free_list = {} /\ pc = "try0"
        /\ Gc("try1")
        /\ UNCHANGED <<pend, root>>
     \/ /\ free_list = {} /\ pc = "try1"
        /\ pc' = "try0"
        /\ UNCHANGED <<pend, root, field, gcvars>>
  /\ UNCHANGED gc_enabled

\* Up to three tries: take a free cell; collect; extend the heap.
MakeObjTry ==
  /\ pc \in {"try0", "try1", "try2"}
  /\ \/ \E c \in free_list : Take(c)
     \/ /\ free_list = {} /\ pc = "try0"
        /\ Gc("try1")
        /\ UNCHANGED <<pend, root>>
     \/ /\ free_list = {} /\ pc = "try1"
        /\ More({}, "try2")
        /\ UNCHANGED <<pend, root, field, reachable, gen, freshobj, checkobj, gc_counter>>
  /\ UNCHANGED gc_enabled

-----------------------------------------------------------------------------
(***************************************************************************)
(* The write barrier: set(place, x), which is gc_set(&place, x).           *)
(***************************************************************************)

\* Slip: the range misses some of the memory objects live in.
InMallocRangeNarrow(place) == BOOLEAN

\* in_malloc_range(): every object member is in it; since the low bound is
\* never raised from 0, a static variable may be in it too.
InMallocRange(place) == IF place \in Root THEN BOOLEAN ELSE {TRUE}

\* Slip: an object on record is recorded again.
RecordsAgain(in, x) == in /\ x \in Cell /\ gen[x] <= 0

\* Must the assignment of x be entered in checkobj?
Records(in, x) == in /\ x \in Cell /\ gen[x] = 0

GcSet(place, x) ==
  /\ pc = "run"
  /\ \E in \in InMallocRange(place) :
       LET record == Records(in, x)
       IN  \/ /\ ~record
              /\ Store(place, x)
              /\ UNCHANGED <<pc, pend, gen, checkobj>>
           \/ /\ record /\ Len(checkobj) < CHECKOBJ_VEC_SIZE
              /\ gen' = [gen EXCEPT ![x] = -1]
              /\ checkobj' = Append(checkobj, x)
              /\ Store(place, x)
              /\ UNCHANGED <<pc, pend>>
           \/ /\ record /\ Len(checkobj) >= CHECKOBJ_VEC_SIZE
              /\ pc' = "gc_set"
              /\ pend' = [place |-> place, vals |-> [f \in Field |-> x]]
              /\ UNCHANGED <<root, field, gen, checkobj>>
  /\ UNCHANGED <<heap, free_list, reachable, freshobj, gc_counter, gc_enabled>>

\* gc_state(): initialization and the parser runs with collection disabled.
GcState(enabled) ==
  /\ pc = "run"
  /\ gc_enabled' = enabled
  /\ UNCHANGED <<pc, pend, root, field, gcvars>>

\* The process has ended.
Halted == pc \in Stopped /\ UNCHANGED vars

-----------------------------------------------------------------------------
KnownPlace == Root \cup (Known \X Field)

\* The program allocates objects, and assigns to members with set().  (The
\* callers of gc_mutated, and the functions that store without a barrier,
\* are in module GcMutators, and so is the rest of a gc_set that finds checkobj
\* full: this program never gets that far, see BarrierNeverCollects.)
Next ==
  \/ \E r \in Root, vals \in [Field -> Loadable] : Construct(r, vals)
  \/ MakeObjEntry \/ MakeObjAssert \/ MakeObjTry
  \/ \E place \in KnownPlace, x \in Loadable : GcSet(place, x)
  \/ \E enabled \in BOOLEAN : GcState(enabled)
  \/ Halted

Spec == Init /\ [][Next]_vars

-----------------------------------------------------------------------------
(***************************************************************************)
(* What makes the collector correct.                                       *)
(***************************************************************************)

\* No object is reclaimed while it can still be used: what a variable, a
\* running call or an object that is not free refers to is not free.
NoDangling ==
  /\ StackVals \ {nil} \subseteq Allocated
  /\ \A c \in Allocated, f \in Field : field[c][f] \in Allocated \cup {nil}

\* The consistency checks of mark_obj and sweep_one never fire.
NoAbort == pc # "abort"

\* Every pointer from a mature object back to a baby is on record in
\* checkobj, so that a generational collection can start from it.
Remembered ==
  \A c \in Allocated, f \in Field :
     LET x == field[c][f]
     IN  gen[c] = 1 /\ x \in Cell /\ gen[x] <= 0 => x \in Range(checkobj)

\* freshobj lists exactly the babies, each once: sweeping it is enough.
BabiesAreFresh ==
  /\ \A c \in Cell : (c \in Allocated /\ gen[c] <= 0) <=> c \in Range(freshobj)
  /\ IsInjective(freshobj)

\* A write barrier never has to collect, and checkobj is never overrun, not
\* even with collection disabled: checkobj holds babies only, each once.
BarrierNeverCollects ==
  /\ pc \notin {"gc_set", "record", "gc_mutated", "mutated", "overrun"}
  /\ Len(checkobj) <= Len(freshobj)
  /\ Range(checkobj) \subseteq Range(freshobj)

\* A mark bit left over from one collection would hide its object's
\* references from the next one.
MarksCleared == reachable = {}

\* What a collection, of either kind, has to find: a list of all the babies,
\* and no marks.
BetweenCollections == BabiesAreFresh /\ MarksCleared

\* A full collection that meets no stale words on the stack reclaims
\* everything the program cannot reach.
FullCollection == gc_counter' # gc_counter /\ gc_counter' = 0
FullIsComplete ==
  [][FullCollection /\ ~Conservative /\ pc' # "abort" => Allocated' \subseteq Live]_vars

\* An allocation always comes to an end: its tries do not go round.
FairSpec == Spec /\ WF_vars(MakeObjEntry \/ MakeObjAssert \/ MakeObjTry)
AllocationEnds == pc = "make_obj" ~> pc \in {"run"} \cup Stopped

\* What the program sees of the heap: its variables, and the contents of
\* the objects it can reach.  The collector's own steps do not show.
Visible == [c \in Live |-> field[c]]

Ideal == INSTANCE IdealHeap WITH obj <- Visible

\* Collection is invisible to the program: no object it can reach is lost,
\* changed or handed out a second time.
ImplementsIdealHeap == Ideal!Spec
=============================================================================
