# TLA+ models of TXR

TXR (`src/`) is a text-extraction language with an embedded Lisp dialect, written in C. A *query*, made
of lines of text, variables and directives, is matched against the lines of its data sources; what it
binds is printed, or processed further in Lisp. This directory holds TLA+ modules that model the
run-time system and the matching of queries, configurations with which TLC checks them on small
instances, and proofs that TLAPS checks for every instance.

The program is a single process with a single thread. What makes it hard is not parallelism but that
almost everything can be interrupted by something else of the program: an allocation by a garbage
collection, which scans the C stack conservatively and knows two generations; a directive by a transfer
of control (`setjmp`/`longjmp`) out of any depth of others; an iteration by changes to what it iterates
over; the registration of a chain of types by an exception half-way; and the matching of one directive
by any other inside of it, each of which moves the position and adds bindings in its own way.

    tlc -config gc_gen.cfg MCGc          # any of the runs below
    tlapm GcProofs.tla                   # the proofs

## 1. The system

| component | source | state it keeps | operations | modelled in |
|---|---|---|---|---|
| object heap and collector | gc.c | heap blocks, `free_list`, mark bits, generations, `freshobj`, `checkobj`, `gc_counter`, `gc_enabled` | `make_obj`, `gc_set`, `gc_mutated`, `gc`, `gc_state` | Gc, GcMutators, FreeList, IdealHeap; GcProofs, FreeListProofs |
| hash tables | hash.c | vector of chains, `count`, `modulus`; list of weak tables; cache of `equal_hash` | `gethash`, `sethash`, `remhash`, `hash_grow`, `hash_begin`/`hash_next`, marking and clearing of weak tables | HashTable, HashMap, WeakHash, HashCache; LibraryProofs, WeakHashProofs |
| unwinding | unwind.c, unwind.h | `uw_stack`, `uw_env_stack`, `uw_exit_point`, the frames on the C stack; `exception_subtypes` | blocks, catches, environments, `uw_block_return`, `uw_throw`, `uw_continue`, `uw_register_subtype` | Unwind, Trailer, Subtypes; RuntimeProofs, SubtypesProofs |
| vertical matching | match.c | per call of `match_files`: query, bindings, data, line number, sources | one function per directive | Match, Bindings with Scopes and Trees, Trailer, Subtypes (`@(defex)`) |
| horizontal matching | match.c | position in a line, bindings | the `h_` functions | - |
| output | match.c | the lists that `@(repeat)` walks over | `do_output` | - |
| Lisp evaluator | eval.c | environments, dynamic bindings | special forms, functions | - |
| library | lib.c | objects | lists, strings, vectors, symbols, lazy lists and strings | Lists, SeqSpec, IdealLists (lists, lazy ones too) |
| regular expressions | regex.c | NFA states, visited stamps, trees of character sets | compile, derivative, match, search, `regsub` | Regex, CharSet, CharClasses; TextProofs |
| filters | filter.c | tries | build, compress, apply | - |
| streams | stream.c | buffers, `FILE *`, unread characters | get and put, open and close | Streams |
| UTF-8 | utf8.c | state and ring of 8 bytes of the stream decoder | encode, decode | Utf8 |
| arithmetic, random numbers | arith.c, rand.c | - ; 16 words and an index | arithmetic on fixnums and bignums; `random` | Arith; LibraryProofs |
| debugger | debug.c | `step_mode`, `next_depth`, breakpoints | commands; frames on the stack | frames only, in Unwind |
| parser, driver | parser.y, parser.l, txr.c | - | - | - |

How they interact:

* Everything allocates through `make_obj`, and every store into an object has to go through `set()`,
  that is `gc_set`, for the collector to learn of references from old objects to new ones. Marking calls
  `hash_mark`, and the collector calls `hash_process_weak` between marking and sweeping.
* The matcher and the evaluator leave by `uw_block_return` and `uw_throw`. They keep state in C locals
  around `setjmp`, and the collector finds it by scanning the stack.
* The matcher binds values by `dest_bind` on association lists; a query function or a filter is matched
  by a new call of `match_files`; hash tables look up directives and functions.

What is correct, component by component:

* *Heap.* Nothing that can still be used is reclaimed; the consistency checks that end the process never
  fire; the barrier records all it has to and never has to collect in the middle of an assignment;
  full collections reclaim all garbage; allocation comes to an end.
* *Hash tables.* A table is a finite map; its counter is right; an iteration returns every entry once;
  a weak table loses an entry just when nothing else holds its weak part.
* *Unwinding.* Transfers arrive at exit points that still exist; the lists of frames follow the C stack;
  clean-up code runs, once; subtyping of exceptions stays a partial order.
* *Matching.* Bindings are never overwritten by matching; data and line number agree; each directive succeeds
  when and where the manual says; transfers deliver what was bound; `@(finally)` is matched; a variable is
  the same for all who share it, and nobody else.
* *Regular expressions.* Automaton and derivatives agree with the meaning of the expression; a class holds what
  it names; nodes are freed once.
* *Streams, UTF-8.* What is read is what is there, in order, each part once; what is put can be had.
* *Arithmetic.* Each integer has one representation; results do not depend on who is a bignum.
* *Lists.* A function does to the values of all variables what its description on sequences says, however lists share
  conses and whichever of them are lazy.

`PROJECT.json` lists, under `hazards`, each place in the code that a test hardly reaches, with the
property that covers it or the reason why none does yet.

## 2. The modules

### Gc, GcMutators, IdealHeap (gc.c)

`Gc` is the heap as the generational build (`configure --gen-gc`) compiles it; the plain build is the
instance with `FULL_GC_INTERVAL = 1` whose vectors never fill. A cell (`obj_t`) is free or has a value in
every `Field`; what else tells types of objects apart does not matter to the collector. An action is one
call of a constructor, of `set()` or of `gc_state()`; a call that may collect is cut into the steps of
the function, with `pc` for the place and `pend` for the arguments on the stack. `mark` and `sweep` are
one step, `Collect`: nothing runs in between (except the weak tables, see WeakHash). The mark
phase is `MarkFrom`, a least fixed point. With `Conservative`, the scan of the stack may take any set of
used cells for referenced. The constant `Prot` names the roots registered by `prot1`; a store into a static
variable may or may not count as inside the heap, because `in_malloc_range` never raises its low bound.

`GcMutators` adds what stores into objects without `set()` (`vec_push`, `refset`, `nreverse`), and the
callers of `gc_mutated` (`replace_vec`), and the part of `gc_set` and `gc_mutated` for a full `checkobj`.
That part is not in `Gc`'s next-state relation, because `BarrierNeverCollects` (proved) says that it is
never reached. `IdealHeap` is the heap the rest of the program believes in, without reclamation; what it has for its
objects is `Visible`, the contents of the cells that the program can reach.

Left out: finalization of objects, `gc_hint`, Valgrind support, interned constants.

### FreeList (gc.c)

In `Gc` the free list is a set. `FreeList` has it as the linked list it is, with `t.next`, `free_list` and
`free_tail`, for both orders of recycling (`--gc-debug` appends at the tail). What an object in use keeps in
the memory of `t.next` is not modelled.

### HashTable, HashMap, WeakHash, HashCache (hash.c)

`HashTable` has chains as sequences of conses with identity, so that an iterator can be left with conses
that `remhash` has copied, or that `hash_grow` has relinked. `HashMap` is the finite map it should be.
`WeakHash` lays `hash_mark` and `hash_process_weak` over an abstract mark phase. Entries and conses are
nodes, so that a stale pointer into a chain can be a root. Marking is `Closure`, the things that a path of any length
leads to (`Onward` is one step). `HashCache` is the pair `last_equal_key`,
`last_equal_hash`, over strings, floats and conses. `equal_hash` is split into the step for an atom and
the step for a cons.

Left out: printing, user data, tables from lists, lazy lists of keys, and Lisp code that runs inside of
`equal` on lazy keys.

### Unwind, Trailer, Subtypes (unwind.c, unwind.h)

`regions` is the C stack, cut down to the blocks, catches, environments and debug frames on it; the
three pointers of unwind.c are positions in it. A transfer is a sequence of steps (`Pass`, `Intercept`,
`Land`), since clean-up code runs in the middle of it and can start others. `Trailer` adds the frame of a vertical
`@(trailer)`, which is a catch that looks at where the transfer through it is going. `Subtypes` is the
association list of exception types with the entries shared as in the code, `uw_register_subtype`, and
`@(defex)`, which registers a chain of types one by one.

### Match (match.c)

`MatchFiles` maps a context (`match_files_ctx`) to a result: bindings and a position, failure, or a
transfer of control on its way. Each vertical directive is an operator with the name of the directive, and calls
`MatchFiles` on its clauses as the C function calls `match_files`. The variable `c` is the context of the
outermost call, and a step is one item of the query; the directives nested in it are evaluated in that
step. The position after the last line is `t`, as in the code, and the odd values that the code passes
around are there too: a data list `t` before a source is opened and after a `@(last)`, `(nil . n)` from a bare
`@(skip)` at the end of the data, and the bindings `t` (`Contradiction`) that a catch leaves behind when its
parameter contradicts what it is bound to, and in which nothing can be looked up.

Abstractions: a line is matched by a text, or by a variable that spans it; a binding is a function from
names to lines and (nested) lists, so the order of the association list and shadowed entries are gone (Bindings
has them); an exception is caught by its own type, `t`, or `error` for the built-in ones; a source that
a query names is the lines that it has, or none if it cannot be opened. A function has parameters whose names its caller has not bound (the other
calls are the subject of Bindings). `@(load)` has its query parsed already. The C locals changed between `setjmp` and
`longjmp` are taken to keep their latest values, as they do in a build that keeps them in memory.

Left out: `@(freeform)`, `@(assert)`, `@(deffilter)` and `@(do)`.

### Bindings, Scopes, Trees (match.c)

`Bindings` has the association lists that `Match` takes for functions: pairs with identity, lists that share tails,
and copies that share pairs. An action is one of the directives that treat variables (bind, set, rebind, forget or
local, merge, flatten, cat, filter, output `:into`), the call of a query function, the begin of clauses or of a
collect, or the end of any of these, by a match, a failure or an exception. The waiting calls of
`match_files` are `frames`. `Scopes` is what this should come to: a stack of scopes, each with variables of its
own and with names it hides. `Trees` has the values, strings and nested lists, and their operations.
`BindingPlans` has the sets of directives that queries are put together from.

Left out: `@(output)` into anything else, repetition, and filters other than one that changes each character.

### Lists, SeqSpec, IdealLists (lib.c)

`Lists` has conses with numbers for addresses. A lazy cons has a function that fills it in when it is
looked at. An action calls one function on the lists that two variables hold and stores the result into one of them:
`copy_list`, `reverse`, `nreverse`, `append2`, `nappend2`, `lazy_appendv`, `sub_list`, `replace_list`, `remq`, `remq*`,
`ldiff`, `sort_list`, `flatten`, `lazy_flatten`. `value` is what each variable stands for, read off the conses by
following them as the program would. `SeqSpec` has the indexing of ranges as the manual describes it, `IdealLists` two
variables that hold sequences, and what the manual says that each function does to them. The two steps of `Lists` that are none of
`IdealLists`, `AppendExtends` and `FlattenLeavesNil`, are named, and excepted in `ImplementsLists`; the run `append_lazy` shows the
first against the manual.

Left out: vectors, strings, symbols and packages, property and association lists (but for those in `Bindings`),
lazy strings, lazy streams of lines.

### Regex, CharSet, CharClasses (regex.c)

`CharSet` has the four kinds of character sets, from a block of bits to a tree of three levels over such blocks, with their nodes
null, full or allocated, and an operator for each level of a tree as regex.c has functions for it. `CharClasses` is
`char_set_compile` taken apart: a step creates the set, once the limits of all items are known and the kind is chosen, or
adds the next item, or complements. `Regex` has `regex_compile`, the automaton with its stamps in `visited`, the derivatives, and
the machine that `search_regex`, `match_regex` and `regsub` feed, a character per step. Its reference is `Ends`,
the meaning of an expression as sets of positions. `RegexSyntax` has the forms that the parser makes of an expression. States of the automaton and derivative regexes are numbers
and terms; printing is left out.

### Utf8, Streams (utf8.c, stream.c)

`Utf8` has the decoder for strings in memory, the one for streams with its ring of eight bytes and its way of backing up,
and the encoder. `Streams` has the life of one stream: a file, a directory, a string or bytes to read
from, characters and lines mixed, or a string or a list of strings to write to, bytes and texts mixed.

Left out: pipes, `format`, seeking, `stdio_get_byte` (which reads past the ring of the decoder), closing.

### Arith (arith.c, rand.c)

Fixnums are the integers of `CNUM_BIT` - 2 bits, all others bignums; `normalize` and its absence are modelled
where they stand, so are the shortcuts through a double-width product and through comparisons of the
two kinds. Floats are whole numbers.

The bignums are those of MPI. src/ holds it as an archive, with patches; the operations that are plain arithmetic (sums,
products, comparisons) are taken as such, the others have operators with their names: `mp_sqrt` and `mp_get_intptr` as the
patches have them, the root without its last bit, and those of the library with what they do to signs
and to 0 (`mp_div_d`, `mp_mod_d`, `mp_expt`, `mp_gcd`). This is followed as far as a number has one digit, and a digit is as wide as a cnum
(`OneDigit`): with several the library loses carries, and where digits are narrower, `mp_get_intptr` overwrites them (section 5). A product that a
double cnum holds gets a second digit, 0, which makes the library take it for longer than it is; no call on one is followed (`LeadingZero`).
`double` says whether the compiler has a double cnum. `random` draws arbitrary words and
masks and rejects them as the code does.

Left out: fractions, transcendental functions, printing and reading of numbers.

### MC modules

`MCGc`, `MCWeakHash`, `MCHashCache`, `MCTrailer` and `MCBindings` instantiate one component. `MCRuntime` (Unwind, Subtypes,
FreeList), `MCText` (Match, Bindings, Regex, CharClasses, Streams) and `MCLibrary` (Arith, Lists, HashTable) each check several
components that do not interact in one run: the variable `part` says which one a behavior is about, and
the variables of the others stay at a dummy value (or, as those of `HashTable`, the way they begin). `MCMatch` and `MCRegexes`
have the queries and the regular expressions for `MCText`.

### Proof modules

`GcProofs`, `FreeListProofs`, `SubtypesProofs` and `WeakHashProofs` each extend the module they are about, `LibraryProofs` is about
HashTable and Arith, `TextProofs` about CharClasses. `RuntimeProofs` is about Unwind and Trailer; since it extends `MCRuntime` too, it also carries the theorems about
Subtypes and FreeList over to the properties of that run.
`Induction` has what several of them need: induction over the natural numbers, recursion, and iteration.

## 3. The runs

| run | module | shows |
|---|---|---|
| gc_generational | MCGc | with three cells, a heap that grows a cell at a time, room for two babies, every third collection full, and stale stack words: safety of the heap and the bookkeeping |
| gc_precise | MCGc | without stale stack words, two cells: completeness, refinement of `IdealHeap`, and that `make_obj` returns |
| gc_raw | MCGc | *violation*: a raw store or `replace_vec` lets a live object be reclaimed |
| weakhash_keysvals | MCWeakHash | one table with weak keys and one with weak values, which may hold each other |
| weakhash_both | MCWeakHash | *violation*: a table with both weak is reclaimed while in use |
| hashcache | MCHashCache | *violation*: the cache gives a wrong hash |
| runtime | MCRuntime | frames: five nested regions, two tags, two types of exceptions; types: the chain `query_error`, `error`, `t` and two user types, `@(defex)` of up to three types; heap: two blocks of three cells, the list right in both orders of recycling |
| trailer_ends | MCTrailer | *violation*: `@(trailer)` dereferences null when it is not left by a transfer |
| calls | MCBindings | *violation*: a call stores into a variable of its caller |
| text | MCText | regular expressions two operators deep on all texts of up to three characters; classes of one to three items, as their sets are built; files of up to five bytes, strings, and streams that are written to five times; some four thousand queries against all data of at most four lines over two texts; and the sharing of pairs, for queries of four directives out of four sets, refining `Scopes` |
| library | MCLibrary | arithmetic with cnums of six bits; programs of one to three calls on lists, refining `IdealLists`; a table of three keys that grows from one chain to two, refining `HashMap` |
| append_lazy | MCLibrary | *violation*: `append*` changes its first argument |

The bounds, and why they are enough:

* *Heap.* `HEAP_SIZE` (16384), `FRESHOBJ_VEC_SIZE` and `CHECKOBJ_VEC_SIZE` (both twice that) and
  `FULL_GC_INTERVAL` (40) are constants. The small values make every comparison with them happen both
  ways: a full `freshobj`, a full `checkobj` (in `gc_raw`'s relation), an exhausted heap, generational
  and full collections. Three cells are what it takes for a mature object that refers to a baby that
  refers to another. `GcProofs` does away with these bounds for everything but liveness.
* *Free list.* `MaxDead = 1` limits the cells that one sweep releases. A sweep of several cells is the
  composition of releases, and the order of blocks and of recycling is exercised by sequences of them.
* *Hash tables.* `MaxModulus = 2` allows one growth. Chains of three with a removal at each place, under the
  iterator, before and behind it, already occur. `Serial` has enough numbers for the copies that exist at one time.
  The loops of iteration and growth treat chains one at a time.
* *Weak tables.* Two tables and a plain object make the cycles of interest: a key that is
  a table held by the value of the other. `MaxEntries`, `MaxCount` limit the entries, and the drift of `count`.
* *Unwinding.* With five frames a transfer that crosses two catches can be interrupted by a second one
  from within the clean-up of the first, through an environment or a debug frame.
* *Match.* Each family of queries puts one directive in front, with clauses that bind, fail, consume
  none, one, two or all lines, or leave, and several ends. With four lines, a collect with a gap
  still makes two matches. Data of no lines are included, and two sources, one of which cannot be opened.
  Directives are nested two or three deep, not in all combinations.
* *Bindings.* Two variables, two parameters, and four directives in any order, the ends of clauses and functions
  not counted. It takes two frames for a pair to be shared by scopes that are not neighbours, and one directive
  to store into it.
* *Lists.* Every range with indices from -5 to 5, `nil` and `t` on lists of up to three items; three calls make lists that
  share a tail with a lazy list that another one extends. `MaxLen` stops lists from growing through `nappend2`.
* *Regular expressions.* Two operators are enough for each to be the operand of each. `NFA_SET_SIZE` is small enough
  for `nfa_closure` to abort, as it does with 512. In classes, `CELL`, `CELLS`, `FAN` and `FAN3` make a code of
  432 characters with the levels of the real one, and ranges begin and end in, on and across the edges of cells and blocks.
* *Streams.* The longest character has four bytes, so five tell what follows a spoiled one. `InitSize = 2` makes
  buffers grow.
* *Arithmetic.* Six bits give fixnums from -7 to 7; `Operands` has the values around the limits, and products
  leave them. `MaxResult` keeps results to one digit. Compilers with and without a double-width cnum are tried.

Deadlock is checked where the system can go on for ever (`gc_generational`, `gc_precise`, `weakhash_keysvals`).
`CHECK_DEADLOCK FALSE` stands where it ends: an aborted or exited process, and a heap that cannot grow any more
(`runtime`, `trailer_ends`), a query that has been matched or has no more directives (`text`, `calls`), a call or
stream that has come to its end (`text`), a program of as many calls as it has, or a result beyond `MaxResult` (`library`).

Fairness: only `gc_precise` assumes any, weak fairness of the steps of `make_obj`. They are consecutive
statements of one function on the only thread, so nothing can keep the program from taking the
next one. No other property needs it.

Each property has, in `PROJECT.json`, a mutant of the model that breaks it: a slip of the kind one makes in C,
defined next to the definition it replaces and marked "Slip". Slips are used nowhere else.

## 4. The proofs

A run shows a property on a small instance. The theorems show it for every value of the constants. Their
proofs are by an inductive invariant, `IInv` in each module: `Init => IInv`, `IInv /\ [Next]_vars => IInv'` with a lemma per
action, and `IInv => Property`, or `IInv /\ [Next]_vars => A` for a property `[][A]_vars`. Each `IInv` was
checked by TLC before it was proved (of `ClassInv`, the part that TLC can evaluate).

| theorem | says |
|---|---|
| **GcProofs** | *for any cells, roots, fields, sizes, and any schedule of collections* |
| TypeCorrect | `Spec => []TypeOK` |
| HeapIsSafe | `Spec => []NoDangling`: no object is reclaimed while something refers to it |
| NeverAborts | `Spec => []NoAbort`: the checks in `mark_obj` and `sweep_one` cannot fail |
| BarrierIsComplete | `Spec => []Remembered` |
| BarrierHasRoom | `Spec => []BarrierNeverCollects` |
| BookkeepingIsRight | `Spec => []BetweenCollections`: freshobj lists the babies, each once; no mark bit is left over |
| FullReclaimsGarbage | `Spec => FullIsComplete` |
| HeapImplementsIdeal | `Spec => ImplementsIdealHeap`: the program cannot tell the heap from one without reclamation |
| **FreeListProofs** | *for blocks of any number and size, without bound on the cells that a sweep releases* |
| TheListIsFree | `Spec => []ListIsFree` |
| **RuntimeProofs** | *for any tags and exceptions and any depth* |
| FramesAreInStep | `Spec => []StacksAgree`: the assertions of unwind.c cannot fail |
| TransfersGoToOpenFrames | `Spec => []TargetsOpen` |
| CleanupIsNeverSkipped | `Spec => CleanupRuns` |
| TrailerKeepsStacks | `TrailerSpec => [](StacksAgree /\ TargetsOpen)`: with `@(trailer)` among the regions as well |
| **SubtypesProofs** | *for any types and any sequence of `@(defex)`, each of any length* |
| TypesAreOrdered | `Spec => []PartialOrder` |
| DefinitionsRelate | `Spec => DefexRelates` |
| | *and the properties of FreeList and Subtypes as the run `runtime` has them* |
| RunOrdersTypes, RunRelatesTypes | `RuntimeSpec => []PartialOrder`, `RuntimeSpec => DefexRelates` |
| RunListsFree | `RuntimeSpec => []ListIsFree` |
| **LibraryProofs** | *for any keys and hashes, and tables that grow without bound* |
| CountsEntries | `TableSpec => []CountExact` |
| VisitsOnce | `TableSpec => []VisitedOnce` |
| TableImplementsMap | `TableSpec => ImplementsMap`: the table is the map of `HashMap` |
| **WeakHashProofs** | *for any objects and tables, processed in any order* |
| NothingDangles | `Spec => []NoDangling` |
| LapseExactly | `Spec => []LapsedExactly` |
| WeakLinksKeepNothing | `Spec => WeakKeepsNothing` |
| | *for cnums and random words of any width, integers and results of one digit as wide as a cnum, any floats, with and without a double cnum* |
| ArithRepresentation | `Spec => []OneRepresentation`: what every call returns is a fixnum exactly if it fits, gcd and products with 0 aside |
| ArithIsExact | `Spec => []ArithExact`: sums, products, quotients, remainders, comparisons, powers, roots, greatest common divisors and random numbers are right, or there is an error where there is nothing to give; aside from the calls of `SignLost`, `gcd` of 0, and the root of a bignum, which is the largest even one |
| **TextProofs** | *for cells, blocks and nodes of any size, any class, and special classes that lie anywhere in the same order* |
| ClassesHoldNamed | `ClassSpec => []ClassHolds`: a class matches nothing that it does not name, and all that it names but what `Misses` says; its set has room for all of it; the mark of a full entry is freed only where two items name one character; and what is left when all items are in is the set that the regular expressions are compiled with |

### What the theorems assume

* `GcAssumption`: the sizes are positive, `nil` is not a cell, variables and members are
  different places, and `CHECKOBJ_VEC_SIZE >= FRESHOBJ_VEC_SIZE`. The last is what gc.c defines (both are
  twice `HEAP_SIZE`), and `BarrierHasRoom` rests on it.
* `BlocksAreDisjoint`: the blocks that `malloc` returns are of one size and have no cell in common.
* `UnwindAssumption`: `nil` is not the name of a tag.
* `BuiltinsAreRanked`: the types that `uw_late_init` registers can be numbered so that each is below its supertype, as they are
  in unwind.c.
* `KeysAreHashed`: a key has a hash, a natural number, and a table begins with at least one chain.
* `ArithSizes`: a cnum has four bits or more, `rand32` gives one or more, the other constants are numbers.
  `OneDigit`: operands and results are less than two to the bits of a cnum.
* `SetSizes`, `SpecialClasses`: the sizes are two or more; `\d` and `\w` stand for ranges in the first block, the digits before the
  capitals before the underscore before the small letters, and `\s` for characters below the last level, as the tables in regex.c have it.
  `ClassesAreItems`: a class is a sequence of characters, ranges and special classes.
* `WeakHashAssumption`: there are finitely many objects and tables; vectors, conses and entries are not objects. And, as
  a hypothesis of each theorem, `NoneBothWeak`: no table has weak keys and weak values both. With such a table
  `NoDangling` is false, which is what `weakhash_both` shows.

Each is an `ASSUME` of the module or of the MC module that instantiates it, so that TLC evaluates it for every instance, but for
`NoneBothWeak`, which is how the two instances of `MCWeakHash` differ.

### Why the invariants are what they are

*Heap.* None of these properties is inductive by itself. `NoDangling` survives a generational collection only
if `Remembered` holds, since a mature object is not scanned; `Remembered` survives it only if all
babies become mature or die, which needs `BabiesAreFresh`, since only `freshobj` is swept;
marking reaches what it should only if no mark bit is left over (`MarksCleared`); and that gen -1 marks just the
members of `checkobj` (`CheckobjExact`) keeps the barrier from recording twice. `IInv` is the conjunction, with
facts about each step of `make_obj` (before `Take` there is room in `freshobj`). The heart is
`KeptIsClosed`: what a collection keeps contains the roots and whatever a kept object refers to; in the
generational case by splitting on whether object and referent are mature. `CollectPreserves` derives
each conjunct of `IInv'` from it. `BarrierHasRoom` follows since `checkobj` holds babies only, each once, all
babies are in `freshobj`, and an injective sequence into the range of another is no longer than it.

*The ideal heap.* What the program can reach is a least fixed point, which has to be followed through a step. `Reaches` has the
contents and the starting values as parameters; it depends on the contents of what it reaches only (`ReachesSame`), so a
collection, which leaves those alone (`GcUnseen`), is a stutter. `ReachedIs` identifies it with the part of the
ideal heap that the variables lead to. `Handled` is needed besides `IInv`: the arguments a constructor waits with, while `make_obj`
collects, are values that the program could still get by other means.

*Free list.* The links from `free_list` on spell a sequence of distinct cells, those of the free ones (`Lists`); `more()` and
`sweep()` make such a sequence of one. When debugging, `more()` may move `free_tail` into the middle of the list, so
that cells are lost: then the sequence holds free cells, but not all of them.

*Unwinding.* `up` and `up_env` of every frame name the frames that were the innermost when it was pushed (`Links`, `EnvLinks`),
because regions are left from the inside out. A transfer that clean-up code interrupts is kept in a frame above its
target (`Conts`), so the target is open for as long as the frame is there; and all catches between the top and the
frame that a transfer has got to have had their clean-up code entered (`Control`), so `Land` leaves none without.

*Exception types.* The entries can be ranked so that each ranks above the one it links to (`Ranked`). When an entry is made to point
elsewhere, it and those that lead to it are raised above the new supertype, which is not among them, because a pair
that would close a circle is refused. So following the links ends, at `t`, and being a subtype is a partial order. That a
`@(defex)` relates what it names is proved along the pairs of its chain, of which a later one undoes no earlier one.

*Hash tables.* Each key is in the chain it hashes to, once (`Rows`); growth doubles the chains, and `h % 2m` is `h % m` or `h % m + m`. An
iteration that the table does not grow under has returned the steady keys of the chains before its own, and those of
its own that are not left in the list it holds, which may share conses with the chain no longer (`UnderWay`).

*Weak tables.* Outside a collection nothing allocated leads to what is not. Between marking and sweep what is marked leads to
marked things only, but for the vectors and chains of the tables that wait on the list (`Marking`). Processing one marks its
vector and chain and nothing else, since the keys and values of the entries that stay are marked by then: this is where a table
with both parts weak would go wrong. That it loses the right entries follows from `Since`, which relates marks and chains to those at the
end of the marking.

*Arithmetic.* Each call is on the result of one before it, so `OneRepresentation` and `ArithExact` are inductive with the types alone;
both say what a call returns when its arguments are in their one representation. The work is in the functions. A product that `mul`
leaves to the machine has factors whose highest bits add up to less than the bits of a cnum less one, so it is no more
than `INT_PTR_MAX` and the word keeps it (`ProductIs`). `isqrt_fixnum` knows, at every bit, a root that is not too great, and that would be with
as much again as the last bit tried; `mp_sqrt` stops a bit earlier, and its root is even because all the bits it has tried are worth two or more. `normalize` takes the
lowest digit of what fits a fixnum, which is all of it. The n-ary functions are sums, products and chains: `Folded` is unfolded into partial
results, each of which is a whole number in its representation and the partial sum or product. `minus` of more than two is the first twice less
the sum. `random` draws sequences of words; all that is needed is that their values are natural numbers, which the last test bounds.

*Character classes.* The work is in what one range does to a set (`Good`): it has all characters of the range but the missed ones, keeps what it
had, and gets no other. This is proved for a block, and then for each level from the one below it, by one lemma about the
nodes of any level; the entries between the ends are full, those at the ends hold what was theirs before and what the level below filled in. Adding an
item is adding ranges and characters one by one (`Grows`). The limits of a class are those of its items (`StartIs`), so the kind that is chosen has room for whatever
the class names, and no assertion of `char_set_add` or `char_set_add_range` can fail. That the set built step by step is the one of `char_set_compile`
needs the invariant to say that it is the one of the items added so far (`ClassInv`), which is the value of a recursive function.

*Induction.* The induction theorems of the library have operators as parameters, which the installed provers cannot
instantiate. `Induction` has them about sets: a set with 0 that is closed under successor has all natural numbers. From that it proves that
recursive definitions (`Recursion`) and iterated maps (`Iteration`, and without end `Orbit`) have solutions, by which the proofs get at the recursive
functions of the models (`Walk` of FreeList, the growth of a table, the built-in types and the chain of a `@(defex)`, paths in WeakHash, the powers of two and the sums of Arith, the items of a class).

### What is model-checked only

`AllocationEnds`, because TLAPS does not do liveness or `ENABLED`; Match, Bindings, Lists, Regex, Streams and Utf8, whose
recursive operators are out of its reach; and `ClassFreed` of Regex, since Regex is one of these.

## 5. Where the code and its documents part

Each of these is a run whose property TLC finds violated:

* `gc_raw`: `vec_push`, `refset` and `nreverse` store without the barrier. HACKING:714 says that all such operations
  have been identified. `replace_vec` uses `gc_mutated`, which makes the vector a baby that is
  not in `freshobj`: its mark is never cleared, and a later collection does not look at it.
* `weakhash_both`: a table with weak keys and weak values is neither marked through nor put on the list of weak
  tables. (The keyword that hash.c recognizes is `:weak-vals`, while txr.1:4778 has `:weak-values`.)
* `hashcache`: hashing a cons leaves the hash of the whole as that of its last part.
* `trailer_ends`: `@(trailer)` as a vertical directive reads through a null pointer on its normal way out. The
  tests use the horizontal one only (tests/009/json.txr:55).
* `append_lazy`: `append*` extends its first list in place, although txr.1:6127 says that all but the last are copied.
* `calls`: `v_fun` gives a parameter its value in a copy of the caller's bindings that shares their pairs, so a parameter
  with the name of a variable that is bound where the call is, as in a recursive call, overwrites it.
  txr.1:3133 says that only the variables in the argument list propagate out of a call.

Seen while modelling, not shown by a run of their own, and part of the models or of the list of hazards:

* `more()` moves `free_tail` although the list is not empty, so that with `--gc-debug` the cells after it drop off
  the list, though HACKING:229 has the flag FREE for an object on it (FreeList; `ListIsFree` has it that cells are lost in this case
  only). If the cell that `free_tail` points into has been taken meanwhile, a sweep writes into an object in use, which no property is about.
* When a parameter of a catch contradicts what it is bound to, `v_try` leaves `c->bindings` at `t`, and
  `@(finally)` is matched with that: it throws a type error as soon as it looks up a variable, and if it does not, the query
  goes on with these bindings, where txr.1:4424-4426 says that the catch is a failed match (Match; `Contradiction`, which
  `BindingsKept` excepts).
* Forward, `search_regex` gives up when the text ends in the middle of a try that has not matched, so that `aba|b`
  is not found in `ab`, nor `~(.*)|b`; txr.1:7327 has nil for no match (Regex; `SearchFinds` says when exactly, by
  `Promises` for automata, `Survives` for derivatives). From the end, an expression with `&`, `~` or `%` is searched wrongly, since
  `dv_run` never advances.
* The patched `mp_sqrt` never tries the last bit, so roots of bignums are even. It also tests the sign of its result, not of
  its argument, so a negative bignum is not refused. txr.1:7118 has the greatest integer not above the root (Arith; `ArithExact` has what
  is computed instead).
* `flatten*` of nil is `(nil)`, and it keeps a nil that begins a list in the list; txr.1:6628 has the non-nil
  atoms only (Lists; `FlattenLeavesNil`, which `ImplementsLists` excepts).
* `make_obj` asserts that `freshobj` has room, which fails when collection is disabled for long (Gc, `MakeObjAssert`; parsing disables it).
* An insertion in the body of `dohash` can make the table grow and the iteration miss or repeat entries (HashTable).
* The removal of a lapsed entry does not decrement `count` (WeakHash; hence the inequality in `LapsedExactly`).
* `eql_hash` overwrites the cached hash, not the key; a cached key can be changed in place (HashCache).
* A clause of a parallel directive that ends in a bare `@(skip)` at the end of the data does not move the
  position (Match; the hypothesis of `GoesFurthest`).
* `:maxtimes 0` collects once (Match; `CollectsGreedily`). The `@(until)` or `@(last)` of a collect is matched
  without bindings when the body has failed, so `@(last)` may bind a variable anew (Match; `Rebound`, which
  `BindingsKept` excepts).
* Bindings that an `@(until)` of a gather should discard stay, against txr.1 and the comment in `v_gather`, and
  those of a clause matched after one that consumed everything are lost (Match).
* An `@(accept)` out of a `@(next)` carries a position in the other source (Match; hypothesis of `ClausesInline`).
* `@(load)` drops the bindings of a query that consumes all data (Match; hypothesis of `ClausesInline`), and leaves
  collection off when the parser throws.
* `@(rebind)` also forgets the variable that is its second argument, against txr.1:2761-2763, and ignores patterns
  that are lists; what `@(set)`, `@(flatten)`, `@(cat)` and `@(filter)` store into a variable stays when the clauses they
  are in fail; the depth that `@(merge)` goes by is 0 for an atom and 1 for nil (Bindings).
* `match_regex` returns the position of the end, where txr.1:7331 has the length. An automaton that never ran is not freed, and one of 512 states aborts
  the process.
* `L0_fill_range` misses characters when a range ends on the last bit of a cell, `char_set_add_range` drops a range of
  one character, and filling a full block again frees the mark for "full" (CharSet; `Misses` and `FreesOnOverlap` in CharClasses). In a
  displaced set the cells begin at the least character of the class, so the ranges of `\d` and `\w` can end on a last bit
  too, and `[\x1a\dĀ]` has no digits; no example shows this, and it came to light when the proof did not go through.
  What `L2_fill_range` and `L3_fill_range` free of an entry between the ends is the node, and not the blocks that hang below it.
* The stream decoder takes U+10000 to U+FFFFF for overlong (wch_min in utf8.c:312); `utf8_from_uc` backs up to the wrong byte
  after some spoiled sequences; a string stream clears its decoder with bytes in it; `put_byte` on a list of
  strings calls a null pointer (Utf8, Streams; hypotheses of `OutputKept` and `ReadsInOrder`).
* `mul` and `minus` of a negative fixnum and a bignum lose a sign, and in MPI so do the quotient and the remainder of a negative bignum
  by a digit, and powers of a negative number to a bignum have the wrong one (Arith; `SignLost`);
  `gcd`, products with 0 and `expt` of two bignums leave small results as bignums; `random` never answers for a
  negative bignum, and the mask of a modulus whose bits are a multiple of 32 is shifted by 32, which is
  undefined; `int_flo` tests a float against the wrong ends of the fixnums.
* MPI, in builds whose digits are narrower than a cnum: `mp_get_intptr` (mpi-patches/add-mp-set-intptr:52) assigns each digit to its result
  instead of combining them, and shifts once too often, so that a bignum that becomes a fixnum gets a wrong value. With several digits, carries
  are lost in sums and products. Neither is modelled.
* `replace_list` with a range that ends before it begins keeps
  what is before `to`, where vectors and strings keep what is before `from` (Lists, IdealLists).
* `match_files` opens a source before it looks whether the query begins with `@(next)`, and leaves it open;
  `(return)` outside of a block aborts the process, where `@(accept)` throws; the debugger's second command `s` cannot be
  given; a lazy list of lines reads one line ahead. These are not part of the models.
* The stores of `hash_grow` bypass the write barrier too, but do no harm: each cons stays reachable through
  the vector, which is stored with `set()`, or through a cons that is a baby.

## 6. Not modelled, and the plan

Modelled so far: the heap and its free list, hash tables, unwinding and exception types, vertical matching with its variables,
lists, regular expressions, streams and UTF-8, numbers, bignums of one digit. Not modelled, because it is generated, sequential glue or third-party
code: the parser and scanner, the driver, what MPI does with several digits, the build. Not modelled yet: the components below.

There are a dozen runs, of which six pass, with some forty properties, so that all of it is checked in half an hour. A new component joins one of the runs that combine several (`part`), and its property takes the place of
a shallower one.

Next, in this order:

1. *LineMatch*: the `h_` functions, variables, texts and regular expressions within a line; *Output*: how `@(repeat)` walks over lists
   of several lengths; *FilterTrie*: tries, compressed and not, and compound filters.
2. *Eval*: environments and dynamic bindings across non-local exits; *Debugger*: `step_mode`, `next_depth`.
3. *Collect*, *Parallel*, *Gather*: the loops of three directives as state machines, with the clauses as an arbitrary
   function of the position, so that their properties can be proved for all data.
4. Lazy strings and lazy streams of lines, vectors and strings as sequences (SeqSpec is written for them too), symbols and
   packages.

Theorems worth proving: that a file
and a string are read in order, once the recursion of `Streams` and `Utf8` is written as recursive functions; and the
machines of 3.
