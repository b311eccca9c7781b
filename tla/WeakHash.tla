------------------------------ MODULE WeakHash ------------------------------
(***************************************************************************)
(* Weak hash tables and a full garbage collection (hash.c with gc.c).      *)
(*                                                                         *)
(* hash_mark() does not mark what a weak table refers to weakly, nor the   *)
(* table itself; it puts the table on reachable_weak_hashes.  After the    *)
(* marking, hash_process_weak() removes the lapsed entries of each table   *)
(* of that list and only then marks the vector and the chains.             *)
(*                                                                         *)
(* A node is anything gc can mark: an object of the program, a table, the  *)
(* vector of a table, a cons of its chain, an entry (key . value).  A      *)
(* table has one chain here, since the chains are processed one by one.    *)
(***************************************************************************)
EXTENDS Integers, SequencesExt

CONSTANTS
  Obj,         \* plain objects
  Hash,        \* tables
  Kind,        \* Kind[h]: "none", "keys", "vals" or "both"
  MaxEntries,  \* bound on the entries of all tables together
  MaxCount     \* bound on the counter of a table, which lapsing lets grow

Thing == Obj \cup Hash
Vector(h) == <<h, "table">>
ConsOf(h, k) == <<h, "cons", k>>
Entry(h, k) == <<h, "entry", k>>
NoWord == <<"none">>
Idle == [chain |-> <<>>, marked |-> {}, word |-> NoWord]

VARIABLES
  roots,    \* things the program holds
  chain,    \* chain[h]: the entries [key, val], as the chain lists them
  count,    \* count[h]
  heap,     \* the nodes that are allocated
  marked,   \* the nodes marked REACHABLE
  pending,  \* reachable_weak_hashes
  pc,       \* "run"; "weak": between the marking and the sweep
  start     \* history: chains and marks when the marking ended

vars == <<roots, chain, count, heap, marked, pending, pc, start>>

Node == Thing \cup {Vector(h) : h \in Hash}
              \cup {ConsOf(h, k) : h \in Hash, k \in Thing}
              \cup {Entry(h, k) : h \in Hash, k \in Thing}

\* What is in a table is no object of the program, and no table.
ASSUME WeakHashAssumption ==
  /\ Kind \in [Hash -> {"none", "keys", "vals", "both"}]
  /\ IsFiniteSet(Obj) /\ IsFiniteSet(Hash) /\ Obj \cap Hash = {}
  /\ \A h \in Hash, k \in Thing : {Vector(h), ConsOf(h, k), Entry(h, k)} \cap Thing = {}
  /\ MaxEntries \in Nat /\ MaxCount \in Nat

Init ==
  /\ roots = Thing
  /\ chain = [h \in Hash |-> <<>>] /\ count = [h \in Hash |-> 0]
  /\ heap = Thing \cup {Vector(h) : h \in Hash}
  /\ marked = {} /\ pending = {} /\ pc = "run" /\ start = Idle

\* Of a table whose chain is c:
Keys(c) == {c[i].key : i \in 1 .. Len(c)}
Vals(c) == {c[i].val : i \in 1 .. Len(c)}
Position(c, k) == CHOOSE i \in 1 .. Len(c) : c[i].key = k

\* The entries at the positions in S, in their order.
Those(c, S) ==
  LET upto[n \in 0 .. Len(c)] ==
        IF n = 0 THEN <<>> ELSE IF n \in S THEN Append(upto[n - 1], c[n]) ELSE upto[n - 1]
  IN  upto[Len(c)]

Parts(h, k) == {ConsOf(h, k), Entry(h, k)}
Entries == FoldSet(LAMBDA h, n : n + Len(chain[h]), 0, Hash)

-----------------------------------------------------------------------------
\* Slip: weak keys are marked like weak values.
HashMarkSwapped(h, c) ==
  CASE Kind[h] = "none" -> {Vector(h)}
    [] Kind[h] = "keys" -> Keys(c)
    [] Kind[h] = "vals" -> Keys(c)
    [] Kind[h] = "both" -> {}

\* What hash_mark() marks.
HashMark(h, c) ==
  CASE Kind[h] = "none" -> {Vector(h)}
    [] Kind[h] = "keys" -> Vals(c)
    [] Kind[h] = "vals" -> Keys(c)
    [] Kind[h] = "both" -> {}

\* Everything that a table leads to.
AllParts(h, c) == {Vector(h)} \cup UNION {Parts(h, k) : k \in Keys(c)}

\* The nodes to go on to from those of S in the chain c of h.
ChainSuccessors(S, h, c) ==
  (IF Vector(h) \in S /\ c # <<>> THEN {ConsOf(h, c[1].key)} ELSE {})
    \cup {Entry(h, e.key) : e \in {e \in Range(c) : ConsOf(h, e.key) \in S}}
    \cup {ConsOf(h, c[i + 1].key) :
            i \in {i \in 1 .. Len(c) - 1 : ConsOf(h, c[i].key) \in S}}
    \cup UNION {{e.key, e.val} : e \in {e \in Range(c) : Entry(h, e.key) \in S}}

\* The nodes of R and those they lead to, when the chains are c and what a
\* table h marks is marks[h].
Onward(R, c, marks) ==
  R \cup (UNION {marks[h] : h \in R \cap Hash})
    \cup (UNION {ChainSuccessors(R, h, c[h]) : h \in Hash})

\* Everything marked when marking starts from S. It goes on until it comes to
\* nothing new, and no path is longer than this.
LongestPath == Cardinality(Node)
Closure(S, c, marks) ==
  LET reach[n \in 0 .. LongestPath] ==
        IF n = 0 THEN [all |-> S, new |-> S]
        ELSE LET r == reach[n - 1]
                 all == Onward(r.all, c, marks)
             IN  IF r.new = {} THEN r ELSE [all |-> all, new |-> all \ r.all]
  IN  reach[LongestPath].all

MarkFrom(S, c) == Closure(S, c, [h \in Hash |-> HashMark(h, c[h])])

\* hash_mark() links these on reachable_weak_hashes when it meets them.
Linked(h) == Kind[h] \in {"keys", "vals"}

\* mark(): the roots, and perhaps one word of the stack that is no longer in
\* use or belongs to an iteration, and so leads into the middle of a table.
Mark ==
  /\ pc = "run"
  /\ \E word \in {NoWord} \cup (heap \ Thing) :
       /\ marked' = MarkFrom(roots \cup ({word} \ {NoWord}), chain)
       /\ start' = [chain |-> chain, marked |-> marked', word |-> word]
  /\ pending' = {h \in Hash : h \in marked' /\ Linked(h)}
  /\ pc' = "weak"
  /\ UNCHANGED <<roots, chain, count, heap>>

\* Slip: the key decides in every table.
LapsedKey(h, e) == Entry(h, e.key) \notin marked /\ e.key \notin marked

\* The test that removes an entry.
Lapsed(h, e) ==
  /\ Entry(h, e.key) \notin marked
  /\ \/ Kind[h] \in {"keys", "both"} /\ e.key \notin marked
     \/ Kind[h] \in {"vals", "both"} /\ e.val \notin marked

\* Slip: the loop ends at the first entry that has not lapsed.
SweptStops(h) ==
  LET c == chain[h]
  IN  Those(c, {i \in 1 .. Len(c) : \E j \in 1 .. i : ~Lapsed(h, c[j])})

\* The chain after the removals: the loop ends at the first cons that has
\* been reached.
Swept(h) ==
  LET c == chain[h]
      done(i) == \E j \in 1 .. i : ConsOf(h, c[j].key) \in marked
  IN  Those(c, {i \in 1 .. Len(c) : done(i) \/ ~Lapsed(h, c[i])})

\* One turn of the loop of hash_process_weak(), of the code for one table.
\* The order of the list is the order of the marking: any order.
ProcessWeak(h) ==
  /\ pc = "weak" /\ h \in pending
  /\ pending' = pending \ {h}
  /\ \/ Vector(h) \in marked /\ UNCHANGED <<chain, marked>>
     \/ /\ Vector(h) \notin marked
        /\ chain' = [chain EXCEPT ![h] = Swept(h)]
        /\ marked' = MarkFrom(marked \cup {Vector(h)}, chain')
  /\ UNCHANGED <<roots, count, heap, pc, start>>

\* sweep().
Sweep ==
  /\ pc = "weak" /\ pending = {}
  /\ heap' = heap \cap marked
  /\ marked' = {} /\ pc' = "run" /\ start' = Idle
  /\ UNCHANGED <<roots, chain, count, pending>>

-----------------------------------------------------------------------------
\* make_hash(), or the construction of an object, in recycled storage.
New(x) ==
  /\ pc = "run" /\ x \in Thing \ heap
  /\ roots' = roots \cup {x}
  /\ heap' = heap \cup {x} \cup (IF x \in Hash THEN {Vector(x)} ELSE {})
  /\ chain' = IF x \in Hash THEN [chain EXCEPT ![x] = <<>>] ELSE chain
  /\ count' = IF x \in Hash THEN [count EXCEPT ![x] = 0] ELSE count
  /\ UNCHANGED <<marked, pending, pc, start>>

Drop(x) ==
  /\ pc = "run" /\ x \in roots
  /\ roots' = roots \ {x}
  /\ UNCHANGED <<chain, count, heap, marked, pending, pc, start>>

\* gethash(), or an iteration: the program gets hold of an entry's parts.
GetHash(h, k) ==
  /\ pc = "run" /\ h \in roots /\ k \in Keys(chain[h])
  /\ roots' = roots \cup {k, chain[h][Position(chain[h], k)].val}
  /\ UNCHANGED <<chain, count, heap, marked, pending, pc, start>>

SetHash(h, k, v) ==
  /\ pc = "run" /\ {h, k, v} \subseteq roots
  /\ \/ /\ k \in Keys(chain[h])
        /\ chain' = [chain EXCEPT ![h][Position(chain[h], k)].val = v]
        /\ UNCHANGED <<count, heap>>
     \/ /\ k \notin Keys(chain[h]) /\ Entries < MaxEntries /\ count[h] < MaxCount
        /\ chain' = [chain EXCEPT ![h] = <<[key |-> k, val |-> v]>> \o @]
        /\ count' = [count EXCEPT ![h] = @ + 1]
        /\ heap' = heap \cup Parts(h, k)
  /\ UNCHANGED <<roots, marked, pending, pc, start>>

\* The cons and the entry are garbage at once, and not tracked any further.
RemHash(h, k) ==
  /\ pc = "run" /\ {h, k} \subseteq roots /\ k \in Keys(chain[h])
  /\ chain' = [chain EXCEPT ![h] = Those(@, {i \in 1 .. Len(@) : @[i].key # k})]
  /\ count' = [count EXCEPT ![h] = @ - 1]
  /\ heap' = heap \ Parts(h, k)
  /\ UNCHANGED <<roots, marked, pending, pc, start>>

Next ==
  \/ Mark \/ Sweep
  \/ \E h \in Hash : ProcessWeak(h)
  \/ \E x \in Thing : New(x) \/ Drop(x)
  \/ \E h \in Hash, k \in Thing :
       GetHash(h, k) \/ RemHash(h, k) \/ \E v \in Thing : SetHash(h, k, v)

Spec == Init /\ [][Next]_vars

-----------------------------------------------------------------------------
\* Nothing the program can still get at has been reclaimed: its tables have
\* their vectors and chains, and each entry its key and value.
NoDangling ==
  pc = "run" => Closure(roots, chain, [h \in Hash |-> AllParts(h, chain[h])]) \subseteq heap

\* When the weak tables have been processed, in whatever order, each holds
\* just the entries whose weak part was reachable without the weak links:
\* removing the entries of one table has no say in those of another.
\* hash_count() may be too high, since lapsed entries are not counted off,
\* but is never too low: the counter cannot go below zero in remhash().
LapsedExactly ==
  \A h \in Hash :
    /\ count[h] >= Len(chain[h])
    /\ pc = "weak" /\ pending = {} /\ h \in marked =>
         LET c == start.chain[h]
         IN  chain[h] = Those(c, {i \in 1 .. Len(c) :
               /\ Kind[h] = "keys" => c[i].key \in start.marked
               /\ Kind[h] = "vals" => c[i].val \in start.marked})

\* Weak links keep nothing alive: after a collection that meets no stale
\* word, what is left is what the roots lead to without the weak links (the
\* other parts of a lapsed entry have one more collection to live), and the
\* vectors and chains of the tables that are left.
WeakKeepsNothing ==
  [][pc = "weak" /\ pc' = "run" /\ start.word = NoWord =>
       LET held == MarkFrom(roots, start.chain)
       IN  heap' = held \cup UNION {AllParts(h, chain[h]) : h \in held \cap Hash}]_vars
=============================================================================
