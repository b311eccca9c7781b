----------------------------- MODULE HashTable -----------------------------
(***************************************************************************)
(* The chained hash tables of hash.c: insertion, growth, removal, and an   *)
(* iteration (hash_begin, hash_next) that goes on while the program does   *)
(* all that.                                                               *)
(*                                                                         *)
(* A chain is a list of conses whose car is an entry (key . value).  A     *)
(* table never holds two entries of one key, so an entry is named by its   *)
(* key, and a cons by its key and a serial number: remhash copies the      *)
(* conses in front of the one it removes, and an iterator may be left with *)
(* the originals.  The cdr of a cons changes only when the table grows, so *)
(* the iterator's cons stands for the list that starts there.              *)
(***************************************************************************)
EXTENDS Integers, Sequences, FiniteSets, SequencesExt

CONSTANTS
  Key, Value,
  HashFun,        \* hash_fun: the hash of every key
  Modulus0,       \* initial number of chains (256 in make_hash)
  MaxModulus,     \* bound: no growth beyond this many chains
  Serial          \* bound: the copies of a cons told apart

None == [chain |-> -1, rest |-> <<>>, on |-> FALSE]

VARIABLES
  table,     \* table[i]: chain i, for i < modulus
  count,
  value,     \* value in the entry of each key present
  iter,      \* hash_iter: chain and cons (the list from there); on: in use
  visited,   \* history: how often the iteration has returned each key
  steady,    \* history: keys present since the iteration began
  grown      \* history: has the table grown since then?

tablevars == <<table, count, value, iter, visited, steady, grown>>

\* Keys have hashes, which are not negative, and a table has chains.
KeysAreHashed == HashFun \in [Key -> Nat] /\ Modulus0 \in Nat \ {0}

modulus == Cardinality(DOMAIN table)
Index(k) == HashFun[k] % modulus

Keys(chain) == {chain[i][1] : i \in 1 .. Len(chain)}
Present == UNION {Keys(table[i]) : i \in DOMAIN table}
Conses == UNION {Range(table[i]) : i \in DOMAIN table}

TableInit ==
  /\ table = [i \in 0 .. Modulus0 - 1 |-> <<>>]
  /\ count = 0
  /\ value = [k \in {} |-> {}]
  /\ iter = None
  /\ visited = [k \in Key |-> 0] /\ steady = {} /\ grown = FALSE

-----------------------------------------------------------------------------
\* assoc_fun(key, chain) finds an entry.
Found(k) == k \in Keys(table[Index(k)])

\* A cons that neither the table nor the iterator holds.
Fresh(k) == <<k, CHOOSE s \in Serial : <<k, s>> \notin Conses \cup Range(iter.rest)>>

\* What is pushed onto the new chain j as hash_grow() goes through an old one.
Relinked(chain, new, j) ==
  LET after[n \in 0 .. Len(chain)] ==
        IF n = 0 THEN <<>>
        ELSE IF HashFun[chain[n][1]] % new = j THEN <<chain[n]>> \o after[n - 1]
        ELSE after[n - 1]
  IN  after[Len(chain)]

\* The new chains of hash_grow(): every cons of every old chain is pushed in
\* front of the chain it now belongs to.
Relink(t, m, new) == [j \in 0 .. new - 1 |-> Relinked(t[j % m], new, j)]

\* The list from a cons on, once the conses of the table t are relinked: it
\* goes by the old links up to the first cons that is in the table.
Follow(rest, t) ==
  LET held == {i \in 1 .. Len(rest) : \E j \in DOMAIN t : Contains(t[j], rest[i])}
  IN  IF held = {} THEN rest
      ELSE LET i == Min(held)
               j == CHOOSE j \in DOMAIN t : Contains(t[j], rest[i])
               n == CHOOSE n \in 1 .. Len(t[j]) : t[j][n] = rest[i]
           IN  SubSeq(rest, 1, i - 1) \o SubSeq(t[j], n, Len(t[j]))

\* hash_grow(), applied to the table t that has just received a cons.
Grow(t) ==
  LET new == Relink(t, modulus, 2 * modulus)
  IN  /\ table' = new
      /\ iter' = [iter EXCEPT !.rest = Follow(iter.rest, new)]
      /\ grown' = TRUE

MustGrow(n) == n > 2 * modulus

\* sethash(): gethash_l finds or makes the entry, then its value is set.
SetHash(k, v) ==
  /\ value' = [x \in DOMAIN value \cup {k} |-> IF x = k THEN v ELSE value[x]]
  /\ \/ Found(k) /\ UNCHANGED <<table, count, iter, grown>>
     \/ /\ ~Found(k)
        /\ MustGrow(count + 1) => 2 * modulus <= MaxModulus
        /\ count' = count + 1
        /\ LET t == [table EXCEPT ![Index(k)] = <<Fresh(k)>> \o @]
           IN  \/ MustGrow(count + 1) /\ Grow(t)
               \/ ~MustGrow(count + 1) /\ table' = t /\ UNCHANGED <<iter, grown>>
  /\ UNCHANGED <<visited, steady>>

\* Slip: what follows the removed cons goes with it.
SplicedShort(chain, i) == [j \in 1 .. i - 1 |-> Fresh(chain[j][1])]

\* nappend2(ldiff(chain, loc), cdr(loc)), where loc is the cons at i: the
\* conses in front are copied, those after it shared.
Spliced(chain, i) ==
  [j \in 1 .. i - 1 |-> Fresh(chain[j][1])] \o SubSeq(chain, i + 1, Len(chain))

\* What remhash() does to the table for a key that it found.
Unlinked(k) ==
  LET chain == table[Index(k)]
      i == CHOOSE i \in 1 .. Len(chain) : chain[i][1] = k
  IN  [table EXCEPT ![Index(k)] = Spliced(chain, i)]

\* Slip: the counter is left alone.
RemHashNoCount(k) ==
  /\ table' = IF Found(k) THEN Unlinked(k) ELSE table
  /\ value' = Restrict(value, DOMAIN value \ {k})
  /\ steady' = steady \ {k}
  /\ UNCHANGED <<count, iter, visited, grown>>

RemHash(k) ==
  /\ \/ ~Found(k) /\ UNCHANGED <<table, count>>
     \/ Found(k) /\ table' = Unlinked(k) /\ count' = count - 1
  /\ value' = Restrict(value, DOMAIN value \ {k})
  /\ steady' = steady \ {k}
  /\ UNCHANGED <<iter, visited, grown>>

HashBegin ==
  /\ iter' = [None EXCEPT !.on = TRUE]
  /\ visited' = [k \in Key |-> 0] /\ steady' = Present /\ grown' = FALSE
  /\ UNCHANGED <<table, count, value>>

\* The chains hash_next() goes on to when it is at the end of one.
Ahead == {j \in DOMAIN table : j > iter.chain /\ table[j] # <<>>}

\* Slip: after a chain, the search goes on one chain too far.
AdvanceSkip ==
  LET rest == IF iter.rest = <<>> THEN <<>> ELSE Tail(iter.rest)
      ahead == {j \in DOMAIN table : j > iter.chain + 1 /\ table[j] # <<>>}
  IN  IF rest # <<>> THEN [iter EXCEPT !.rest = rest]
      ELSE IF ahead # {}
        THEN [chain |-> Min(ahead), rest |-> table[Min(ahead)], on |-> TRUE]
        ELSE [chain |-> modulus, rest |-> <<>>, on |-> FALSE]

\* The iterator after hash_next(), which returns the entry it is then at.
Advance ==
  LET rest == IF iter.rest = <<>> THEN <<>> ELSE Tail(iter.rest)
  IN  IF rest # <<>> THEN [iter EXCEPT !.rest = rest]
      ELSE IF Ahead # {}
        THEN [chain |-> Min(Ahead), rest |-> table[Min(Ahead)], on |-> TRUE]
        ELSE [chain |-> modulus, rest |-> <<>>, on |-> FALSE]

HashNext ==
  /\ iter.on
  /\ iter' = Advance
  /\ IF iter'.on
       THEN LET k == iter'.rest[1][1]
            IN  visited' = [visited EXCEPT ![k] = IF @ = 2 THEN 2 ELSE @ + 1]
       ELSE UNCHANGED visited
  /\ UNCHANGED <<table, count, value, steady, grown>>

TableNext ==
  \/ \E k \in Key, v \in Value : SetHash(k, v)
  \/ \E k \in Key : RemHash(k)
  \/ HashBegin \/ HashNext

TableSpec == TableInit /\ [][TableNext]_tablevars

-----------------------------------------------------------------------------
\* The table implements a map: gethash finds, by the chain the key hashes
\* to, just the values that were set and not removed.
Map == INSTANCE HashMap WITH map <- Restrict(value, {k \in Key : Found(k)})
ImplementsMap == Map!Spec

\* count is the number of entries, and there are never more than two for
\* each chain.
CountExact ==
  /\ count = Cardinality(Conses)
  /\ count <= 2 * modulus

\* Every entry that stays in the table from hash_begin to the end of the
\* iteration is returned exactly once, whatever is inserted or removed
\* meanwhile, unless the table has grown.
VisitedOnce ==
  /\ ~grown => \A k \in steady : visited[k] <= 1
  /\ ~grown /\ iter # None /\ ~iter.on => \A k \in steady : visited[k] = 1
=============================================================================
