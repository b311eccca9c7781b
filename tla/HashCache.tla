----------------------------- MODULE HashCache -----------------------------
(***************************************************************************)
(* The cache in front of equal_hash (hash.c): last_equal_key is the object *)
(* last hashed, last_equal_hash what came out.  The two are not protected  *)
(* from the collector, which empties the cache instead, and are written by *)
(* equal_hash for every object it comes across, parts of others included,  *)
(* and by eql_hash for the hash alone.                                     *)
(***************************************************************************)
EXTENDS Integers, SequencesExt

CONSTANTS
  Str, Flo, Pair,   \* objects that can be strings, floating-point numbers, conses
  Content,          \* contents of a string or number
  ContentHash,      \* hash_c_str, hash_double
  nil, Free         \* Free: storage that holds no object

Atom == Str \cup Flo
Obj == Atom \cup Pair
NUM_MAX == -1     \* stands for the hash of nil, unlike all others here

VARIABLES
  what,              \* of an atom the contents, of a cons car and cdr, or Free
  last_equal_key,
  last_equal_hash,
  wrong              \* history: has a call returned another hash than the right one?

vars == <<what, last_equal_key, last_equal_hash, wrong>>

\* A value of the two, and the step that leaves them with it.
cache == <<last_equal_key, last_equal_hash>>
SetCache(c) == last_equal_key' = c[1] /\ last_equal_hash' = c[2]

Allocated == {o \in Obj : what[o] # Free}

Init ==
  /\ what = [o \in Obj |-> Free]
  /\ last_equal_key = nil /\ last_equal_hash = NUM_MAX
  /\ wrong = FALSE

-----------------------------------------------------------------------------
\* What the functions compute without the cache.
AtomHash(o) == ContentHash[what[o]]
TrueHash(o) ==
  CASE o = nil -> NUM_MAX
    [] o \in Atom -> AtomHash(o)
    [] o \in Pair -> AtomHash(what[o][1]) + AtomHash(what[o][2])

\* equal_hash() of an atom, as a function from the cache to the cache; what
\* it returns is then the hash in the cache.
EqualHash(c, o) == IF c[1] = o THEN c ELSE <<o, AtomHash(o)>>

\* equal_hash() of an atom.
HashAtom(o) ==
  /\ o \in Allocated
  /\ SetCache(EqualHash(cache, o))
  /\ wrong' = (wrong \/ last_equal_hash' # TrueHash(o))
  /\ UNCHANGED what

\* equal_hash() of a cons.  C leaves it to the compiler which of the two
\* operands of the addition is evaluated first.
HashCons(p) ==
  /\ p \in Allocated
  /\ \/ /\ last_equal_key = p
        /\ UNCHANGED cache
     \/ /\ last_equal_key # p
        /\ \E parts \in {what[p], Reverse(what[p])} :
             LET first == EqualHash(<<p, last_equal_hash>>, parts[1])
                 second == EqualHash(first, parts[2])
             IN  SetCache(<<second[1], first[2] + second[2]>>)
  /\ wrong' = (wrong \/ last_equal_hash' # TrueHash(p))
  /\ UNCHANGED what

\* eql_hash() of a number outside the fixnum range or a floating-point one.
EqlHash(o) ==
  /\ o \in Flo \cap Allocated
  /\ last_equal_hash' = IF o = last_equal_key THEN last_equal_hash ELSE AtomHash(o)
  /\ wrong' = (wrong \/ last_equal_hash' # TrueHash(o))
  /\ UNCHANGED <<what, last_equal_key>>

-----------------------------------------------------------------------------
NewAtom(o, c) ==
  /\ o \notin Allocated
  /\ what' = [what EXCEPT ![o] = c]
  /\ UNCHANGED <<last_equal_key, last_equal_hash, wrong>>

NewCons(p, a, b) ==
  /\ p \notin Allocated /\ {a, b} \subseteq Allocated
  /\ what' = [what EXCEPT ![p] = <<a, b>>]
  /\ UNCHANGED <<last_equal_key, last_equal_hash, wrong>>

\* A collection that reclaims the objects of dead: hash_process_weak() first
\* lapses the cache.
Gc(dead) ==
  /\ dead \subseteq Allocated /\ dead # {}
  /\ \A p \in (Pair \cap Allocated) \ dead : Range(what[p]) \cap dead = {}
  /\ what' = [o \in Obj |-> IF o \in dead THEN Free ELSE what[o]]
  /\ last_equal_key' = nil /\ last_equal_hash' = NUM_MAX
  /\ UNCHANGED wrong

\* Strings that are changed in place (string_extend, chr_str_set) are left
\* out: they too keep their hash in the cache.
Next ==
  \/ \E o \in Atom, c \in Content : NewAtom(o, c)
  \/ \E p \in Pair, a, b \in Atom : NewCons(p, a, b)
  \/ \E o \in Atom : HashAtom(o)
  \/ \E p \in Pair : HashCons(p)
  \/ \E o \in Flo : EqlHash(o)
  \/ \E dead \in SUBSET Obj : Gc(dead)

Spec == Init /\ [][Next]_vars

-----------------------------------------------------------------------------
\* No call ever returns another hash than that of the contents.
NeverWrong == ~wrong
=============================================================================
