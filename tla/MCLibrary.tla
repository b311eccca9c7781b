----------------------------- MODULE MCLibrary -----------------------------
\* Three parts of the library, of which a behavior is about one: arithmetic with
\* cnums of six bits; lists; and a hash table with three keys on one chain, two of
\* which stay together when it grows. Programs of one call on lists try every
\* range of short ones; those of two and three calls share, flatten and take
\* apart what the first ones made.
EXTENDS Arith, HashTable, TLC

CONSTANTS k1, k2, k3

VARIABLES part, h, var, tokens, used

MCOperands == {-9, -8, -7, -3, -1, 0, 1, 2, 6, 7, 8, 9, 20}
MCFloats == {-2, 0, 9}

Flat(n) == UNION {[1 .. k -> {<<-1>>, <<-2>>}] : k \in 0 .. n}
Nested == {<<<<0>>, <<-1>>>>, <<<<0, -1, 0>>, <<-2>>>>, <<<<-1>>, <<0, 0>>, <<0, -2>>>>, <<<<0, 0, -1>>>>, <<<<0, -1, -2>>, <<0>>, <<-1>>>>}
Unsorted == {[i \in 1 .. 4 |-> <<p[i]>>] : p \in {<<-3, -1, -2, -1>>, <<-2, -3, -1, -3>>}}
Some == {<<<<-1>>>>, <<<<-2>>, <<-1>>>>, <<<<-1>>, <<-2>>, <<-1>>>>}
MCLists0 == (Flat(3) \X {<<>>, <<<<-3>>>>} \X {1}) \cup (Some \X ({<<>>} \cup Some) \X {2})
            \cup ((Nested \cup Unsorted) \X {<<>>, <<<<-1>>>>} \X {2})
            \cup {<<<<<<-2>>, <<-1>>>>, <<<<-1>>>>, 3>>}
MCRemoves == {{-1}, {-1, -2}}
MCOrders == {{<<a, b>> \in (-3 .. -1) \X (-3 .. -1) : a < b}, {<<a, b>> \in (-3 .. -1) \X (-3 .. -1) : a >= b}}
S == INSTANCE SeqSpec
Ix == {-5, -3, -1, 0, 1, 3, 5, S!Nil, S!T}
MCRanges(n) == IF n = 1 THEN Ix \X Ix ELSE {<<1, 2>>, <<-1, S!T>>, <<S!Nil, 1>>, <<2, 0>>}
List == INSTANCE Lists WITH Lists0 <- MCLists0, Removes <- MCRemoves, Orders <- MCOrders, Ranges <- MCRanges, MaxLen <- 5, value <- tokens, call <- used

MCHashFun == (k1 :> 0) @@ (k2 :> 2) @@ (k3 :> 1)
ASSUME HashAssumption == KeysAreHashed

lists == <<h, var, tokens, used>>
Unused == <<>>

NoArith == double = TRUE /\ call = Ready(Fix(0))
NoLists == h = Unused /\ var = Unused /\ tokens = Unused /\ used = Unused

LibraryInit ==
  \/ part = "arith" /\ Init /\ NoLists /\ TableInit
  \/ part = "lists" /\ List!Init /\ NoArith /\ TableInit
  \/ part = "hash" /\ TableInit /\ NoArith /\ NoLists
LibraryNext ==
  \/ part = "arith" /\ Next /\ UNCHANGED <<part, lists, tablevars>>
  \/ part = "lists" /\ List!Next /\ UNCHANGED <<part, vars, tablevars>>
  \/ part = "hash" /\ TableNext /\ UNCHANGED <<part, vars, lists>>
LibrarySpec == LibraryInit /\ [][LibraryNext]_<<part, vars, lists, tablevars>>

\* The properties of Arith (OneRepresentation, ArithExact) and of HashTable
\* (CountExact, VisitedOnce, ImplementsMap) are stated there: in behaviors about
\* another part the last call stays a call of nothing, and the table as it was made.
\* Those of Lists are about the behaviors of lists.
ImplementsLists == [][part = "lists" => List!Promise]_<<part, lists>>
AppendCopies == [][part = "lists" => List!AppendAsPromised]_<<part, lists>>
=============================================================================
