------------------------------ MODULE HashMap ------------------------------
\* What a hash table promises: a finite map from keys to values.
CONSTANTS Key, Value

VARIABLE map    \* a function from the keys present

Init == map = [k \in {} |-> {}]

Set(k, v) == map' = [x \in DOMAIN map \cup {k} |-> IF x = k THEN v ELSE map[x]]

Remove(k) == map' = [x \in DOMAIN map \ {k} |-> map[x]]

Next == \E k \in Key : Remove(k) \/ \E v \in Value : Set(k, v)

Spec == Init /\ [][Next]_map
=============================================================================
