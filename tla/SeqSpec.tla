------------------------------ MODULE SeqSpec ------------------------------
\* What the functions on sequences promise, whatever the sequences are made of:
\* the manual's indexing of ranges (txr.1:5435-5458), and sorting.
EXTENDS Integers, FiniteSets, SequencesExt

Nil == 90        \* the index nil
T == 91          \* the index t, one past the end

Clamp(i, n) == IF i < 0 THEN 0 ELSE IF i > n THEN n ELSE i
Start(n, from) == CASE from = Nil -> 0 [] from = T -> n [] OTHER -> Clamp(IF from < 0 THEN from + n ELSE from, n)
Stop(n, from, to) ==
  IF to \in {Nil, T} \/ (from < 0 /\ to = 0) THEN n ELSE Clamp(IF to < 0 THEN to + n ELSE to, n)

Sub(s, from, to) == SubSeq(s, Start(Len(s), from) + 1, Stop(Len(s), from, to))

\* What is left of s when the range has been replaced. The manual does not say
\* where the new items go when the range ends before it starts.
Replace(s, items, from, to) ==
  LET start == Start(Len(s), from)
      stop == Stop(Len(s), from, to)
      proper == start <= stop /\ (from = T => to \in {Nil, T})
  IN  {SubSeq(s, 1, cut) \o items \o SubSeq(s, stop + 1, Len(s)) : cut \in IF proper THEN {start} ELSE 0 .. start}

Permuted(s, r) == /\ Len(r) = Len(s)
                  /\ \A v \in {s[i] : i \in DOMAIN s} :
                       Cardinality({i \in DOMAIN s : s[i] = v}) = Cardinality({i \in DOMAIN r : r[i] = v})

\* r is s in an order that less, which may be strict or not, allows.
SortOf(s, r, less) == Permuted(s, r) /\ \A i, j \in DOMAIN r : i < j /\ <<r[j], r[i]>> \in less => <<r[i], r[j]>> \in less

Removed(s, S) == SelectSeq(s, LAMBDA v : v \notin S)
=============================================================================
