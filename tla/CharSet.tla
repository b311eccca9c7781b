------------------------------ MODULE CharSet ------------------------------
\* The character sets of regex.c. The smallest holds a bit for each of its
\* characters, in cells of CELL bits; the larger ones are trees whose leaves
\* are such blocks, an entry being null, full or a node of the level below.
EXTENDS Integers, Sequences

CONSTANTS CELL, CELLS,     \* the bits of a cell (32) and the cells of a block (8)
          FAN, FAN3,       \* the entries of a node (16) and of the highest (17)
          Spaces,          \* what \s stands for, in ascending order
          Digits, Upper, Lower, Underscore  \* what \d and \w do: three ranges and a character

ASSUME SetSizes == {CELL, CELLS, FAN, FAN3} \subseteq Nat \ {0, 1}

\* The characters one entry of a node at level k stands for; those of all codes
\* for k = 4.
Entry(k) ==
  IF k = 1 THEN CELL * CELLS
  ELSE IF k = 2 THEN (CELL * CELLS) * FAN
  ELSE IF k = 3 THEN ((CELL * CELLS) * FAN) * FAN
  ELSE (((CELL * CELLS) * FAN) * FAN) * FAN3
Fan(k) == IF k = 3 THEN FAN3 ELSE FAN
Index(k, ch) == (ch \div Entry(k)) % Fan(k)
Chars == 0 .. Entry(4) - 1

\* The special classes lie as they do in the code: \d and \w in the first block,
\* the digits before the letters, and their ranges are of more than one character.
ASSUME SpecialClasses ==
  /\ Spaces \in Seq(Nat) /\ Spaces # <<>>
  /\ \A i \in DOMAIN Spaces : Spaces[1] <= Spaces[i] /\ Spaces[i] <= Spaces[Len(Spaces)]
  /\ Spaces[Len(Spaces)] < Entry(3)
  /\ {Digits[1], Digits[2], Upper[1], Upper[2], Underscore, Lower[1], Lower[2]} \subseteq 0 .. Entry(1) - 1
  /\ Digits[1] < Digits[2] /\ Digits[2] < Upper[1] /\ Upper[1] < Upper[2] /\ Upper[2] < Underscore
  /\ Underscore < Lower[1] /\ Lower[1] < Lower[2]

Null == <<"null">>
Full == <<"full">>
Node(n) == <<"node", n>>
Blank(k) == IF k = 0 THEN {} ELSE [i \in 0 .. Fan(k) - 1 |-> Null]
IsFull(k, n) == IF k = 0 THEN n = 0 .. CELL * CELLS - 1 ELSE \A i \in DOMAIN n : n[i] = Full

\* Slip: the mask of the first cell is taken for that of the last as well.
FillFromFirst(block, ch0, ch1) ==
  LET cell(c, bits) == {c * CELL + b : b \in bits}
  IN  block \cup UNION {cell(c, (ch0 % CELL) .. CELL - 1) : c \in (ch0 \div CELL) .. (ch1 \div CELL)}

\* The mask of the last cell is empty when the range ends on its last bit.
L0_fill_range(block, ch0, ch1) ==
  LET cell(c, bits) == {c * CELL + b : b \in bits}
      bc0 == ch0 \div CELL
      bc1 == ch1 \div CELL
      mask0 == (ch0 % CELL) .. CELL - 1
      mask1 == 0 .. ((ch1 + 1) % CELL) - 1
  IN  IF bc0 = bc1 THEN block \cup cell(bc0, mask0 \cap mask1)
      ELSE block \cup cell(bc0, mask0) \cup cell(bc1, mask1)
                 \cup UNION {cell(c, 0 .. CELL - 1) : c \in bc0 + 1 .. bc1 - 1}

\* The entries of a node at level k that hold the ends of a range, and those
\* between them; what of ch0 to ch1 lies in an entry i at an end; and what hangs
\* below an entry, which is made when there is nothing.
Edges(k, ch0, ch1) == {Index(k, ch0), Index(k, ch1)}
Between(k, ch0, ch1) == Index(k, ch0) + 1 .. Index(k, ch1) - 1
LowEnd(k, i, ch0, ch1) == IF i = Index(k, ch0) THEN ch0 ELSE ch1 - (ch1 % Entry(k))
HighEnd(k, i, ch0, ch1) == IF i = Index(k, ch1) THEN ch1 ELSE ch0 - (ch0 % Entry(k)) + Entry(k) - 1
Below(k, e) == IF e \in {Null, Full} THEN Blank(k - 1) ELSE e[2]

\* The node once the entries at the ends have been filled, which are passed over
\* when they are full.
Fill(k, n, ch0, ch1, filled) ==
  [i \in DOMAIN n |->
     IF i \in Between(k, ch0, ch1) THEN Full
     ELSE IF i \notin Edges(k, ch0, ch1) \/ n[i] = Full THEN n[i]
     ELSE IF IsFull(k - 1, filled[i]) THEN Full ELSE Node(filled[i])]

L1_fill_range(n, ch0, ch1) ==
  Fill(1, n, ch0, ch1, [i \in Edges(1, ch0, ch1) |->
    L0_fill_range(Below(1, n[i]), LowEnd(1, i, ch0, ch1) % Entry(1), HighEnd(1, i, ch0, ch1) % Entry(1))])
L2_fill_range(n, ch0, ch1) ==
  Fill(2, n, ch0, ch1, [i \in Edges(2, ch0, ch1) |-> L1_fill_range(Below(2, n[i]), LowEnd(2, i, ch0, ch1), HighEnd(2, i, ch0, ch1))])
L3_fill_range(n, ch0, ch1) ==
  Fill(3, n, ch0, ch1, [i \in Edges(3, ch0, ch1) |-> L2_fill_range(Below(3, n[i]), LowEnd(3, i, ch0, ch1), HighEnd(3, i, ch0, ch1))])

\* Filling frees what an entry between the ends held, the mark of a full one
\* too, which no allocation returned.
FreesFull(k, n, ch0, ch1) == \E i \in Between(k, ch0, ch1) : n[i] = Full
L2_frees(n, ch0, ch1) ==
  \/ FreesFull(2, n, ch0, ch1)
  \/ \E i \in Edges(2, ch0, ch1) : n[i] # Full /\ FreesFull(1, Below(2, n[i]), LowEnd(2, i, ch0, ch1), HighEnd(2, i, ch0, ch1))
L3_frees(n, ch0, ch1) ==
  \/ FreesFull(3, n, ch0, ch1)
  \/ \E i \in Edges(3, ch0, ch1) : n[i] # Full /\ L2_frees(Below(3, n[i]), LowEnd(3, i, ch0, ch1), HighEnd(3, i, ch0, ch1))

L0_contains(n, ch) == (ch % Entry(1)) \in n
L1_contains(n, ch) == LET e == n[Index(1, ch)] IN e = Full \/ (e # Null /\ L0_contains(e[2], ch))
L2_contains(n, ch) == LET e == n[Index(2, ch)] IN e = Full \/ (e # Null /\ L1_contains(e[2], ch))
L3_contains(n, ch) == LET e == n[Index(3, ch)] IN e = Full \/ (e # Null /\ L2_contains(e[2], ch))

-----------------------------------------------------------------------------
Level(type) == IF type \in {"small", "displaced"} THEN 0 ELSE IF type = "large" THEN 2 ELSE 3

char_set_create(type, base) ==
  [type |-> type, comp |-> FALSE, base |-> IF type = "displaced" THEN base ELSE 0, n |-> Blank(Level(type)), bad |-> FALSE]

\* The bits of a block are set one by one; elsewhere a character is a range.
char_set_add(set, ch) ==
  [set EXCEPT !.n = IF set.type = "large" THEN L2_fill_range(set.n, ch, ch)
                    ELSE IF set.type = "xlarge" THEN L3_fill_range(set.n, ch, ch)
                    ELSE set.n \cup {ch - set.base}]

char_set_add_range(set, ch0, ch1) ==
  IF ch0 >= ch1 THEN set
  ELSE IF set.type = "large"
  THEN [set EXCEPT !.n = L2_fill_range(set.n, ch0, ch1), !.bad = set.bad \/ L2_frees(set.n, ch0, ch1)]
  ELSE IF set.type = "xlarge"
  THEN [set EXCEPT !.n = L3_fill_range(set.n, ch0, ch1), !.bad = set.bad \/ L3_frees(set.n, ch0, ch1)]
  ELSE [set EXCEPT !.n = L0_fill_range(set.n, ch0 - set.base, ch1 - set.base)]

char_set_add_str(set, str) ==
  LET sets[k \in 0 .. Len(str)] == IF k = 0 THEN set ELSE char_set_add(sets[k - 1], str[k])
  IN  sets[Len(str)]

char_set_compl(set) == [set EXCEPT !.comp = TRUE]

\* What a set holds before it is complemented.
Has(set, ch) ==
  /\ ch >= set.base /\ ch - set.base < Entry(Level(set.type) + 1)
  /\ IF set.type = "large" THEN L2_contains(set.n, ch)
     ELSE IF set.type = "xlarge" THEN L3_contains(set.n, ch)
     ELSE L0_contains(set.n, ch - set.base)
char_set_contains(set, ch) == Has(set, ch) # set.comp

\* The items of a class: characters, ranges, and the three special sets; and the
\* characters they name.
Chr(c) == <<"chr", c>>
Range2(c, d) == <<"range", c, d>>
Special(name) == <<"class", name>>
IsItem(item) ==
  \/ item[1] = "chr" /\ item[2] \in Chars /\ item = Chr(item[2])
  \/ item[1] = "range" /\ {item[2], item[3]} \subseteq Chars /\ item = Range2(item[2], item[3])
  \/ item \in {Special("space"), Special("digit"), Special("word")}
Names(item, ch) ==
  \/ item[1] = "chr" /\ ch = item[2]
  \/ item[1] = "range" /\ item[2] <= ch /\ ch <= item[3]
  \/ item = Special("space") /\ \E i \in DOMAIN Spaces : ch = Spaces[i]
  \/ item = Special("digit") /\ Digits[1] <= ch /\ ch <= Digits[2]
  \/ item = Special("word") /\ \/ Upper[1] <= ch /\ ch <= Upper[2]
                               \/ Lower[1] <= ch /\ ch <= Lower[2]
                               \/ ch = Underscore

\* The limits by which char_set_compile chooses the kind of set. For digits the
\* upper limit is set to 9, not to the character, which no kind depends on.
Widen(m, low, high) == [min |-> IF low < m.min THEN low ELSE m.min, max |-> IF high > m.max THEN high ELSE m.max]
Limits(m, item) ==
  IF item[1] = "chr" THEN Widen(m, item[2], item[2])
  ELSE IF item[1] = "range" THEN Widen(Widen(m, item[2], item[2]), item[3], item[3])
  ELSE IF item = Special("space") THEN Widen(m, Spaces[1], Spaces[Len(Spaces)])
  ELSE IF item = Special("digit") THEN [min |-> IF m.min > Digits[1] THEN 0 ELSE m.min, max |-> IF m.max < Digits[2] THEN 0 ELSE m.max]
  ELSE Widen(m, Upper[1], Lower[2])
LimitsOf(items) ==
  LET limits[k \in 0 .. Len(items)] == IF k = 0 THEN [min |-> Entry(4), max |-> 0] ELSE Limits(limits[k - 1], items[k])
  IN  limits[Len(items)]

Kind(m) ==
  IF m.max < Entry(1) THEN "small"
  ELSE IF m.max - m.min < Entry(1) THEN "displaced"
  ELSE IF m.max < Entry(3) THEN "large" ELSE "xlarge"
Start(items) == char_set_create(Kind(LimitsOf(items)), LimitsOf(items).min)

AddItem(set, item) ==
  IF item[1] = "chr" THEN char_set_add(set, item[2])
  ELSE IF item[1] = "range" THEN char_set_add_range(set, item[2], item[3])
  ELSE IF item = Special("space") THEN char_set_add_str(set, Spaces)
  ELSE IF item = Special("digit") THEN char_set_add_range(set, Digits[1], Digits[2])
  ELSE char_set_add(char_set_add_range(char_set_add_range(set, Upper[1], Upper[2]), Lower[1], Lower[2]), Underscore)

Added(items) ==
  LET sets[k \in 0 .. Len(items)] == IF k = 0 THEN Start(items) ELSE AddItem(sets[k - 1], items[k])
  IN  sets[Len(items)]
char_set_compile(items, comp) == IF comp THEN char_set_compl(Added(items)) ELSE Added(items)

\* init_special_char_sets
special(name) ==
  LET wide == name \in {"space", "cspace"}
      item == CASE wide -> Special("space") [] name \in {"digit", "cdigit"} -> Special("digit") [] OTHER -> Special("word")
  IN  [AddItem(char_set_create(IF wide THEN "large" ELSE "small", 0), item) EXCEPT !.comp = name \in {"cspace", "cdigit", "cword"}]
=============================================================================
