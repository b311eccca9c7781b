---------------------------- MODULE CharClasses ----------------------------
\* How char_set_compile builds the set of a class: by its items, one after the
\* other, once it has chosen the kind of set that has room for all of them.
EXTENDS CharSet

CONSTANT Classes  \* the character classes, as the parser gives them

VARIABLES class,  \* the class: [items, comp]
          set,    \* its set, when it has one
          added   \* how many of the items are in it

ASSUME ClassesAreItems ==
  \A c \in Classes : /\ c = [items |-> c.items, comp |-> c.comp] /\ c.comp \in BOOLEAN
                     /\ Len(c.items) \in Nat /\ DOMAIN c.items = 1 .. Len(c.items)
                     /\ \A k \in DOMAIN c.items : IsItem(c.items[k])

classvars == <<class, set, added>>

NoSet == [type |-> "none"]

ClassInit == class \in Classes /\ set = NoSet /\ added = 0

\* char_set_create, when the limits of all items are known.
Create == set = NoSet /\ set' = Start(class.items) /\ UNCHANGED <<class, added>>

AddNext ==
  /\ set # NoSet /\ added < Len(class.items)
  /\ set' = AddItem(set, class.items[added + 1])
  /\ added' = added + 1
  /\ UNCHANGED class

Complement ==
  /\ set # NoSet /\ added = Len(class.items) /\ class.comp /\ ~ set.comp
  /\ set' = char_set_compl(set)
  /\ UNCHANGED <<class, added>>

ClassNext == Create \/ AddNext \/ Complement
ClassSpec == ClassInit /\ [][ClassNext]_classvars

-----------------------------------------------------------------------------
\* The character is the last of a cell, or its cell the last of a block.
LastOfCell(ch) == (ch + 1) % CELL = 0
InLastCell(ch) == (ch \div CELL + 1) % CELLS = 0

\* What an item adds by ranges, and what it adds one by one.
Ranges(item) ==
  IF item[1] = "range" THEN {<<item[2], item[3]>>}
  ELSE IF item = Special("digit") THEN {<<Digits[1], Digits[2]>>}
  ELSE IF item = Special("word") THEN {<<Upper[1], Upper[2]>>, <<Lower[1], Lower[2]>>}
  ELSE {}
Single(item, ch) == item[1] = "chr" \/ item = Special("space") \/ (item = Special("word") /\ ch = Underscore)

\* What a set of this type and base may miss of a range: all of it when it is of one
\* character; what it has in the cell that it ends with when it ends with the
\* last bit of that; and in a tree, where a range of several blocks is filled to the end
\* of each, what it has in the last cell of any block but its last.
MissedOf(type, base, low, high, ch) ==
  \/ low = high
  \/ LastOfCell(high - base) /\ (ch - base) \div CELL = (high - base) \div CELL
  \/ Level(type) > 0 /\ InLastCell(ch) /\ ch \div Entry(1) < high \div Entry(1)

\* What it may miss of an item: in a tree, single characters are ranges.
Misses(type, base, item, ch) ==
  \/ Level(type) > 0 /\ LastOfCell(ch) /\ Single(item, ch)
  \/ \E r \in Ranges(item) : r[1] <= ch /\ ch <= r[2] /\ MissedOf(type, base, r[1], r[2], ch)

\* A class matches no character that it does not name, whatever mixture of
\* single characters, ranges and classes it is made of and whichever kind of set
\* that takes, and it matches each one that it names but those that
\* L0_fill_range misses and the range of a single character, which is dropped.
HoldsNamed ==
  \A ch \in Chars :
    IF char_set_contains(set, ch) # set.comp
    THEN \E k \in 1 .. added : Names(class.items[k], ch)
    ELSE \A k \in 1 .. added : Names(class.items[k], ch) => Misses(set.type, set.base, class.items[k], ch)

\* Building the set frees the mark of a full entry only when a range names a
\* character that an earlier item has named.
FreesOnOverlap ==
  set.bad => \E j \in 1 .. added : \E i \in 1 .. j - 1, ch \in Chars : Names(class.items[i], ch) /\ Names(class.items[j], ch)

\* When all items are in it and a complemented class has been complemented, the
\* set is the one that the regular expressions are compiled with.
BuiltWhole == added = Len(class.items) /\ set.comp = class.comp => set = char_set_compile(class.items, class.comp)

\* The set has room for every character that the class names, which is what the
\* assertions of char_set_add and char_set_add_range say.
Room(type, base, ch) == base <= ch /\ ch - base < Entry(Level(type) + 1)
HasRoom == \A k \in DOMAIN class.items, ch \in Chars : Names(class.items[k], ch) => Room(set.type, set.base, ch)

\* All of this, of the set of every class at every point of its making.
ClassHolds == set # NoSet => HoldsNamed /\ FreesOnOverlap /\ BuiltWhole /\ HasRoom
=============================================================================
