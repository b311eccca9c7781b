------------------------------ MODULE MCText ------------------------------
\* What queries are matched with: directives and variables (MCMatch), regular
\* expressions (MCRegexes), character classes, and streams; a behavior is about
\* one of these. The characters of classes lie in all the planes of a small code:
\* 16 to a block, 3 blocks, 9 and 27 to the nodes above it. Files of up to five
\* bytes drawn from those that start, continue or spoil a character, and texts of
\* up to four characters.
EXTENDS MCMatch, CharClasses

CONSTANTS Regexes, Texts, NFA_SET_SIZE

VARIABLES regex, prog, visited, job, regm, pos, at, out, answer, kind, source, strm, got

MCSpaces == <<3, 40, 47, 100>>
MCDigits == <<6, 8>>
MCUpper == <<9, 10>>
MCLower == <<12, 13>>

Bounds == {0, 7, 15, 20, 47, 100, 150, 431}
Items == {Range2(i, j) : i, j \in Bounds} \cup {Chr(i) : i \in {2, 47, 200}} \cup {Special(n) : n \in {"space", "digit", "word"}}
Class(items, comp) == [items |-> items, comp |-> comp]
MCClasses == {Class(<<i>>, FALSE) : i \in Items}
             \cup {Class(<<i, j>>, TRUE) : i \in Items, j \in {Range2(20, 150), Chr(2), Special("space")}}
             \cup {Class(<<Chr(i), Chr(i + 15), Special(n)>>, FALSE) : i \in 1 .. 6, n \in {"digit", "word"}}

MCTexts == UNION {[1 .. n -> {11, 12}] : n \in 0 .. 3} \cup {<<11, 11, 12, 11>>}

NL == 10
FileBytes == {NL, 128, 176, 195, 224, 237, 240, 244, 255}
Upto(S, n) == UNION {[1 .. k -> S] : k \in 0 .. n}
Starts == {224, 240, 244}
MCSources == ({"stdio"} \X Upto(FileBytes, 4))
             \cup ({"stdio"} \X {<<b>> \o s : b \in Starts, s \in [1 .. 4 -> FileBytes \ {255, 224}]})
             \cup ({"string_in"} \X Upto({NL, 97}, 5))
             \cup ({"byte_in"} \X Upto({97, 233, 8364, 128512, 56480}, 2))
             \cup ({"dir"} \X {<<97>>, <<195, 169>>})
MCStrings == {<<>>, <<NL>>, <<97>>, <<233>>, <<97, NL>>, <<NL, 97, 97>>}
MCBytes == {97, 128, 176, 195, 224, 244}

Stream == INSTANCE Streams WITH Sources <- MCSources, Strings <- MCStrings, Bytes <- MCBytes, NL <- NL, MaxPut <- 5, InitSize <- 2

Syntax == INSTANCE MCRegexes
MCRegexes == Syntax!MCRegexes
Rx == INSTANCE Regex WITH result <- answer

streams == <<kind, source, strm, got>>
regexes == <<regex, prog, visited, job, regm, pos, at, out, answer>>
None == <<>>
NoRegex == /\ regex = None /\ prog = None /\ visited = None /\ job = None /\ regm = None
           /\ pos = None /\ at = None /\ out = None /\ answer = None
NoClass == class = None /\ set = NoSet /\ added = None
NoStream == kind = None /\ source = None /\ strm = None /\ got = None
NoQuery == NoMatch /\ NoVars

TextInit ==
  \/ QueryInit /\ NoRegex /\ NoClass /\ NoStream
  \/ part = "regex" /\ Rx!Init /\ NoClass /\ NoStream /\ NoQuery
  \/ part = "class" /\ ClassInit /\ NoRegex /\ NoStream /\ NoQuery
  \/ part = "stream" /\ Stream!Init /\ NoRegex /\ NoClass /\ NoQuery
TextNext ==
  \/ QueryNext /\ UNCHANGED <<regexes, classvars, streams>>
  \/ part = "regex" /\ Rx!Next /\ UNCHANGED <<part, vars, variables, classvars, streams>>
  \/ part = "class" /\ ClassNext /\ UNCHANGED <<part, vars, variables, regexes, streams>>
  \/ part = "stream" /\ Stream!Next /\ UNCHANGED <<part, vars, variables, regexes, classvars>>
TextSpec == TextInit /\ [][TextNext]_<<part, vars, variables, regexes, classvars, streams>>

\* The properties of Regex: the two ways of running a regex agree with its
\* meaning, a search finds what it should, and its nodes are freed. That of
\* CharClasses (ClassHolds) says nothing when there is no set.
RegexRuns == part = "regex" => Rx!RunsAgree
RegexSearches == part = "regex" => Rx!SearchFinds
ClassFreed == part = "regex" => Rx!FreedWhole
\* Those of Streams: what is read is what is there, in order, and what is put
\* into a string or list stream can be had from it.
StreamInOrder == part = "stream" => Stream!ReadsInOrder
StreamKept == part = "stream" => Stream!OutputKept /\ Stream!ListIsLines
=============================================================================
