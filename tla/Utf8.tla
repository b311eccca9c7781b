-------------------------------- MODULE Utf8 --------------------------------
\* The conversions of utf8.c between bytes and characters. Characters and
\* bytes are numbers; a byte that is no part of a character is kept as one of
\* the characters U+DC00 to U+DCFF (FULL_UNICODE is defined).
EXTENDS Integers, Sequences

EOF == -1
Raw(b) == \hDC00 + b
IsRaw(c) == c \div 256 = \hDC
Continues(b) == b \in \h80 .. \hBF

\* What the first byte of a sequence says: how many more there are, the bits
\* it contributes, the least character that needs a sequence so long.
First(b, min4) ==
  CASE b < \h80            -> [more |-> 0, wch |-> b, min |-> 0]
    [] b \in \hC0 .. \hDF -> [more |-> 1, wch |-> b % 32, min |-> \h80]
    [] b \in \hE0 .. \hEF -> [more |-> 2, wch |-> b % 16, min |-> \h800]
    [] b \in \hF0 .. \hF4 -> [more |-> 3, wch |-> b % 8, min |-> min4]
    [] OTHER               -> [more |-> 0, wch |-> Raw(b), min |-> 0]

\* Slip: what decodes to U+DCxx passes.
IllFormedRange(c, min) == c < min \/ c > \h10FFFF
IllFormed(c, min) == c < min \/ IsRaw(c) \/ c > \h10FFFF

-----------------------------------------------------------------------------
\* utf8_from_uc: strings in memory, s, from its i-th byte on. The decoder d
\* remembers where to go back to: the byte after the first of a sequence.
From == [more |-> 0, wch |-> 0, min |-> 0, back |-> 1]

RECURSIVE utf8_from_uc(_, _, _)
utf8_from_uc(s, i, d) ==
  LET At(j) == IF j > Len(s) THEN 0 ELSE s[j]
      ch == At(i)
      wch == d.wch * 64 + (ch % 64)
      Return(c, j, e) == <<c>> \o utf8_from_uc(s, j, e)
      Retreat == Return(Raw(At(d.back)), d.back, From)
      Start(l) == IF l.more = 0 THEN Return(l.wch, i + 1, From)
                  ELSE utf8_from_uc(s, i + 1, [more |-> l.more, wch |-> l.wch, min |-> l.min, back |-> i + 1])
  IN  CASE d.more = 0 /\ ch = 0                           -> <<>>
        [] d.more = 0 /\ ch # 0                           -> Start(First(ch, \h10000))
        [] d.more > 0 /\ ~Continues(ch)                   -> Retreat
        [] d.more = 1 /\ Continues(ch) /\ IllFormed(wch, d.min) -> Retreat
        [] d.more = 1 /\ Continues(ch) /\ ~IllFormed(wch, d.min) -> Return(wch, i + 1, From)
        [] d.more > 1 /\ Continues(ch)                    -> utf8_from_uc(s, i + 1, [d EXCEPT !.more = @ - 1, !.wch = wch])

string_utf8(s) == utf8_from_uc(s, 1, From)

-----------------------------------------------------------------------------
\* utf8_to_uc and utf8_encode: the bytes of a character.
Low(c, k) == \h80 + ((c \div 64 ^ k) % 64)

utf8_encode(c) ==
  CASE c < \h80                    -> <<c>>
    [] c \in \h80 .. \h7FF         -> <<\hC0 + c \div 64, Low(c, 0)>>
    [] c \in \h800 .. \hFFFF /\ IsRaw(c) -> <<c % 256>>
    [] c \in \h800 .. \hFFFF /\ ~IsRaw(c) -> <<\hE0 + c \div 64 ^ 2, Low(c, 1), Low(c, 0)>>
    [] c \in \h10000 .. \h10FFFF   -> <<\hF0 + c \div 64 ^ 3, Low(c, 2), Low(c, 1), Low(c, 0)>>

RECURSIVE utf8_to_uc(_)
utf8_to_uc(cs) == IF cs = <<>> THEN <<>> ELSE utf8_encode(Head(cs)) \o utf8_to_uc(Tail(cs))

-----------------------------------------------------------------------------
\* utf8_decode: streams. The decoder keeps the bytes it has taken in a ring,
\* from the first one of the current character (back) to the next one to look
\* at (tail); those between tail and head it has backed out of.
Ring == 8

utf8_decoder_init == [more |-> 0, wch |-> 0, min |-> 0, head |-> 0, tail |-> 0, back |-> 0,
                      buf |-> [i \in 0 .. Ring - 1 |-> 0]]

\* The next byte, of those it has backed out of or of the stream in.
NextByte(ud, in) ==
  LET Step(i) == (i + 1) % Ring
      ch == IF in = <<>> THEN EOF ELSE Head(in)
  IN  IF ud.tail # ud.head
      THEN [ch |-> ud.buf[ud.tail], ud |-> [ud EXCEPT !.tail = Step(@)], in |-> in]
      ELSE [ch |-> ch, in |-> IF in = <<>> THEN in ELSE Tail(in),
            ud |-> [ud EXCEPT !.buf[ud.head] = ch, !.head = Step(@), !.tail = Step(ud.head)]]

\* One call: the character, and what is left of the decoder and the stream.
RECURSIVE utf8_decode(_, _)
utf8_decode(ud0, in0) ==
  LET After(n) ==
        LET ud == n.ud
            wch == ud.wch * 64 + (n.ch % 64)
            next == (ud.back + 1) % Ring
            Return(c, d) == [ch |-> c, ud |-> d, in |-> n.in]
            Retreat == Return(Raw(ud.buf[ud.back]), [ud EXCEPT !.tail = next, !.back = next, !.more = 0])
            Start(l) == IF l.more = 0 THEN Return(l.wch, [ud EXCEPT !.back = ud.tail])
                        ELSE utf8_decode([ud EXCEPT !.more = l.more, !.wch = l.wch, !.min = l.min], n.in)
        IN  CASE ud.more = 0 /\ n.ch = EOF                          -> Return(EOF, ud)
              [] ud.more = 0 /\ n.ch # EOF                          -> Start(First(n.ch, \h100000))
              [] ud.more > 0 /\ ~Continues(n.ch)                    -> Retreat
              [] ud.more = 1 /\ Continues(n.ch) /\ IllFormed(wch, ud.min) -> Retreat
              [] ud.more = 1 /\ Continues(n.ch) /\ ~IllFormed(wch, ud.min) ->
                   Return(wch, [ud EXCEPT !.back = ud.tail, !.more = 0, !.wch = wch])
              [] ud.more > 1 /\ Continues(n.ch)                     ->
                   utf8_decode([ud EXCEPT !.more = @ - 1, !.wch = wch], n.in)
  IN  After(NextByte(ud0, in0))

-----------------------------------------------------------------------------
\* The reference (txr.1, "Invalid bytes in data are treated as follows"): the
\* character at the start of s is the one whose encoding stands there, when
\* there is one, and otherwise the first byte alone. Characters that take four
\* bytes are taken to start at min4.
Bits(s, k) == LET m == 2 ^ (7 - k)
              IN  CASE k = 1 -> s[1]
                    [] k = 2 -> (s[1] % m) * 64 + (s[2] % 64)
                    [] k = 3 -> (s[1] % m) * 64 ^ 2 + (s[2] % 64) * 64 + (s[3] % 64)
                    [] k = 4 -> (s[1] % m) * 64 ^ 3 + (s[2] % 64) * 64 ^ 2 + (s[3] % 64) * 64 + (s[4] % 64)

Stands(s, k, min4) == /\ k <= Len(s)
                      /\ LET c == Bits(s, k)
                         IN  /\ c <= \h10FFFF /\ ~IsRaw(c) /\ (k = 4 => c >= min4)
                             /\ utf8_encode(c) = SubSeq(s, 1, k)

RECURSIVE Extract(_, _)
Extract(s, min4) ==
  IF s = <<>> THEN <<>>
  ELSE LET ks == {k \in 1 .. 4 : Stands(s, k, min4)}
       IN  IF ks = {} THEN <<Raw(s[1])>> \o Extract(Tail(s), min4)
           ELSE LET k == CHOOSE k \in ks : TRUE
                IN  <<Bits(s, k)>> \o Extract(SubSeq(s, k + 1, Len(s)), min4)
=============================================================================
