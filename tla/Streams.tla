------------------------------ MODULE Streams ------------------------------
\* The streams of stream.c. A behaviour is the life of one stream: one to read
\* from, over the bytes or characters in source, or one to write to, where
\* source grows with what has been put: for a string list stream a text, for a
\* string stream bytes, in runs that each call for a whole string ends.
EXTENDS Utf8, SequencesExt

CONSTANTS Sources,   \* pairs of a kind of stream and a source to read from
          Strings,   \* what put_string may be given
          Bytes,     \* what put_byte may be given
          MaxPut,    \* how many puts a stream gets
          InitSize,  \* the first size of a string output stream (128)
          NL         \* the newline

VARIABLES kind, source, strm, got

vars == <<kind, source, strm, got>>

String(s) == [line |-> TRUE, text |-> s]
Char(c) == [line |-> FALSE, text |-> <<c>>]
Nil == [line |-> FALSE, text |-> <<>>]

-----------------------------------------------------------------------------
\* The position of a character in a string from pos on, or its length.
find_char(s, pos, c) ==
  LET at == {i \in pos .. Len(s) - 1 : s[i + 1] = c}
  IN  IF at = {} THEN Len(s) ELSE CHOOSE i \in at : \A j \in at : i <= j

\* make_string_output_stream
StringOutput == [buf |-> <<>>, size |-> InitSize, byte_buf |-> <<>>, open |-> TRUE]

RECURSIVE Grow(_, _)
Grow(size, required) == IF size <= required THEN Grow(2 * size, required) ELSE size

\* The copy that string_out_put_string makes once the bytes are flushed.
OutCopy(so, s) == [so EXCEPT !.size = Grow(@, Len(s) + Len(so.buf) + 1), !.buf = @ \o s]

\* Slip: the bytes after the first character are taken for used up.
FlushWhole(so) ==
  LET r == utf8_decode(utf8_decoder_init, so.byte_buf)
  IN  OutCopy([so EXCEPT !.byte_buf = <<>>], <<r.ch>>)

\* string_out_byte_flush: one character, by a decoder that is then cleared.
string_out_byte_flush(so) ==
  LET r == utf8_decode(utf8_decoder_init, so.byte_buf)
  IN  OutCopy([so EXCEPT !.byte_buf = r.in], <<r.ch>>)

RECURSIVE FlushBytes(_)
FlushBytes(so) == IF so.byte_buf = <<>> THEN so ELSE FlushBytes(string_out_byte_flush(so))

string_out_put_string(so, s) == IF so.open THEN OutCopy(FlushBytes(so), s) ELSE so

string_out_put_byte(so, b) ==
  LET one == [so EXCEPT !.byte_buf = Append(@, b)]
  IN  IF Len(one.byte_buf) >= 4 THEN string_out_byte_flush(one) ELSE one

get_string_from_stream(so) == FlushBytes(so).buf

\* The list that a string list stream collects, with the stream for the line
\* at hand, as they are after s.
NewLine(l) == [lines |-> <<get_string_from_stream(l.out)>> \o l.lines, out |-> StringOutput]

RECURSIVE strlist_out_put_string(_, _)
strlist_out_put_string(l, s) ==
  LET span == find_char(s, 0, NL)
      put == [l EXCEPT !.out = string_out_put_string(@, SubSeq(s, 1, span))]
  IN  IF s = <<>> THEN l
      ELSE IF span = Len(s) THEN put
      ELSE strlist_out_put_string(NewLine(put), SubSeq(s, span + 2, Len(s)))

strlist_out_put_char(l, c) == IF c = NL THEN NewLine(l) ELSE [l EXCEPT !.out = string_out_put_string(@, <<c>>)]

get_list_from_stream(l) ==
  LET stray == get_string_from_stream(l.out)
  IN  Reverse(IF stray = <<>> THEN l.lines ELSE <<stray>> \o l.lines)

-----------------------------------------------------------------------------
\* The make_ functions, and what makes a name of a directory entry.
Make(k, s) ==
  CASE k = "stdio"       -> [ud |-> utf8_decoder_init, in |-> s]
    [] k = "dir"         -> s
    [] k = "string_in"   -> [string |-> s, pos |-> 0]
    [] k = "byte_in"     -> [buf |-> utf8_to_uc(s), index |-> 0]
    [] k = "string_out"  -> StringOutput
    [] k = "strlist_out" -> [lines |-> <<>>, out |-> StringOutput]

Init == /\ \E c \in Sources \cup {<<"string_out", << <<>> >> >>, <<"strlist_out", <<>> >>} : kind = c[1] /\ source = c[2]
        /\ strm = Make(kind, source)
        /\ got = <<>>

Reads(k) == kind = k /\ (got # <<>> => Last(got) # Nil)
Read(r, s) == got' = Append(got, r) /\ strm' = s /\ UNCHANGED <<kind, source>>

StdioGetChar == /\ Reads("stdio")
                /\ LET r == utf8_decode(strm.ud, strm.in)
                   IN  Read(IF r.ch = EOF THEN Nil ELSE Char(r.ch), [ud |-> r.ud, in |-> r.in])

\* snarf_line: the characters up to a newline or the end.
RECURSIVE snarf_line(_, _)
snarf_line(buf, s) ==
  LET After(r) == CASE r.ch = EOF /\ buf = <<>> -> [r |-> Nil, strm |-> [ud |-> r.ud, in |-> r.in]]
                    [] r.ch = NL \/ (r.ch = EOF /\ buf # <<>>) -> [r |-> String(buf), strm |-> [ud |-> r.ud, in |-> r.in]]
                    [] OTHER -> snarf_line(Append(buf, r.ch), [ud |-> r.ud, in |-> r.in])
  IN  After(utf8_decode(s.ud, s.in))

StdioGetLine == Reads("stdio") /\ LET l == snarf_line(<<>>, strm) IN Read(l.r, l.strm)

\* dir_get_line: the names of the entries, here of one.
DirGetLine == Reads("dir") /\ Read(IF strm = <<>> THEN Nil ELSE String(string_utf8(strm)), <<>>)

StringInGetLine ==
  /\ Reads("string_in")
  /\ LET s == strm.string
         nlpos == find_char(s, strm.pos, NL)
     IN  IF strm.pos < Len(s)
         THEN Read(String(SubSeq(s, strm.pos + 1, nlpos)), [strm EXCEPT !.pos = IF nlpos < Len(s) THEN nlpos + 1 ELSE Len(s)])
         ELSE Read(Nil, strm)

StringInGetChar ==
  /\ Reads("string_in")
  /\ IF strm.pos < Len(strm.string) THEN Read(Char(strm.string[strm.pos + 1]), [strm EXCEPT !.pos = @ + 1])
     ELSE Read(Nil, strm)

ByteInGetByte ==
  /\ Reads("byte_in")
  /\ IF strm.index < Len(strm.buf) THEN Read(Char(strm.buf[strm.index + 1]), [strm EXCEPT !.index = @ + 1])
     ELSE Read(Nil, strm)

Puts(k, n) == kind = k /\ got = <<>> /\ n < MaxPut
Put(given, s) == source' = given /\ strm' = s /\ UNCHANGED <<kind, got>>

PutsOut == Puts("string_out", Len(source) \div 2 + Len(FlattenSeq(source)))
StringOutPutString ==
  PutsOut /\ \E s \in Strings : Put(source \o <<utf8_to_uc(s), <<>> >>, string_out_put_string(strm, s))
StringOutPutByte ==
  PutsOut /\ \E b \in Bytes : Put([source EXCEPT ![Len(source)] = Append(@, b)], string_out_put_byte(strm, b))
StrlistOutPutString ==
  Puts("strlist_out", Len(source)) /\ \E s \in Strings \ {<<>>} : Put(source \o s, strlist_out_put_string(strm, s))
StrlistOutPutChar ==
  Puts("strlist_out", Len(source)) /\ \E c \in UNION {Range(s) : s \in Strings} : Put(Append(source, c), strlist_out_put_char(strm, c))

GetStringFromStream == kind = "string_out" /\ got = <<>> /\ Read(String(get_string_from_stream(strm)), strm)
GetListFromStream ==
  /\ kind = "strlist_out" /\ got = <<>>
  /\ got' = LET l == get_list_from_stream(strm) IN [i \in DOMAIN l |-> String(l[i])] \o <<Nil>>
  /\ UNCHANGED <<kind, source, strm>>

Next == \/ StdioGetChar \/ StdioGetLine \/ DirGetLine
        \/ StringInGetLine \/ StringInGetChar \/ ByteInGetByte
        \/ StringOutPutString \/ StringOutPutByte \/ StrlistOutPutString \/ StrlistOutPutChar
        \/ GetStringFromStream \/ GetListFromStream

Spec == Init /\ [][Next]_vars

-----------------------------------------------------------------------------
\* What a reader has been given, as a text: a line stands for its characters
\* and the newline that ended it.
Flat(rs) == FlattenSeq([i \in DOMAIN rs |-> IF rs[i].line THEN Append(rs[i].text, NL) ELSE rs[i].text])
Lacks(s) == IF s # <<>> /\ Last(s) # NL THEN Append(s, NL) ELSE s

\* However calls for lines and for characters are mixed, a stream is read from
\* its start to its end, in order and nothing twice, and the bytes of a file
\* are decoded as the manual has it (txr.1:503), but for the characters from
\* U+10000 to U+FFFFF, which utf8_decode takes for overlong: their bytes are
\* read one by one.
ReadsInOrder ==
  LET text == CASE kind = "stdio"     -> Extract(source, \h100000)
                [] kind = "string_in" -> source
                [] kind = "byte_in"   -> utf8_to_uc(source)
      mid == IF got # <<>> /\ ~Last(got).line THEN text ELSE Lacks(text)
  IN  kind \in {"stdio", "string_in", "byte_in"} /\ got # <<>> =>
        IF Last(got) = Nil THEN Flat(got) \in {text, Lacks(text)} ELSE IsPrefix(Flat(got), mid)

\* A string stream gives back what was put, bytes and characters mixed,
\* provided no byte that starts a character is left without the rest of it
\* (string_out_byte_flush clears the decoder, and with it the bytes it has
\* backed out of), and the text never outgrows its buffer.
OutputKept ==
  LET text == FlattenSeq([i \in DOMAIN source |-> Extract(source[i], \h100000)])
  IN  kind = "string_out" =>
        /\ Len(strm.buf) + 1 <= strm.size
        /\ got # <<>> /\ (\A b \in \hC0 .. \hF4 : ~Contains(text, Raw(b))) => got[1].text = text

\* The strings of a string list stream are the lines that get_line reads from
\* the same text, wherever the text was cut into puts.
RECURSIVE Lines(_)
Lines(s) == LET n == find_char(s, 0, NL)
            IN  IF s = <<>> THEN <<>> ELSE <<SubSeq(s, 1, n)>> \o Lines(SubSeq(s, n + 2, Len(s)))
ListIsLines ==
  LET lines == [i \in 1 .. Len(got) - 1 |-> got[i].text]
  IN  /\ kind = "strlist_out" /\ got # <<>> => lines = Lines(source)
      /\ (/\ kind \in {"string_in", "stdio"} /\ got # <<>> /\ Last(got) = Nil
          /\ \A i \in 1 .. Len(got) - 1 : got[i].line)
         => lines = Lines(IF kind = "stdio" THEN Extract(source, \h100000) ELSE source)
=============================================================================
