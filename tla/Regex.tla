------------------------------- MODULE Regex -------------------------------
\* The regular expressions of regex.c: a regex is compiled to an automaton or,
\* where it has an operator that needs it, kept for the derivative method; a
\* machine is fed the characters of a text; and search_regex, match_regex and
\* regsub drive it. A behaviour is one call, and the end of the regex.
EXTENDS RegexSyntax, CharSet, SequencesExt

CONSTANTS Regexes,      \* the regular expressions, as the parser gives them
          Texts,        \* what they are run on
          NFA_SET_SIZE  \* how many states a set of states has room for (512)

VARIABLES regex,   \* the source of the regex
          prog,    \* what regex_compile made of it
          visited, \* the stamps in the states of its automaton
          job,     \* the call: [op, str, start]
          regm,    \* the machine it drives
          pos, at, \* where the try at hand starts, and how far it has come
          out,     \* the pieces regsub has collected
          result   \* what the call returned, when it has

vars == <<regex, prog, visited, job, regm, pos, at, out, result>>

-----------------------------------------------------------------------------
\* The automaton: its states in st, where nfa_combine leaves unused ones.
State(kind, t0, t1, on) == [kind |-> kind, t0 |-> t0, t1 |-> t1, on |-> on]
Accept == State("accept", 0, 0, 0)
Empty(t0, t1) == State("empty", t0, t1, 0)
nfa_make(st, s, acc) == [st |-> st, start |-> s, accept |-> acc]
Leaf(st, kind, on) ==
  nfa_make(st \o <<Accept, State(kind, Len(st) + 1, 0, on)>>, Len(st) + 2, Len(st) + 1)

\* nfa_combine, with nfa_state_merge: the start of succ moves into pred's end.
nfa_combine(pred, succ) ==
  nfa_make([succ.st EXCEPT ![pred.accept] = succ.st[succ.start], ![succ.start] = State("freed", 0, 0, 0)],
           pred.start, succ.accept)

\* Slip: the loop goes back to the new start state.
LoopToNew(f) ==
  LET acc == Len(f.st) + 1
  IN  nfa_make([f.st EXCEPT ![f.accept] = Empty(acc + 1, acc)] \o <<Accept, Empty(f.start, acc)>>, acc + 1, acc)

nfa_zeroplus(f) ==
  LET acc == Len(f.st) + 1
  IN  nfa_make([f.st EXCEPT ![f.accept] = Empty(f.start, acc)] \o <<Accept, Empty(f.start, acc)>>, acc + 1, acc)
nfa_oneplus(f) ==
  LET acc == Len(f.st) + 1
  IN  nfa_make([f.st EXCEPT ![f.accept] = Empty(f.start, acc)] \o <<Accept, Empty(f.start, 0)>>, acc + 1, acc)
nfa_optional(f) == nfa_make(Append(f.st, Empty(f.start, f.accept)), Len(f.st) + 1, f.accept)
nfa_or(f, g) ==
  LET acc == Len(g.st) + 1
  IN  nfa_make([g.st EXCEPT ![f.accept] = Empty(acc, 0), ![g.accept] = Empty(acc, 0)] \o <<Accept, Empty(f.start, g.start)>>,
               acc + 1, acc)

RECURSIVE nfa_compile_regex(_, _), nfa_compile_list(_, _)
nfa_compile_list(l, st) ==
  LET Then(f) == IF Len(l) > 1 THEN nfa_combine(f, nfa_compile_list(Tail(l), f.st)) ELSE f
  IN  Then(nfa_compile_regex(IF l = <<>> THEN Nil ELSE Head(l), st))
nfa_compile_regex(r, st) ==
  LET Second(f) == nfa_or(f, nfa_compile_regex(r[3], f.st))
  IN  CASE r = Nil             -> Leaf(st, "empty", 0)
        [] r = wild            -> Leaf(st, "wild", 0)
        [] r[1] = "chr"        -> Leaf(st, "single", r[2])
        [] r[1] = "set"        -> Leaf(st, "set", char_set_compile(r[2], r[3]))
        [] r[1] = "class"      -> Leaf(st, "set", special(r[2]))
        [] r[1] = "compound"   -> nfa_compile_list(r[2], st)
        [] r[1] = "zeroplus"   -> nfa_zeroplus(nfa_compile_regex(r[2], st))
        [] r[1] = "oneplus"    -> nfa_oneplus(nfa_compile_regex(r[2], st))
        [] r[1] = "optional"   -> nfa_optional(nfa_compile_regex(r[2], st))
        [] r[1] = "or"         -> Second(nfa_compile_regex(r[2], st))

\* nfa_closure: the states of in and what empty transitions reach from them;
\* a state with the stamp is taken to be there already.
RECURSIVE Spread(_, _, _, _, _)
Spread(st, stamps, stack, set, stamp) ==
  LET top == CHOOSE s \in stack : TRUE
      new == {e \in {st[top].t0, st[top].t1} \ {0} : st[top].kind = "empty" /\ stamps[e] # stamp}
  IN  IF stack = {} THEN [set |-> set, stamps |-> stamps]
      ELSE Spread(st, [s \in DOMAIN stamps |-> IF s \in new THEN stamp ELSE stamps[s]],
                  (stack \ {top}) \cup new, set \cup new, stamp)
nfa_closure(st, stamps, in, stamp) ==
  Spread(st, [s \in DOMAIN stamps |-> IF s \in in THEN stamp ELSE stamps[s]], in, in, stamp)
Accepts(st, set) == \E s \in set : st[s].kind = "accept"

\* nfa_move
nfa_move(st, set, ch) ==
  {st[s].t0 : s \in {s \in set : \/ st[s].kind = "wild"
                                 \/ st[s].kind = "single" /\ st[s].on = ch
                                 \/ st[s].kind = "set" /\ char_set_contains(st[s].on, ch)}}

\* nfa_all_states: the states reached from those found, but for the ones that
\* bear the stamp already.
RECURSIVE nfa_all_states(_, _, _, _)
nfa_all_states(st, stamps, found, stamp) ==
  LET next == {e \in UNION {{st[s].t0, st[s].t1} : s \in found} \ {0} : e \notin found /\ stamps[e] # stamp}
  IN  IF next = {} THEN found ELSE nfa_all_states(st, stamps, found \cup next, stamp)

-----------------------------------------------------------------------------
\* The derivative method.
RECURSIVE reg_nullable(_)
reg_nullable(r) ==
  CASE r = Nil                            -> TRUE
    [] r[1] \in {"t", "wild", "chr", "chset", "class"} -> FALSE
    [] r[1] = "compound"                  -> \A i \in DOMAIN r[2] : reg_nullable(r[2][i])
    [] r[1] = "oneplus"                   -> reg_nullable(r[2])
    [] r[1] \in {"zeroplus", "optional"}  -> TRUE
    [] r[1] = "compl"                     -> ~reg_nullable(r[2])
    [] r[1] = "or"                        -> reg_nullable(r[2]) \/ reg_nullable(r[3])
    [] r[1] = "and"                       -> reg_nullable(r[2]) /\ reg_nullable(r[3])

RECURSIVE dv_compile_regex(_)
dv_compile_regex(r) ==
  LET any == ZeroPlus(wild)
      nongreedy(x, y) ==
        IF y = Nil THEN ZeroPlus(x)
        ELSE Compound(<<And(ZeroPlus(x), Compl(Compound(<<any, IF reg_nullable(y) THEN And(y, OnePlus(wild)) ELSE y, any>>))), y>>)
  IN  CASE r[1] = "set"       -> ChSet(char_set_compile(r[2], r[3]))
        [] r[1] = "class"     -> ChSet(special(r[2]))
        [] r[1] = "compound"  -> Compound([i \in DOMAIN r[2] |-> dv_compile_regex(r[2][i])])
        [] r[1] \in {"zeroplus", "oneplus", "optional", "compl"} -> <<r[1], dv_compile_regex(r[2])>>
        [] r[1] \in {"or", "and"} -> <<r[1], dv_compile_regex(r[2]), dv_compile_regex(r[3])>>
        [] r[1] = "nongreedy" -> nongreedy(dv_compile_regex(r[2]), dv_compile_regex(r[3]))
        [] OTHER              -> r

\* reduce_or: of two alternations, the alternatives that do not come again.
RECURSIVE flatten_or(_), unflatten_or(_)
flatten_or(r) == IF r[1] = "or" THEN flatten_or(r[2]) \o flatten_or(r[3]) ELSE <<r>>
unflatten_or(l) == IF Len(l) = 1 THEN l[1] ELSE Or(l[1], unflatten_or(Tail(l)))
reduce_or(r) ==
  LET l == flatten_or(r)
      last == {i \in DOMAIN l : \A j \in i + 1 .. Len(l) : l[j] # l[i]}
  IN  IF r[2][1] = "or" /\ r[3][1] = "or" THEN unflatten_or([i \in 1 .. Cardinality(last) |-> l[SetToSortSeq(last, <)[i]]]) ELSE r

\* What is left of a sequence whose first part has become d.
Rest(d, l) == IF d = Nil THEN Compound(Tail(l)) ELSE Compound(<<d>> \o Tail(l))

RECURSIVE reg_derivative(_, _), reg_derivative_list(_, _)
reg_derivative_list(l, ch) ==
  LET d == reg_derivative(l[1], ch)
      Both(e) == CASE e = T /\ d = T -> T
                   [] e = T /\ d # T -> Rest(d, l)
                   [] d = T /\ e # T -> e
                   [] OTHER          -> Or(Rest(d, l), e)
  IN  CASE Len(l) = 1 -> d
        [] Len(l) > 1 /\ reg_nullable(l[1]) -> Both(reg_derivative_list(Tail(l), ch))
        [] OTHER      -> IF d = T THEN T ELSE Rest(d, l)
reg_derivative(r, ch) ==
  LET Loop(d, again) == IF d = T THEN T ELSE IF d = Nil THEN again ELSE Compound(<<d, again>>)
      Either(d, e) == IF d = T THEN e ELSE IF e = T THEN d ELSE reduce_or(Or(d, e))
      Each(d, e) == IF d = T \/ e = T THEN T ELSE And(d, e)
  IN  CASE r \in {Nil, T}       -> T
        [] r = wild             -> Nil
        [] r[1] = "chr"         -> IF r[2] = ch THEN Nil ELSE T
        [] r[1] = "chset"       -> IF char_set_contains(r[2], ch) THEN Nil ELSE T
        [] r[1] = "compound"    -> IF r[2] = <<>> THEN T ELSE reg_derivative_list(r[2], ch)
        [] r[1] = "optional"    -> reg_derivative(r[2], ch)
        [] r[1] = "oneplus"     -> Loop(reg_derivative(r[2], ch), ZeroPlus(r[2]))
        [] r[1] = "zeroplus"    -> Loop(reg_derivative(r[2], ch), r)
        [] r[1] = "compl"       -> Compl(reg_derivative(r[2], ch))
        [] r[1] = "or"          -> Either(reg_derivative(r[2], ch), reg_derivative(r[3], ch))
        [] r[1] = "and"         -> Each(reg_derivative(r[2], ch), reg_derivative(r[3], ch))

RECURSIVE regex_requires_dv(_)
regex_requires_dv(r) ==
  CASE r[1] = "compound" -> \E i \in DOMAIN r[2] : regex_requires_dv(r[2][i])
    [] r[1] \in {"zeroplus", "oneplus", "optional"} -> regex_requires_dv(r[2])
    [] r[1] = "or" -> regex_requires_dv(r[2]) \/ regex_requires_dv(r[3])
    [] OTHER -> r[1] \in {"compl", "and", "nongreedy"}

-----------------------------------------------------------------------------
regex_compile(r, opt) ==
  IF opt \/ regex_requires_dv(r) THEN [is_nfa |-> FALSE, dv |-> dv_compile_regex(r)]
  ELSE [is_nfa |-> TRUE, nfa |-> nfa_compile_regex(r, <<>>)]

\* Building a class may free the mark of a full block.
RECURSIVE Breaks(_)
Breaks(r) == CASE r[1] = "set" -> char_set_compile(r[2], r[3]).bad
               [] r[1] = "compound" -> \E i \in DOMAIN r[2] : Breaks(r[2][i])
               [] OTHER -> \E i \in 2 .. Len(r) : r[1] \notin {"chr", "class"} /\ Breaks(r[i])

none == [kind |-> "none"]
Aborted == [kind |-> "abort"]
NotFound == [kind |-> "nil"]
Found(p, len) == [kind |-> "found", pos |-> p, len |-> len]

Ops == {"match", "search", "back", "sub"}
Str == job.str
nfa == prog.nfa

Init ==
  /\ regex \in Regexes /\ job \in [op : Ops, str : Texts, start : 0 .. 1]
  /\ \E opt \in BOOLEAN : prog = regex_compile(regex, opt)
  /\ visited = IF prog.is_nfa THEN [s \in DOMAIN prog.nfa.st |-> 0] ELSE <<>>
  /\ regm = none /\ result = IF Breaks(regex) THEN Aborted ELSE none
  /\ pos = job.start /\ at = IF job.op = "back" THEN Len(job.str) - 1 ELSE job.start
  /\ out = <<>>

\* Slip: the start keeps the stamp of the last closure.
LeaveLast(stamps, stamp) == [stamps EXCEPT ![nfa.start] = stamp - 1]

\* The next free stamp is left in the start, for the runs to come.
Leave(stamps, stamp) == [stamps EXCEPT ![nfa.start] = stamp]

\* regex_machine_reset: a machine over stamps set to p.
Reset(stamps, p) ==
  LET stamp == stamps[nfa.start] + 1
      From(c) == /\ regm' = [clos |-> c.set, stamp |-> stamp + 1, count |-> 0, last |-> IF Accepts(nfa.st, c.set) THEN 0 ELSE -1]
                 /\ visited' = c.stamps
                 /\ result' = IF Cardinality(c.set) >= NFA_SET_SIZE THEN Aborted ELSE none
  IN  /\ IF prog.is_nfa THEN From(nfa_closure(nfa.st, stamps, {nfa.start}, stamp))
         ELSE /\ regm' = [deriv |-> prog.dv, count |-> 0, last |-> IF reg_nullable(prog.dv) THEN 0 ELSE -1]
              /\ UNCHANGED <<visited, result>>
      /\ pos' = p /\ at' = p
      /\ UNCHANGED <<regex, prog, job, out>>

\* regex_machine_init, by the callers that use a machine.
Begin == /\ result = none /\ regm = none /\ job.op # "back" /\ (pos <= Len(Str) \/ job.op = "match")
         /\ Reset(visited, pos)

\* regex_machine_feed: the machine after one more character, and its answer.
Answer(m, alive) == IF alive THEN "on" ELSE IF m.last = m.count THEN "match" ELSE IF m.last = -1 THEN "fail" ELSE "on"
Fed ==
  LET ch == Str[at + 1]
      count == regm.count + 1
      mark(accept) == IF accept THEN count ELSE regm.last
      fed(m, alive, stamps, full) == [m |-> m, answer |-> Answer(m, alive), stamps |-> stamps, full |-> full]
      Moved(c) == fed([clos |-> c.set, stamp |-> regm.stamp + 1, count |-> count, last |-> mark(Accepts(nfa.st, c.set))],
                      c.set # {}, Leave(c.stamps, regm.stamp + 1), Cardinality(c.set) >= NFA_SET_SIZE)
      Derived(d) == fed([deriv |-> d, count |-> count, last |-> mark(reg_nullable(d))], d # T, visited, FALSE)
  IN  IF prog.is_nfa THEN Moved(nfa_closure(nfa.st, visited, nfa_move(nfa.st, regm.clos, ch), regm.stamp))
      ELSE Derived(reg_derivative(regm.deriv, ch))

Running == result = none /\ regm # none

\* Slip: the search goes on where the try failed.
WhereFailed == at + 1

\* A try that fails is followed by one from the next character.
NextTry == pos + 1

Feed ==
  /\ Running /\ at < Len(Str)
  /\ LET Go(f) == IF f.answer = "fail" /\ job.op # "match" THEN Reset(f.stamps, NextTry)
                  ELSE /\ regm' = f.m /\ visited' = f.stamps
                       /\ at' = IF f.answer = "fail" THEN Len(Str) ELSE at + 1
                       /\ result' = IF f.full THEN Aborted ELSE none
                       /\ UNCHANGED <<regex, prog, job, pos, out>>
     IN  Go(Fed)

\* The end of the text is fed as the character 0; then the caller has its
\* result. For regsub it is one of many.
Hit == IF regm.last = -1 THEN NotFound ELSE Found(pos, regm.last)
Finish ==
  /\ Running /\ at >= Len(Str) /\ job.op \in {"match", "search"}
  /\ result' = Hit
  /\ visited' = IF prog.is_nfa THEN Leave(visited, regm.stamp) ELSE visited
  /\ UNCHANGED <<regex, prog, job, regm, pos, at, out>>

Kept(p, q) == [kept |-> TRUE, text |-> SubSeq(Str, p + 1, q)]
Replaced(p, q) == [kept |-> FALSE, text |-> SubSeq(Str, p + 1, q)]
\* One round of regsub, from where the search for it began, which is the end of
\* what has been collected.
Substitute ==
  LET from == Len(FlattenSeq([i \in DOMAIN out |-> out[i].text]))
      to == Hit.pos + Hit.len
      before == out \o <<Kept(from, Hit.pos), Replaced(Hit.pos, to)>>
      empty == Hit.len = 0 /\ Hit.pos = from
      next == IF empty /\ from < Len(Str) THEN from + 1 ELSE to
  IN  /\ Running /\ at >= Len(Str) /\ job.op = "sub"
      /\ visited' = IF prog.is_nfa THEN Leave(visited, regm.stamp) ELSE visited
      /\ IF Hit = NotFound
         THEN out' = (IF from = 0 THEN <<Kept(0, Len(Str))>> ELSE Append(out, Kept(from, Len(Str)))) /\ result' = [kind |-> "string"] /\ UNCHANGED <<regm, pos, at>>
         ELSE /\ out' = IF next > to THEN Append(before, Kept(to, next)) ELSE before
              /\ result' = IF next < Len(Str) THEN none ELSE [kind |-> "string"]
              /\ regm' = none /\ pos' = next /\ at' = next
      /\ UNCHANGED <<regex, prog, job>>

\* A start past the end.
NoRoom == /\ result = none /\ pos > Len(Str) /\ job.op # "match" /\ regm = none
          /\ result' = NotFound
          /\ UNCHANGED <<regex, prog, visited, job, regm, pos, at, out>>

\* nfa_run and dv_run, which searches from the end use: the length matched, or
\* -1. dv_run asks the whole regex at every character.
RECURSIVE Run(_, _, _, _, _)
Run(c, stamp, s, ptr, last) ==
  LET mark == IF Accepts(nfa.st, c.set) THEN ptr ELSE last
      done == [span |-> mark, stamps |-> Leave(c.stamps, stamp)]
  IN  IF Cardinality(c.set) >= NFA_SET_SIZE THEN [done EXCEPT !.span = -2]
      ELSE IF ptr = Len(s) \/ c.set = {} THEN done
      ELSE Run(nfa_closure(nfa.st, c.stamps, nfa_move(nfa.st, c.set, s[ptr + 1]), stamp), stamp + 1, s, ptr + 1, mark)
nfa_run(s) ==
  LET stamp == visited[nfa.start] + 1
  IN  Run(nfa_closure(nfa.st, visited, {nfa.start}, stamp), stamp + 1, s, 0, -1)
dv_run(r, s) ==
  LET dead == {k \in DOMAIN s : reg_derivative(r, s[k]) = T}
  IN  IF ~reg_nullable(r) THEN -1 ELSE IF dead = {} THEN Len(s) ELSE Min(dead) - 1

RunBack ==
  LET rest == SubSeq(Str, at + 1, Len(Str))
      With(run) == /\ visited' = run.stamps
                   /\ IF run.span >= 0 THEN result' = Found(at, run.span) /\ UNCHANGED at
                      ELSE result' = (IF run.span = -2 THEN Aborted ELSE none) /\ at' = at - 1
  IN  /\ result = none /\ job.op = "back" /\ pos <= Len(Str)
      /\ IF at < pos THEN result' = NotFound /\ UNCHANGED <<visited, at>>
         ELSE With(IF prog.is_nfa THEN nfa_run(rest) ELSE [span |-> dv_run(prog.dv, rest), stamps |-> visited])
      /\ UNCHANGED <<regex, prog, job, regm, pos, out>>

\* regex_destroy, when the collector finds the regex unused: what nfa_free frees.
Destroy ==
  /\ result \notin {none, Aborted} /\ prog.is_nfa
  /\ LET freed == nfa_all_states(nfa.st, visited, {nfa.start, nfa.accept}, visited[nfa.start])
     IN  prog' = [is_nfa |-> FALSE, freed |-> freed, of |-> nfa.st, aborted |-> Cardinality(freed) >= NFA_SET_SIZE]
  /\ UNCHANGED <<regex, visited, job, regm, pos, at, out, result>>

Next == Begin \/ Feed \/ Finish \/ Substitute \/ NoRoom \/ RunBack \/ Destroy

Spec == Init /\ [][Next]_vars

-----------------------------------------------------------------------------
\* What a regex stands for: the ends of its matches in w from i, as the manual
\* has it (txr.1:840-941, 7995).
RECURSIVE Ends(_, _, _), EndsFrom(_, _, _), Closure(_, _, _)
EndsFrom(r, w, S) == UNION {Ends(r, w, j) : j \in S}
Closure(r, w, S) == LET more == EndsFrom(r, w, S) \ S IN IF more = {} THEN S ELSE Closure(r, w, S \cup more)
Ends(r, w, i) ==
  LET one(yes) == IF i < Len(w) /\ yes THEN {i + 1} ELSE {}
      clear(y, j) == \A a \in i .. j : \A b \in Ends(y, w, a) : b = a \/ b > j
  IN  CASE r = Nil              -> {i}
        [] r = wild             -> one(TRUE)
        [] r[1] = "chr"         -> one(w[i + 1] = r[2])
        [] r[1] = "set"         -> one((\E k \in DOMAIN r[2] : Names(r[2][k], w[i + 1])) # r[3])
        [] r[1] = "compound"    -> FoldLeft(LAMBDA S, x : EndsFrom(x, w, S), {i}, r[2])
        [] r[1] = "zeroplus"    -> Closure(r[2], w, {i})
        [] r[1] = "oneplus"     -> EndsFrom(r[2], w, Closure(r[2], w, {i}))
        [] r[1] = "optional"    -> {i} \cup Ends(r[2], w, i)
        [] r[1] = "or"          -> Ends(r[2], w, i) \cup Ends(r[3], w, i)
        [] r[1] = "and"         -> Ends(r[2], w, i) \cap Ends(r[3], w, i)
        [] r[1] = "compl"       -> (i .. Len(w)) \ Ends(r[2], w, i)
        [] r = NonGreedy(r[2], Nil) -> Closure(r[2], w, {i})
        [] OTHER                -> EndsFrom(r[3], w, {j \in Closure(r[2], w, {i}) : clear(r[3], j)})
Longest(w, i) == IF Ends(regex, w, i) = {} THEN -1 ELSE Max(Ends(regex, w, i)) - i

\* Fed character by character, over and over from one place after another and
\* with stamps left by every earlier run, the automaton and the derivatives
\* both know the longest match in what they have been fed.
RunsAgree ==
  result = none /\ regm # none /\ pos <= Len(Str) => regm.last = Longest(SubSeq(Str, 1, pos + regm.count), pos)

IsNfa == prog.is_nfa \/ "freed" \in DOMAIN prog
\* The text from p on can be continued to a match.
Promises(p) == \E w \in Texts : Len(w) <= 3 /\ \E e \in Ends(regex, Str \o w, p) : e >= Len(Str)

\* A derivative regex begun at p has a derivative left at the end of the text.
Survives(p) == FoldLeft(reg_derivative, prog.dv, SubSeq(Str, p + 1, Len(Str))) # T

\* The places where the regex matches, of those that a call is about.
Matches ==
  LET tried == IF job.op = "match" THEN {job.start} ELSE IF job.op = "back" THEN job.start .. Len(Str) - 1 ELSE job.start .. Len(Str)
  IN  {p \in tried : Ends(regex, Str, p) # {}}

\* What a call returns is the longest match at the first place, or from the end
\* the last, where the regex matches; and if it returns nil the regex matches at
\* none. regsub takes the text apart into what it keeps and what it replaces,
\* and loses nothing. There are two exceptions. (1) A search returns nil if the
\* text ends while a try from an earlier place could go on: for an automaton, if
\* some continuation of the text would be a match from there; for a derivative
\* regex, if its derivative is not the empty one, whether or not it can match.
\* (2) A derivative regex is not searched from the end as the others are.
SearchFinds ==
  LET best == IF job.op = "back" THEN Max(Matches) ELSE Min(Matches)
      Pending(p) == IF IsNfa THEN Promises(p) ELSE Survives(p)
  IN  /\ result.kind = "found" /\ job.start <= Len(Str) /\ (job.op = "back" => IsNfa) =>
           best = result.pos /\ result.len = Longest(Str, result.pos)
      /\ result = NotFound /\ (job.op = "back" => IsNfa) =>
           Matches = {} \/ (job.op = "search" /\ \E p \in job.start .. best - 1 : Pending(p))
      /\ result.kind = "string" =>
           /\ FlattenSeq([i \in DOMAIN out |-> out[i].text]) = Str
           /\ \A i \in DOMAIN out : out[i].kept \/ \E p \in 0 .. Len(Str) : p + Len(out[i].text) \in Ends(regex, Str, p)

\* A regex that has run is freed whole when the collector finds it unused: the
\* sweep passes over no state for bearing the stamp of the last run.
FreedWhole ==
  "freed" \in DOMAIN prog /\ (\E s \in DOMAIN visited : visited[s] # 0) =>
    prog.freed = {s \in DOMAIN prog.of : prog.of[s].kind # "freed"}
=============================================================================
