------------------------------- MODULE Unwind -------------------------------
(***************************************************************************)
(* Blocks, exceptions and unwind protection (unwind.c, unwind.h).          *)
(*                                                                         *)
(* A region of C code between uw_..._begin and uw_..._end has its frame in *)
(* its own activation.  Here regions[d] is the frame of the region at      *)
(* nesting depth d, with the place the code of the region has reached: so  *)
(* Len(regions) is the depth of the C stack, and longjmp cuts it.  The     *)
(* list of frames that unwind.c keeps is uw_stack, by way of up.           *)
(*                                                                         *)
(* The code of the regions is any code: it may open a region, end the      *)
(* innermost one, return from a block or throw.                            *)
(***************************************************************************)
EXTENDS Integers, Sequences, FiniteSets

CONSTANTS
  Tag,        \* names of blocks
  Exc,        \* exception symbols
  nil,
  MaxDepth    \* bound on the nesting of regions

ASSUME UnwindAssumption == nil \notin Tag /\ MaxDepth \in Nat

VARIABLES
  regions,
  uw_stack,        \* depth of the innermost frame, 0 if there is none
  uw_env_stack,    \* the same for environment frames; 0 is toplevel_env
  uw_exit_point,   \* the frame unwinding goes to, or 0
  pc               \* "run", "unwind", or an end: "unhandled", "abort", and in
                   \* Trailer "crash"

vars == <<regions, uw_stack, uw_env_stack, uw_exit_point, pc>>

Depth == 0 .. MaxDepth
Place == {"body", "catch", "cleanup", "done"}

\* accept: what the block returns is from @(accept), which the source tells by
\* its protocol; other results, and the exceptions themselves, are left out.
\* runs is history: how often the clean-up code has been entered.  A trailer
\* is the catch frame of a @(trailer) directive (Trailer).
Frame ==
  [type : {"UW_BLOCK", "UW_ENV", "UW_CATCH", "UW_DBG", "trailer"},
   at : Place, tag : Tag \cup {nil}, matches : SUBSET Exc,
   accept : BOOLEAN, cont : Depth, visible : BOOLEAN,
   up : Depth, up_env : Depth, runs : 0 .. 1]

TypeOK ==
  /\ regions \in Seq(Frame) /\ Len(regions) <= MaxDepth
  /\ uw_stack \in Depth /\ uw_env_stack \in Depth /\ uw_exit_point \in Depth
  /\ pc \in {"run", "unwind", "unhandled", "abort", "crash"}

Init ==
  /\ regions = <<>>
  /\ uw_stack = 0 /\ uw_env_stack = 0 /\ uw_exit_point = 0
  /\ pc = "run"

top == Len(regions)
IsCatch(fr) == fr.type \in {"UW_CATCH", "trailer"}

\* The frames from d outwards.
Chain(d) ==
  LET c[e \in 0 .. top] == IF e = 0 THEN {} ELSE {e} \cup c[regions[e].up]
  IN  c[d]

\* The code of the innermost region is at a point where it can do something
\* else than end: a block that has been returned from is not.
Running == pc = "run" /\ (top > 0 => regions[top].at # "done")

-----------------------------------------------------------------------------
NewFrame(type) ==
  [type |-> type, at |-> "body", tag |-> nil, matches |-> {},
   accept |-> FALSE, cont |-> 0, visible |-> TRUE, up |-> uw_stack, up_env |-> 0, runs |-> 0]

Push(fr) ==
  /\ Running /\ top < MaxDepth
  /\ regions' = Append(regions, fr)
  /\ uw_stack' = top + 1
  /\ UNCHANGED <<uw_exit_point, pc>>

PushBlock(tag) == Push([NewFrame("UW_BLOCK") EXCEPT !.tag = tag]) /\ UNCHANGED uw_env_stack
PushCatch(matches) ==
  Push([NewFrame("UW_CATCH") EXCEPT !.matches = matches]) /\ UNCHANGED uw_env_stack

PushDebug == Push(NewFrame("UW_DBG")) /\ UNCHANGED uw_env_stack
PushEnv ==
  /\ Push([NewFrame("UW_ENV") EXCEPT !.up_env = uw_env_stack])
  /\ uw_env_stack' = top + 1

\* Slip: environments are left on their stack.
PopFrameEnv(next) ==
  /\ pc' = IF uw_stack = top THEN next ELSE "abort"
  /\ uw_stack' = regions[top].up
  /\ UNCHANGED uw_env_stack
  /\ regions' = SubSeq(regions, 1, top - 1)

\* uw_pop_frame() for the frame of the innermost region, which ends; then pc
\* is next, unless an assertion fails.
PopFrame(next) ==
  LET fr == regions[top]
      env == fr.type = "UW_ENV"
  IN  /\ pc' = IF uw_stack = top /\ (env => uw_env_stack = top) THEN next ELSE "abort"
      /\ uw_stack' = fr.up
      /\ uw_env_stack' = IF env THEN fr.up_env ELSE uw_env_stack
      /\ regions' = SubSeq(regions, 1, top - 1)

\* The end of a region without clean-up code.
End ==
  /\ pc = "run" /\ top > 0 /\ ~IsCatch(regions[top])
  /\ PopFrame("run")
  /\ UNCHANGED uw_exit_point

\* uw_unwind: the clean-up code is entered.
Cleanup(fr) ==
  [fr EXCEPT !.at = "cleanup", !.visible = FALSE, !.runs = @ + 1]

\* The body of a catch region, or a handler, ends, and the clean-up begins.
BodyEnds ==
  /\ pc = "run" /\ top > 0
  /\ regions[top].type = "UW_CATCH" /\ regions[top].at \in {"body", "catch"}
  /\ regions' = [regions EXCEPT ![top] = Cleanup(@)]
  /\ UNCHANGED <<uw_stack, uw_env_stack, uw_exit_point, pc>>

\* uw_catch_end: an interrupted transfer goes on (uw_continue).
CleanupEnds ==
  /\ pc = "run" /\ top > 0 /\ IsCatch(regions[top]) /\ regions[top].at = "cleanup"
  /\ LET fr == regions[top]
     IN  \/ fr.cont = 0 /\ PopFrame("run") /\ UNCHANGED uw_exit_point
         \/ fr.cont # 0 /\ PopFrame("unwind") /\ uw_exit_point' = fr.cont

-----------------------------------------------------------------------------
Transfer(ex, accept) ==
  /\ regions' = [regions EXCEPT ![ex].accept = accept]
  /\ uw_exit_point' = ex
  /\ pc' = "unwind"
  /\ UNCHANGED <<uw_stack, uw_env_stack>>

Innermost(S) == CHOOSE d \in S : \A e \in S : e <= d

\* uw_block_return_proto(), which returns nil if there is no such block:
\* then its callers throw or abort.
BlockReturn(tag, accept) ==
  /\ Running
  /\ LET blocks == {d \in Chain(uw_stack) : regions[d].type = "UW_BLOCK" /\ regions[d].tag = tag}
     IN  blocks # {} /\ Transfer(Innermost(blocks), accept)

\* Slip: catches that are being left are found too.
CatchersAll(sym) == {d \in Chain(uw_stack) : IsCatch(regions[d]) /\ sym \in regions[d].matches}

Catchers(sym) ==
  {d \in Chain(uw_stack) :
     IsCatch(regions[d]) /\ regions[d].visible /\ sym \in regions[d].matches}

\* uw_throw(): an exception that nothing catches ends the process at once.
Throw(sym) ==
  /\ Running
  /\ \/ Catchers(sym) # {} /\ Transfer(Innermost(Catchers(sym)), FALSE)
     \/ /\ Catchers(sym) = {} /\ pc' = "unhandled"
        /\ UNCHANGED <<regions, uw_stack, uw_env_stack, uw_exit_point>>

\* longjmp to the region at depth d, whose frame becomes fr.
Jump(d, fr) == regions' = Append(SubSeq(regions, 1, d - 1), fr) /\ pc' = "run"

\* Slip: a catch without clauses is passed over.
StopsClauses(fr) == IsCatch(fr) /\ fr.visible /\ fr.matches # {}

\* Does the transfer stop at a frame, for its clean-up code?
Stops(fr) == IsCatch(fr) /\ fr.visible

\* The transfer passes a frame that has nothing to do.
Pass ==
  /\ pc = "unwind" /\ uw_stack # uw_exit_point
  /\ LET fr == regions[uw_stack]
     IN  /\ ~Stops(fr)
         /\ uw_stack' = fr.up
         /\ pc' = IF fr.up = 0 THEN "abort" ELSE pc
         /\ uw_env_stack' = IF fr.type = "UW_ENV" THEN regions[uw_env_stack].up_env
                                                  ELSE uw_env_stack
  /\ UNCHANGED <<regions, uw_exit_point>>

\* The transfer stops at a catch frame for the clean-up code (longjmp with
\* 1).
Intercept ==
  /\ pc = "unwind" /\ uw_stack # uw_exit_point
  /\ Stops(regions[uw_stack])
  /\ Jump(uw_stack, Cleanup([regions[uw_stack] EXCEPT !.cont = uw_exit_point]))
  /\ UNCHANGED <<uw_stack, uw_env_stack, uw_exit_point>>

\* The transfer has arrived: the block ends, or the handler is entered
\* (longjmp with 2), where matches is cleared.
Land ==
  /\ pc = "unwind" /\ uw_stack = uw_exit_point
  /\ uw_exit_point' = 0
  /\ LET fr == regions[uw_stack]
         to == IF IsCatch(fr) THEN [fr EXCEPT !.at = "catch", !.matches = {}]
                              ELSE [fr EXCEPT !.at = "done"]
     IN  /\ regions' = Append(SubSeq(regions, 1, uw_stack - 1), to)
         /\ pc' = IF fr.type \in {"UW_ENV", "UW_DBG"} THEN "abort" ELSE "run"
  /\ UNCHANGED <<uw_stack, uw_env_stack>>

Next ==
  \/ \E tag \in Tag : PushBlock(tag) \/ BlockReturn(tag, FALSE)
  \/ \E matches \in SUBSET Exc : PushCatch(matches)
  \/ PushEnv \/ PushDebug
  \/ End \/ BodyEnds \/ CleanupEnds
  \/ \E sym \in Exc : Throw(sym)
  \/ Pass \/ Intercept \/ Land

Spec == Init /\ [][Next]_vars

-----------------------------------------------------------------------------
Envs(d) == {e \in 1 .. d : regions[e].type = "UW_ENV"}

\* The lists of frames keep up with the C stack, by whatever jumps control
\* has come to where it is: the innermost frame is that of the innermost
\* region, and the current environment is the innermost one. So the assertions
\* of uw_pop_frame() and the calls of abort() in uw_unwind_to_exit_point() are
\* never reached.
StacksAgree ==
  /\ TypeOK /\ pc # "abort"
  /\ pc = "run" => uw_stack = top
  /\ pc = "unwind" => uw_stack \in 1 .. top
  /\ pc \in {"run", "unwind"} =>
       uw_env_stack = IF Envs(uw_stack) = {} THEN 0 ELSE Innermost(Envs(uw_stack))

\* May control be sent to the frame of depth d?  It must be a block still
\* open or a catch still guarding its body.
Open(d) ==
  /\ d \in 1 .. top /\ regions[d].at = "body"
  /\ \/ regions[d].type = "UW_BLOCK"
     \/ IsCatch(regions[d]) /\ regions[d].visible

\* A transfer only ever goes to an open frame around the code that started
\* it; in particular never to a try block that is already in its handler or
\* in its clean-up code.  So do the transfers that clean-up code has
\* interrupted and will resume, however much has happened in that code.
TargetsOpen ==
  /\ pc = "unwind" => Open(uw_exit_point) /\ uw_exit_point <= uw_stack
  /\ \A d \in 1 .. top :
       regions[d].at = "cleanup" /\ regions[d].cont # 0
         => Open(regions[d].cont) /\ regions[d].cont < d

\* A catch region is never left, by its end or by a jump from whatever
\* depth, without its clean-up code having been entered.
CleanupRuns ==
  [][\A d \in 1 .. top :
       IsCatch(regions[d]) /\ d > Len(regions') => regions[d].runs = 1]_vars
=============================================================================
