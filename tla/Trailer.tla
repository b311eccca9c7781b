------------------------------ MODULE Trailer -------------------------------
(***************************************************************************)
(* The vertical @(trailer) directive (v_trailer in match.c) as a client of *)
(* the unwinding of control.                                               *)
(*                                                                         *)
(* The clauses after a @(trailer) run in a catch region without clauses,   *)
(* whose clean-up code looks at uw_exit_point to find out whether an       *)
(* @(accept) is leaving the trailer; if so it replaces the data position   *)
(* in the result that the accept is on its way with.                       *)
(***************************************************************************)
EXTENDS Unwind

VARIABLE adjusted   \* the blocks whose result has had its position replaced

tvars == <<vars, adjusted>>

TrailerTypeOK == TypeOK /\ adjusted \subseteq 1 .. MaxDepth

TrailerInit == Init /\ adjusted = {}

PushTrailer == Push(NewFrame("trailer")) /\ UNCHANGED <<uw_env_stack, adjusted>>

\* @(accept), which also clears what an earlier one has left in the block.
Accept(tag) ==
  /\ BlockReturn(tag, TRUE)
  /\ adjusted' = adjusted \ {uw_exit_point'}

\* The result of the block that uw_exit_point refers to, if it is that of an
\* accept, gets the data position of the trailer.
Rewrite(exit_point) ==
  adjusted' = IF regions[exit_point].type = "UW_BLOCK" /\ regions[exit_point].accept
              THEN adjusted \cup {exit_point} ELSE adjusted

\* The clauses come to their end.  The clean-up code follows here too, and
\* reads the frame at uw_exit_point, whatever that is.
TrailerBodyEnds ==
  /\ pc = "run" /\ top > 0 /\ regions[top].type = "trailer" /\ regions[top].at = "body"
  /\ \/ /\ uw_exit_point = 0
        /\ pc' = "crash"
        /\ UNCHANGED <<regions, adjusted>>
     \/ /\ uw_exit_point # 0
        /\ regions' = [regions EXCEPT ![top] = Cleanup(@)]
        /\ Rewrite(uw_exit_point)
        /\ UNCHANGED pc
  /\ UNCHANGED <<uw_stack, uw_env_stack, uw_exit_point>>

TrailerIntercept ==
  /\ Intercept
  /\ IF regions[uw_stack].type = "trailer" THEN Rewrite(uw_exit_point) ELSE UNCHANGED adjusted

TrailerNext ==
  \/ PushTrailer \/ TrailerBodyEnds \/ TrailerIntercept
  \/ \E tag \in Tag : Accept(tag)
  \/ /\ \/ \E tag \in Tag : PushBlock(tag)
        \/ PushCatch({})
        \/ End \/ BodyEnds \/ CleanupEnds
        \/ Pass \/ Land
     /\ UNCHANGED adjusted

TrailerSpec == TrailerInit /\ [][TrailerNext]_tvars

-----------------------------------------------------------------------------
\* A trailer portion whose clauses match like any others ends like any other
\* region.  (In the code the clean-up code dereferences uw_exit_point, which
\* is null unless a transfer is underway.)
TrailerEnds == pc # "crash"
=============================================================================
