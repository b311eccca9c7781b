---------------------------- MODULE RuntimeProofs ----------------------------
(***************************************************************************)
(* Proofs about Unwind and its client Trailer, for every set of tags and   *)
(* exceptions and every depth of nesting; and then what the runs of        *)
(* MCRuntime check about Subtypes and FreeList, from the theorems about    *)
(* each: a behavior of the run-time system that is about one of its parts  *)
(* is a behavior of that part, and one about another leaves it alone.      *)
(*                                                                         *)
(* What makes the assertions of unwind.c hold is not visible in the code:  *)
(* the up and up_env of every frame name the frames they named when it was *)
(* pushed, because control leaves regions only from the inside out.  What  *)
(* makes the interrupted transfers right is that an intercepted one is     *)
(* kept in a frame above its target: whatever the clean-up code does, the  *)
(* target is still open for as long as that frame is there.                *)
(***************************************************************************)
EXTENDS MCRuntime, Trailer, SequenceTheorems, Induction

\* The innermost environment among the frames up to d is that of depth e.
EnvAt(e, d) ==
  /\ e \in 0 .. d /\ (e # 0 => regions[e].type = "UW_ENV")
  /\ \A k \in e + 1 .. d : regions[k].type # "UW_ENV"

Links == \A d \in 1 .. top : regions[d].up = d - 1

EnvLinks ==
  /\ EnvAt(uw_env_stack, uw_stack)
  /\ \A d \in 1 .. top : regions[d].type = "UW_ENV" => EnvAt(regions[d].up_env, d - 1)

\* A catch frame is hidden, and its clean-up code entered, exactly when its
\* region has got to it; a handler has no clauses left.
FrameOK(fr) ==
  IF IsCatch(fr)
  THEN /\ fr.at # "done"
       /\ fr.at = "cleanup" => ~ fr.visible /\ fr.runs = 1
       /\ fr.at # "cleanup" => fr.visible /\ fr.runs = 0 /\ fr.cont = 0
       /\ fr.at = "catch" => fr.matches = {}
  ELSE fr.at \in {"body", "done"}

Places ==
  \A d \in 1 .. top :
    /\ FrameOK(regions[d])
    /\ regions[d].at = "done" => d = top /\ pc = "run"

\* An interrupted transfer is kept above its target, which is open.
Conts ==
  \A d \in 1 .. top :
    regions[d].at = "cleanup" /\ regions[d].cont # 0
      => Open(regions[d].cont) /\ regions[d].cont < d

\* The catch frames that a transfer has passed are in their clean-up code.
Control ==
  /\ pc \in {"run", "unwind", "unhandled", "crash"}
  /\ pc # "unwind" => uw_stack = top
  /\ pc = "unwind" =>
       /\ uw_stack \in 1 .. top /\ uw_exit_point <= uw_stack /\ Open(uw_exit_point)
       /\ \A d \in uw_stack + 1 .. top : IsCatch(regions[d]) => regions[d].at = "cleanup"

\* The inductive invariant.
IInv == TypeOK /\ Links /\ EnvLinks /\ Places /\ Conts /\ Control

-----------------------------------------------------------------------------
\* A region is opened: what becomes of the sequence of frames.
LEMMA AppendFacts ==
  ASSUME regions \in Seq(Frame), NEW fr \in Frame, regions' = Append(regions, fr)
  PROVE  /\ regions' \in Seq(Frame) /\ top' = top + 1
         /\ regions'[top'] = fr /\ \A d \in 1 .. top : regions'[d] = regions[d]
BY DEF top

\* The regions deeper than n are left.
LEMMA CutFacts ==
  ASSUME regions \in Seq(Frame), NEW n \in 0 .. top, regions' = SubSeq(regions, 1, n)
  PROVE  /\ regions' \in Seq(Frame) /\ top' = n
         /\ \A d \in 1 .. n : regions'[d] = regions[d]
BY SubSeqProperties DEF top

\* longjmp to the region at depth n, whose frame becomes fr.
LEMMA JumpFacts ==
  ASSUME regions \in Seq(Frame), NEW fr \in Frame, NEW n \in 1 .. top,
         regions' = Append(SubSeq(regions, 1, n - 1), fr)
  PROVE  /\ regions' \in Seq(Frame) /\ top' = n
         /\ regions'[n] = fr /\ \A d \in 1 .. n - 1 : regions'[d] = regions[d]
<1> DEFINE s == SubSeq(regions, 1, n - 1)
<1>1. s \in Seq(Frame) /\ Len(s) = n - 1 /\ \A d \in 1 .. n - 1 : s[d] = regions[d]
  BY SubSeqProperties DEF top
<1> HIDE DEF s
<1>2. regions' = Append(s, fr) BY DEF s
<1> QED BY <1>1, <1>2 DEF top

\* The invariant holds where nothing has been pushed.
LEMMA InitIInv == Init => IInv
BY UnwindAssumption DEF Init, IInv, TypeOK, Links, EnvLinks, EnvAt, Places, Conts, Control, top, Depth, FrameOK

\* uw_push_...() keeps the invariant.
LEMMA PushInv ==
  ASSUME IInv, NEW fr \in Frame, Push(fr),
         fr.up = uw_stack, fr.at = "body", FrameOK(fr),
         IF fr.type = "UW_ENV" THEN fr.up_env = uw_env_stack /\ uw_env_stack' = top + 1
                               ELSE uw_env_stack' = uw_env_stack
  PROVE  IInv'
<1>1. /\ regions' \in Seq(Frame) /\ top' = top + 1
      /\ regions'[top + 1] = fr /\ \A d \in 1 .. top : regions'[d] = regions[d]
  BY AppendFacts DEF TypeOK, IInv, Push
<1>2. top \in Nat /\ uw_stack = top /\ pc = "run" /\ pc' = "run" /\ uw_stack' = top + 1
  BY DEF TypeOK, top, Control, Running, IInv, Push
<1> USE DEF IInv
<1>3. TypeOK'
  <2>1. top + 1 \in Depth /\ uw_exit_point' \in Depth BY <1>2, UnwindAssumption DEF Push, Depth, TypeOK
  <2>2. uw_env_stack' \in Depth BY <2>1 DEF TypeOK
  <2>3. Len(regions') <= MaxDepth BY <2>1, <1>1, <1>2, UnwindAssumption DEF top, Depth
  <2>4. regions' \in Seq(Frame) BY <1>1
  <2>5. uw_stack' \in Depth BY <1>2, <2>1
  <2>6. pc' \in {"run", "unwind", "unhandled", "abort", "crash"} BY <1>2
  <2>7. uw_exit_point' \in Depth BY <2>1
  <2> HIDE DEF IInv
  <2> QED BY <2>2, <2>3, <2>4, <2>5, <2>6, <2>7 DEF TypeOK
<1>4. Links'
  <2>1. fr.up = top BY <1>2
  <2>2. \A d \in 1 .. top : regions[d].up = d - 1 BY DEF Links
  <2>3. ASSUME NEW d \in 1 .. top + 1 PROVE regions'[d].up = d - 1
    <3>1. CASE d = top + 1
      <4>1. regions'[d] = fr BY <1>1, <3>1
      <4> HIDE DEF IInv
      <4> QED BY <1>2, <2>1, <3>1, <4>1
    <3>2. CASE d \in 1 .. top BY <1>1, <2>2, <3>2
    <3> QED BY <1>2, <3>1, <3>2
  <2> QED BY <1>1, <1>2, <2>3 DEF Links
<1>5. EnvLinks'
  <2>1. \A e, d : EnvAt(e, d) /\ d \in 0 .. top => EnvAt(e, d)' BY <1>1, <1>2 DEF EnvAt
  <2>2. EnvAt(uw_env_stack, uw_stack)' 
    <3>1. CASE fr.type = "UW_ENV" BY <3>1, <1>1, <1>2 DEF EnvAt
    <3>2. CASE fr.type # "UW_ENV" BY <3>2, <1>1, <1>2 DEF EnvAt, EnvLinks
    <3> QED BY <3>1, <3>2
  <2>3. ASSUME NEW d \in 1 .. top', regions'[d].type = "UW_ENV" PROVE EnvAt(regions[d].up_env, d - 1)'
    <3>1. CASE d = top + 1 BY <3>1, <2>1, <2>3, <1>1, <1>2 DEF EnvLinks
    <3>2. CASE d \in 1 .. top BY <3>2, <2>1, <2>3, <1>1, <1>2 DEF EnvLinks
    <3> QED BY <3>1, <3>2, <1>1, <1>2
  <2> QED BY <2>2, <2>3 DEF EnvLinks
<1>6. Places'
  <2>1. \A d \in 1 .. top : regions[d].at # "done" BY <1>2 DEF Places, Running, Push
  <2> QED BY <1>1, <1>2, <2>1 DEF Places
<1>7. Conts'
  <2>1. \A d : Open(d) => Open(d)' BY <1>1, <1>2 DEF Open
  <2> QED BY <1>1, <1>2, <2>1 DEF Conts
<1>8. Control' BY <1>1, <1>2 DEF Control
<1> QED BY <1>3, <1>4, <1>5, <1>6, <1>7, <1>8

\* So does a change of the frame of a region to which control comes, from
\* whatever depth.
LEMMA JumpInv ==
  ASSUME IInv, NEW n \in 1 .. top, n = uw_stack, NEW fr \in Frame,
         regions' \in Seq(Frame), top' = n, regions'[n] = fr,
         \A d \in 1 .. n - 1 : regions'[d] = regions[d],
         fr.type = regions[n].type, fr.up = regions[n].up, fr.up_env = regions[n].up_env,
         FrameOK(fr),
         fr.at = "cleanup" /\ fr.cont # 0 => Open(fr.cont) /\ fr.cont < n,
         pc' = "run", UNCHANGED <<uw_stack, uw_env_stack>>, uw_exit_point' \in Depth
  PROVE  IInv'
<1>1. /\ regions' \in Seq(Frame) /\ top' = n
      /\ regions'[n] = fr /\ \A d \in 1 .. n - 1 : regions'[d] = regions[d]
  OBVIOUS
<1>2. top \in Nat /\ n \in Nat
  BY DEF TypeOK, top, IInv
<1> USE DEF IInv
<1>3. TypeOK'
  <2>1. Len(regions') <= MaxDepth BY <1>1, <1>2, UnwindAssumption DEF top, TypeOK
  <2>2. regions' \in Seq(Frame) BY <1>1
  <2> HIDE DEF IInv
  <2> QED BY <2>1, <2>2 DEF TypeOK, IInv
<1>4. Links'
  <2>1. \A d \in 1 .. top : regions[d].up = d - 1 BY DEF Links
  <2>2. ASSUME NEW d \in 1 .. n PROVE regions'[d].up = d - 1 BY <1>1, <1>2, <2>1
  <2> QED BY <1>1, <1>2, <2>2 DEF Links
<1>5. EnvLinks'
  <2>1. \A d \in 1 .. n : regions'[d].type = regions[d].type /\ regions'[d].up_env = regions[d].up_env
    BY <1>1, <1>2
  <2>2. \A e, d : EnvAt(e, d) /\ d \in 0 .. n => EnvAt(e, d)' BY <2>1, <1>1, <1>2 DEF EnvAt
  <2>3. EnvAt(uw_env_stack, uw_stack)' BY <2>2 DEF EnvLinks
  <2>4. ASSUME NEW d \in 1 .. n, regions'[d].type = "UW_ENV" PROVE EnvAt(regions[d].up_env, d - 1)'
    BY <2>4, <2>1, <2>2, <1>1, <1>2 DEF EnvLinks
  <2> QED BY <1>1, <2>3, <2>4 DEF EnvLinks
<1>6. Places'
  BY <1>1, <1>2 DEF Places
<1>7. Conts'
  <2>1. \A d : Open(d) /\ d < n => Open(d)' BY <1>1, <1>2 DEF Open
  <2>2. ASSUME NEW d \in 1 .. n, regions'[d].at = "cleanup", regions'[d].cont # 0
        PROVE  Open(regions[d].cont)' /\ regions'[d].cont < d
    <3>1. CASE d = n BY <3>1, <2>1, <2>2, <1>1, <1>2
    <3>2. CASE d \in 1 .. n - 1
      <4>1. regions'[d] = regions[d] BY <3>2, <1>1
      <4>2. Open(regions[d].cont) /\ regions[d].cont < d BY <4>1, <2>2, <1>2 DEF Conts
      <4>3. regions[d].cont \in 1 .. top BY <4>2 DEF Open
      <4> QED BY <4>1, <4>2, <4>3, <2>1, <1>2, <3>2
    <3> QED BY <3>1, <3>2
  <2> QED BY <1>1, <2>2 DEF Conts
<1>8. Control'
  BY <1>1, <1>2 DEF Control
<1> QED BY <1>3, <1>4, <1>5, <1>6, <1>7, <1>8

\* So does uw_pop_frame(), whether control goes on or an interrupted
\* transfer is resumed.
LEMMA PopInv ==
  ASSUME IInv, pc = "run", top > 0, NEW next \in {"run", "unwind"}, PopFrame(next),
         uw_exit_point' \in Depth,
         next = "unwind" => Open(uw_exit_point') /\ uw_exit_point' < top
  PROVE  IInv'
<1>1. top \in Nat /\ uw_stack = top /\ top - 1 \in 0 .. top
  BY DEF TypeOK, top, IInv, Control
<1>2. /\ regions' \in Seq(Frame) /\ top' = top - 1
      /\ \A d \in 1 .. top - 1 : regions'[d] = regions[d]
  BY CutFacts, <1>1 DEF TypeOK, IInv, PopFrame
<1>3. regions[top].up = top - 1 /\ uw_stack' = top - 1
  BY <1>1 DEF IInv, Links, PopFrame
<1>4. EnvAt(uw_env_stack', top - 1) /\ pc' = next
  <2>1. EnvAt(uw_env_stack, top) BY <1>1 DEF IInv, EnvLinks
  <2>2. CASE regions[top].type = "UW_ENV"
    <3>1. uw_env_stack = top BY <2>1, <2>2, <1>1 DEF EnvAt
    <3>2. EnvAt(regions[top].up_env, top - 1) BY <2>2, <1>1 DEF IInv, EnvLinks
    <3> QED BY <3>1, <3>2, <2>2, <1>1 DEF PopFrame
  <2>3. CASE regions[top].type # "UW_ENV"
    <3>1. uw_env_stack' = uw_env_stack /\ pc' = next BY <2>3, <1>1 DEF PopFrame
    <3> QED BY <3>1, <2>1, <2>3, <1>1 DEF EnvAt
  <2> QED BY <2>2, <2>3
<1> USE DEF IInv
<1>5. TypeOK'
  <2>1. Len(regions') <= MaxDepth BY <1>1, <1>2, UnwindAssumption DEF top, TypeOK
  <2>2. regions' \in Seq(Frame) BY <1>2
  <2>3. uw_stack' \in Depth BY <1>1, <1>3, UnwindAssumption DEF TypeOK, top, Depth
  <2>4. uw_env_stack' \in Depth BY <1>1, <1>4, UnwindAssumption DEF TypeOK, top, Depth, EnvAt
  <2>5. pc' \in {"run", "unwind"} BY <1>4
  <2> HIDE DEF IInv
  <2> QED BY <2>1, <2>2, <2>3, <2>4, <2>5 DEF TypeOK
<1>6. Links'
  <2>1. \A d \in 1 .. top : regions[d].up = d - 1 BY DEF Links
  <2>2. ASSUME NEW d \in 1 .. top - 1 PROVE regions'[d].up = d - 1 BY <1>1, <1>2, <2>1
  <2> QED BY <1>1, <1>2, <2>2 DEF Links
<1>7. EnvLinks'
  <2>1. \A e, d : EnvAt(e, d) /\ d \in 0 .. top - 1 => EnvAt(e, d)' BY <1>1, <1>2 DEF EnvAt
  <2>2. EnvAt(uw_env_stack, uw_stack)' BY <2>1, <1>1, <1>3, <1>4
  <2>3. ASSUME NEW d \in 1 .. top - 1, regions'[d].type = "UW_ENV" PROVE EnvAt(regions[d].up_env, d - 1)'
    BY <2>3, <2>1, <1>1, <1>2 DEF EnvLinks
  <2> QED BY <1>2, <2>2, <2>3 DEF EnvLinks
<1>8. Places'
  BY <1>1, <1>2 DEF Places
<1>9. \A d : Open(d) /\ d < top => Open(d)'
  BY <1>1, <1>2 DEF Open
<1>10. Conts'
  <2>1. ASSUME NEW d \in 1 .. top - 1, regions'[d].at = "cleanup", regions'[d].cont # 0
        PROVE  Open(regions[d].cont)' /\ regions'[d].cont < d
    <3>1. regions'[d] = regions[d] BY <1>2
    <3>2. Open(regions[d].cont) /\ regions[d].cont < d BY <3>1, <2>1, <1>1 DEF Conts
    <3>3. regions[d].cont \in 1 .. top BY <3>2 DEF Open
    <3> QED BY <3>1, <3>2, <3>3, <1>9, <1>1
  <2> QED BY <1>2, <2>1 DEF Conts
<1>11. Control'
  <2>1. CASE next = "run" BY <2>1, <1>1, <1>2, <1>3, <1>4 DEF Control
  <2>2. CASE next = "unwind"
    <3>1. Open(uw_exit_point)' /\ uw_exit_point' \in 1 .. top - 1 BY <2>2, <1>1, <1>9 DEF Open
    <3> QED BY <3>1, <2>2, <1>1, <1>2, <1>3, <1>4 DEF Control
  <2> QED BY <2>1, <2>2
<1> QED BY <1>5, <1>6, <1>7, <1>8, <1>10, <1>11

\* So does the start of a transfer to an open frame.
LEMMA TransferInv ==
  ASSUME IInv, Running, NEW ex \in 1 .. top, Open(ex), NEW accept \in BOOLEAN, Transfer(ex, accept)
  PROVE  IInv'
<1>1. top \in Nat /\ uw_stack = top /\ pc = "run" /\ pc' = "unwind" /\ uw_exit_point' = ex
      /\ uw_stack' = top /\ uw_env_stack' = uw_env_stack
  BY DEF TypeOK, top, IInv, Control, Running, Transfer
<1>2. /\ regions' \in Seq(Frame) /\ top' = top
      /\ \A d \in 1 .. top : \E a \in BOOLEAN : regions'[d] = [regions[d] EXCEPT !.accept = a]
  <2>1. regions' = [regions EXCEPT ![ex] = [regions[ex] EXCEPT !.accept = accept]] BY DEF Transfer
  <2>2. regions \in Seq(Frame) /\ ex \in 1 .. Len(regions) BY DEF TypeOK, IInv, top
  <2>3. [regions[ex] EXCEPT !.accept = accept] \in Frame
    <3>1. regions[ex] \in Frame BY <2>2
    <3> QED BY <3>1 DEF Frame
  <2>4. regions' \in Seq(Frame) /\ Len(regions') = Len(regions) BY <2>1, <2>2, <2>3
  <2>5. ASSUME NEW d \in 1 .. top PROVE \E a \in BOOLEAN : regions'[d] = [regions[d] EXCEPT !.accept = a]
    <3>1. CASE d = ex BY <3>1, <2>1, <2>2, <2>5 DEF top
    <3>2. CASE d # ex
      <4>1. regions'[d] = regions[d] BY <3>2, <2>1, <2>2, <2>5 DEF top
      <4>2. regions[d] \in Frame BY <2>5, <2>2 DEF top
      <4>3. regions[d] = [regions[d] EXCEPT !.accept = regions[d].accept] /\ regions[d].accept \in BOOLEAN BY <4>2 DEF Frame
      <4> QED BY <4>1, <4>3
    <3> QED BY <3>1, <3>2
  <2> QED BY <2>4, <2>5 DEF top
<1>3. ASSUME NEW d \in 1 .. top
      PROVE  /\ regions'[d].type = regions[d].type /\ regions'[d].at = regions[d].at
             /\ regions'[d].up = regions[d].up /\ regions'[d].up_env = regions[d].up_env
             /\ regions'[d].visible = regions[d].visible /\ regions'[d].runs = regions[d].runs
             /\ regions'[d].cont = regions[d].cont /\ regions'[d].matches = regions[d].matches
  <2>1. regions[d] \in Frame
    <3>1. regions \in Seq(Frame) BY DEF IInv, TypeOK
    <3> QED BY <3>1 DEF top
  <2>2. PICK a \in BOOLEAN : regions'[d] = [regions[d] EXCEPT !.accept = a] BY <1>2
  <2> HIDE <1>2
  <2> QED BY <2>1, <2>2 DEF Frame
<1> USE DEF IInv
<1>4. TypeOK'
  <2>1. Len(regions') <= MaxDepth BY <1>1, <1>2, UnwindAssumption DEF top, TypeOK
  <2>2. regions' \in Seq(Frame) BY <1>2
  <2>3. uw_stack' \in Depth /\ uw_exit_point' \in Depth BY <1>1, UnwindAssumption DEF TypeOK, top, Depth
  <2>4. pc' = "unwind" /\ uw_env_stack' \in Depth BY <1>1 DEF TypeOK
  <2> HIDE DEF IInv
  <2> QED BY <2>1, <2>2, <2>3, <2>4 DEF TypeOK
<1>5. Links'
  BY <1>2, <1>3 DEF Links
<1>6. EnvLinks'
  <2>1. \A e, d : EnvAt(e, d) /\ d \in 0 .. top => EnvAt(e, d)' BY <1>1, <1>2, <1>3 DEF EnvAt
  <2>2. EnvAt(uw_env_stack, uw_stack)' BY <2>1, <1>1 DEF EnvLinks
  <2>3. ASSUME NEW d \in 1 .. top, regions'[d].type = "UW_ENV" PROVE EnvAt(regions[d].up_env, d - 1)'
    BY <2>3, <2>1, <1>1, <1>3 DEF EnvLinks
  <2> QED BY <1>2, <2>2, <2>3 DEF EnvLinks
<1>7. \A d \in 1 .. top : regions[d].at # "done"
  BY <1>1 DEF Running, Places
<1>8. Places'
  <2>1. ASSUME NEW d \in 1 .. top PROVE FrameOK(regions[d])'
    BY <1>3 DEF Places, FrameOK, IsCatch
  <2> QED BY <2>1, <1>2, <1>3, <1>7 DEF Places
<1>9. \A d : Open(d) => Open(d)'
  BY <1>1, <1>2, <1>3 DEF Open, IsCatch
<1>10. Conts'
  <2>1. ASSUME NEW d \in 1 .. top, regions'[d].at = "cleanup", regions'[d].cont # 0
        PROVE  Open(regions[d].cont)' /\ regions'[d].cont < d
    <3>1. Open(regions[d].cont) /\ regions[d].cont < d BY <1>3, <2>1 DEF Conts
    <3> QED BY <3>1, <1>3, <1>9
  <2> QED BY <1>2, <2>1 DEF Conts
<1>11. Control'
  <2>1. Open(ex)' BY <1>9
  <2>2. top >= 1 BY <1>1
  <2> QED BY <2>1, <2>2, <1>1, <1>2 DEF Control
<1> QED BY <1>4, <1>5, <1>6, <1>8, <1>10, <1>11

\* So does a transfer that passes a frame.
LEMMA PassInv == ASSUME IInv, Pass PROVE IInv'
<1>1. /\ top \in Nat /\ pc = "unwind" /\ uw_stack \in 1 .. top /\ uw_exit_point < uw_stack
      /\ Open(uw_exit_point) /\ uw_exit_point \in 1 .. top
  BY DEF TypeOK, top, IInv, Control, Pass, Open
<1>2. UNCHANGED <<regions, uw_exit_point>> /\ top' = top
  BY DEF Pass, top
<1>3. regions[uw_stack].up = uw_stack - 1
  BY <1>1 DEF IInv, Links
<1>4. uw_stack' = uw_stack - 1 /\ pc' = "unwind"
  BY <1>1, <1>3 DEF Pass
<1>5. EnvAt(uw_env_stack', uw_stack')
  <2>1. EnvAt(uw_env_stack, uw_stack) BY DEF IInv, EnvLinks
  <2>2. CASE regions[uw_stack].type = "UW_ENV"
    <3>1. uw_env_stack = uw_stack BY <2>1, <2>2, <1>1 DEF EnvAt
    <3>2. EnvAt(regions[uw_stack].up_env, uw_stack - 1) BY <2>2, <1>1 DEF IInv, EnvLinks
    <3>3. uw_env_stack' = regions[uw_stack].up_env BY <2>2, <3>1 DEF Pass
    <3> QED BY <3>2, <3>3, <1>4
  <2>3. CASE regions[uw_stack].type # "UW_ENV"
    <3>1. uw_env_stack' = uw_env_stack BY <2>3 DEF Pass
    <3> QED BY <3>1, <2>1, <2>3, <1>1, <1>4 DEF EnvAt
  <2> QED BY <2>2, <2>3
<1>6. ~ Stops(regions[uw_stack])
  BY DEF Pass
<1> USE DEF IInv
<1>7. TypeOK'
  <2>1. uw_stack' \in Depth BY <1>1, <1>4, UnwindAssumption DEF TypeOK, top, Depth
  <2>2. uw_env_stack' \in Depth
    BY <1>1, <1>4, <1>5, UnwindAssumption DEF TypeOK, top, Depth, EnvAt
  <2> QED BY <2>1, <2>2, <1>2, <1>4 DEF TypeOK
<1>8. Links'
  BY <1>2 DEF Links
<1>9. EnvLinks'
  BY <1>2, <1>5 DEF EnvLinks, EnvAt
<1>10. Places'
  BY <1>1, <1>2, <1>4 DEF Places
<1>11. Conts'
  BY <1>2 DEF Conts, Open
<1>12. Control'
  <2>1. Open(uw_exit_point)' BY <1>1, <1>2 DEF Open
  <2>2. IsCatch(regions[uw_stack]) => regions[uw_stack].at = "cleanup"
    BY <1>1, <1>6 DEF Stops, Places, FrameOK
  <2>3. \A d \in uw_stack' + 1 .. top : IsCatch(regions[d]) => regions[d].at = "cleanup"
    BY <2>2, <1>1, <1>4 DEF Control
  <2> QED BY <2>1, <2>3, <1>1, <1>2, <1>4 DEF Control
<1> QED BY <1>7, <1>8, <1>9, <1>10, <1>11, <1>12

\* The frame of the innermost region changes.
LEMMA BodyFacts ==
  ASSUME regions \in Seq(Frame), top > 0, NEW fr \in Frame, regions' = [regions EXCEPT ![top] = fr]
  PROVE  /\ regions' \in Seq(Frame) /\ top' = top /\ regions'[top] = fr
         /\ \A d \in 1 .. top - 1 : regions'[d] = regions[d]
BY DEF top

\* A frame whose clean-up code is entered, with c as the transfer to resume.
LEMMA CleanupFrame ==
  ASSUME NEW fr \in Frame, IsCatch(fr), FrameOK(fr), fr.at # "cleanup", NEW c \in Depth
  PROVE  LET to == Cleanup([fr EXCEPT !.cont = c])
         IN  /\ to \in Frame /\ FrameOK(to) /\ to.at = "cleanup" /\ to.cont = c
             /\ to.type = fr.type /\ to.up = fr.up /\ to.up_env = fr.up_env
<1> DEFINE fc == [fr EXCEPT !.cont = c]
           to == Cleanup(fc)
<1>1. fc \in Frame /\ fc.runs = 0 /\ fc.cont = c /\ fc.type = fr.type /\ fc.up = fr.up /\ fc.up_env = fr.up_env
  BY DEF Frame, FrameOK
<1> HIDE DEF fc
<1>2. to = [fc EXCEPT !.at = "cleanup", !.visible = FALSE, !.runs = 1]
  BY <1>1 DEF Cleanup
<1>3. to \in Frame
  <2>1. [fc EXCEPT !.at = "cleanup"] \in Frame BY <1>1 DEF Frame, Place
  <2>2. \A f \in Frame : [f EXCEPT !.visible = FALSE] \in Frame BY DEF Frame
  <2>3. \A f \in Frame : [f EXCEPT !.runs = 1] \in Frame BY DEF Frame
  <2>4. to = [[[fc EXCEPT !.at = "cleanup"] EXCEPT !.visible = FALSE] EXCEPT !.runs = 1] BY <1>1, <1>2 DEF Frame
  <2> HIDE DEF to
  <2> QED BY <2>1, <2>2, <2>3, <2>4, Zenon
<1>4. /\ to.at = "cleanup" /\ ~ to.visible /\ to.runs = 1 /\ to.cont = c
      /\ to.type = fc.type /\ to.up = fc.up /\ to.up_env = fc.up_env
  BY <1>1, <1>2 DEF Frame
<1> HIDE DEF to
<1>5. FrameOK(to) BY <1>1, <1>4 DEF FrameOK, IsCatch
<1> QED BY <1>1, <1>3, <1>4, <1>5 DEF to, fc

\* The end of a body or a handler keeps the invariant.
LEMMA BodyEndsInv ==
  ASSUME IInv, pc = "run", pc' = "run", top > 0, IsCatch(regions[top]), regions[top].at # "cleanup",
         regions' = [regions EXCEPT ![top] = Cleanup(@)],
         UNCHANGED <<uw_stack, uw_env_stack, uw_exit_point>>
  PROVE  IInv'
<1> DEFINE fr == Cleanup(regions[top])
<1>1. top \in Nat /\ uw_stack = top /\ regions \in Seq(Frame) /\ regions[top] \in Frame
  BY DEF IInv, TypeOK, Control, top
<1>2. FrameOK(regions[top])
  BY <1>1 DEF IInv, Places
<1>3. /\ fr \in Frame /\ FrameOK(fr) /\ fr.cont = 0
      /\ fr.type = regions[top].type /\ fr.up = regions[top].up /\ fr.up_env = regions[top].up_env
  <2>1. regions[top].cont = 0 /\ 0 \in Depth BY <1>2, UnwindAssumption DEF FrameOK, Depth
  <2>2. regions[top] = [regions[top] EXCEPT !.cont = 0] BY <1>1, <2>1 DEF Frame
  <2> QED BY <1>1, <1>2, <2>1, <2>2, CleanupFrame
<1>4. regions' = [regions EXCEPT ![top] = fr]
  OBVIOUS
<1> HIDE DEF fr
<1>5. /\ regions' \in Seq(Frame) /\ top' = top /\ regions'[top] = fr
      /\ \A d \in 1 .. top - 1 : regions'[d] = regions[d]
  BY <1>1, <1>3, <1>4, BodyFacts
<1>6. uw_exit_point' \in Depth
  BY DEF IInv, TypeOK
<1> QED
  BY <1>1, <1>3, <1>5, <1>6, JumpInv

\* So does a transfer that is interrupted.
LEMMA InterceptInv == ASSUME IInv, Intercept PROVE IInv'
<1> DEFINE fr == Cleanup([regions[uw_stack] EXCEPT !.cont = uw_exit_point])
<1>1. /\ top \in Nat /\ uw_stack \in 1 .. top /\ uw_exit_point < uw_stack /\ Open(uw_exit_point)
      /\ regions \in Seq(Frame) /\ regions[uw_stack] \in Frame /\ uw_exit_point \in Depth
  <2>1. /\ top \in Nat /\ uw_stack \in 1 .. top /\ uw_exit_point < uw_stack /\ Open(uw_exit_point)
        /\ regions \in Seq(Frame) /\ uw_exit_point \in Depth
    BY DEF IInv, TypeOK, Control, top, Intercept, Depth
  <2> QED BY <2>1 DEF top
<1>2. IsCatch(regions[uw_stack]) /\ FrameOK(regions[uw_stack]) /\ regions[uw_stack].at # "cleanup"
  BY <1>1 DEF IInv, Places, Intercept, Stops, FrameOK
<1>3. /\ fr \in Frame /\ FrameOK(fr) /\ fr.cont = uw_exit_point
      /\ fr.type = regions[uw_stack].type /\ fr.up = regions[uw_stack].up
      /\ fr.up_env = regions[uw_stack].up_env
  BY <1>1, <1>2, CleanupFrame
<1>4. regions' = Append(SubSeq(regions, 1, uw_stack - 1), fr) /\ pc' = "run"
  BY DEF Intercept, Jump
<1> HIDE DEF fr
<1>5. /\ regions' \in Seq(Frame) /\ top' = uw_stack /\ regions'[uw_stack] = fr
      /\ \A d \in 1 .. uw_stack - 1 : regions'[d] = regions[d]
  BY <1>1, <1>3, <1>4, JumpFacts
<1>6. UNCHANGED <<uw_stack, uw_env_stack, uw_exit_point>>
  BY DEF Intercept
<1> QED
  BY <1>1, <1>3, <1>4, <1>5, <1>6, JumpInv

\* So does one that arrives.
LEMMA LandInv == ASSUME IInv, Land PROVE IInv'
<1> DEFINE at == regions[uw_stack]
           fr == IF IsCatch(at) THEN [at EXCEPT !.at = "catch", !.matches = {}]
                                ELSE [at EXCEPT !.at = "done"]
<1>1. /\ top \in Nat /\ uw_stack \in 1 .. top /\ Open(uw_stack)
      /\ regions \in Seq(Frame)
  BY DEF IInv, TypeOK, Control, top, Land
<1>2. at \in Frame /\ FrameOK(at) /\ at.at = "body" /\ at.type \notin {"UW_ENV", "UW_DBG"}
  <2>1. at \in Frame BY <1>1 DEF top
  <2> QED BY <2>1, <1>1 DEF IInv, Places, Open, IsCatch
<1> HIDE DEF at
<1>3. fr \in Frame /\ FrameOK(fr) /\ fr.at # "cleanup"
      /\ fr.type = at.type /\ fr.up = at.up /\ fr.up_env = at.up_env
  <2>1. CASE IsCatch(at) BY <2>1, <1>2 DEF Frame, FrameOK, IsCatch, Place
  <2>2. CASE ~ IsCatch(at) BY <2>2, <1>2 DEF Frame, FrameOK, IsCatch, Place
  <2> QED BY <2>1, <2>2
<1>4. regions' = Append(SubSeq(regions, 1, uw_stack - 1), fr) /\ pc' = "run"
  BY <1>2 DEF Land, at
<1> HIDE DEF fr
<1>5. /\ regions' \in Seq(Frame) /\ top' = uw_stack /\ regions'[uw_stack] = fr
      /\ \A d \in 1 .. uw_stack - 1 : regions'[d] = regions[d]
  BY <1>1, <1>3, <1>4, JumpFacts
<1>6. UNCHANGED <<uw_stack, uw_env_stack>> /\ uw_exit_point' \in Depth
  BY UnwindAssumption DEF Land, Depth
<1> QED
  BY <1>1, <1>3, <1>4, <1>5, <1>6, JumpInv DEF at

-----------------------------------------------------------------------------
\* The frames from depth n outwards are those of the regions: there is
\* only one function that satisfies the recursion of Chain.
LEMMA ChainIs ==
  ASSUME IInv, NEW n \in 0 .. top
  PROVE  Chain(n) = 1 .. n
<1>1. top \in Nat /\ \A d \in 1 .. top : regions[d].up = d - 1
  BY DEF IInv, TypeOK, top, Links
<1> DEFINE Is(c) == c = [e \in 0 .. top |-> IF e = 0 THEN {} ELSE {e} \cup c[regions[e].up]]
<1>2. Is([e \in 0 .. top |-> 1 .. e])
  <2> DEFINE g == [e \in 0 .. top |-> 1 .. e]
  <2>1. ASSUME NEW e \in 0 .. top PROVE g[e] = IF e = 0 THEN {} ELSE {e} \cup g[regions[e].up]
    <3>1. CASE e = 0 BY <3>1, <1>1
    <3>2. CASE e \in 1 .. top
      <4>1. regions[e].up = e - 1 /\ e - 1 \in 0 .. top BY <3>2, <1>1
      <4>2. g[e] = 1 .. e /\ g[e - 1] = 1 .. e - 1 BY <4>1
      <4>3. 1 .. e = {e} \cup 1 .. e - 1 BY <3>2
      <4>4. e # 0 BY <3>2
      <4> HIDE DEF g
      <4> QED BY <4>1, <4>2, <4>3, <4>4, Zenon
    <3> QED BY <3>1, <3>2, <1>1
  <2> QED BY <2>1
<1>3. ASSUME NEW c, Is(c) PROVE c[n] = 1 .. n
  <2> DEFINE S == {e \in Nat : e <= top => c[e] = 1 .. e}
  <2>1. 0 \in S BY <1>1, <1>3
  <2>2. ASSUME NEW e \in Nat, e \in S PROVE e + 1 \in S
    <3>1. CASE e + 1 <= top
      <4>1. e \in 0 .. top /\ e + 1 \in 1 .. top BY <3>1, <1>1
      <4>2. regions[e + 1].up = e BY <4>1, <1>1
      <4>3. c[e] = 1 .. e BY <3>1, <2>2, <1>1
      <4>4. c = [d \in 0 .. top |-> IF d = 0 THEN {} ELSE {d} \cup c[regions[d].up]] BY <1>3
      <4>5. e + 1 \in 0 .. top /\ e + 1 # 0 BY <4>1
      <4>6. c[e + 1] = {e + 1} \cup c[regions[e + 1].up]
        <5> HIDE DEF Is
        <5> QED BY <4>4, <4>5, Zenon
      <4>7. 1 .. e + 1 = {e + 1} \cup 1 .. e BY <4>1
      <4>8. c[e + 1] = 1 .. e + 1 BY <4>2, <4>3, <4>6, <4>7, Zenon
      <4> QED BY <4>8
    <3> QED BY <3>1
  <2> HIDE DEF S
  <2>3. Nat \subseteq S BY <2>1, <2>2, SetInduction
  <2> QED BY <2>3, <1>1 DEF S
<1>4. Is(CHOOSE c : Is(c))
  <2> HIDE DEF Is
  <2> QED BY <1>2, Zenon
<1>5. (CHOOSE c : Is(c))[n] = 1 .. n
  <2> HIDE DEF Is
  <2> QED BY <1>3, <1>4
<1> QED BY <1>5 DEF Chain

\* A non-empty set of depths has an innermost one.
LEMMA InnermostIs ==
  ASSUME NEW n \in Nat, NEW S \in SUBSET (1 .. n), S # {}
  PROVE  Innermost(S) \in S /\ \A d \in S : d <= Innermost(S)
<1> DEFINE T == {n - d : d \in S}
<1>1. T \in SUBSET Nat /\ T # {}
  <2>1. \A d \in S : n - d \in Nat
    OBVIOUS
  <2>2. QED
    BY <2>1
<1>2. PICK x \in T : \A y \in T : x <= y
  BY <1>1, LeastNumber
<1>3. PICK d \in S : x = n - d
  BY <1>2
<1>4. ASSUME NEW e \in S PROVE e <= d
  <2>1. x <= n - e /\ e \in 1 .. n /\ d \in 1 .. n
    BY <1>2, <1>3
  <2>2. QED
    BY <1>3, <2>1
<1>5. QED
  BY <1>3, <1>4 DEF Innermost

\* uw_block_return_proto() and uw_throw() choose their targets among the
\* blocks and the visible catch frames with clauses; all of them are open.
LEMMA SendInv ==
  ASSUME IInv, Running, NEW S \in SUBSET Chain(uw_stack), S # {},
         \A d \in S : \/ regions[d].type = "UW_BLOCK"
                      \/ IsCatch(regions[d]) /\ regions[d].visible /\ regions[d].matches # {},
         Transfer(Innermost(S), TRUE) \/ Transfer(Innermost(S), FALSE)
  PROVE  IInv'
<1>1. top \in Nat /\ uw_stack = top /\ pc = "run"
  BY DEF IInv, TypeOK, top, Control, Running
<1>2. S \subseteq 1 .. top
  BY <1>1, ChainIs
<1>3. Innermost(S) \in S
  BY <1>1, <1>2, InnermostIs
<1>4. Innermost(S) \in 1 .. top
  BY <1>2, <1>3
<1>5. \A d \in 1 .. top : regions[d].at # "done"
  BY <1>1 DEF IInv, Places, Running
<1>6. ASSUME NEW d \in S PROVE Open(d)
  <2>1. d \in 1 .. top /\ FrameOK(regions[d]) /\ regions[d].at # "done"
        /\ regions[d].at \in Place
    <3>1. d \in 1 .. top BY <1>2
    <3>2. regions[d] \in Frame BY <3>1 DEF IInv, TypeOK, top
    <3> QED BY <3>1, <3>2, <1>5 DEF IInv, Places, Frame
  <2>2. CASE IsCatch(regions[d]) /\ regions[d].visible /\ regions[d].matches # {}
    BY <2>1, <2>2 DEF Open, FrameOK, Place
  <2>3. CASE regions[d].type = "UW_BLOCK"
    BY <2>1, <2>3 DEF Open, FrameOK, IsCatch
  <2> QED BY <2>2, <2>3
<1> QED
  BY <1>3, <1>4, <1>6, TransferInv

\* What the uw_push_...() functions have in common.
LEMMA NewFrameIs ==
  ASSUME IInv, NEW type \in {"UW_BLOCK", "UW_ENV", "UW_CATCH", "UW_DBG", "trailer"}
  PROVE  LET fr == NewFrame(type)
         IN  /\ fr \in Frame /\ FrameOK(fr) /\ fr.type = type
             /\ fr.up = uw_stack /\ fr.at = "body"
BY UnwindAssumption DEF NewFrame, Frame, FrameOK, IsCatch, IInv, TypeOK, Place, Depth

\* Every uw_push_...() keeps the invariant.
LEMMA PushesInv ==
  ASSUME IInv, \/ \E tag \in Tag : PushBlock(tag)
               \/ \E matches \in SUBSET Exc : PushCatch(matches)
               \/ PushEnv \/ PushDebug \/ PushTrailer
  PROVE  IInv'
<1>1. ASSUME NEW tag \in Tag, PushBlock(tag) PROVE IInv'
  <2> DEFINE fr == [NewFrame("UW_BLOCK") EXCEPT !.tag = tag]
  <2>1. fr \in Frame /\ fr.type = "UW_BLOCK" /\ fr.up = uw_stack /\ fr.at = "body"
    BY NewFrameIs DEF Frame
  <2>2. Push(fr) /\ UNCHANGED uw_env_stack BY <1>1 DEF PushBlock
  <2> HIDE DEF fr
  <2>3. FrameOK(fr) BY <2>1 DEF FrameOK, IsCatch
  <2> QED BY <2>1, <2>2, <2>3, PushInv
<1>2. ASSUME NEW matches \in SUBSET Exc, PushCatch(matches) PROVE IInv'
  <2> DEFINE new == NewFrame("UW_CATCH")
             fr == [new EXCEPT !.matches = matches]
  <2>1. new \in Frame /\ FrameOK(new) /\ new.type = "UW_CATCH" /\ new.up = uw_stack /\ new.at = "body"
    BY NewFrameIs
  <2>2. Push(fr) /\ UNCHANGED uw_env_stack BY <1>2 DEF PushCatch
  <2> HIDE DEF new
  <2>3. fr \in Frame /\ fr.type = "UW_CATCH" /\ fr.up = uw_stack /\ fr.at = "body"
    BY <2>1 DEF Frame
  <2>4. FrameOK(fr) BY <2>1 DEF FrameOK, IsCatch, Frame
  <2> QED BY <2>2, <2>3, <2>4, PushInv
<1>3. ASSUME PushEnv PROVE IInv'
  <2> DEFINE fr == [NewFrame("UW_ENV") EXCEPT !.up_env = uw_env_stack]
  <2>1. fr \in Frame /\ fr.type = "UW_ENV" /\ fr.up = uw_stack /\ fr.at = "body" /\ fr.up_env = uw_env_stack
    BY NewFrameIs DEF Frame, IInv, TypeOK
  <2>2. Push(fr) /\ uw_env_stack' = top + 1 BY <1>3 DEF PushEnv
  <2> HIDE DEF fr
  <2>3. FrameOK(fr) BY <2>1 DEF FrameOK, IsCatch
  <2> QED BY <2>1, <2>2, <2>3, PushInv
<1>4. ASSUME PushDebug \/ PushTrailer PROVE IInv'
  <2>1. PICK fr \in Frame : /\ FrameOK(fr) /\ fr.type # "UW_ENV" /\ fr.up = uw_stack /\ fr.at = "body"
                            /\ Push(fr) /\ UNCHANGED uw_env_stack
    BY <1>4, NewFrameIs DEF PushDebug, PushTrailer
  <2> QED BY <2>1, PushInv
<1> QED
  BY <1>1, <1>2, <1>3, <1>4

\* So does the end of a region,
LEMMA EndInv == ASSUME IInv, End PROVE IInv'
BY PopInv DEF End, IInv, TypeOK

\* the end of clean-up code,
LEMMA CleanupEndsInv == ASSUME IInv, CleanupEnds PROVE IInv'
<1>1. top \in Nat /\ top > 0 /\ pc = "run" /\ regions[top].at = "cleanup"
  BY DEF IInv, TypeOK, top, CleanupEnds
<1>2. CASE regions[top].cont = 0 /\ PopFrame("run") /\ UNCHANGED uw_exit_point
  BY <1>1, <1>2, PopInv DEF IInv, TypeOK
<1>3. CASE regions[top].cont # 0 /\ PopFrame("unwind") /\ uw_exit_point' = regions[top].cont
  <2>1. Open(regions[top].cont) /\ regions[top].cont < top
    BY <1>1, <1>3 DEF IInv, Conts
  <2>2. regions[top].cont \in Depth
    <3>1. regions[top] \in Frame BY <1>1 DEF IInv, TypeOK, top
    <3> QED BY <3>1 DEF Frame
  <2> QED BY <1>1, <1>3, <2>1, <2>2, PopInv
<1> QED
  BY <1>2, <1>3 DEF CleanupEnds

\* The blocks that a return can go to.
BlocksOf(tag) == {d \in Chain(uw_stack) : regions[d].type = "UW_BLOCK" /\ regions[d].tag = tag}

\* the return from a block,
LEMMA BlockReturnInv ==
  ASSUME IInv, NEW tag \in Tag, BlockReturn(tag, TRUE) \/ BlockReturn(tag, FALSE)
  PROVE  IInv'
<1>1. /\ Running /\ BlocksOf(tag) # {}
      /\ Transfer(Innermost(BlocksOf(tag)), TRUE) \/ Transfer(Innermost(BlocksOf(tag)), FALSE)
  BY DEF BlockReturn, BlocksOf
<1>2. BlocksOf(tag) \in SUBSET Chain(uw_stack)
  BY DEF BlocksOf
<1>3. \A d \in BlocksOf(tag) : regions[d].type = "UW_BLOCK"
  BY DEF BlocksOf
<1> QED
  BY <1>1, <1>2, <1>3, SendInv

\* an exception,
LEMMA ThrowInv ==
  ASSUME IInv, NEW sym \in Exc, Throw(sym)
  PROVE  IInv'
<1>1. CASE Catchers(sym) # {} /\ Transfer(Innermost(Catchers(sym)), FALSE)
  <2>1. Running BY DEF Throw
  <2>2. Catchers(sym) \in SUBSET Chain(uw_stack)
    BY DEF Catchers
  <2>3. \A d \in Catchers(sym) : IsCatch(regions[d]) /\ regions[d].visible /\ regions[d].matches # {}
    BY DEF Catchers
  <2> QED BY <1>1, <2>1, <2>2, <2>3, SendInv
<1>2. CASE pc' = "unhandled" /\ UNCHANGED <<regions, uw_stack, uw_env_stack, uw_exit_point>>
  <2>1. top' = top /\ pc = "run" BY <1>2 DEF Throw, Running, top
  <2>2. TypeOK' BY <1>2 DEF IInv, TypeOK
  <2>3. Links' BY <1>2, <2>1 DEF IInv, Links
  <2>4. EnvLinks' BY <1>2, <2>1 DEF IInv, EnvLinks, EnvAt
  <2>5. Conts' BY <1>2, <2>1 DEF IInv, Conts, Open
  <2>6. Control' BY <1>2, <2>1 DEF IInv, Control
  <2>7. Places'
    <3>1. \A d \in 1 .. top : regions[d].at # "done"
      BY DEF IInv, TypeOK, top, Places, Running, Throw
    <3> QED BY <1>2, <2>1, <3>1 DEF IInv, Places
  <2> QED BY <2>2, <2>3, <2>4, <2>5, <2>6, <2>7 DEF IInv
<1> QED
  BY <1>1, <1>2 DEF Throw

\* and therefore every step of Unwind, whoever its client is.
LEMMA StepInv ==
  ASSUME IInv,
         \/ Next \/ PushTrailer \/ \E tag \in Tag : BlockReturn(tag, TRUE)
  PROVE  IInv'
<1>1. ASSUME BodyEnds PROVE IInv'
  BY <1>1, BodyEndsInv DEF BodyEnds, IsCatch
<1> QED
  BY <1>1, PushesInv, EndInv, CleanupEndsInv, BlockReturnInv, ThrowInv, PassInv, InterceptInv, LandInv
     DEF Next

\* The invariant is about the variables only.
LEMMA StutterInv == ASSUME IInv, UNCHANGED vars PROVE IInv'
<1>1. top' = top BY DEF vars, top
<1> QED BY <1>1 DEF vars, IInv, TypeOK, Links, EnvLinks, EnvAt, Places, Conts, Control, Open

\* The invariant holds in every state.
THEOREM Invariance == Spec => []IInv
<1>1. Init => IInv
  BY InitIInv
<1>2. IInv /\ [Next]_vars => IInv'
  BY StepInv, StutterInv
<1> QED
  BY <1>1, <1>2, PTL DEF Spec

-----------------------------------------------------------------------------
\* The invariant implies that the stacks agree,
LEMMA IInvAgree == IInv => StacksAgree
<1> SUFFICES ASSUME IInv PROVE StacksAgree
  OBVIOUS
<1>1. TypeOK /\ pc # "abort" /\ (pc = "run" => uw_stack = top)
      /\ (pc = "unwind" => uw_stack \in 1 .. top)
  BY DEF IInv, Control
<1>2. EnvAt(uw_env_stack, uw_stack) /\ uw_stack \in Nat
  BY DEF IInv, EnvLinks, TypeOK, Depth
<1>3. uw_env_stack = IF Envs(uw_stack) = {} THEN 0 ELSE Innermost(Envs(uw_stack))
  <2>1. CASE uw_env_stack = 0
    <3>1. Envs(uw_stack) = {} BY <1>2, <2>1 DEF EnvAt, Envs
    <3> QED BY <2>1, <3>1
  <2>2. CASE uw_env_stack # 0
    <3>1. uw_env_stack \in Envs(uw_stack) /\ \A d \in Envs(uw_stack) : d <= uw_env_stack
      BY <1>2, <2>2 DEF EnvAt, Envs
    <3>2. Envs(uw_stack) \in SUBSET (1 .. uw_stack) BY DEF Envs
    <3>3. /\ Innermost(Envs(uw_stack)) \in Envs(uw_stack)
          /\ \A d \in Envs(uw_stack) : d <= Innermost(Envs(uw_stack))
      BY <3>1, <3>2, <1>2, InnermostIs
    <3> QED BY <3>1, <3>2, <3>3, <1>2
  <2> QED BY <2>1, <2>2
<1> QED
  BY <1>1, <1>3 DEF StacksAgree

\* and that transfers go to open frames.
LEMMA IInvOpen == IInv => TargetsOpen
BY DEF IInv, Control, Conts, TargetsOpen

\* The lists that unwind.c keeps agree with the C stack, so that no assertion
\* of uw_pop_frame() fails and uw_unwind_to_exit_point() never aborts.
THEOREM FramesAreInStep == Spec => []StacksAgree
BY Invariance, IInvAgree, PTL

\* A transfer of control, resumed or not, only goes to a block that is open or
\* a try block that is in its body.
THEOREM TransfersGoToOpenFrames == Spec => []TargetsOpen
BY Invariance, IInvOpen, PTL

\* A catch region that a step leaves has had its clean-up code entered.
LEMMA CutIsClean ==
  ASSUME IInv, Next, NEW d \in 1 .. top, IsCatch(regions[d]), d > Len(regions')
  PROVE  regions[d].runs = 1
<1>1. /\ top \in Nat /\ regions \in Seq(Frame) /\ top = Len(regions) /\ regions[d] \in Frame
      /\ Len(regions) \in Nat /\ FrameOK(regions[d])
  BY DEF IInv, TypeOK, top, Places
<1>2. regions[d].at = "cleanup" => regions[d].runs = 1
  BY <1>1 DEF FrameOK
<1>3. ASSUME NEW fr, Push(fr) PROVE FALSE
  BY <1>1, <1>3 DEF Push, top
<1>4. ASSUME NEW next, PopFrame(next) PROVE d = top
  <2>1. top - 1 \in 0 .. top BY <1>1
  <2>2. Len(regions') = top - 1 BY <2>1, <1>1, <1>4, CutFacts DEF PopFrame, top
  <2> QED BY <2>2, <1>1
<1>5. ASSUME Len(regions') = Len(regions) PROVE FALSE
  BY <1>1, <1>5
<1>6. ASSUME Intercept \/ Land PROVE regions[d].at = "cleanup"
  <2>1. uw_stack \in 1 .. top /\ pc = "unwind"
    BY <1>6 DEF IInv, Control, Intercept, Land
  <2>2. uw_stack' = uw_stack /\ pc' \in {"run", "abort"}
    BY <1>6 DEF Intercept, Jump, Land
  <2>3. Control'
    BY <1>6, InterceptInv, LandInv DEF IInv
  <2>4. Len(regions') = uw_stack
    BY <2>2, <2>3 DEF Control, top
  <2> QED BY <2>1, <2>4, <1>1 DEF IInv, Control
<1>7. ASSUME End PROVE FALSE
  BY <1>4, <1>7 DEF End
<1>8. ASSUME CleanupEnds PROVE regions[d].at = "cleanup"
  BY <1>4, <1>8 DEF CleanupEnds
<1>9. ASSUME \/ Pass \/ BodyEnds \/ \E sym \in Exc : Throw(sym)
             \/ \E tag \in Tag : BlockReturn(tag, FALSE)
      PROVE  Len(regions') = Len(regions)
  <2>1. ASSUME NEW ex, Transfer(ex, FALSE) PROVE Len(regions') = Len(regions)
    BY <1>1, <2>1 DEF Transfer
  <2>2. CASE Pass BY <2>2 DEF Pass
  <2>3. CASE BodyEnds BY <2>3, <1>1 DEF BodyEnds
  <2>4. CASE \E sym \in Exc : Throw(sym) BY <2>1, <2>4 DEF Throw
  <2>5. CASE \E tag \in Tag : BlockReturn(tag, FALSE) BY <2>1, <2>5 DEF BlockReturn
  <2> QED BY <1>9, <2>2, <2>3, <2>4, <2>5
<1>10. ASSUME \/ \E tag \in Tag : PushBlock(tag)
              \/ \E matches \in SUBSET Exc : PushCatch(matches)
              \/ PushEnv \/ PushDebug
       PROVE  FALSE
  BY <1>3, <1>10 DEF PushBlock, PushCatch, PushEnv, PushDebug
<1>11. ASSUME NEW tag \in Tag, PushBlock(tag) \/ BlockReturn(tag, FALSE) PROVE FALSE
  BY <1>5, <1>9, <1>10, <1>11
<1> QED
  BY <1>2, <1>5, <1>6, <1>7, <1>8, <1>9, <1>10, <1>11 DEF Next

\* No catch region is left without its clean-up code having been entered.
THEOREM CleanupIsNeverSkipped == Spec => CleanupRuns
<1>1. IInv /\ [Next]_vars =>
        [\A d \in 1 .. top : IsCatch(regions[d]) /\ d > Len(regions') => regions[d].runs = 1]_vars
  BY CutIsClean
<1> QED
  BY <1>1, Invariance, PTL DEF Spec, CleanupRuns

-----------------------------------------------------------------------------
\* The end of the clauses of a trailer.
LEMMA TrailerBodyEndsInv == ASSUME IInv, TrailerBodyEnds PROVE IInv'
<1>1. CASE regions' = [regions EXCEPT ![top] = Cleanup(@)] /\ UNCHANGED pc
  BY <1>1, BodyEndsInv DEF TrailerBodyEnds, IsCatch
<1>2. CASE pc' = "crash" /\ UNCHANGED regions
  <2>1. top' = top /\ pc = "run" /\ top \in Nat /\ regions[top].at = "body" /\ top > 0
    BY <1>2 DEF TrailerBodyEnds, top, IInv, TypeOK
  <2>2. UNCHANGED <<regions, uw_stack, uw_env_stack, uw_exit_point>> BY <1>2 DEF TrailerBodyEnds
  <2>3. TypeOK' BY <1>2, <2>2 DEF IInv, TypeOK
  <2>4. Links' BY <1>2, <2>1 DEF IInv, Links
  <2>5. EnvLinks' BY <2>2, <2>1 DEF IInv, EnvLinks, EnvAt
  <2>6. Conts' BY <1>2, <2>1 DEF IInv, Conts, Open
  <2>7. Control'
    <3>1. uw_stack' = top' /\ pc' = "crash" BY <1>2, <2>1, <2>2 DEF IInv, Control
    <3> QED BY <3>1 DEF Control
  <2>8. Places' BY <1>2, <2>1 DEF IInv, Places
  <2> QED BY <2>3, <2>4, <2>5, <2>6, <2>7, <2>8 DEF IInv
<1> QED
  BY <1>1, <1>2 DEF TrailerBodyEnds

\* With @(trailer) among the regions all this is true as well, even though its
\* clean-up code may dereference a null uw_exit_point.
THEOREM TrailerKeepsStacks == TrailerSpec => [](StacksAgree /\ TargetsOpen)
<1>1. TrailerInit => IInv
  BY InitIInv DEF TrailerInit
<1>2. IInv /\ [TrailerNext]_tvars => IInv'
  <2>1. IInv /\ TrailerNext => IInv'
    <3>1. IInv /\ PushCatch({}) => IInv' BY PushesInv
    <3> QED BY <3>1, StepInv, TrailerBodyEndsInv, InterceptInv DEF TrailerNext, Next, Accept, TrailerIntercept
  <2> QED BY <2>1, StutterInv DEF tvars
<1>3. IInv => StacksAgree /\ TargetsOpen
  BY IInvAgree, IInvOpen
<1> QED
  BY <1>1, <1>2, <1>3, PTL DEF TrailerSpec

-----------------------------------------------------------------------------
\* The parts again, with their theorems.
OfTypes == INSTANCE SubtypesProofs
OfHeap == INSTANCE FreeListProofs

-----------------------------------------------------------------------------
\* The two names of every definition of Subtypes stand for the same.
LEMMA SameTypes ==
  /\ OfTypes!BuiltinsAreRanked
  /\ Types!Init => OfTypes!Init
  /\ Types!Next => OfTypes!Next
  /\ OfTypes!PartialOrder => Types!PartialOrder
  /\ OfTypes!Relates => Types!Relates
<1> USE DEF Types!Entry, OfTypes!Entry, Types!Tails, OfTypes!Tails, Types!SubtypeP, OfTypes!SubtypeP,
            Types!Symbol, OfTypes!Symbol, Types!IsSubtype, OfTypes!IsSubtype
<1>1. OfTypes!BuiltinsAreRanked
  BY TypesAssumption DEF Types!BuiltinsAreRanked, OfTypes!BuiltinsAreRanked
<1>2. Types!Init => OfTypes!Init
  BY DEF Types!Init, OfTypes!Init, Types!RegisterSubtype, OfTypes!RegisterSubtype,
         Types!Point, OfTypes!Point, Types!WithSup, OfTypes!WithSup
<1>3. ASSUME NEW chain PROVE Types!Defex(chain) <=> OfTypes!Defex(chain)
  BY DEF Types!Defex, OfTypes!Defex, Types!Defined, OfTypes!Defined,
         Types!Refused, OfTypes!Refused, Types!RegisterSubtype, OfTypes!RegisterSubtype,
         Types!Point, OfTypes!Point, Types!WithSup, OfTypes!WithSup
<1>4. Types!Next => OfTypes!Next
  BY <1>3 DEF Types!Next, OfTypes!Next, Types!Chains, OfTypes!Chains
<1>5. OfTypes!PartialOrder => Types!PartialOrder
  BY DEF Types!PartialOrder, OfTypes!PartialOrder, Types!EndsInT, OfTypes!EndsInT
<1>6. OfTypes!Relates => Types!Relates
  <2>1. OfTypes!OnlyRedefinedMove <=> Types!OnlyRedefinedMove
    BY DEF Types!OnlyRedefinedMove, OfTypes!OnlyRedefinedMove
  <2>2. QED
    BY <1>3, <2>1 DEF Types!Relates, OfTypes!Relates
<1>7. QED
  BY <1>1, <1>2, <1>4, <1>5, <1>6

LEMMA RunsTypes == RuntimeSpec => OfTypes!Spec
<1>1. RuntimeInit => OfTypes!Init
  BY SameTypes DEF RuntimeInit
<1>2. [RuntimeNext]_<<part, vars, types, heap>> => [OfTypes!Next]_(OfTypes!vars)
  BY SameTypes DEF RuntimeNext, types, OfTypes!vars
<1>3. QED
  BY <1>1, <1>2, PTL DEF RuntimeSpec, OfTypes!Spec

\* The exception types are a partial order in every state of a run.
THEOREM RunOrdersTypes == RuntimeSpec => []PartialOrder
<1>1. OfTypes!Spec => []OfTypes!PartialOrder
  BY SameTypes, OfTypes!TypesAreOrdered
<1>2. OfTypes!PartialOrder => PartialOrder
  BY SameTypes DEF PartialOrder
<1>3. QED
  BY <1>1, <1>2, RunsTypes, PTL

\* Every @(defex) of a run relates the types that it names, and parts only those
\* it moves.
THEOREM RunRelatesTypes == RuntimeSpec => DefexRelates
<1>1. OfTypes!Spec => [][OfTypes!Relates]_(OfTypes!vars)
  BY SameTypes, OfTypes!DefinitionsRelate DEF OfTypes!DefexRelates
<1>2. [OfTypes!Relates]_(OfTypes!vars) /\ [RuntimeNext]_<<part, vars, types, heap>>
        => [part = "types" => Types!Relates]_<<part, types>>
  BY SameTypes DEF RuntimeNext, types, OfTypes!vars
<1>3. QED
  BY <1>1, <1>2, RunsTypes, PTL DEF RuntimeSpec, DefexRelates

-----------------------------------------------------------------------------
\* The two names of every definition of FreeList stand for the same.
LEMMA SameHeap ==
  /\ OfHeap!BlocksAreDisjoint
  /\ Heap!Init => OfHeap!Init
  /\ Heap!Next => OfHeap!Next
  /\ OfHeap!ListIsFree => Heap!ListIsFree
<1> USE DEF Heap!BlockCells, OfHeap!BlockCells, Heap!Cell, OfHeap!Cell,
            Heap!FreeListVar, OfHeap!FreeListVar, Heap!Cardinality, OfHeap!Cardinality,
            Heap!IsFiniteSet, OfHeap!IsFiniteSet
<1>1. OfHeap!BlocksAreDisjoint
  BY HeapAssumption DEF Heap!BlocksAreDisjoint, OfHeap!BlocksAreDisjoint,
                        Heap!IsInjective, OfHeap!IsInjective,
                        Heap!IsFiniteSet, OfHeap!IsFiniteSet
<1>2. Heap!Init => OfHeap!Init
  BY DEF Heap!Init, OfHeap!Init
<1>3. ASSUME NEW l, NEW freed PROVE Heap!Extend(l, freed) <=> OfHeap!Extend(l, freed)
  BY DEF Heap!Extend, OfHeap!Extend, Heap!More, OfHeap!More, Heap!Each, OfHeap!Each,
         Heap!Push, OfHeap!Push
<1>4. ASSUME NEW dead PROVE Heap!Sweep(dead) = OfHeap!Sweep(dead)
  BY DEF Heap!Sweep, OfHeap!Sweep, Heap!Each, OfHeap!Each, Heap!Release, OfHeap!Release,
         Heap!Push, OfHeap!Push, Heap!AppendTail, OfHeap!AppendTail
<1>5. ASSUME NEW full, NEW dead PROVE Heap!Gc(full, dead) <=> OfHeap!Gc(full, dead)
  BY <1>3, <1>4 DEF Heap!Gc, OfHeap!Gc, Heap!WantMore, OfHeap!WantMore, Heap!Range, OfHeap!Range
<1>6. Heap!Next => OfHeap!Next
  BY <1>3, <1>5 DEF Heap!Next, OfHeap!Next, Heap!Take, OfHeap!Take,
         Heap!MakeObjMore, OfHeap!MakeObjMore, Heap!Heap, OfHeap!Heap,
         Heap!kSubset, OfHeap!kSubset, Heap!SetToSeqs, OfHeap!SetToSeqs,
         Heap!IsInjective, OfHeap!IsInjective
<1>7. OfHeap!ListIsFree => Heap!ListIsFree
  BY DEF Heap!ListIsFree, OfHeap!ListIsFree, Heap!Listed, OfHeap!Listed, Heap!Walk, OfHeap!Walk
<1>8. QED
  BY <1>1, <1>2, <1>6, <1>7

\* Is the behavior about the heap?
OnHeap == part = "heap"

LEMMA RunsHeap == RuntimeSpec /\ OnHeap => OfHeap!Spec
<1>1. RuntimeInit /\ OnHeap => OfHeap!Init
  BY SameHeap DEF RuntimeInit, OnHeap
<1>2. OnHeap /\ [RuntimeNext]_<<part, vars, types, heap>> => OnHeap' /\ [OfHeap!Next]_(OfHeap!vars)
  BY SameHeap DEF RuntimeNext, heap, OfHeap!vars, OnHeap
<1>3. QED
  BY <1>1, <1>2, PTL DEF RuntimeSpec, OfHeap!Spec

LEMMA StaysWithPart == RuntimeSpec /\ ~ OnHeap => []~ OnHeap
<1>1. ~ OnHeap /\ [RuntimeNext]_<<part, vars, types, heap>> => (~ OnHeap)'
  BY DEF RuntimeNext, OnHeap
<1>2. QED
  BY <1>1, PTL DEF RuntimeSpec

\* The free list holds the free cells in every state of a run.
THEOREM RunListsFree == RuntimeSpec => []ListIsFree
<1>1. OfHeap!Spec => []OfHeap!ListIsFree
  BY SameHeap, OfHeap!TheListIsFree
<1>2. (OfHeap!ListIsFree => ListIsFree) /\ (~ OnHeap => ListIsFree)
  BY SameHeap DEF ListIsFree, OnHeap
<1>3. QED
  BY <1>1, <1>2, RunsHeap, StaysWithPart, PTL
=============================================================================
