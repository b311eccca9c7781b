----------------------------- MODULE GcMutators -----------------------------
(***************************************************************************)
(* The functions of lib.c, hash.c and eval.c that assign to a member of an *)
(* existing object without going through set().  Two kinds: those that     *)
(* store and do nothing else (vec_push, refset, nreverse, hash_grow, ...), *)
(* and replace_vec, which stores and then calls mut() on the vector.  Here *)
(* checkobj may fill up, in gc_mutated and in gc_set.                      *)
(***************************************************************************)
EXTENDS Gc

\* *cdr_l(in) = rev, *vecref_l(vec, length) = item, *listref_l(...) = newval
RawStore(c, f, x) ==
  /\ pc = "run"
  /\ Store(<<c, f>>, x)
  /\ UNCHANGED <<pc, pend, gcvars, gc_enabled>>

\* x is entered in checkobj.
Record(x) ==
  /\ gen' = [gen EXCEPT ![x] = -1]
  /\ checkobj' = Append(checkobj, x)
  /\ pend' = nil
  /\ pc' = IF Len(checkobj) < CHECKOBJ_VEC_SIZE THEN "run" ELSE "overrun"
  /\ UNCHANGED <<heap, free_list, reachable, freshobj, gc_counter, gc_enabled>>

\* mut(c), which is gc_mutated(c), by a function that has stored the value x
\* in a member of c as it is.
GcMutated(place, x) ==
  /\ pc = "run"
  /\ Store(place, x)
  /\ LET c == place[1]
     IN  IF Len(checkobj) < CHECKOBJ_VEC_SIZE
           THEN Record(c)
           ELSE /\ pc' = "gc_mutated"
                /\ pend' = [place |-> place, vals |-> [f \in Field |-> c]]
                /\ UNCHANGED <<gcvars, gc_enabled>>

GcMutatedCollect ==
  /\ pc = "gc_mutated"
  /\ Gc("mutated")
  /\ UNCHANGED <<pend, root, gc_enabled>>

GcMutatedRecord ==
  /\ pc = "mutated"
  /\ \E c \in PendVals : Record(c)
  /\ UNCHANGED <<root, field>>

\* vec is stored into, and then put on record: generation and all.
ReplaceVec ==
  \/ \E c \in Known, f \in Field, x \in Loadable : GcMutated(<<c, f>>, x)
  \/ GcMutatedCollect \/ GcMutatedRecord

\* checkobj is full: collect first ...
GcSetCollect ==
  /\ pc = "gc_set"
  /\ Gc("record")
  /\ UNCHANGED <<pend, root, gc_enabled>>

\* ... then enter the object in checkobj and do the assignment.
GcSetRecord ==
  /\ pc = "record"
  /\ \E x \in PendVals : Store(pend.place, x) /\ Record(x)

\* The program with the functions of both kinds.
MutatorNext ==
  \/ Next
  \/ \E c \in Known, f \in Field, x \in Loadable : RawStore(c, f, x)
  \/ ReplaceVec
  \/ GcSetCollect \/ GcSetRecord

MutatorSpec == Init /\ [][MutatorNext]_vars

=============================================================================
