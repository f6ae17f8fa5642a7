------------------------------ MODULE MCBatch -------------------------------
(* Small batches: new and recovered ones, smaller and larger than a wave, finished ones. *)
EXTENDS Batch

SmallJobs ==
  {[cur |-> c, total |-> t, size |-> s] : c \in {0, 1}, t \in {1, 4}, s \in {1, 2, 3}}
    \cup {[cur |-> 2, total |-> 2, size |-> 2], [cur |-> 0, total |-> -1, size |-> 1]}
=============================================================================
