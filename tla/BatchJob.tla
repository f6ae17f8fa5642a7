------------------------------ MODULE BatchJob ------------------------------
(***************************************************************************)
(* What a batch promises whoever asks for it: it starts bots, at most      *)
(* `width' of them at work at a time, takes in the report of each of them  *)
(* once, and closes when none is at work and at least the `wanted' number  *)
(* of bots has reported.  Batch is shown to implement this module.         *)
(***************************************************************************)
EXTENDS Integers, FiniteSets

VARIABLES
  wanted,   \* how many bots are still to be run when the batch is created
  width,    \* how many may be at work at a time
  atWork,   \* the bots that are started and have not reported
  reported, \* the bots whose report is in
  closed

vars == <<wanted, width, atWork, reported, closed>>

Init ==
  /\ wanted \in Int /\ width \in Nat
  /\ atWork = {} /\ reported = {} /\ closed = FALSE

(* The new bot is neither at work nor has it reported before. *)
Start ==
  /\ ~closed /\ Cardinality(atWork) < width
  /\ \E b \in atWork' : b \notin atWork \cup reported /\ atWork' = atWork \cup {b}
  /\ UNCHANGED <<wanted, width, reported, closed>>

Report ==
  /\ ~closed
  /\ \E b \in atWork : atWork' = atWork \ {b} /\ reported' = reported \cup {b}
  /\ UNCHANGED <<wanted, width, closed>>

Close ==
  /\ ~closed /\ atWork = {} /\ Cardinality(reported) >= wanted
  /\ closed' = TRUE
  /\ UNCHANGED <<wanted, width, atWork, reported>>

Next == Start \/ Report \/ Close

Spec == Init /\ [][Next]_vars
=============================================================================
