----------------------------- MODULE MCFactory ------------------------------
(* Two tasks and two clients, which the factory does not tell apart. *)
EXTENDS Factory, TLC

Symmetry == Permutations(Tasks) \cup Permutations(Clients)
=============================================================================
