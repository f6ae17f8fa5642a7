--------------------------- MODULE MCBehaviorTree ---------------------------
(***************************************************************************)
(* Small behaviour files for BehaviorTree.  A node is an integer, node 1   *)
(* the root; a file is written as the kinds of its nodes, the children     *)
(* lists and the counts of its loops.                                      *)
(***************************************************************************)
EXTENDS BehaviorTree, TLC

File(kinds, kids, loops) ==
  LET N == DOMAIN kinds
      ofWhom(n) == CHOOSE p \in DOMAIN kids : \E k \in DOMAIN kids[p] : kids[p][k] = n
  IN  [nodes    |-> N,
       root     |-> 1,
       kind     |-> kinds,
       children |-> [n \in N |-> IF n \in DOMAIN kids THEN kids[n] ELSE <<>>],
       parent   |-> [n \in N \ {1} |-> ofWhom(n)],
       loop     |-> [n \in N |-> IF n \in DOMAIN loops THEN loops[n] ELSE 0]]

NoLoop == [n \in {} |-> 0]

(* A sequence: a script, a fork of a script with a child and a wait, a condition. *)
ForkAndJoin ==
  File(<<"Root", "Sequence", "Script", "Parallel", "Script", "Script", "Wait",
         "Condition", "Script">>,
       1 :> <<2>> @@ 2 :> <<3, 4, 8>> @@ 4 :> <<5, 7>> @@ 5 :> <<6>> @@ 8 :> <<9>>,
       NoLoop)

(* A fork inside a loop: its branches are reset and run again. *)
LoopedFork ==
  File(<<"Root", "Loop", "Parallel", "Script", "Sequence", "Script", "Condition">>,
       1 :> <<2>> @@ 2 :> <<3>> @@ 3 :> <<4, 5>> @@ 5 :> <<6, 7>>, 2 :> 2)

(* Loops, a selector and a wait inside the branches of a fork. *)
BusyBranches ==
  File(<<"Root", "Parallel", "Loop", "Script", "Selector", "Condition", "Script", "Wait",
         "Script">>,
       1 :> <<2>> @@ 2 :> <<3, 5, 8>> @@ 3 :> <<4>> @@ 5 :> <<6, 7>> @@ 8 :> <<9>>,
       3 :> 2)

(* Two forks one after the other, the wider one second; loops that never run. *)
TwoForks ==
  File(<<"Root", "Sequence", "Parallel", "Script", "Loop", "Parallel", "Script", "Wait",
         "Condition", "Script">>,
       1 :> <<2>> @@ 2 :> <<3, 6>> @@ 3 :> <<4, 5>> @@ 5 :> <<10>> @@ 6 :> <<7, 8, 9>>,
       5 :> -1)

(* An endless loop is cut to Forever iterations. *)
EndlessLoop ==
  File(<<"Root", "Script", "Loop", "Wait", "Selector", "Script", "Script">>,
       1 :> <<2>> @@ 2 :> <<3>> @@ 3 :> <<4>> @@ 4 :> <<5>> @@ 5 :> <<6, 7>>,
       NoLoop)

FlatTrees == {ForkAndJoin, LoopedFork, BusyBranches, TwoForks, EndlessLoop}

(* A fork that is a branch of another fork, beside a branch still to be handed over. *)
NestedFork ==
  File(<<"Root", "Parallel", "Parallel", "Script", "Script", "Script", "Script">>,
       1 :> <<2>> @@ 2 :> <<3, 4>> @@ 3 :> <<5, 6>> @@ 6 :> <<7>>, NoLoop)

NestedTrees == {NestedFork}

ASSUME FlatAssumption == (\A t \in Trees : Flat(t)) <=> Trees = FlatTrees
=============================================================================
