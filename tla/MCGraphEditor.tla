--------------------------- MODULE MCGraphEditor ----------------------------
(* One file; a Root that is loaded and one that is drawn anew; an action   *)
(* node of a prefab and two composites.                                    *)
EXTENDS GraphEditor

CONSTANTS r1, r2, a, q, l, f1

Types == (r1 :> "Root") @@ (r2 :> "Root") @@ (a :> "jump") @@ (q :> "Sequence") @@ (l :> "Sequence")
Prefabs == <<[name |-> "jump", code |-> "old"], [name |-> "jump", code |-> "new"]>>

RootInfo == [code |-> "", alias |-> "", loop |-> "1", wait |-> "1", pos |-> 0]
FileOne ==
  [kids |-> (Top :> <<r1>>) @@ (r1 :> <<a>>) @@ (a :> <<q>>) @@ (q :> <<>>),
   info |-> [y \in {r1, q, a} |-> RootInfo]]
SomeFiles == [n \in Name |-> IF n = f1 THEN FileOne ELSE NoFile]
OneTree == {FileOne}
Infos == {RootInfo}
=============================================================================
