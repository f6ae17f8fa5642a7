----------------------------- MODULE MCConsole ------------------------------
(* Two servers that hold different prefabs and files; the console starts   *)
(* with the address of the first or with none.                             *)
EXTENDS Console

CONSTANTS s1, s2, none, p1, p2, c1, c2, tag, f1, f2, r1, r2, noReport, noCode

TwoAddrs == {s1, none}
PrefabsOf == (s1 :> ((p1 :> [tags |-> {tag}, code |-> c1]) @@ (p2 :> [tags |-> {}, code |-> c1])))
             @@ (s2 :> (p2 :> [tags |-> {}, code |-> c1]))
FilesOf == (s1 :> ((f1 :> {tag}) @@ (f2 :> {}))) @@ (s2 :> (f2 :> {tag}))
ConfOf == (s1 :> [size |-> 1, delay |-> 1, script |-> c1]) @@ (s2 :> [size |-> 2, delay |-> 2, script |-> c2])
Tour(p, n) == [pages |-> p, clicks |-> n]
SomeTours == {Tour({"prefab"}, 3), Tour({"prefab", "editor"}, 2), Tour({"prefab", "config"}, 2),
              Tour({"bots", "config"}, 3), Tour({"bots", "running"}, 3), Tour({"running", "report"}, 5),
              Tour({"editor", "config"}, 3), Tour({"editor", "report"}, 3)}
=============================================================================
