--------------------------- MODULE MCDebugSession ---------------------------
(* A tree of two script nodes below its Root: the first step ticks one, the *)
(* second both at once, in the threads of a parallel node.                  *)
EXTENDS DebugSession
CONSTANTS a, b
Steps == <<{a}, {a, b}>>
=============================================================================
