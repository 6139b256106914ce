------------------------------- MODULE MCDict -------------------------------
(***************************************************************************)
(* Dict for TLC: keys that repeat (for dict_allow_dupes) and gaps between  *)
(* them, so that the bounds are asked for absent keys too.                 *)
(***************************************************************************)
EXTENDS Dict

CONSTANTS d1, d2

\* A large dictionary and a small one to merge with it.
MaxCounts == (d1 :> 10) @@ (d2 :> 2)
Supplies  == (d1 :> Node) @@ (d2 :> {2, 5})

Keys == <<1, 3, 3, 5, 6, 7, 8, 9, 10, 12>>

\* The sentinel's parent field is read only where dict_delete has just set it;
\* states that differ in what is left there are not told apart.
Deficit == IF op.do = "delete" THEN op.child ELSE NULL
Scratch(v) == v \in Dict \ {Deficit}
DictView == <<[heap EXCEPT !.parent = [v \in Vertex |-> IF Scratch(v) THEN v ELSE @[v]]],
              nodecount, dupes, op, scan, members>>

KeysOf == [n \in Node |-> Keys[n]]
=============================================================================
