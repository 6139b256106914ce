------------------------------- MODULE MCList -------------------------------
(***************************************************************************)
(* List for TLC: nodes are numbers, some with equal keys, the first two in *)
(* the pool.                                                               *)
(***************************************************************************)
EXTENDS List

CONSTANTS e1, e2

Extras == <<e1, e2>>
PoolOf == <<1, 2>>
Keys   == <<2, 1, 3, 1>>
KeysOf == [n \in Node |-> Keys[n]]
=============================================================================
