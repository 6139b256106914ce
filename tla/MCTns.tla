------------------------------- MODULE MCTns -------------------------------
(***************************************************************************)
(* Tns and Variant for TLC.                                                *)
(***************************************************************************)
EXTENDS TnsReference

Leaf(type) == [type |-> type, members |-> <<>>]
Pair(n, v) == [name |-> n, value |-> v]
Obj(ms) == [type |-> "dict", members |-> ms]
Arr(ms) == [type |-> "list", members |-> ms]

\* What is parsed: an object that names something twice, and arrays in objects.
SomeJson == {Obj(<<Pair("a", Leaf("string")), Pair("a", Leaf("null"))>>),
             Obj(<<Pair("a", Arr(<<Leaf("boolean")>>))>>),
             Arr(<<Leaf("integer"), Leaf("float"), Leaf("null")>>)}
=============================================================================
