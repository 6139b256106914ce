------------------------------- MODULE MCHash -------------------------------
(***************************************************************************)
(* Hash for TLC: hash values that collide in full, that collide only in    *)
(* the small tables, and that spread.                                      *)
(***************************************************************************)
EXTENDS Hash

Values == <<0, 4, 1, 6, 9, 9, 3, 12, 7>>

HashOfKeys == [k \in Key |-> Values[k]]
=============================================================================
