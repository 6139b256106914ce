-------------------------- MODULE MCHallocThreads --------------------------
(***************************************************************************)
(* HallocThreads for TLC: two threads that have a home each, or share one. *)
(***************************************************************************)
EXTENDS HallocThreads, TLC

CONSTANTS t1, t2, r1, r2

OwnHome    == (t1 :> r1) @@ (t2 :> r2)
SharedHome == (t1 :> r1) @@ (t2 :> r1)
=============================================================================
