---------------------------- MODULE HallocForest ----------------------------
(***************************************************************************)
(* What mem/halloc.h promises: blocks form a forest.  A block may be       *)
(* attached under a parent, and freeing a block frees every block below    *)
(* it.  The state is the parent map alone; its domain is the set of live   *)
(* blocks.  Halloc.tla implements this specification with the linked lists *)
(* of mem/hlist.h, and Mongrel2.tla uses its operators for the objects of  *)
(* the library.                                                            *)
(***************************************************************************)
CONSTANTS Block,    \* the addresses blocks can have
          None      \* the parent of a block that is not attached; not a block

VARIABLE parent     \* [live blocks -> Block \cup {None}]

\* hattach of a block, new or old, under p.
Place(par, b, p) == [x \in DOMAIN par \cup {b} |-> IF x = b THEN p ELSE par[x]]

(***************************************************************************)
(* The blocks below b, b included: the least set that contains b and every *)
(* block whose parent it contains.                                         *)
(***************************************************************************)
ClosedBelow(par, S) == \A x \in DOMAIN par : par[x] \in S => x \in S

Below(par, b) ==
    LET closed == {S \in SUBSET DOMAIN par : b \in S /\ ClosedBelow(par, S)}
    IN  {x \in DOMAIN par : \A S \in closed : x \in S}

\* h_free: the block and everything below it is gone.
Prune(par, b) == [x \in DOMAIN par \ Below(par, b) |-> par[x]]

\* h_realloc: the block b lives on at address q.
Rename(par, b, q) ==
    LET to(x) == IF x = b THEN q ELSE x
        from(y) == IF y = q THEN b ELSE y
    IN  [y \in (DOMAIN par \ {b}) \cup {q} |-> to(par[from(y)])]

-----------------------------------------------------------------------------
TypeOK == /\ DOMAIN parent \subseteq Block
          /\ \A b \in DOMAIN parent : parent[b] \in DOMAIN parent \cup {None}

Init == DOMAIN parent = {}

Alloc(b) == /\ b \notin DOMAIN parent
            /\ parent' = Place(parent, b, None)

Attach(b, p) == /\ p = None \/ p \in DOMAIN parent \ Below(parent, b)
                /\ parent' = Place(parent, b, p)

Move(b, q) == /\ q \notin DOMAIN parent
              /\ parent' = Rename(parent, b, q)

Free(b) == parent' = Prune(parent, b)

Next == \/ \E b \in Block : Alloc(b)
        \/ \E b \in DOMAIN parent :
              \/ \E p \in DOMAIN parent \cup {None} : Attach(b, p)
              \/ \E q \in Block : Move(b, q)
              \/ Free(b)

Spec == Init /\ [][Next]_parent
=============================================================================
