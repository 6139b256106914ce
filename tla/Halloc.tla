------------------------------- MODULE Halloc -------------------------------
(***************************************************************************)
(* The hierarchical allocator, mem/halloc.c, at the level of the pointers  *)
(* it keeps in each block (mem/hlist.h).                                   *)
(*                                                                         *)
(* A block b has three pointer fields.  Two of them are cells that point   *)
(* to a list item: Child(b) is b->children.next, the first child of b, and *)
(* Nxt(b) is b->siblings.next, the next item of the list b is on.  The     *)
(* third, prev[b], is b->siblings.prev: the address of the cell that       *)
(* points to b, or of b's own Nxt cell when b is on no list.  Null is the  *)
(* shared tail sentinel hlist_null, whose own fields nothing reads.        *)
(*                                                                         *)
(* A call that gets no memory returns NULL and changes nothing, so it is a *)
(* stuttering step.  The assertions in hattach are the caller's contract   *)
(* and appear as guards.                                                   *)
(***************************************************************************)
CONSTANTS Block,     \* the addresses blocks can have
          Null,      \* &hlist_null
          RootsMove  \* may realloc() move a block that is on no list?

ASSUME HallocAssumption == Null \notin Block /\ RootsMove \in BOOLEAN

VARIABLES live,      \* the blocks that are allocated
          link,      \* [Cell -> Block \cup {Null}]
          prev       \* [Block -> Cell]

vars == <<live, link, prev>>

Child(b) == <<"children", b>>
Nxt(b)   == <<"siblings", b>>
Owner(c) == c[2]
Cell     == {"children", "siblings"} \X Block

TypeOK == /\ live \subseteq Block
          /\ link \in [Cell -> Block \cup {Null}]
          /\ prev \in [Block -> Cell]

-----------------------------------------------------------------------------
(***************************************************************************)
(* The list operations, on a heap of links lk and back pointers pv.        *)
(***************************************************************************)
\* Faulty variants, to see that the properties below reject them: an item
\* whose prev is left NULL,
NullPrev(pv, S) == [b \in Block |-> IF b \in S THEN Null ELSE pv[b]]

\* and an item that takes the rest of its list with it.
CutLink(lk, pv, i) ==
    [c \in Cell |-> IF c \in {Nxt(i), pv[i]} THEN Null ELSE lk[c]]

\* hlist_init and hlist_init_item of the blocks S; freed memory is given the
\* same values, because nothing reads it before the next hlist_init.
InitLink(lk, S) == [c \in Cell |-> IF Owner(c) \in S THEN Null ELSE lk[c]]
InitPrev(pv, S) == [b \in Block |-> IF b \in S THEN Nxt(b) ELSE pv[b]]

\* hlist_add of the item i at the head h.
AddLink(lk, h, i) ==
    [c \in Cell |-> CASE c = h -> i
                      [] c # h /\ c = Nxt(i) -> lk[h]
                      [] OTHER -> lk[c]]
AddPrev(lk, pv, h, i) ==
    [b \in Block |-> CASE b = i -> h
                       [] b # i /\ b = lk[h] -> Nxt(i)
                       [] OTHER -> pv[b]]

\* hlist_del of the item i; it ends with hlist_init_item.
DelLink(lk, pv, i) ==
    [c \in Cell |-> CASE c = Nxt(i) -> Null
                      [] c # Nxt(i) /\ c = pv[i] -> lk[Nxt(i)]
                      [] OTHER -> lk[c]]
DelPrev(lk, pv, i) ==
    [b \in Block |-> CASE b = i -> Nxt(i)
                       [] b # i /\ b = lk[Nxt(i)] -> pv[i]
                       [] OTHER -> pv[b]]

\* What realloc() copies when it moves p to q; p is freed.
CopyLink(lk, p, q) ==
    [c \in Cell |-> CASE Owner(c) = q -> lk[<<c[1], p>>]
                      [] Owner(c) # q /\ Owner(c) = p -> Null
                      [] OTHER -> lk[c]]
CopyPrev(pv, p, q) ==
    [b \in Block |-> CASE b = q -> pv[p]
                       [] b # q /\ b = p -> Nxt(p)
                       [] OTHER -> pv[b]]

\* hlist_relink of q, then hlist_relink_head of its children.
RelinkLink(lk, pv, q) == [c \in Cell |-> IF c = pv[q] THEN q ELSE lk[c]]
RelinkPrev(lk, pv, q) ==
    [b \in Block |-> CASE b = lk[Child(q)] -> Child(q)
                       [] b # lk[Child(q)] /\ b = lk[Nxt(q)] -> Nxt(q)
                       [] OTHER -> pv[b]]

(***************************************************************************)
(* The blocks that the recursive walks _relate and _free_children reach    *)
(* from b: the first child of every block reached, and the next sibling of *)
(* every block reached but b itself, whose own list is not walked.         *)
(***************************************************************************)
Closed(lk, b, S) ==
    /\ b \in S
    /\ \A x \in S : /\ lk[Child(x)] \in S \cup {Null}
                    /\ x # b => lk[Nxt(x)] \in S \cup {Null}

Subtree(lk, b) == {x \in Block : \A S \in SUBSET Block : Closed(lk, b, S) => x \in S}

OnNoList(b) == prev[b] = Nxt(b)

-----------------------------------------------------------------------------
Init == /\ live = {}
        /\ link = [c \in Cell |-> Null]
        /\ prev = [b \in Block |-> Nxt(b)]

\* halloc(0, len): a new block, on no list.
Alloc(b) == /\ b \notin live
            /\ live' = live \cup {b}
            /\ link' = InitLink(link, {b})
            /\ prev' = InitPrev(prev, {b})

\* hattach(b, NULL).
Detach(b) == /\ link' = DelLink(link, prev, b)
             /\ prev' = DelPrev(link, prev, b)
             /\ UNCHANGED live

\* Faulty variant: hattach without its check for loops.
AttachUnchecked(b, p) ==
    LET lk == DelLink(link, prev, b)
        pv == DelPrev(link, prev, b)
    IN  /\ p # b
        /\ link' = AddLink(lk, Child(p), b)
        /\ prev' = AddPrev(lk, pv, Child(p), b)
        /\ UNCHANGED live

\* hattach(b, p): leave the old list, then become the first child of p.
Attach(b, p) ==
    LET lk == DelLink(link, prev, b)
        pv == DelPrev(link, prev, b)
    IN  /\ p \notin Subtree(lk, b)
        /\ link' = AddLink(lk, Child(p), b)
        /\ prev' = AddPrev(lk, pv, Child(p), b)
        /\ UNCHANGED live

\* halloc(p, len) when realloc() leaves the block where it is.
Resize(p) ==
    LET lk == RelinkLink(link, prev, p)
    IN  /\ link' = lk
        /\ prev' = RelinkPrev(lk, prev, p)
        /\ UNCHANGED live

\* halloc(p, len) when realloc() moves the block to q.
Move(p, q) ==
    LET pv == CopyPrev(prev, p, q)
        lk == RelinkLink(CopyLink(link, p, q), pv, q)
    IN  /\ q \notin live
        /\ RootsMove \/ ~OnNoList(p)
        /\ live' = (live \ {p}) \cup {q}
        /\ link' = lk
        /\ prev' = RelinkPrev(lk, pv, q)

\* Faulty variant: the freed block stays on its list.
FreeLinked(p) ==
    LET gone == Subtree(link, p)
    IN  /\ live' = live \ gone
        /\ link' = InitLink(link, gone)
        /\ prev' = InitPrev(prev, gone)

\* halloc(p, 0): everything below p is freed, then p leaves its list.
Free(p) ==
    LET gone == Subtree(link, p)
    IN  /\ live' = live \ gone
        /\ link' = InitLink(DelLink(link, prev, p), gone)
        /\ prev' = InitPrev(DelPrev(link, prev, p), gone)

Next == \/ \E b \in Block : Alloc(b)
        \/ \E b \in live : Detach(b)
        \/ \E b, p \in live : Attach(b, p)
        \/ \E p \in live : Resize(p)
        \/ \E p \in live, q \in Block : Move(p, q)
        \/ \E p \in live : Free(p)

Spec == Init /\ [][Next]_vars

-----------------------------------------------------------------------------
(***************************************************************************)
(* Every list is doubly linked in hlist's sense: what a cell of a live     *)
(* block points to is live and points back to that cell, and the cell a    *)
(* block names as its prev is live and points to the block, unless the     *)
(* block is on no list.  hlist_del relies on both halves, and a walk that  *)
(* leaves the live blocks reads freed memory.                              *)
(***************************************************************************)
Forward(L, lk, pv) ==
    \A c \in Cell : Owner(c) \in L =>
        \/ lk[c] = Null
        \/ lk[c] \in L /\ pv[lk[c]] = c

Backward(L, lk, pv) ==
    \A b \in L : /\ Owner(pv[b]) \in L
                 /\ lk[pv[b]] = b \/ (pv[b] = Nxt(b) /\ lk[Nxt(b)] = Null)

ListsIntact == Forward(live, link, prev) /\ Backward(live, link, prev)

(***************************************************************************)
(* The hierarchy has no loop: in any set of blocks one is on no list or    *)
(* hangs from a block outside the set.  The recursion of _free_children    *)
(* ends because of it.                                                     *)
(***************************************************************************)
RootedHeap(L, pv) ==
    \A S \in SUBSET L : S # {} =>
        \E b \in S : pv[b] = Nxt(b) \/ Owner(pv[b]) \notin S

Rooted == RootedHeap(live, prev)

-----------------------------------------------------------------------------
(***************************************************************************)
(* The forest the pointers represent: the children of p are the items of   *)
(* the list that starts at its Child cell.                                 *)
(***************************************************************************)
Kids(p) == {x \in Block :
              \A S \in SUBSET Block :
                 /\ link[Child(p)] \in S \cup {Null}
                 /\ \A y \in S : link[Nxt(y)] \in S \cup {Null}
                 => x \in S}

ParentOf(b) == IF \E p \in live : b \in Kids(p)
               THEN CHOOSE p \in live : b \in Kids(p)
               ELSE Null

F == INSTANCE HallocForest WITH None <- Null,
                                parent <- [b \in live |-> ParentOf(b)]

(***************************************************************************)
(* The pointer operations implement the abstract forest: a block has the   *)
(* parent it was last attached to, whatever else was attached, moved or    *)
(* freed in between, and h_free frees exactly the blocks below its         *)
(* argument.                                                               *)
(***************************************************************************)
ForestRefined == F!Spec
=============================================================================
