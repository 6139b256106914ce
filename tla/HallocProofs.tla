---------------------------- MODULE HallocProofs ----------------------------
(***************************************************************************)
(* Proofs about Halloc, for any set of addresses: the lists stay intact    *)
(* and the hierarchy stays free of loops, provided that realloc() does not *)
(* move a block that is on no list.  The invariant is proved operation by  *)
(* operation, on an arbitrary heap of links lk and back pointers pv.       *)
(***************************************************************************)
EXTENDS Halloc, TLAPS

HeapType(L, lk, pv) == /\ L \subseteq Block
                       /\ lk \in [Cell -> Block \cup {Null}]
                       /\ pv \in [Block -> Cell]

\* The inductive invariant, of the heap (L, lk, pv).
Heap(L, lk, pv) == /\ HeapType(L, lk, pv)
                   /\ Forward(L, lk, pv)
                   /\ Backward(L, lk, pv)
                   /\ RootedHeap(L, pv)

\* Cells are told apart by their field and their block.
LEMMA Cells ==
    /\ \A b \in Block : /\ Child(b) \in Cell /\ Owner(Child(b)) = b
                        /\ Nxt(b) \in Cell /\ Owner(Nxt(b)) = b
    /\ \A a, b : Child(a) # Nxt(b)
    /\ \A c \in Cell : Owner(c) \in Block /\ (c = Child(Owner(c)) \/ c = Nxt(Owner(c)))
BY DEF Child, Nxt, Owner, Cell

-----------------------------------------------------------------------------
\* hlist_del of a live item keeps the heap and leaves the item on no list.
LEMMA DelKeepsHeap ==
    ASSUME NEW L, NEW lk, NEW pv, Heap(L, lk, pv), NEW i \in L
    PROVE  /\ Heap(L, DelLink(lk, pv, i), DelPrev(lk, pv, i))
           /\ DelLink(lk, pv, i)[Nxt(i)] = Null
           /\ DelPrev(lk, pv, i)[i] = Nxt(i)
<1> DEFINE lk2 == DelLink(lk, pv, i)
           pv2 == DelPrev(lk, pv, i)
<1>1. HeapType(L, lk, pv) /\ Forward(L, lk, pv) /\ Backward(L, lk, pv) /\ RootedHeap(L, pv)
  BY DEF Heap
<1>2. Null \notin Block /\ i \in Block /\ L \subseteq Block
  BY <1>1, HallocAssumption DEF HeapType
<1>3. HeapType(L, lk2, pv2)
  BY <1>1, <1>2, Cells DEF HeapType, DelLink, DelPrev
<1>4. /\ \A c \in Cell : lk2[c] = IF c = Nxt(i) THEN Null
                                  ELSE IF c = pv[i] THEN lk[Nxt(i)] ELSE lk[c]
      /\ \A b \in Block : pv2[b] = IF b = i THEN Nxt(i)
                                   ELSE IF b = lk[Nxt(i)] THEN pv[i] ELSE pv[b]
  BY DEF DelLink, DelPrev
<1> HIDE DEF lk2, pv2
<1>5. Forward(L, lk2, pv2)
  BY <1>1, <1>2, <1>4, Cells DEF Forward, Backward, HeapType
<1>6. Backward(L, lk2, pv2)
  <2> SUFFICES ASSUME NEW b \in L
               PROVE  /\ Owner(pv2[b]) \in L
                      /\ lk2[pv2[b]] = b \/ (pv2[b] = Nxt(b) /\ lk2[Nxt(b)] = Null)
    BY DEF Backward
  <2>1. CASE b = i
    BY <2>1, <1>2, <1>4, Cells
  <2>2. CASE b # i /\ b = lk[Nxt(i)]
    <3>1. pv[b] = Nxt(i) /\ pv2[b] = pv[i] /\ pv[i] # Nxt(i)
      BY <2>2, <1>1, <1>2, <1>4, Cells DEF Forward, Backward, HeapType
    <3>2. pv[i] \in Cell /\ Owner(pv[i]) \in L
      BY <1>1, <1>2 DEF Backward, HeapType
    <3> QED
      BY <2>2, <3>1, <3>2, <1>4
  <2>3. CASE b # i /\ b # lk[Nxt(i)]
    <3>1. pv2[b] = pv[b] /\ pv[b] \in Cell /\ Nxt(b) \in Cell /\ Nxt(b) # Nxt(i)
      BY <2>3, <1>1, <1>2, <1>4, Cells DEF HeapType
    <3>2. pv[b] # Nxt(i)
      BY <2>3, <3>1, <1>1, Cells, <1>2 DEF Backward
    <3>3. CASE pv[b] = pv[i]
      BY <2>3, <3>1, <3>2, <3>3, <1>1, <1>2, <1>4, Cells DEF Backward, HeapType
    <3>4. CASE pv[b] # pv[i]
      BY <2>3, <3>1, <3>2, <3>4, <1>1, <1>2, <1>4, Cells DEF Backward, HeapType
    <3> QED
      BY <3>3, <3>4
  <2> QED
    BY <2>1, <2>2, <2>3
<1>7. RootedHeap(L, pv2)
  <2> SUFFICES ASSUME NEW S \in SUBSET L, S # {}
               PROVE  \E b \in S : pv2[b] = Nxt(b) \/ Owner(pv2[b]) \notin S
    BY DEF RootedHeap
  <2>1. CASE i \in S
    BY <2>1, <1>2, <1>4
  <2>2. CASE i \notin S
    <3>1. S \cup {i} \in SUBSET L /\ S \cup {i} # {}
      OBVIOUS
    <3>2. PICK b \in S \cup {i} : pv[b] = Nxt(b) \/ Owner(pv[b]) \notin S \cup {i}
      BY <3>1, <1>1 DEF RootedHeap
    <3>3. CASE b = i
      BY <3>2, <3>3, <2>2, <1>1, <1>2, <1>4, Cells DEF RootedHeap, Forward, Backward, HeapType
    <3>4. CASE b # i /\ b = lk[Nxt(i)]
      BY <3>2, <3>4, <2>2, <1>1, <1>2, <1>4, Cells DEF Forward, HeapType
    <3>5. CASE b # i /\ b # lk[Nxt(i)]
      BY <3>2, <3>5, <2>2, <1>2, <1>4
    <3> QED
      BY <3>3, <3>4, <3>5
  <2> QED
    BY <2>1, <2>2
<1> QED
  BY <1>2, <1>3, <1>4, <1>5, <1>6, <1>7, Cells DEF Heap, lk2, pv2

-----------------------------------------------------------------------------
\* What the walks reach is closed under the links they follow, and least.
LEMMA SubtreeClosed ==
    ASSUME NEW lk \in [Cell -> Block \cup {Null}], NEW b \in Block
    PROVE  /\ Subtree(lk, b) \subseteq Block
           /\ Closed(lk, b, Subtree(lk, b))
           /\ \A S \in SUBSET Block : Closed(lk, b, S) => Subtree(lk, b) \subseteq S
<1>1. Subtree(lk, b) \subseteq Block
  BY DEF Subtree
<1>2. \A S \in SUBSET Block : Closed(lk, b, S) => Subtree(lk, b) \subseteq S
  BY DEF Subtree
<1>3. b \in Subtree(lk, b)
  BY DEF Subtree, Closed
<1>4. ASSUME NEW x \in Subtree(lk, b)
      PROVE  /\ lk[Child(x)] \in Subtree(lk, b) \cup {Null}
             /\ x # b => lk[Nxt(x)] \in Subtree(lk, b) \cup {Null}
  <2>1. x \in Block /\ lk[Child(x)] \in Block \cup {Null} /\ lk[Nxt(x)] \in Block \cup {Null}
    BY <1>1, Cells
  <2>2. \A S \in SUBSET Block : Closed(lk, b, S) =>
           /\ lk[Child(x)] \in S \cup {Null}
           /\ x # b => lk[Nxt(x)] \in S \cup {Null}
    BY <1>2 DEF Closed
  <2> QED
    BY <2>1, <2>2 DEF Subtree
<1> QED
  BY <1>1, <1>2, <1>3, <1>4 DEF Closed

\* hlist_add of a live item that is on no list, under a block that the walk
\* from the item does not reach, keeps the heap.
LEMMA AddKeepsHeap ==
    ASSUME NEW L, NEW lk, NEW pv, Heap(L, lk, pv),
           NEW i \in L, NEW p \in L, p \notin Subtree(lk, i),
           pv[i] = Nxt(i), lk[Nxt(i)] = Null
    PROVE  Heap(L, AddLink(lk, Child(p), i), AddPrev(lk, pv, Child(p), i))
<1> DEFINE h == Child(p)
           lk2 == AddLink(lk, h, i)
           pv2 == AddPrev(lk, pv, h, i)
<1>1. HeapType(L, lk, pv) /\ Forward(L, lk, pv) /\ Backward(L, lk, pv) /\ RootedHeap(L, pv)
  BY DEF Heap
<1>2. Null \notin Block /\ i \in Block /\ p \in Block /\ L \subseteq Block
  BY <1>1, HallocAssumption DEF HeapType
<1>3. /\ h \in Cell /\ Owner(h) = p
      /\ Nxt(i) \in Cell /\ Owner(Nxt(i)) = i
      /\ h # Nxt(i) /\ \A b : h # Nxt(b)
  BY <1>2, Cells
<1>4. HeapType(L, lk2, pv2)
  BY <1>1, <1>2, <1>3 DEF HeapType, AddLink, AddPrev
<1>5. /\ \A c \in Cell : lk2[c] = IF c = h THEN i
                                  ELSE IF c = Nxt(i) THEN lk[h] ELSE lk[c]
      /\ \A b \in Block : pv2[b] = IF b = i THEN h
                                   ELSE IF b = lk[h] THEN Nxt(i) ELSE pv[b]
  BY DEF AddLink, AddPrev
<1>6. lk[h] # i /\ (lk[h] = Null \/ (lk[h] \in L /\ pv[lk[h]] = h))
  BY <1>1, <1>2, <1>3 DEF Forward, HeapType
<1> HIDE DEF lk2, pv2, h
<1>7. Forward(L, lk2, pv2)
  <2> SUFFICES ASSUME NEW c \in Cell, Owner(c) \in L, lk2[c] # Null
               PROVE  lk2[c] \in L /\ pv2[lk2[c]] = c
    BY DEF Forward
  <2>1. CASE c = h
    BY <2>1, <1>2, <1>3, <1>5
  <2>2. CASE c = Nxt(i)
    BY <2>2, <1>2, <1>3, <1>5, <1>6
  <2>3. CASE c # h /\ c # Nxt(i)
    BY <2>3, <1>1, <1>2, <1>3, <1>5, <1>6 DEF Forward, HeapType
  <2> QED
    BY <2>1, <2>2, <2>3
<1>8. Backward(L, lk2, pv2)
  <2> SUFFICES ASSUME NEW b \in L
               PROVE  /\ Owner(pv2[b]) \in L
                      /\ lk2[pv2[b]] = b \/ (pv2[b] = Nxt(b) /\ lk2[Nxt(b)] = Null)
    BY DEF Backward
  <2>1. CASE b = i
    BY <2>1, <1>2, <1>3, <1>5
  <2>2. CASE b # i /\ b = lk[h]
    BY <2>2, <1>2, <1>3, <1>5
  <2>3. CASE b # i /\ b # lk[h]
    <3>1. /\ pv2[b] = pv[b] /\ pv[b] \in Cell /\ Nxt(b) \in Cell
          /\ Nxt(b) # Nxt(i) /\ Nxt(b) # h
      BY <2>3, <1>1, <1>2, <1>3, <1>5, Cells DEF HeapType
    <3>2. pv[b] # h /\ pv[b] # Nxt(i)
      BY <2>3, <3>1, <1>1, <1>2, <1>3 DEF Backward
    <3> QED
      BY <3>1, <3>2, <1>1, <1>5 DEF Backward
  <2> QED
    BY <2>1, <2>2, <2>3
<1>9. RootedHeap(L, pv2)
  <2> SUFFICES ASSUME NEW S \in SUBSET L, S # {}
               PROVE  \E b \in S : pv2[b] = Nxt(b) \/ Owner(pv2[b]) \notin S
    BY DEF RootedHeap
  <2>1. CASE i \in S /\ p \notin S
    BY <2>1, <1>2, <1>3, <1>5
  <2>2. CASE i \in S /\ p \in S
    <3> DEFINE T == S \ Subtree(lk, i)
    <3>1. T \in SUBSET L /\ p \in T /\ T \subseteq S
      BY <2>2
    <3>2. PICK b \in T : pv[b] = Nxt(b) \/ Owner(pv[b]) \notin T
      BY <3>1, <1>1 DEF RootedHeap
    <3>3. Closed(lk, i, Subtree(lk, i))
      BY <1>1, <1>2, SubtreeClosed DEF HeapType
    <3>4. b \in Block /\ b # i /\ pv[b] \in Cell
      BY <3>1, <3>2, <3>3, <1>1, <1>2 DEF Closed, HeapType
    <3>5. pv[b] = Nxt(b) \/ Owner(pv[b]) \notin S
      <4> SUFFICES ASSUME pv[b] # Nxt(b), Owner(pv[b]) \in Subtree(lk, i)
                   PROVE  FALSE
        BY <3>2
      <4>1. lk[pv[b]] = b /\ b # Null /\ b \notin Subtree(lk, i)
        BY <1>1, <1>2, <3>1, <3>2, <3>4 DEF Backward
      <4>2. pv[b] # Nxt(i)
        BY <4>1
      <4> DEFINE x == Owner(pv[b])
      <4>3. pv[b] = Child(x) \/ (pv[b] = Nxt(x) /\ x # i)
        BY <3>4, <4>2, Cells
      <4> QED
        BY <4>1, <4>3, <3>3 DEF Closed
    <3>6. CASE b = lk[h]
      <4>1. pv[b] = h
        BY <3>4, <3>6, <1>2, <1>6
      <4> QED
        BY <4>1, <3>5, <2>2, <1>3
    <3>7. CASE b # lk[h]
      BY <3>1, <3>2, <3>4, <3>5, <3>7, <1>5
    <3> QED
      BY <3>6, <3>7
  <2>3. CASE i \notin S /\ lk[h] \in S
    BY <2>3, <1>2, <1>3, <1>5, <1>6
  <2>4. CASE i \notin S /\ lk[h] \notin S
    BY <2>4, <1>1, <1>2, <1>5 DEF RootedHeap
  <2> QED
    BY <2>1, <2>2, <2>3, <2>4
<1> QED
  BY <1>4, <1>7, <1>8, <1>9 DEF Heap, lk2, pv2, h

-----------------------------------------------------------------------------
\* A block fresh from the allocator is on no list.
LEMMA AllocKeepsHeap ==
    ASSUME NEW L, NEW lk, NEW pv, Heap(L, lk, pv), NEW b \in Block, b \notin L
    PROVE  Heap(L \cup {b}, InitLink(lk, {b}), InitPrev(pv, {b}))
<1> DEFINE lk2 == InitLink(lk, {b})
           pv2 == InitPrev(pv, {b})
<1>1. HeapType(L, lk, pv) /\ Forward(L, lk, pv) /\ Backward(L, lk, pv) /\ RootedHeap(L, pv)
  BY DEF Heap
<1>2. Null \notin Block /\ L \subseteq Block
  BY <1>1, HallocAssumption DEF HeapType
<1>3. HeapType(L \cup {b}, lk2, pv2)
  BY <1>1, <1>2, Cells DEF HeapType, InitLink, InitPrev
<1>4. /\ \A c \in Cell : lk2[c] = IF Owner(c) = b THEN Null ELSE lk[c]
      /\ \A x \in Block : pv2[x] = IF x = b THEN Nxt(x) ELSE pv[x]
  BY DEF InitLink, InitPrev
<1> HIDE DEF lk2, pv2
<1>5. Forward(L \cup {b}, lk2, pv2)
  BY <1>1, <1>2, <1>4, Cells DEF Forward, HeapType
<1>6. Backward(L \cup {b}, lk2, pv2)
  BY <1>1, <1>2, <1>4, Cells DEF Backward, HeapType
<1>7. RootedHeap(L \cup {b}, pv2)
  <2> SUFFICES ASSUME NEW S \in SUBSET (L \cup {b}), S # {}
               PROVE  \E x \in S : pv2[x] = Nxt(x) \/ Owner(pv2[x]) \notin S
    BY DEF RootedHeap
  <2>1. CASE b \in S
    BY <2>1, <1>4
  <2>2. CASE b \notin S
    BY <2>2, <1>1, <1>2, <1>4 DEF RootedHeap
  <2> QED
    BY <2>1, <2>2
<1> QED
  BY <1>3, <1>5, <1>6, <1>7 DEF Heap, lk2, pv2

\* realloc() in place: the relinking restores what is already there, or, for a
\* block on no list, points its own next field at itself.
LEMMA ResizeKeepsHeap ==
    ASSUME NEW L, NEW lk, NEW pv, Heap(L, lk, pv), NEW p \in L
    PROVE  /\ Heap(L, RelinkLink(lk, pv, p), RelinkPrev(RelinkLink(lk, pv, p), pv, p))
           /\ RelinkPrev(RelinkLink(lk, pv, p), pv, p) = pv
<1> DEFINE lk2 == RelinkLink(lk, pv, p)
           pv2 == RelinkPrev(lk2, pv, p)
<1>1. HeapType(L, lk, pv) /\ Forward(L, lk, pv) /\ Backward(L, lk, pv) /\ RootedHeap(L, pv)
  BY DEF Heap
<1>2. Null \notin Block /\ L \subseteq Block /\ p \in Block
  BY <1>1, HallocAssumption DEF HeapType
<1>3. pv[p] \in Cell /\ Nxt(p) \in Cell /\ Child(p) \in Cell
  BY <1>1, <1>2, Cells DEF HeapType
<1>4. lk2 \in [Cell -> Block \cup {Null}]
      /\ \A c \in Cell : lk2[c] = IF c = pv[p] THEN p ELSE lk[c]
  BY <1>1, <1>2 DEF RelinkLink, HeapType
<1>5. \A b \in Block : pv2[b] = IF b = lk2[Child(p)] THEN Child(p)
                                ELSE IF b = lk2[Nxt(p)] THEN Nxt(p) ELSE pv[b]
  BY DEF RelinkPrev
<1>6. pv2 = [b \in Block |-> pv2[b]]
  BY DEF RelinkPrev
<1> HIDE DEF lk2, pv2
<1>7. \A b \in Block : pv2[b] = pv[b]
  <2>1. Owner(Child(p)) = p /\ Owner(Nxt(p)) = p
    BY <1>2, Cells
  <2> SUFFICES ASSUME NEW c \in {Child(p), Nxt(p)}, NEW b \in Block, b = lk2[c]
               PROVE  pv[b] = c
    BY <1>5
  <2>2. CASE c = pv[p]
    BY <2>2, <1>3, <1>4
  <2>3. CASE c # pv[p]
    BY <2>1, <2>3, <1>1, <1>2, <1>3, <1>4 DEF Forward, HeapType
  <2> QED
    BY <2>2, <2>3
<1>8. pv2 = pv
  BY <1>1, <1>6, <1>7 DEF HeapType
<1>9. Forward(L, lk2, pv)
  BY <1>1, <1>2, <1>3, <1>4 DEF Forward, HeapType
<1>10. Backward(L, lk2, pv)
  <2> SUFFICES ASSUME NEW b \in L
               PROVE  lk2[pv[b]] = b \/ (pv[b] = Nxt(b) /\ lk2[Nxt(b)] = Null)
    BY <1>1 DEF Backward
  <2>1. pv[b] \in Cell /\ Nxt(b) \in Cell
    BY <1>1, <1>2, Cells DEF HeapType
  <2>2. CASE b = p
    BY <2>2, <1>3, <1>4
  <2>3. CASE b # p /\ pv[b] = pv[p]
    BY <2>1, <2>3, <1>1, <1>2, <1>3, Cells DEF Backward
  <2>4. CASE b # p /\ pv[b] # pv[p]
    BY <2>1, <2>4, <1>1, <1>2, <1>4, Cells DEF Backward
  <2> QED
    BY <2>2, <2>3, <2>4
<1> QED
  BY <1>1, <1>4, <1>8, <1>9, <1>10 DEF Heap, HeapType, lk2, pv2

\* realloc() to a new address, of a block that is on a list: every pointer to
\* the old address is redirected, and no other back pointer changes.
Redirected(L, pv, pv2, p, q) ==
    /\ pv2[q] = pv[p]
    /\ \A b \in L \ {p} : pv2[b] = IF pv[b] = Child(p) THEN Child(q)
                                  ELSE IF pv[b] = Nxt(p) THEN Nxt(q) ELSE pv[b]

LEMMA MoveKeepsHeap ==
    ASSUME NEW L, NEW lk, NEW pv, Heap(L, lk, pv), NEW p \in L,
           NEW q \in Block, q \notin L, pv[p] # Nxt(p)
    PROVE  LET pvq == CopyPrev(pv, p, q)
               lkq == RelinkLink(CopyLink(lk, p, q), pvq, q)
               pv2 == RelinkPrev(lkq, pvq, q)
           IN  Heap((L \ {p}) \cup {q}, lkq, pv2) /\ Redirected(L, pv, pv2, p, q)
<1> DEFINE L2  == (L \ {p}) \cup {q}
           pvq == CopyPrev(pv, p, q)
           lkp == CopyLink(lk, p, q)
           lk2 == RelinkLink(lkp, pvq, q)
           pv2 == RelinkPrev(lk2, pvq, q)
<1>1. HeapType(L, lk, pv) /\ Forward(L, lk, pv) /\ Backward(L, lk, pv) /\ RootedHeap(L, pv)
  BY DEF Heap
<1>2. Null \notin Block /\ L \subseteq Block /\ p \in Block /\ p # q
  BY <1>1, HallocAssumption DEF HeapType
<1>3. pv[p] \in Cell /\ Owner(pv[p]) \in L /\ Owner(pv[p]) # p /\ lk[pv[p]] = p
  <2>1. {p} \in SUBSET L /\ {p} # {}
    OBVIOUS
  <2>2. Owner(pv[p]) # p
    BY <2>1, <1>1 DEF RootedHeap
  <2> QED
    BY <2>2, <1>1, <1>2 DEF Backward, HeapType
<1>4. /\ Child(p) \in Cell /\ Nxt(p) \in Cell /\ Child(q) \in Cell /\ Nxt(q) \in Cell
      /\ Owner(Child(q)) = q /\ Owner(Nxt(q)) = q /\ Child(q) # Nxt(q)
      /\ Owner(Child(p)) = p /\ Owner(Nxt(p)) = p /\ Child(p) # Nxt(p)
  BY <1>2, Cells
<1>5. /\ pvq \in [Block -> Cell]
      /\ \A b \in Block : pvq[b] = IF b = q THEN pv[p] ELSE IF b = p THEN Nxt(p) ELSE pv[b]
  BY <1>1, <1>2, <1>3, <1>4 DEF CopyPrev, HeapType
<1>6. /\ lkp \in [Cell -> Block \cup {Null}]
      /\ lkp[Child(q)] = lk[Child(p)] /\ lkp[Nxt(q)] = lk[Nxt(p)]
      /\ \A c \in Cell : Owner(c) # q /\ Owner(c) # p => lkp[c] = lk[c]
  <2>1. \A c \in Cell : <<c[1], p>> \in Cell
    BY <1>2 DEF Cell
  <2>2. <<Child(q)[1], p>> = Child(p) /\ <<Nxt(q)[1], p>> = Nxt(p)
    BY DEF Child, Nxt
  <2> QED
    BY <2>1, <2>2, <1>1, <1>2, <1>4 DEF CopyLink, HeapType
<1> HIDE DEF pvq, lkp
<1>7. /\ lk2 \in [Cell -> Block \cup {Null}]
      /\ lk2[Child(q)] = lk[Child(p)] /\ lk2[Nxt(q)] = lk[Nxt(p)] /\ lk2[pv[p]] = q
      /\ \A c \in Cell : Owner(c) # q /\ Owner(c) # p /\ c # pv[p] => lk2[c] = lk[c]
  BY <1>2, <1>3, <1>4, <1>5, <1>6 DEF RelinkLink
<1> HIDE DEF lk2
<1>8. /\ pv2 \in [Block -> Cell]
      /\ \A b \in Block : pv2[b] = IF b = lk[Child(p)] THEN Child(q)
                                   ELSE IF b = lk[Nxt(p)] THEN Nxt(q) ELSE pvq[b]
  BY <1>4, <1>5, <1>7 DEF RelinkPrev
<1> HIDE DEF pv2
<1>9. /\ lk[Child(p)] = Null \/ (lk[Child(p)] \in L \ {p} /\ pv[lk[Child(p)]] = Child(p))
      /\ lk[Nxt(p)] = Null \/ (lk[Nxt(p)] \in L \ {p} /\ pv[lk[Nxt(p)]] = Nxt(p))
  BY <1>1, <1>2, <1>3, <1>4 DEF Forward, HeapType
<1>10. pv2[q] = pv[p]
  BY <1>2, <1>5, <1>8, <1>9
<1>11. HeapType(L2, lk2, pv2)
  BY <1>2, <1>7, <1>8 DEF HeapType
<1>12. Forward(L2, lk2, pv2)
  <2> SUFFICES ASSUME NEW c \in Cell, Owner(c) \in L2, lk2[c] # Null
               PROVE  lk2[c] \in L2 /\ pv2[lk2[c]] = c
    BY DEF Forward
  <2>1. CASE c = Child(q)
    BY <2>1, <1>2, <1>7, <1>8, <1>9
  <2>2. CASE c = Nxt(q)
    BY <2>2, <1>2, <1>4, <1>7, <1>8, <1>9
  <2>3. CASE c = pv[p]
    BY <2>3, <1>7, <1>10
  <2>4. CASE c # Child(q) /\ c # Nxt(q) /\ c # pv[p]
    <3>1. Owner(c) \in L /\ Owner(c) # p /\ Owner(c) # q
      BY <2>4, Cells
    <3>2. lk2[c] = lk[c] /\ lk[c] \in L /\ pv[lk[c]] = c
      BY <3>1, <2>4, <1>1, <1>7 DEF Forward
    <3>3. lk[c] # p /\ lk[c] # q /\ lk[c] # lk[Child(p)] /\ lk[c] # lk[Nxt(p)]
      BY <3>1, <3>2, <2>4, <1>2, <1>4, <1>9
    <3> QED
      BY <3>2, <3>3, <1>2, <1>5, <1>8
  <2> QED
    BY <2>1, <2>2, <2>3, <2>4
<1>13. Backward(L2, lk2, pv2)
  <2> SUFFICES ASSUME NEW b \in L2
               PROVE  /\ Owner(pv2[b]) \in L2
                      /\ lk2[pv2[b]] = b \/ (pv2[b] = Nxt(b) /\ lk2[Nxt(b)] = Null)
    BY DEF Backward
  <2>1. CASE b = q
    BY <2>1, <1>3, <1>7, <1>10
  <2>2. CASE b # q /\ (b = lk[Child(p)] \/ b = lk[Nxt(p)])
    BY <2>2, <1>2, <1>4, <1>7, <1>8
  <2>3. CASE b # q /\ b # lk[Child(p)] /\ b # lk[Nxt(p)]
    <3>1. b \in L /\ b \in Block /\ b # p /\ pv2[b] = pv[b]
      BY <2>3, <1>2, <1>5, <1>8
    <3>2. pv[b] \in Cell /\ Nxt(b) \in Cell /\ Owner(Nxt(b)) = b
      BY <3>1, <1>1, Cells DEF HeapType
    <3>3. /\ Owner(pv[b]) \in L
          /\ lk[pv[b]] = b \/ (pv[b] = Nxt(b) /\ lk[Nxt(b)] = Null)
      BY <3>1, <1>1 DEF Backward
    <3>4. Owner(pv[b]) # p
      BY <3>1, <3>2, <3>3, <2>3, Cells
    <3>5. pv[b] # pv[p]
      BY <3>1, <3>2, <3>3, <1>2, <1>3
    <3> QED
      BY <3>1, <3>2, <3>3, <3>4, <3>5, <1>7
  <2> QED
    BY <2>1, <2>2, <2>3
<1>14. RootedHeap(L2, pv2)
  <2> SUFFICES ASSUME NEW S \in SUBSET L2, S # {}
               PROVE  \E b \in S : pv2[b] = Nxt(b) \/ Owner(pv2[b]) \notin S
    BY DEF RootedHeap
  <2> DEFINE T == IF q \in S THEN (S \ {q}) \cup {p} ELSE S
  <2>1. T \in SUBSET L /\ T # {}
    OBVIOUS
  <2>2. PICK b \in T : pv[b] = Nxt(b) \/ Owner(pv[b]) \notin T
    BY <2>1, <1>1 DEF RootedHeap
  <2>3. CASE b = p
    BY <2>3, <2>2, <1>3, <1>10
  <2>4. CASE b # p
    <3>1. b \in S /\ b # q /\ b \in L /\ b \in Block
      BY <2>1, <2>2, <2>4, <1>2
    <3>2. CASE b = lk[Child(p)] \/ b = lk[Nxt(p)]
      BY <3>1, <3>2, <2>2, <1>2, <1>4, <1>8, <1>9, Cells
    <3>3. CASE b # lk[Child(p)] /\ b # lk[Nxt(p)]
      <4>1. pv2[b] = pv[b]
        BY <3>1, <3>3, <2>4, <1>5, <1>8
      <4>2. Owner(pv[b]) \in L
        BY <3>1, <1>1 DEF Backward
      <4> QED
        BY <4>1, <4>2, <3>1, <2>2
    <3> QED
      BY <3>2, <3>3
  <2> QED
    BY <2>3, <2>4
<1>15. ASSUME NEW b \in L \ {p}
       PROVE  pv2[b] = IF pv[b] = Child(p) THEN Child(q)
                         ELSE IF pv[b] = Nxt(p) THEN Nxt(q) ELSE pv[b]
  <2>1. b \in Block /\ b # Null /\ b # q /\ Owner(Nxt(b)) = b /\ Nxt(b) \in Cell
    BY <1>2, Cells
  <2>2. /\ b = lk[Child(p)] <=> pv[b] = Child(p)
        /\ b = lk[Nxt(p)] <=> pv[b] = Nxt(p)
    BY <2>1, <1>1, <1>2, <1>4, <1>9, Cells DEF Backward
  <2> QED
    BY <2>1, <2>2, <1>4, <1>5, <1>8
<1> QED
  BY <1>10, <1>11, <1>12, <1>13, <1>14, <1>15 DEF Heap, Redirected, lk2, pv2, lkp, pvq

-----------------------------------------------------------------------------
(***************************************************************************)
(* h_free.  The blocks below p, p aside, are exactly those whose prev cell *)
(* is owned inside the subtree: a block entered from outside it could be   *)
(* left out of the least closed set.                                       *)
(***************************************************************************)
LEMMA SubtreeEntry ==
    ASSUME NEW L, NEW lk, NEW pv, Heap(L, lk, pv), NEW p \in L,
           NEW x \in Subtree(lk, p), x # p
    PROVE  /\ x \in L
           /\ Owner(pv[x]) \in Subtree(lk, p)
           /\ pv[x] # Nxt(p)
           /\ pv[x] # Nxt(x)
<1> DEFINE T == Subtree(lk, p)
<1>1. HeapType(L, lk, pv) /\ Forward(L, lk, pv) /\ Null \notin Block
  BY HallocAssumption DEF Heap
<1>2. p \in Block /\ T \subseteq Block /\ Closed(lk, p, T)
      /\ \A S \in SUBSET Block : Closed(lk, p, S) => T \subseteq S
  BY <1>1, SubtreeClosed DEF HeapType
<1>3. Closed(lk, p, L) /\ L \in SUBSET Block
  BY <1>1, Cells DEF Closed, Forward, HeapType
<1>4. x \in L /\ T \subseteq L
  BY <1>2, <1>3
<1>5. ~Closed(lk, p, T \ {x})
  BY <1>2
<1>6. PICK y \in T \ {x} : \/ lk[Child(y)] \notin (T \ {x}) \cup {Null}
                           \/ y # p /\ lk[Nxt(y)] \notin (T \ {x}) \cup {Null}
  BY <1>2, <1>5 DEF Closed
<1>7. lk[Child(y)] = x \/ (y # p /\ lk[Nxt(y)] = x)
  BY <1>2, <1>6 DEF Closed
<1>8. y \in L /\ y \in Block /\ x \in Block /\ y # x /\ x # Null
  BY <1>1, <1>2, <1>4, <1>6
<1>9. pv[x] = Child(y) \/ (y # p /\ pv[x] = Nxt(y))
  BY <1>1, <1>7, <1>8, Cells DEF Forward
<1> QED
  BY <1>2, <1>4, <1>6, <1>8, <1>9, Cells

\* Once p is off its list, nothing in its subtree leads out of it.
LEMMA SubtreeApart ==
    ASSUME NEW L, NEW lk, NEW pv, Heap(L, lk, pv), NEW p \in L
    PROVE  \A c \in Cell : Owner(c) \in Subtree(lk, p) =>
              DelLink(lk, pv, p)[c] \in Subtree(lk, p) \cup {Null}
<1> DEFINE T   == Subtree(lk, p)
           lkd == DelLink(lk, pv, p)
<1>1. HeapType(L, lk, pv) /\ Null \notin Block /\ p \in Block
  BY HallocAssumption DEF Heap, HeapType
<1>2. T \subseteq Block /\ Closed(lk, p, T) /\ p \in T
  BY <1>1, SubtreeClosed DEF HeapType, Closed
<1>3. lkd[Nxt(p)] = Null
  BY DelKeepsHeap
<1> SUFFICES ASSUME NEW c \in Cell, Owner(c) \in T PROVE lkd[c] \in T \cup {Null}
  OBVIOUS
<1>4. CASE c = Nxt(p)
  BY <1>3, <1>4
<1>5. CASE c # Nxt(p)
  <2>1. lk[c] \in T \cup {Null}
    BY <1>2, <1>5, Cells DEF Closed
  <2>2. CASE c = pv[p]
    <3>1. T \in SUBSET L /\ T # {}
      BY <1>2, SubtreeEntry
    <3>2. PICK x \in T : pv[x] = Nxt(x) \/ Owner(pv[x]) \notin T
      BY <3>1 DEF Heap, RootedHeap
    <3>3. x = p
      BY <3>2, SubtreeEntry
    <3> QED
      BY <2>2, <3>2, <3>3, <1>5
  <2>3. CASE c # pv[p]
    BY <1>5, <2>1, <2>3 DEF DelLink
  <2> QED
    BY <2>2, <2>3
<1> QED
  BY <1>4, <1>5

LEMMA FreeKeepsHeap ==
    ASSUME NEW L, NEW lk, NEW pv, Heap(L, lk, pv), NEW p \in L
    PROVE  LET gone == Subtree(lk, p)
           IN  Heap(L \ gone, InitLink(DelLink(lk, pv, p), gone),
                              InitPrev(DelPrev(lk, pv, p), gone))
<1> DEFINE T   == Subtree(lk, p)
           lkd == DelLink(lk, pv, p)
           pvd == DelPrev(lk, pv, p)
           lk2 == InitLink(lkd, T)
           pv2 == InitPrev(pvd, T)
<1>1. HeapType(L, lk, pv) /\ Forward(L, lk, pv) /\ Null \notin Block /\ p \in Block
  BY HallocAssumption DEF Heap, HeapType
<1>2. T \subseteq Block /\ Closed(lk, p, T) /\ p \in T
  BY <1>1, SubtreeClosed DEF HeapType, Closed
<1>3. /\ HeapType(L, lkd, pvd) /\ Forward(L, lkd, pvd)
      /\ Backward(L, lkd, pvd) /\ RootedHeap(L, pvd)
      /\ lkd[Nxt(p)] = Null /\ pvd[p] = Nxt(p)
  BY DelKeepsHeap DEF Heap
\* Once p is off its list, nothing outside the subtree leads into it,
<1>4. ASSUME NEW c \in Cell, Owner(c) \in L \ T
      PROVE  lkd[c] \notin T
  <2> SUFFICES ASSUME lkd[c] \in T PROVE FALSE
    OBVIOUS
  <2>1. lkd[c] \in L /\ pvd[lkd[c]] = c
    BY <1>1, <1>2, <1>3, <1>4 DEF Forward
  <2>2. lkd[c] # p
    BY <2>1, <1>1, <1>2, <1>3, <1>4, Cells
  <2>3. Owner(pv[lkd[c]]) \in T /\ pv[lkd[c]] # Nxt(p)
    BY <2>2, SubtreeEntry
  <2>4. pvd[lkd[c]] = pv[lkd[c]]
    <3>1. lkd[c] \in Block /\ Nxt(p) \in Cell /\ Owner(Nxt(p)) = p
      BY <1>1, <1>2, Cells
    <3>2. lkd[c] # lk[Nxt(p)]
      BY <2>1, <2>3, <3>1, <1>1 DEF Forward
    <3> QED
      BY <2>2, <3>1, <3>2 DEF DelPrev
  <2> QED
    BY <2>1, <2>3, <2>4, <1>4
\* and nothing in the subtree leads out of it.
<1>5. \A c \in Cell : Owner(c) \in T => lkd[c] \in T \cup {Null}
  BY SubtreeApart
<1>6. /\ \A c \in Cell : lk2[c] = IF Owner(c) \in T THEN Null ELSE lkd[c]
      /\ \A b \in Block : pv2[b] = IF b \in T THEN Nxt(b) ELSE pvd[b]
  BY DEF InitLink, InitPrev
<1>7. HeapType(L \ T, lk2, pv2)
  BY <1>1, <1>2, <1>3, Cells DEF HeapType, InitLink, InitPrev
<1> HIDE DEF lkd, pvd, lk2, pv2, T
<1>8. Forward(L \ T, lk2, pv2)
  BY <1>1, <1>3, <1>4, <1>6, Cells DEF Forward, HeapType
<1>9. ASSUME NEW b \in L \ T
      PROVE  /\ pv2[b] = pvd[b] /\ pvd[b] \in Cell /\ Owner(pvd[b]) \in L \ T
             /\ lk2[pvd[b]] = lkd[pvd[b]] /\ Nxt(b) \in Cell /\ lk2[Nxt(b)] = lkd[Nxt(b)]
  <2>1. b \in Block /\ b # Null /\ pvd[b] \in Cell /\ Nxt(b) \in Cell /\ Owner(Nxt(b)) = b
    BY <1>1, <1>3, Cells DEF HeapType
  <2>2. Owner(pvd[b]) \in L \ T
    BY <2>1, <1>3, <1>5 DEF Backward
  <2> QED
    BY <2>1, <2>2, <1>6
<1>10. Backward(L \ T, lk2, pv2)
  BY <1>3, <1>9 DEF Backward
<1>11. RootedHeap(L \ T, pv2)
  BY <1>3, <1>9 DEF RootedHeap
<1> QED
  BY <1>7, <1>8, <1>10, <1>11 DEF Heap, lkd, pvd, lk2, pv2, T

-----------------------------------------------------------------------------
LEMMA HeapInductive ==
    ASSUME RootsMove = FALSE, Heap(live, link, prev), [Next]_vars
    PROVE  Heap(live', link', prev')
<1>0. live \subseteq Block /\ link \in [Cell -> Block \cup {Null}]
  BY DEF Heap, HeapType
<1>1. ASSUME NEW b \in Block, Alloc(b) PROVE Heap(live', link', prev')
  BY <1>1, AllocKeepsHeap DEF Alloc
<1>2. ASSUME NEW b \in live, Detach(b) PROVE Heap(live', link', prev')
  BY <1>2, DelKeepsHeap DEF Detach
<1>3. ASSUME NEW b \in live, NEW p \in live, Attach(b, p) PROVE Heap(live', link', prev')
  BY <1>3, DelKeepsHeap, AddKeepsHeap DEF Attach
<1>4. ASSUME NEW p \in live, Resize(p) PROVE Heap(live', link', prev')
  BY <1>4, ResizeKeepsHeap DEF Resize
<1>5. ASSUME NEW p \in live, NEW q \in Block, Move(p, q) PROVE Heap(live', link', prev')
  <2>1. prev[p] # Nxt(p) /\ q \notin live
    BY <1>5 DEF Move, OnNoList
  <2> QED
    BY <1>5, <2>1, MoveKeepsHeap DEF Move
<1>6. ASSUME NEW p \in live, Free(p) PROVE Heap(live', link', prev')
  BY <1>6, FreeKeepsHeap DEF Free
<1>7. CASE UNCHANGED vars
  BY <1>7 DEF vars
<1> QED
  BY <1>1, <1>2, <1>3, <1>4, <1>5, <1>6, <1>7 DEF Next

LEMMA HeapInvariant == ASSUME RootsMove = FALSE PROVE Spec => []Heap(live, link, prev)
<1>1. Init => Heap(live, link, prev)
  BY Cells DEF Init, Heap, HeapType, Forward, Backward, RootedHeap
<1>2. Heap(live, link, prev) /\ [Next]_vars => Heap(live, link, prev)'
  BY HeapInductive
<1> QED
  BY <1>1, <1>2, PTL DEF Spec

(***************************************************************************)
(* The pointer fields keep their type.                                     *)
(***************************************************************************)
THEOREM HallocTypes == ASSUME RootsMove = FALSE PROVE Spec => []TypeOK
<1>1. Heap(live, link, prev) => TypeOK
  BY DEF Heap, HeapType, TypeOK
<1> QED
  BY <1>1, HeapInvariant, PTL

(***************************************************************************)
(* Every list of every block stays doubly linked through any sequence of   *)
(* allocations, attachments, reallocations and frees.                      *)
(***************************************************************************)
THEOREM HallocListsIntact == ASSUME RootsMove = FALSE PROVE Spec => []ListsIntact
<1>1. Heap(live, link, prev) => ListsIntact
  BY DEF Heap, ListsIntact
<1> QED
  BY <1>1, HeapInvariant, PTL

(***************************************************************************)
(* The hierarchy never contains a loop, so _free_children and _relate      *)
(* terminate.                                                              *)
(***************************************************************************)
THEOREM HallocRooted == ASSUME RootsMove = FALSE PROVE Spec => []Rooted
<1>1. Heap(live, link, prev) => Rooted
  BY DEF Heap, Rooted
<1> QED
  BY <1>1, HeapInvariant, PTL

-----------------------------------------------------------------------------
(***************************************************************************)
(* Halloc implements HallocForest, for any set of addresses: the list      *)
(* operations of mem/halloc.c do to the pointers what attaching, moving    *)
(* and freeing do to the abstract forest.                                  *)
(*                                                                         *)
(* The parent of a block is defined by a walk along a list.  The proofs    *)
(* use an equivalent local description instead: the parent of a first      *)
(* child owns the cell that points to it, and the other items of a list    *)
(* have the parent of the item before them.  In a heap without loops only  *)
(* one map fits that description, so it is enough to show that the map     *)
(* after each abstract operation fits the heap after the concrete one.     *)
(***************************************************************************)

\* m is a map of the blocks L to parents, as the back pointers pv have them.
Parents(L, pv, m) ==
    \A b \in L :
        \/ pv[b] = Nxt(b) /\ m[b] = Null
        \/ pv[b] # Nxt(b) /\ pv[b] = Child(Owner(pv[b])) /\ m[b] = Owner(pv[b])
        \/ pv[b] # Nxt(b) /\ pv[b] = Nxt(Owner(pv[b])) /\ m[b] = m[Owner(pv[b])]

\* The heap's invariant, taken apart, with what follows from it for one block.
LEMMA HeapFacts ==
    ASSUME NEW L, NEW lk, NEW pv, Heap(L, lk, pv)
    PROVE  /\ Null \notin Block /\ L \subseteq Block
           /\ lk \in [Cell -> Block \cup {Null}] /\ pv \in [Block -> Cell]
           /\ \A c \in Cell : Owner(c) \in L => lk[c] = Null \/ (lk[c] \in L /\ pv[lk[c]] = c)
           /\ \A b \in L : /\ Owner(pv[b]) \in L
                           /\ lk[pv[b]] = b \/ (pv[b] = Nxt(b) /\ lk[Nxt(b)] = Null)
                           /\ pv[b] \in Cell
                           /\ pv[b] = Child(Owner(pv[b])) \/ pv[b] = Nxt(Owner(pv[b]))
           /\ \A S \in SUBSET L : S # {} =>
                 \E b \in S : pv[b] = Nxt(b) \/ Owner(pv[b]) \notin S
BY HallocAssumption, Cells DEF Heap, HeapType, Forward, Backward, RootedHeap

\* Only one map fits.
LEMMA ParentsUnique ==
    ASSUME NEW L, NEW lk, NEW pv, Heap(L, lk, pv),
           NEW m, NEW n, Parents(L, pv, m), Parents(L, pv, n)
    PROVE  \A b \in L : m[b] = n[b]
<1> DEFINE S == {b \in L : m[b] # n[b]}
<1> SUFFICES ASSUME S # {} PROVE FALSE
  OBVIOUS
<1>0. S \in SUBSET L
  OBVIOUS
<1>1. \E b \in S : pv[b] = Nxt(b) \/ Owner(pv[b]) \notin S
  <2> HIDE DEF S
  <2> QED
    BY <1>0, HeapFacts
<1>2. PICK b \in S : pv[b] = Nxt(b) \/ Owner(pv[b]) \notin S
  BY <1>1
<1>3. Owner(pv[b]) \in L
  BY HeapFacts
<1>4. b \in L /\ m[b] # n[b] /\ (pv[b] = Nxt(b) \/ m[Owner(pv[b])] = n[Owner(pv[b])])
  BY <1>2, <1>3
<1> QED
  BY <1>4, Cells DEF Parents

-----------------------------------------------------------------------------
\* The walk along the list of p, on a heap of links lk.
Walk(lk, p) == {x \in Block : \A S \in SUBSET Block :
                   /\ lk[Child(p)] \in S \cup {Null}
                   /\ \A y \in S : lk[Nxt(y)] \in S \cup {Null}
                   => x \in S}

LEMMA WalkLeast ==
    ASSUME NEW L, NEW lk, NEW pv, Heap(L, lk, pv), NEW p \in L
    PROVE  /\ Walk(lk, p) \subseteq L
           /\ lk[Child(p)] \in Walk(lk, p) \cup {Null}
           /\ \A y \in Walk(lk, p) : lk[Nxt(y)] \in Walk(lk, p) \cup {Null}
           /\ \A x \in Walk(lk, p) :
                 /\ pv[x] # Nxt(x)
                 /\ \/ pv[x] = Child(p)
                    \/ \E y \in Walk(lk, p) : pv[x] = Nxt(y)
<1> DEFINE W == Walk(lk, p)
           ClosedList(S) == /\ lk[Child(p)] \in S \cup {Null}
                            /\ \A y \in S : lk[Nxt(y)] \in S \cup {Null}
<1>1. \A S \in SUBSET Block : ClosedList(S) => W \subseteq S
  BY DEF Walk
<1>2. ClosedList(L) /\ L \in SUBSET Block
  BY HeapFacts, Cells
<1>3. W \subseteq L
  BY <1>1, <1>2
<1>4. lk[Child(p)] \in W \cup {Null}
  <2>1. p \in Block /\ lk[Child(p)] \in Block \cup {Null}
    BY HeapFacts, Cells
  <2> QED
    BY <2>1 DEF Walk
<1>5. ASSUME NEW y \in W PROVE lk[Nxt(y)] \in W \cup {Null}
  <2>1. lk[Nxt(y)] \in Block \cup {Null}
    BY <1>3, HeapFacts, Cells
  <2>2. \A S \in SUBSET Block : ClosedList(S) => lk[Nxt(y)] \in S \cup {Null}
    BY <1>1
  <2> QED
    BY <2>1, <2>2 DEF Walk
<1>6. ASSUME NEW x \in W
      PROVE  /\ pv[x] # Nxt(x)
             /\ pv[x] = Child(p) \/ \E y \in W : pv[x] = Nxt(y)
  <2>1. ~ClosedList(W \ {x}) /\ x \in L
    BY <1>1, <1>2, <1>3
  <2>2. lk[Child(p)] = x \/ \E y \in W \ {x} : lk[Nxt(y)] = x
    BY <1>4, <1>5, <2>1
  <2>3. CASE lk[Child(p)] = x
    BY <2>1, <2>3, HeapFacts, Cells
  <2>4. ASSUME NEW y \in W \ {x}, lk[Nxt(y)] = x
        PROVE  pv[x] = Nxt(y) /\ pv[x] # Nxt(x)
    BY <1>3, <2>1, <2>4, HeapFacts, Cells
  <2> QED
    BY <2>2, <2>3, <2>4
<1> HIDE DEF W
<1> QED
  BY <1>3, <1>4, <1>5, <1>6 DEF W

\* Two lists have no item in common.
LEMMA WalksApart ==
    ASSUME NEW L, NEW lk, NEW pv, Heap(L, lk, pv), NEW p \in L, NEW q \in L,
           NEW b \in Walk(lk, p), b \in Walk(lk, q)
    PROVE  p = q
<1> SUFFICES ASSUME p # q PROVE FALSE
  OBVIOUS
<1> DEFINE S == Walk(lk, p) \cap Walk(lk, q)
<1>1. S \in SUBSET L /\ S # {}
  BY WalkLeast
<1>2. \E x \in S : pv[x] = Nxt(x) \/ Owner(pv[x]) \notin S
  <2> HIDE DEF S
  <2> QED
    BY <1>1, HeapFacts
<1>2a. PICK x \in S : pv[x] = Nxt(x) \/ Owner(pv[x]) \notin S
  BY <1>2
<1>3. /\ pv[x] # Nxt(x)
      /\ pv[x] = Child(p) \/ \E y \in Walk(lk, p) : pv[x] = Nxt(y)
      /\ pv[x] = Child(q) \/ \E y \in Walk(lk, q) : pv[x] = Nxt(y)
  BY WalkLeast
<1>4. p \in Block /\ q \in Block /\ S \subseteq Block /\ Walk(lk, p) \subseteq Block
      /\ Walk(lk, q) \subseteq Block
  BY <1>1, HeapFacts DEF Walk
<1> QED
  BY <1>2a, <1>3, <1>4, Cells

\* A block that is on some list is on that of a live block.
LEMMA WalkExists ==
    ASSUME NEW L, NEW lk, NEW pv, Heap(L, lk, pv), NEW b \in L, pv[b] # Nxt(b)
    PROVE  \E p \in L : b \in Walk(lk, p)
<1> DEFINE S == {x \in L : pv[x] # Nxt(x) /\ \A p \in L : x \notin Walk(lk, p)}
<1> SUFFICES ASSUME S # {} PROVE FALSE
  OBVIOUS
<1>0. \E x \in S : pv[x] = Nxt(x) \/ Owner(pv[x]) \notin S
  <2>1. S \in SUBSET L
    OBVIOUS
  <2> HIDE DEF S
  <2> QED
    BY <2>1, HeapFacts
<1>1. PICK x \in S : Owner(pv[x]) \notin S
  BY <1>0
<1> DEFINE y == Owner(pv[x])
<1>2. /\ x \in L /\ x # Null /\ x \in Block /\ y \in L /\ lk[pv[x]] = x
      /\ pv[x] = Child(y) \/ pv[x] = Nxt(y)
  BY HeapFacts
<1>3. CASE pv[x] = Child(y)
  <2>1. x \in Walk(lk, y)
    BY <1>2, <1>3, WalkLeast
  <2> QED
    BY <1>2, <2>1
<1>4. CASE pv[x] = Nxt(y)
  <2>1. \A p \in L : y \notin Walk(lk, p)
    BY <1>2, <1>4, WalkLeast
  <2>2. pv[y] = Nxt(y)
    BY <1>1, <1>2, <2>1
  <2>3. lk[Nxt(y)] = x /\ x # y
    BY <1>2, <1>4
  <2> QED
    BY <1>2, <2>2, <2>3, HeapFacts
<1> QED
  BY <1>2, <1>3, <1>4

\* The parents found by walking.
Par(L, lk) == [b \in L |-> IF \E p \in L : b \in Walk(lk, p)
                           THEN CHOOSE p \in L : b \in Walk(lk, p)
                           ELSE Null]

LEMMA WalkParents ==
    ASSUME NEW L, NEW lk, NEW pv, Heap(L, lk, pv)
    PROVE  /\ Parents(L, pv, Par(L, lk))
           /\ \A b \in L : Par(L, lk)[b] \in L \cup {Null}
<1> DEFINE m == Par(L, lk)
<1>1. ASSUME NEW b \in L, NEW p \in L, b \in Walk(lk, p)
      PROVE  m[b] = p
  BY <1>1, WalksApart DEF Par
<1>2. ASSUME NEW b \in L
      PROVE  m[b] \in L \cup {Null} /\ (m[b] # Null => b \in Walk(lk, m[b]))
  BY DEF Par
<1>3. ASSUME NEW b \in L
      PROVE  \/ pv[b] = Nxt(b) /\ m[b] = Null
             \/ pv[b] # Nxt(b) /\ pv[b] = Child(Owner(pv[b])) /\ m[b] = Owner(pv[b])
             \/ pv[b] # Nxt(b) /\ pv[b] = Nxt(Owner(pv[b])) /\ m[b] = m[Owner(pv[b])]
  <2>1. b # Null /\ b \in Block /\ Owner(pv[b]) \in L /\ L \subseteq Block
    BY HeapFacts
  <2>2. CASE pv[b] = Nxt(b)
    <3>1. \A p \in L : b \notin Walk(lk, p)
      BY <2>2, WalkLeast
    <3> QED
      BY <2>2, <3>1 DEF Par
  <2>3. CASE pv[b] # Nxt(b)
    <3>1. PICK p \in L : b \in Walk(lk, p)
      BY <2>3, WalkExists
    <3>2. m[b] = p
      BY <1>1, <3>1
    <3>3. pv[b] = Child(p) \/ \E y \in Walk(lk, p) : pv[b] = Nxt(y)
      BY <3>1, WalkLeast
    <3>4. CASE pv[b] = Child(p)
      BY <2>1, <2>3, <3>2, <3>4, Cells
    <3>5. ASSUME NEW y \in Walk(lk, p), pv[b] = Nxt(y)
          PROVE  pv[b] = Nxt(Owner(pv[b])) /\ m[b] = m[Owner(pv[b])]
      <4>1. y \in L
        BY WalkLeast
      <4>2. Owner(pv[b]) = y
        BY <2>1, <3>5, <4>1, Cells
      <4>3. m[y] = p
        BY <1>1, <4>1
      <4> QED
        BY <3>2, <3>5, <4>2, <4>3
    <3> QED
      BY <2>3, <3>3, <3>4, <3>5
  <2> QED
    BY <2>2, <2>3
<1> QED
  BY <1>2, <1>3 DEF Parents

-----------------------------------------------------------------------------
\* A map that fits the heap is the map found by walking.
LEMMA ParIs ==
    ASSUME NEW L, NEW lk, NEW pv, Heap(L, lk, pv),
           NEW m, m = [b \in L |-> m[b]], Parents(L, pv, m)
    PROVE  Par(L, lk) = m
<1>1. \A b \in L : Par(L, lk)[b] = m[b]
  BY ParentsUnique, WalkParents
<1>2. Par(L, lk) = [b \in L |-> Par(L, lk)[b]]
  BY DEF Par
<1> QED
  BY <1>1, <1>2

\* What the operations below may assume of the map before them.
Fits(L, pv, m) == /\ m \in [L -> L \cup {Null}]
                  /\ Parents(L, pv, m)

LEMMA ParFits ==
    ASSUME NEW L, NEW lk, NEW pv, Heap(L, lk, pv)
    PROVE  Fits(L, pv, Par(L, lk))
BY WalkParents DEF Fits, Par

\* A new block has no parent.
LEMMA AllocParent ==
    ASSUME NEW L, NEW lk, NEW pv, Heap(L, lk, pv), NEW m, Fits(L, pv, m),
           NEW b \in Block \ L
    PROVE  Fits(L \cup {b}, InitPrev(pv, {b}), F!Place(m, b, Null))
<1> DEFINE pv2 == InitPrev(pv, {b})
           m2  == F!Place(m, b, Null)
<1>1. DOMAIN m = L /\ m \in [L -> L \cup {Null}] /\ Parents(L, pv, m)
  BY DEF Fits
<1>2. /\ \A x \in Block : pv2[x] = IF x = b THEN Nxt(b) ELSE pv[x]
      /\ m2 = [x \in L \cup {b} |-> IF x = b THEN Null ELSE m[x]]
  BY <1>1 DEF InitPrev, F!Place
<1> HIDE DEF pv2, m2
<1>3. \A x \in L : x \in Block /\ x # b /\ Owner(pv[x]) \in L /\ Owner(pv[x]) # b
  BY HeapFacts
<1>4. Parents(L \cup {b}, pv2, m2)
  BY <1>1, <1>2, <1>3 DEF Parents
<1>5. m2 \in [L \cup {b} -> L \cup {b} \cup {Null}]
  BY <1>1, <1>2
<1> QED
  BY <1>4, <1>5 DEF Fits, pv2, m2

\* A block that leaves its list has no parent any more.
LEMMA DelParent ==
    ASSUME NEW L, NEW lk, NEW pv, Heap(L, lk, pv), NEW m, Fits(L, pv, m), NEW i \in L
    PROVE  Fits(L, DelPrev(lk, pv, i), F!Place(m, i, Null))
<1> DEFINE pv2 == DelPrev(lk, pv, i)
           m2  == F!Place(m, i, Null)
<1>1. DOMAIN m = L /\ m \in [L -> L \cup {Null}] /\ Parents(L, pv, m)
  BY DEF Fits
<1>2. L \subseteq Block /\ Null \notin L /\ i \in Block
  BY HeapFacts
<1>3. /\ \A x \in Block : pv2[x] = IF x = i THEN Nxt(i)
                                   ELSE IF x = lk[Nxt(i)] THEN pv[i] ELSE pv[x]
      /\ m2 = [x \in L |-> IF x = i THEN Null ELSE m[x]]
  BY <1>1 DEF DelPrev, F!Place
<1> HIDE DEF pv2, m2
<1>4. ASSUME NEW x \in L
      PROVE  \/ pv2[x] = Nxt(x) /\ m2[x] = Null
             \/ pv2[x] # Nxt(x) /\ pv2[x] = Child(Owner(pv2[x])) /\ m2[x] = Owner(pv2[x])
             \/ pv2[x] # Nxt(x) /\ pv2[x] = Nxt(Owner(pv2[x])) /\ m2[x] = m2[Owner(pv2[x])]
  <2>1. CASE x = i
    BY <2>1, <1>2, <1>3
  <2>2. CASE x # i /\ x = lk[Nxt(i)]
    <3>1. pv[x] = Nxt(i) /\ pv2[x] = pv[i] /\ m2[x] = m[x] /\ Owner(pv[i]) \in L
      BY <2>2, <1>2, <1>3, HeapFacts, Cells
    <3>2. m[x] = m[i]
      BY <2>2, <3>1, <1>1, <1>2, Cells DEF Parents
    <3>3. pv[i] # Nxt(i)
      BY <2>2, <1>2, HeapFacts, <3>1
    <3>4. pv[i] # Nxt(x)
      <4>1. {i, x} \in SUBSET L /\ {i, x} # {}
        OBVIOUS
      <4>2. \E y \in {i, x} : pv[y] = Nxt(y) \/ Owner(pv[y]) \notin {i, x}
        BY <4>1, HeapFacts
      <4> QED
        BY <4>2, <2>2, <3>1, <3>3, <1>2, Cells
    <3>5. CASE pv[i] = Child(Owner(pv[i])) /\ m[i] = Owner(pv[i])
      BY <3>1, <3>2, <3>4, <3>5
    <3>6. CASE pv[i] = Nxt(Owner(pv[i])) /\ m[i] = m[Owner(pv[i])]
      BY <3>1, <3>2, <3>3, <3>4, <3>6, <1>3
    <3> QED
      BY <3>3, <3>5, <3>6, <1>1 DEF Parents
  <2>3. CASE x # i /\ x # lk[Nxt(i)]
    <3>1. pv2[x] = pv[x] /\ m2[x] = m[x] /\ Owner(pv[x]) \in L
      BY <2>3, <1>2, <1>3, HeapFacts
    <3>2. pv[x] # Nxt(i)
      BY <2>3, <1>2, HeapFacts, Cells
    <3> QED
      BY <3>1, <3>2, <1>1, <1>3 DEF Parents
  <2> QED
    BY <2>1, <2>2, <2>3
<1>5. m2 \in [L -> L \cup {Null}]
  BY <1>1, <1>3
<1> QED
  BY <1>4, <1>5 DEF Fits, Parents, pv2, m2

\* A block on no list that becomes the first child of p has p as its parent.
LEMMA AddParent ==
    ASSUME NEW L, NEW lk, NEW pv, Heap(L, lk, pv), NEW m, Fits(L, pv, m),
           NEW i \in L, NEW p \in L, p # i, pv[i] = Nxt(i), lk[Nxt(i)] = Null
    PROVE  Fits(L, AddPrev(lk, pv, Child(p), i), F!Place(m, i, p))
<1> DEFINE pv2 == AddPrev(lk, pv, Child(p), i)
           m2  == F!Place(m, i, p)
<1>1. DOMAIN m = L /\ m \in [L -> L \cup {Null}] /\ Parents(L, pv, m)
  BY DEF Fits
<1>2. L \subseteq Block /\ Null \notin L /\ i \in Block /\ p \in Block
  BY HeapFacts
<1>3. /\ \A x \in Block : pv2[x] = IF x = i THEN Child(p)
                                   ELSE IF x = lk[Child(p)] THEN Nxt(i) ELSE pv[x]
      /\ m2 = [x \in L |-> IF x = i THEN p ELSE m[x]]
  BY <1>1 DEF AddPrev, F!Place
<1> HIDE DEF pv2, m2
<1>4. ASSUME NEW x \in L
      PROVE  \/ pv2[x] = Nxt(x) /\ m2[x] = Null
             \/ pv2[x] # Nxt(x) /\ pv2[x] = Child(Owner(pv2[x])) /\ m2[x] = Owner(pv2[x])
             \/ pv2[x] # Nxt(x) /\ pv2[x] = Nxt(Owner(pv2[x])) /\ m2[x] = m2[Owner(pv2[x])]
  <2>1. CASE x = i
    BY <2>1, <1>2, <1>3, Cells
  <2>2. CASE x # i /\ x = lk[Child(p)]
    <3>1. pv[x] = Child(p) /\ pv2[x] = Nxt(i) /\ m2[x] = m[x]
      BY <2>2, <1>2, <1>3, HeapFacts, Cells
    <3>2. m[x] = p
      BY <3>1, <1>1, <1>2, Cells DEF Parents
    <3>3. Nxt(i) # Nxt(x) /\ Owner(Nxt(i)) = i
      BY <2>2, <1>2, Cells
    <3> QED
      BY <3>1, <3>2, <3>3, <1>3
  <2>3. CASE x # i /\ x # lk[Child(p)]
    <3>1. pv2[x] = pv[x] /\ m2[x] = m[x] /\ Owner(pv[x]) \in L
      BY <2>3, <1>2, <1>3, HeapFacts
    <3>2. pv[x] # Nxt(i)
      BY <2>3, <1>2, HeapFacts, Cells
    <3> QED
      BY <3>1, <3>2, <1>1, <1>3 DEF Parents
  <2> QED
    BY <2>1, <2>2, <2>3
<1>5. m2 \in [L -> L \cup {Null}]
  BY <1>1, <1>3
<1> QED
  BY <1>4, <1>5 DEF Fits, Parents, pv2, m2

-----------------------------------------------------------------------------
\* What is below b does not depend on what b itself is attached to.
LEMMA BelowDetached ==
    ASSUME NEW L, NEW m \in [L -> L \cup {Null}], NEW b \in L
    PROVE  F!Below(F!Place(m, b, Null), b) = F!Below(m, b)
<1> DEFINE m2 == F!Place(m, b, Null)
<1>1. DOMAIN m = L /\ m2 = [x \in L |-> IF x = b THEN Null ELSE m[x]] /\ DOMAIN m2 = L
  BY DEF F!Place
<1>2. \A S \in SUBSET L : b \in S => (F!ClosedBelow(m2, S) <=> F!ClosedBelow(m, S))
  BY <1>1 DEF F!ClosedBelow
<1> QED
  BY <1>1, <1>2 DEF F!Below

\* The least set below b: closed, and entered only through b.
LEMMA BelowLeast ==
    ASSUME NEW L, NEW m \in [L -> L \cup {Null}], NEW b \in L, Null \notin L
    PROVE  /\ F!Below(m, b) \subseteq L /\ b \in F!Below(m, b)
           /\ \A x \in L : m[x] \in F!Below(m, b) => x \in F!Below(m, b)
           /\ \A x \in F!Below(m, b) : x # b => m[x] \in F!Below(m, b)
           /\ \A S \in SUBSET L : b \in S /\ F!ClosedBelow(m, S) => F!Below(m, b) \subseteq S
<1> DEFINE B == F!Below(m, b)
<1>1. \A S \in SUBSET L : b \in S /\ F!ClosedBelow(m, S) => B \subseteq S
  BY DEF F!Below
<1>2. B \subseteq L /\ b \in B
  BY DEF F!Below
<1>3. \A x \in L : m[x] \in B => x \in B
  <2> SUFFICES ASSUME NEW x \in L, m[x] \in B,
                      NEW S \in SUBSET L, b \in S, F!ClosedBelow(m, S)
               PROVE  x \in S
    BY DEF F!Below
  <2> QED
    BY <1>1 DEF F!ClosedBelow
<1>4. ASSUME NEW x \in B, x # b, m[x] \notin B
      PROVE  FALSE
  <2>1. F!ClosedBelow(m, B \ {x})
    BY <1>3, <1>4 DEF F!ClosedBelow
  <2> QED
    BY <1>1, <1>2, <1>4, <2>1
<1> HIDE DEF B
<1> QED
  BY <1>1, <1>2, <1>3, <1>4 DEF B

\* From a block that is on no list, the walks of halloc.c reach exactly the
\* blocks below it.
LEMMA SubtreeIsBelow ==
    ASSUME NEW L, NEW lk, NEW pv, Heap(L, lk, pv), NEW m, Fits(L, pv, m),
           NEW b \in L, pv[b] = Nxt(b), lk[Nxt(b)] = Null
    PROVE  Subtree(lk, b) = F!Below(m, b)
<1> DEFINE T == Subtree(lk, b)
           B == F!Below(m, b)
<1>1. DOMAIN m = L /\ m \in [L -> L \cup {Null}] /\ Parents(L, pv, m)
  BY DEF Fits
<1>2. L \subseteq Block /\ Null \notin L /\ b \in Block
  BY HeapFacts
<1>3. /\ T \subseteq L /\ b \in T
      /\ \A x \in T : lk[Child(x)] \in T \cup {Null} /\ lk[Nxt(x)] \in T \cup {Null}
  <2>1. Closed(lk, b, T)
    BY <1>2, HeapFacts, SubtreeClosed
  <2>2. T \subseteq L
    BY SubtreeEntry
  <2> QED
    BY <2>1, <2>2 DEF Closed
<1>4. /\ B \subseteq L /\ b \in B
      /\ \A x \in L : m[x] \in B => x \in B
      /\ \A x \in B : x # b => m[x] \in B
  BY <1>1, <1>2, BelowLeast
<1>5. \A S \in SUBSET L : b \in S /\ F!ClosedBelow(m, S) => B \subseteq S
  BY <1>1, <1>2, BelowLeast
<1>6. \A S \in SUBSET Block : Closed(lk, b, S) => T \subseteq S
  BY DEF Subtree
<1> HIDE DEF T, B
<1>7. B \subseteq T
  <2> DEFINE D == {x \in L : m[x] \in T /\ x \notin T}
  <2> SUFFICES ASSUME D # {} PROVE FALSE
    BY <1>1, <1>3, <1>5 DEF F!ClosedBelow
  <2>1. D \in SUBSET L
    OBVIOUS
  <2>2. \E x \in D : pv[x] = Nxt(x) \/ Owner(pv[x]) \notin D
    <3> HIDE DEF D
    <3> QED
      BY <2>1, HeapFacts
  <2>3. PICK x \in D : pv[x] = Nxt(x) \/ Owner(pv[x]) \notin D
    BY <2>2
  <2>4. x \in L /\ x # Null /\ m[x] \in T /\ x \notin T /\ m[x] # Null
    BY <1>2, <1>3
  <2>5. pv[x] # Nxt(x) /\ Owner(pv[x]) \in L /\ Owner(pv[x]) \notin D /\ lk[pv[x]] = x
    BY <2>3, <2>4, <1>1, HeapFacts DEF Parents
  <2>6. CASE pv[x] = Child(Owner(pv[x])) /\ m[x] = Owner(pv[x])
    BY <2>4, <2>5, <2>6, <1>3
  <2>7. CASE pv[x] = Nxt(Owner(pv[x])) /\ m[x] = m[Owner(pv[x])]
    <3>1. Owner(pv[x]) \in T
      BY <2>4, <2>5, <2>7
    <3> QED
      BY <3>1, <2>4, <2>5, <2>7, <1>3
  <2> QED
    BY <2>4, <2>5, <2>6, <2>7, <1>1 DEF Parents
<1>8. Closed(lk, b, B)
  <2>1. ASSUME NEW x \in B, lk[Child(x)] # Null
        PROVE  lk[Child(x)] \in B
    <3>1. x \in Block /\ x \in L /\ Child(x) \in Cell /\ Owner(Child(x)) = x
      BY <1>2, <1>4, Cells
    <3>2. lk[Child(x)] \in L /\ pv[lk[Child(x)]] = Child(x)
      BY <2>1, <3>1, HeapFacts
    <3>3. m[lk[Child(x)]] = x
      BY <3>1, <3>2, <1>1, Cells DEF Parents
    <3> QED
      BY <3>2, <3>3, <1>4
  <2>2. ASSUME NEW x \in B, x # b, lk[Nxt(x)] # Null
        PROVE  lk[Nxt(x)] \in B
    <3>1. x \in Block /\ x \in L /\ Nxt(x) \in Cell /\ Owner(Nxt(x)) = x
      BY <1>2, <1>4, Cells
    <3>2. lk[Nxt(x)] \in L /\ pv[lk[Nxt(x)]] = Nxt(x)
      BY <2>2, <3>1, HeapFacts
    <3>3. CASE lk[Nxt(x)] = x
      BY <3>3
    <3>4. CASE lk[Nxt(x)] # x
      <4>1. Nxt(lk[Nxt(x)]) # Nxt(x)
        BY <3>1, <3>2, <3>4, <1>2, Cells
      <4>2. m[lk[Nxt(x)]] = m[x]
        BY <3>1, <3>2, <4>1, <1>1, Cells DEF Parents
      <4> QED
        BY <2>2, <3>2, <4>2, <1>4
    <3> QED
      BY <3>3, <3>4
  <2> QED
    BY <2>1, <2>2, <1>4 DEF Closed
<1>9. T \subseteq B
  BY <1>2, <1>4, <1>6, <1>8
<1> QED
  BY <1>7, <1>9 DEF T, B

\* The walks reach the same blocks before and after b leaves its list.
LEMMA SubtreeDetached ==
    ASSUME NEW L, NEW lk, NEW pv, Heap(L, lk, pv), NEW b \in L
    PROVE  Subtree(DelLink(lk, pv, b), b) = Subtree(lk, b)
<1> DEFINE T   == Subtree(lk, b)
           lkd == DelLink(lk, pv, b)
           Td  == Subtree(lkd, b)
<1>1. L \subseteq Block /\ Null \notin L /\ b \in Block /\ lk \in [Cell -> Block \cup {Null}]
  BY HeapFacts
<1>2. T \subseteq Block /\ Closed(lk, b, T) /\ \A S \in SUBSET Block : Closed(lk, b, S) => T \subseteq S
  BY <1>1, SubtreeClosed
<1>3. lkd \in [Cell -> Block \cup {Null}]
  BY DelKeepsHeap DEF Heap, HeapType
<1>4. /\ Td \subseteq Block /\ Closed(lkd, b, Td)
      /\ \A S \in SUBSET Block : Closed(lkd, b, S) => Td \subseteq S
  BY <1>1, <1>3, SubtreeClosed
<1>5. Closed(lkd, b, T)
  BY <1>2, SubtreeApart, Cells DEF Closed
<1>6. \A c \in Cell : c # Nxt(b) => lk[c] = lkd[c] \/ (c = pv[b] /\ lk[c] = b)
  BY <1>1, HeapFacts DEF DelLink
<1> HIDE DEF lkd, T, Td
<1>7. Closed(lk, b, Td)
  BY <1>1, <1>4, <1>6, Cells DEF Closed
<1> QED
  BY <1>2, <1>4, <1>5, <1>7 DEF T, Td, lkd

\* h_free takes away exactly the blocks below its argument; the others keep
\* their parents.
LEMMA FreeParent ==
    ASSUME NEW L, NEW lk, NEW pv, Heap(L, lk, pv), NEW m, Fits(L, pv, m), NEW p \in L
    PROVE  LET gone == Subtree(lk, p)
           IN  Fits(L \ gone, InitPrev(DelPrev(lk, pv, p), gone), F!Prune(m, p))
<1> DEFINE T   == Subtree(lk, p)
           lkd == DelLink(lk, pv, p)
           pvd == DelPrev(lk, pv, p)
           pv2 == InitPrev(pvd, T)
           md  == F!Place(m, p, Null)
           m2  == F!Prune(m, p)
<1>1. DOMAIN m = L /\ m \in [L -> L \cup {Null}] /\ L \subseteq Block /\ Null \notin L
  BY HeapFacts DEF Fits
<1>2. Heap(L, lkd, pvd) /\ lkd[Nxt(p)] = Null /\ pvd[p] = Nxt(p)
  BY DelKeepsHeap
<1>3. Fits(L, pvd, md)
  BY DelParent
<1>4. T = F!Below(m, p)
  BY <1>1, <1>2, <1>3, SubtreeDetached, SubtreeIsBelow, BelowDetached
<1>5. p \in T /\ \A x \in L \ T : m[x] \notin T
  BY <1>1, <1>4, BelowLeast
<1>6. m2 = [x \in L \ T |-> m[x]]
  BY <1>1, <1>4 DEF F!Prune
<1>7. \A x \in L : x # p => md[x] = m[x]
  BY <1>1 DEF F!Place
<1>8. \A x \in L \ T : pv2[x] = pvd[x]
  BY <1>1 DEF InitPrev
<1>9. \A x \in L \ T : Owner(pv2[x]) \in L \ T
  BY FreeKeepsHeap DEF Heap, Backward
<1> HIDE DEF T, lkd, pvd, pv2, md, m2
<1>10. Parents(L \ T, pv2, m2)
  BY <1>3, <1>5, <1>6, <1>7, <1>8, <1>9 DEF Fits, Parents
<1>11. m2 \in [L \ T -> (L \ T) \cup {Null}]
  BY <1>1, <1>5, <1>6
<1> QED
  BY <1>10, <1>11 DEF Fits, T, pvd, pv2, m2

\* A block that realloc() moves keeps its parent and its children.
LEMMA MoveParent ==
    ASSUME NEW L, NEW lk, NEW pv, Heap(L, lk, pv), NEW m, Fits(L, pv, m), NEW p \in L,
           NEW q \in Block, q \notin L, pv[p] # Nxt(p)
    PROVE  LET pvq == CopyPrev(pv, p, q)
               lkq == RelinkLink(CopyLink(lk, p, q), pvq, q)
           IN  Fits((L \ {p}) \cup {q}, RelinkPrev(lkq, pvq, q), F!Rename(m, p, q))
<1> DEFINE pvq == CopyPrev(pv, p, q)
           lkq == RelinkLink(CopyLink(lk, p, q), pvq, q)
           pv2 == RelinkPrev(lkq, pvq, q)
           L2  == (L \ {p}) \cup {q}
           m2  == F!Rename(m, p, q)
<1>1. DOMAIN m = L /\ m \in [L -> L \cup {Null}] /\ Parents(L, pv, m)
  BY DEF Fits
<1>2. L \subseteq Block /\ Null \notin Block /\ p \in Block /\ p # q
  BY HeapFacts
<1>3. Redirected(L, pv, pv2, p, q)
  BY MoveKeepsHeap
<1> DEFINE to(x) == IF x = p THEN q ELSE x
<1> HIDE DEF pv2
<1>3a. /\ pv2[q] = pv[p]
       /\ \A b \in L \ {p} : pv2[b] = IF pv[b] = Child(p) THEN Child(q)
                                     ELSE IF pv[b] = Nxt(p) THEN Nxt(q) ELSE pv[b]
  BY <1>3 DEF Redirected
<1>4. m2 = [y \in L2 |-> IF y = q THEN to(m[p]) ELSE to(m[y])]
  BY <1>1, <1>2 DEF F!Rename
<1> HIDE DEF m2
<1>5. Owner(pv[p]) # p /\ Owner(pv[p]) \in L \ {p}
  <2>1. {p} \in SUBSET L /\ {p} # {}
    OBVIOUS
  <2>2. \E y \in {p} : pv[y] = Nxt(y) \/ Owner(pv[y]) \notin {p}
    BY <2>1, HeapFacts
  <2> QED
    BY <2>2, HeapFacts
<1>6. /\ Owner(Child(p)) = p /\ Owner(Nxt(p)) = p /\ Child(p) # Nxt(p)
      /\ Owner(Child(q)) = q /\ Owner(Nxt(q)) = q /\ Child(q) # Nxt(q)
  BY <1>2, Cells
<1>7. ASSUME NEW b \in L2
      PROVE  \/ pv2[b] = Nxt(b) /\ m2[b] = Null
             \/ pv2[b] # Nxt(b) /\ pv2[b] = Child(Owner(pv2[b])) /\ m2[b] = Owner(pv2[b])
             \/ pv2[b] # Nxt(b) /\ pv2[b] = Nxt(Owner(pv2[b])) /\ m2[b] = m2[Owner(pv2[b])]
  <2>1. CASE b = q
    <3>1. pv2[b] = pv[p] /\ pv[p] # Nxt(q) /\ m2[b] = to(m[p])
      BY <2>1, <1>3a, <1>4, <1>5, <1>6
    <3>2. Owner(pv[p]) \in L2 /\ Owner(pv[p]) # q /\ m2[Owner(pv[p])] = to(m[Owner(pv[p])])
      BY <1>4, <1>5
    <3>3. CASE pv[p] = Child(Owner(pv[p])) /\ m[p] = Owner(pv[p])
      BY <3>1, <3>3, <2>1, <1>5
    <3>4. CASE pv[p] = Nxt(Owner(pv[p])) /\ m[p] = m[Owner(pv[p])]
      BY <3>1, <3>2, <3>4, <2>1
    <3> QED
      BY <3>3, <3>4, <1>1 DEF Parents
  <2>2. CASE b # q
    <3>1. b \in L \ {p} /\ m2[b] = to(m[b]) /\ Owner(Nxt(b)) = b /\ Owner(pv[b]) \in L
      BY <2>2, <1>2, <1>4, HeapFacts, Cells
    <3>2. CASE pv[b] = Child(p)
      BY <3>1, <3>2, <1>1, <1>3a, <1>6, <2>2, Cells, <1>2 DEF Parents
    <3>3. CASE pv[b] = Nxt(p)
      <4>1. pv2[b] = Nxt(q) /\ pv2[b] # Nxt(b)
        BY <3>1, <3>3, <1>3a, <1>6, <2>2
      <4>2. m[b] = m[p]
        BY <3>1, <3>3, <1>1, <1>2, <1>6, Cells DEF Parents
      <4> QED
        BY <4>1, <4>2, <3>1, <1>4, <1>6
    <3>4. CASE pv[b] # Child(p) /\ pv[b] # Nxt(p)
      <4>1. pv2[b] = pv[b] /\ Owner(pv[b]) # p
        BY <3>1, <3>4, <1>2, <1>3a, HeapFacts
      <4>2. Owner(pv[b]) \in L2 /\ m2[Owner(pv[b])] = to(m[Owner(pv[b])])
        BY <3>1, <4>1, <1>4
      <4> QED
        BY <3>1, <4>1, <4>2, <1>1, <1>2 DEF Parents
    <3> QED
      BY <3>2, <3>3, <3>4
  <2> QED
    BY <2>1, <2>2
<1>8. m2 \in [L2 -> L2 \cup {Null}]
  BY <1>1, <1>4
<1> QED
  BY <1>7, <1>8 DEF Fits, Parents, pv2, m2

-----------------------------------------------------------------------------
\* The refinement mapping of Halloc, in these terms.
LEMMA MappingIsPar == [b \in live |-> ParentOf(b)] = Par(live, link)
BY DEF ParentOf, Kids, Par, Walk

LEMMA MappingIsParNext == [b \in live |-> ParentOf(b)]' = Par(live', link')
BY DEF ParentOf, Kids, Par, Walk

LEMMA ForestInit == Init => F!Init
BY DEF Init, F!Init

\* Every step of the pointers is a step of the forest, or leaves it alone.
LEMMA ForestStep ==
    ASSUME RootsMove = FALSE, Heap(live, link, prev), [Next]_vars
    PROVE  [F!Next]_([b \in live |-> ParentOf(b)])
<1> DEFINE m  == Par(live, link)
           m2 == Par(live', link')
<1>1. Heap(live', link', prev')
  BY HeapInductive
<1>2. Fits(live, prev, m) /\ DOMAIN m = live /\ live \subseteq Block /\ Null \notin live
  BY ParFits, HeapFacts DEF Par
<1>3. ASSUME NEW n, Fits(live', prev', n) PROVE m2 = n
  BY <1>1, <1>3, ParIs DEF Fits
<1> HIDE DEF m, m2
<1>4. ASSUME NEW b \in Block, Alloc(b)
      PROVE  b \notin live /\ m2 = F!Place(m, b, Null)
  BY <1>2, <1>3, <1>4, AllocParent DEF Alloc
<1>5. ASSUME NEW b \in live, Detach(b)
      PROVE  m2 = F!Place(m, b, Null)
  BY <1>2, <1>3, <1>5, DelParent DEF Detach
<1>6. ASSUME NEW b \in live, NEW p \in live, Attach(b, p)
      PROVE  p \in live \ F!Below(m, b) /\ m2 = F!Place(m, b, p)
  <2> DEFINE lk == DelLink(link, prev, b)
             pv == DelPrev(link, prev, b)
             md == F!Place(m, b, Null)
  <2>1. Heap(live, lk, pv) /\ lk[Nxt(b)] = Null /\ pv[b] = Nxt(b)
    BY DelKeepsHeap
  <2>2. Fits(live, pv, md)
    BY <1>2, DelParent
  <2>3. Subtree(lk, b) = F!Below(m, b)
    BY <1>2, <2>1, <2>2, SubtreeIsBelow, BelowDetached DEF Fits
  <2>4. p \notin F!Below(m, b)
    BY <1>6, <2>3 DEF Attach
  <2>5. p # b
    BY <2>4, <1>2, BelowLeast DEF Fits
  <2>6. live' = live /\ prev' = AddPrev(lk, pv, Child(p), b)
    BY <1>6 DEF Attach
  <2>7. F!Place(md, b, p) = F!Place(m, b, p)
    BY DEF F!Place
  <2> HIDE DEF lk, pv, md
  <2>8. Fits(live', prev', F!Place(md, b, p))
    BY <2>1, <2>2, <2>5, <2>6, AddParent
  <2> QED
    BY <2>4, <2>7, <2>8, <1>3
<1>7. ASSUME NEW p \in live, Resize(p)
      PROVE  m2 = m
  BY <1>2, <1>3, <1>7, ResizeKeepsHeap DEF Resize
<1>8. ASSUME NEW p \in live, NEW q \in Block, Move(p, q)
      PROVE  q \notin live /\ m2 = F!Rename(m, p, q)
  <2>1. prev[p] # Nxt(p) /\ q \notin live
    BY <1>8 DEF Move, OnNoList
  <2> QED
    BY <1>2, <1>3, <1>8, <2>1, MoveParent DEF Move
<1>9. ASSUME NEW p \in live, Free(p)
      PROVE  m2 = F!Prune(m, p)
  <2>1. Fits(live \ Subtree(link, p),
             InitPrev(DelPrev(link, prev, p), Subtree(link, p)), F!Prune(m, p))
    BY <1>2, FreeParent
  <2> QED
    BY <2>1, <1>3, <1>9 DEF Free
<1>10. ASSUME UNCHANGED vars
       PROVE  m2 = m
  BY <1>10 DEF vars, m, m2
<1>11. \/ m2 = m
       \/ \E b \in Block : b \notin DOMAIN m /\ m2 = F!Place(m, b, Null)
       \/ \E b \in DOMAIN m :
             \/ \E p \in DOMAIN m \cup {Null} :
                   /\ p = Null \/ p \in DOMAIN m \ F!Below(m, b)
                   /\ m2 = F!Place(m, b, p)
             \/ \E q \in Block : q \notin DOMAIN m /\ m2 = F!Rename(m, b, q)
             \/ m2 = F!Prune(m, b)
  BY <1>2, <1>4, <1>5, <1>6, <1>7, <1>8, <1>9, <1>10 DEF Next
<1>12. [b \in live |-> ParentOf(b)] = m /\ [b \in live |-> ParentOf(b)]' = m2
  BY MappingIsPar, MappingIsParNext DEF m, m2
<1> QED
  BY <1>11, <1>12 DEF F!Next, F!Alloc, F!Attach, F!Move, F!Free

(***************************************************************************)
(* The pointer operations implement the abstract forest, for any set of    *)
(* addresses: halloc and hattach give a block the parent that was asked    *)
(* for and change no other, realloc moves a block with its children, and   *)
(* h_free frees exactly the blocks below its argument.                     *)
(***************************************************************************)
THEOREM HallocForestRefined == ASSUME RootsMove = FALSE PROVE Spec => ForestRefined
<1>1. Heap(live, link, prev) /\ [Next]_vars => [F!Next]_([b \in live |-> ParentOf(b)])
  BY ForestStep
<1> QED
  BY <1>1, ForestInit, HeapInvariant, PTL DEF Spec, ForestRefined, F!Spec
=============================================================================
