------------------------ MODULE HallocThreadsProofs ------------------------
(***************************************************************************)
(* Proofs about HallocThreads, for any number of threads, blocks and       *)
(* roots: threads that each have a home of their own do not damage each    *)
(* other's lists, though all of them write the shared sentinel.            *)
(***************************************************************************)
EXTENDS HallocThreads, TLAPS

\* Connections of their own: what mongrel2.h asks of threads.
OwnHomes == \A t, u \in Thread : Home[t] = Home[u] => t = u

Mine(t) == {b \in Held : owner[b] = t}

\* The cells of a list of the items A that starts at r.
Cells(r, A) == {H!Child(r)} \cup {H!Nxt(b) : b \in A}

\* The list at r holds exactly A, doubly linked and without a loop, in a heap of
\* links lk and back pointers pv.
ListOf(r, A, lk, pv) ==
    /\ \A c \in Cells(r, A) : lk[c] = Null \/ (lk[c] \in A /\ pv[lk[c]] = c)
    /\ \A b \in A : pv[b] \in Cells(r, A) /\ lk[pv[b]] = b
    /\ \A S \in SUBSET A : S # {} => \E b \in S : H!Owner(pv[b]) \notin S

(***************************************************************************)
(* What each statement finds.  In the middle of hlist_del and hlist_add    *)
(* the list is the one that the stores still to come will complete.        *)
(***************************************************************************)
Rest(t) == Mine(t) \ {i(t)}

Between(t) == ~Changing(t) => ListOf(Home[t], Mine(t), link, prev)

Unlinking(t) ==
    op[t] = "free" =>
        /\ pc[t] \in {"del1", "del2"} => ListOf(Home[t], Mine(t), link, prev)
        /\ pc[t] = "del2" => next[t] = link[H!Nxt(i(t))]
        /\ pc[t] = "del3" =>
              /\ prev[i(t)] \in Cells(Home[t], Mine(t))
              /\ ListOf(Home[t], Rest(t), [link EXCEPT ![prev[i(t)]] = next[t]], prev)
        /\ pc[t] \in {"del4", "del5", "release"} => ListOf(Home[t], Rest(t), link, prev)

Linking(t) ==
    op[t] = "attach" =>
        /\ pc[t] \in {"del1", "del2", "del3", "del4", "del5", "add1", "add2"} =>
              /\ link[H!Nxt(i(t))] = Null /\ prev[i(t)] = H!Nxt(i(t))
              /\ ListOf(Home[t], Rest(t), link, prev)
        /\ pc[t] \in {"del2", "del3"} => next[t] = Null
        /\ pc[t] \in {"add2", "add3"} => next[t] = link[H!Child(Home[t])]
        /\ pc[t] = "add3" =>
              /\ link[H!Nxt(i(t))] = next[t]
              /\ ListOf(Home[t], Rest(t), link, prev)
        /\ pc[t] = "add4" =>
              ListOf(Home[t], Mine(t), [link EXCEPT ![H!Child(Home[t])] = i(t)],
                     [prev EXCEPT ![i(t)] = H!Child(Home[t])])
        /\ pc[t] = "add5" =>
              ListOf(Home[t], Mine(t), link, [prev EXCEPT ![i(t)] = H!Child(Home[t])])

Within(t) == /\ Changing(t) => i(t) \in Mine(t)
             /\ pc[t] \in {"add1", "add2", "add3", "add4", "add5"} => op[t] = "attach"
             /\ pc[t] = "release" => op[t] = "free"

Good(t) == Within(t) /\ Between(t) /\ Unlinking(t) /\ Linking(t)

\* The roots that are no thread's home.
Untouched == \A r \in Root : (\A t \in Thread : Home[t] # r) => link[H!Child(r)] = Null

IInv == /\ TypeOK
        /\ \A b \in Held : home[b] = Home[owner[b]]
        /\ \A t \in Thread : Good(t)
        /\ Untouched

-----------------------------------------------------------------------------
LEMMA CellsDiffer ==
    /\ \A b \in Block : /\ H!Child(b) \in H!Cell /\ H!Owner(H!Child(b)) = b
                        /\ H!Nxt(b) \in H!Cell /\ H!Owner(H!Nxt(b)) = b
    /\ \A a, b : /\ H!Child(a) # H!Nxt(b)
                 /\ H!Child(a) = H!Child(b) => a = b
                 /\ H!Nxt(a) = H!Nxt(b) => a = b
BY DEF H!Child, H!Nxt, H!Owner, H!Cell

LinkType == [H!Cell -> Block \cup {Null}]
PrevType == [Item \cup {Null} -> H!Cell \cup {Null}]

\* Only the list's own cells and items matter.
LEMMA ListFrame ==
    ASSUME NEW r, NEW A, NEW lk, NEW pv, NEW lk2, NEW pv2,
           ListOf(r, A, lk, pv),
           \A c \in Cells(r, A) : lk2[c] = lk[c],
           \A b \in A : pv2[b] = pv[b]
    PROVE  ListOf(r, A, lk2, pv2)
<1>1. \A c \in Cells(r, A) : lk2[c] = Null \/ (lk2[c] \in A /\ pv2[lk2[c]] = c)
  BY DEF ListOf
<1>2. \A b \in A : pv2[b] \in Cells(r, A) /\ lk2[pv2[b]] = b
  BY DEF ListOf
<1>3. \A S \in SUBSET A : S # {} => \E b \in S : H!Owner(pv2[b]) \notin S
  BY DEF ListOf
<1> QED
  BY <1>1, <1>2, <1>3 DEF ListOf

\* hlist_del: the item leaves, the others stay.
LEMMA ListWithout ==
    ASSUME NEW r \in Root, NEW A \in SUBSET Item, NEW lk \in LinkType, NEW pv \in PrevType,
           ListOf(r, A, lk, pv), NEW b \in A
    PROVE  ListOf(r, A \ {b}, [lk EXCEPT ![pv[b]] = lk[H!Nxt(b)]],
                              [pv EXCEPT ![lk[H!Nxt(b)]] = pv[b]])
<1> DEFINE n   == lk[H!Nxt(b)]
           lk2 == [lk EXCEPT ![pv[b]] = n]
           pv2 == [pv EXCEPT ![n] = pv[b]]
           B   == A \ {b}
<1>1. /\ \A c \in Cells(r, A) : lk[c] = Null \/ (lk[c] \in A /\ pv[lk[c]] = c)
      /\ \A x \in A : pv[x] \in Cells(r, A) /\ lk[pv[x]] = x
      /\ \A S \in SUBSET A : S # {} => \E x \in S : H!Owner(pv[x]) \notin S
  BY DEF ListOf
<1>2. Null \notin A /\ r \notin A /\ A \subseteq Block /\ r \in Block
  BY ThreadsAssumption DEF Block
<1>3. \A c : c \in Cells(r, A) <=> c = H!Child(r) \/ \E x \in A : c = H!Nxt(x)
  BY DEF Cells
<1>4. /\ \A c \in Cells(r, A) : c \in H!Cell /\ lk2[c] = IF c = pv[b] THEN n ELSE lk[c]
      /\ \A x \in A : pv2[x] = IF x = n THEN pv[b] ELSE pv[x]
  BY <1>1, <1>2, <1>3, CellsDiffer DEF LinkType, PrevType
<1>5. H!Owner(pv[b]) # b /\ pv[b] # H!Nxt(b) /\ H!Nxt(b) \in Cells(r, A) /\ n # b
  <2>1. {b} \in SUBSET A /\ {b} # {}
    OBVIOUS
  <2>2. H!Owner(pv[b]) # b
    BY <1>1, <2>1
  <2> QED
    BY <1>1, <1>2, <1>3, <2>2, CellsDiffer
<1>6. \A c : c \in Cells(r, B) <=> c \in Cells(r, A) /\ c # H!Nxt(b)
  BY <1>3, CellsDiffer DEF Cells
<1> HIDE DEF lk2, pv2, n
<1>7. n = Null \/ (n \in B /\ pv[n] = H!Nxt(b))
  BY <1>1, <1>5 DEF n
<1>8. \A c \in Cells(r, B) : lk2[c] = Null \/ (lk2[c] \in B /\ pv2[lk2[c]] = c)
  BY <1>1, <1>2, <1>4, <1>5, <1>6, <1>7
<1>9. \A x \in B : pv2[x] \in Cells(r, B) /\ lk2[pv2[x]] = x
  <2> TAKE x \in B
  <2>1. CASE x = n
    BY <2>1, <1>1, <1>4, <1>5, <1>6
  <2>2. CASE x # n
    <3>1. pv2[x] = pv[x] /\ pv[x] \in Cells(r, A) /\ lk[pv[x]] = x
      BY <2>2, <1>1, <1>4
    <3>2. pv[x] # H!Nxt(b)
      BY <3>1, <2>2 DEF n
    <3>3. pv[x] # pv[b]
      BY <3>1, <1>1
    <3> QED
      BY <3>1, <3>2, <3>3, <1>4, <1>6
  <2> QED
    BY <2>1, <2>2
<1>10. \A S \in SUBSET B : S # {} => \E x \in S : H!Owner(pv2[x]) \notin S
  <2> SUFFICES ASSUME NEW S \in SUBSET B, S # {}
               PROVE  \E x \in S : H!Owner(pv2[x]) \notin S
    OBVIOUS
  <2>1. S \cup {b} \in SUBSET A /\ S \cup {b} # {}
    OBVIOUS
  <2>2. PICK x \in S \cup {b} : H!Owner(pv[x]) \notin S \cup {b}
    BY <2>1, <1>1
  <2>3. CASE x \in S /\ x # n
    BY <2>2, <2>3, <1>4
  <2>4. CASE x \in S /\ x = n
    BY <2>2, <2>4, <1>2, <1>7, CellsDiffer
  <2>5. CASE x = b /\ n \in S
    BY <2>2, <2>5, <1>4
  <2>6. CASE x = b /\ n \notin S
    <3>1. PICK y \in S : H!Owner(pv[y]) \notin S
      BY <1>1
    <3> QED
      BY <3>1, <2>6, <1>4
  <2> QED
    BY <2>3, <2>4, <2>5, <2>6
<1> QED
  BY <1>8, <1>9, <1>10 DEF ListOf, lk2, pv2, n

\* hlist_add: once the new item points to the first, it can become the first.
LEMMA ListWith ==
    ASSUME NEW r \in Root, NEW A \in SUBSET Item, NEW lk \in LinkType, NEW pv \in PrevType,
           ListOf(r, A, lk, pv), NEW b \in Item \ A, lk[H!Nxt(b)] = lk[H!Child(r)]
    PROVE  ListOf(r, A \cup {b}, [lk EXCEPT ![H!Child(r)] = b],
                  [[pv EXCEPT ![lk[H!Child(r)]] = H!Nxt(b)] EXCEPT ![b] = H!Child(r)])
<1> DEFINE k   == H!Child(r)
           n   == lk[k]
           lk2 == [lk EXCEPT ![k] = b]
           pv2 == [[pv EXCEPT ![n] = H!Nxt(b)] EXCEPT ![b] = k]
           B   == A \cup {b}
<1>1. /\ \A c \in Cells(r, A) : lk[c] = Null \/ (lk[c] \in A /\ pv[lk[c]] = c)
      /\ \A x \in A : pv[x] \in Cells(r, A) /\ lk[pv[x]] = x
      /\ \A S \in SUBSET A : S # {} => \E x \in S : H!Owner(pv[x]) \notin S
  BY DEF ListOf
<1>2. Null \notin B /\ r \notin B /\ B \subseteq Block /\ r \in Block /\ b # Null
  BY ThreadsAssumption DEF Block
<1>3. /\ \A c : c \in Cells(r, A) <=> c = k \/ \E x \in A : c = H!Nxt(x)
      /\ \A c : c \in Cells(r, B) <=> c \in Cells(r, A) \/ c = H!Nxt(b)
      /\ H!Nxt(b) \notin Cells(r, A)
  BY CellsDiffer DEF Cells
<1>4. /\ \A c \in Cells(r, B) : lk2[c] = IF c = k THEN b ELSE lk[c]
      /\ \A x \in B : pv2[x] = IF x = b THEN k ELSE IF x = n THEN H!Nxt(b) ELSE pv[x]
  BY <1>2, <1>3, CellsDiffer DEF LinkType, PrevType
<1>5. /\ k # H!Nxt(b) /\ k \in Cells(r, A) /\ H!Owner(k) = r /\ H!Owner(H!Nxt(b)) = b
      /\ lk[H!Nxt(b)] = n
  BY <1>2, <1>3, CellsDiffer
<1>6. n = Null \/ (n \in A /\ pv[n] = k)
  BY <1>1, <1>5
<1> HIDE DEF lk2, pv2, k, n
<1>7. \A c \in Cells(r, B) : lk2[c] = Null \/ (lk2[c] \in B /\ pv2[lk2[c]] = c)
  BY <1>1, <1>2, <1>3, <1>4, <1>5, <1>6
<1>8. \A x \in B : pv2[x] \in Cells(r, B) /\ lk2[pv2[x]] = x
  <2> TAKE x \in B
  <2>1. CASE x = b
    BY <2>1, <1>3, <1>4, <1>5
  <2>2. CASE x # b /\ x = n
    BY <2>2, <1>3, <1>4, <1>5
  <2>3. CASE x # b /\ x # n
    <3>1. pv2[x] = pv[x] /\ pv[x] \in Cells(r, A) /\ lk[pv[x]] = x
      BY <2>3, <1>1, <1>4
    <3>2. pv[x] # k
      BY <3>1, <2>3 DEF n
    <3> QED
      BY <3>1, <3>2, <1>3, <1>4
  <2> QED
    BY <2>1, <2>2, <2>3
<1>9. \A S \in SUBSET B : S # {} => \E x \in S : H!Owner(pv2[x]) \notin S
  <2> SUFFICES ASSUME NEW S \in SUBSET B, S # {}
               PROVE  \E x \in S : H!Owner(pv2[x]) \notin S
    OBVIOUS
  <2>1. CASE b \in S
    BY <2>1, <1>2, <1>4, <1>5
  <2>2. CASE b \notin S
    <3>1. S \in SUBSET A
      BY <2>2
    <3>2. PICK x \in S : H!Owner(pv[x]) \notin S
      BY <3>1, <1>1
    <3> QED
      BY <2>2, <3>2, <1>4, <1>5
  <2> QED
    BY <2>1, <2>2
<1> QED
  BY <1>7, <1>8, <1>9 DEF ListOf, lk2, pv2, k, n

\* A walk along a list that is intact meets exactly its items.
LEMMA ListKids ==
    ASSUME NEW r \in Root, NEW A \in SUBSET Item, ListOf(r, A, link, prev)
    PROVE  H!Kids(r) = A
<1>1. /\ \A c \in Cells(r, A) : link[c] = Null \/ (link[c] \in A /\ prev[link[c]] = c)
      /\ \A x \in A : prev[x] \in Cells(r, A) /\ link[prev[x]] = x
      /\ \A S \in SUBSET A : S # {} => \E x \in S : H!Owner(prev[x]) \notin S
  BY DEF ListOf
<1>2. A \in SUBSET Block
  BY DEF Block
<1>3. /\ link[H!Child(r)] \in A \cup {Null}
      /\ \A y \in A : link[H!Nxt(y)] \in A \cup {Null}
  BY <1>1 DEF Cells
<1>4. H!Kids(r) \subseteq A
  BY <1>2, <1>3 DEF H!Kids
<1>5. ASSUME NEW S \in SUBSET Block,
             link[H!Child(r)] \in S \cup {Null},
             \A y \in S : link[H!Nxt(y)] \in S \cup {Null}
      PROVE  A \subseteq S
  <2> SUFFICES ASSUME A \ S # {} PROVE FALSE
    OBVIOUS
  <2>1. PICK x \in A \ S : H!Owner(prev[x]) \notin A \ S
    BY <1>1
  <2>2. x # Null /\ link[prev[x]] = x /\ prev[x] \in Cells(r, A)
    BY <1>1, ThreadsAssumption
  <2>3. PICK y \in A : prev[x] = H!Nxt(y)
    BY <1>5, <2>1, <2>2 DEF Cells
  <2>4. y \in S
    BY <1>2, <2>1, <2>3, CellsDiffer
  <2> QED
    BY <1>5, <2>1, <2>2, <2>3, <2>4
<1> QED
  BY <1>2, <1>4, <1>5 DEF H!Kids

-----------------------------------------------------------------------------
\* Threads with homes of their own share no cell and no item.
LEMMA Apart ==
    ASSUME TypeOK, OwnHomes, NEW t \in Thread, NEW u \in Thread, t # u
    PROVE  /\ Cells(Home[t], Mine(t)) \cap Cells(Home[u], Mine(u)) = {}
           /\ Mine(t) \cap Mine(u) = {}
<1>1. Home[t] # Home[u] /\ Mine(t) \cap Mine(u) = {}
  BY DEF OwnHomes, Mine
<1> QED
  BY <1>1, CellsDiffer DEF Cells

LEMMA CellsTyped ==
    ASSUME TypeOK, NEW t \in Thread
    PROVE  /\ Home[t] \in Root /\ Mine(t) \subseteq Item
           /\ Cells(Home[t], Mine(t)) \subseteq H!Cell
BY ThreadsAssumption, CellsDiffer DEF TypeOK, Mine, Cells, Block

\* What a thread knows outlives the steps of the others.
LEMMA Undisturbed ==
    ASSUME TypeOK, NEW u \in Thread, Good(u),
           pc'[u] = pc[u], op'[u] = op[u], cur'[u] = cur[u], next'[u] = next[u],
           Mine(u)' = Mine(u), link' \in LinkType, prev' \in PrevType,
           \A c \in Cells(Home[u], Mine(u)) : link'[c] = link[c],
           \A b \in Mine(u) : prev'[b] = prev[b]
    PROVE  Good(u)'
<1> DEFINE r == Home[u]
           j == cur[u]
<1>1. link \in LinkType /\ prev \in PrevType
  BY DEF TypeOK, LinkType, PrevType
<1>2. r \in Root /\ Mine(u) \subseteq Item /\ Cells(r, Mine(u)) \subseteq H!Cell
  BY CellsTyped
<1>3. Rest(u) \subseteq Mine(u) /\ Cells(r, Rest(u)) \subseteq Cells(r, Mine(u))
  BY DEF Rest, Cells
<1>4. Rest(u)' = Rest(u)
  BY DEF Rest, i
<1>5. /\ ListOf(r, Mine(u), link, prev) => ListOf(r, Mine(u), link', prev')
      /\ ListOf(r, Rest(u), link, prev) => ListOf(r, Rest(u), link', prev')
  BY <1>3, ListFrame
<1>6. Within(u)'
  BY DEF Good, Within, Changing, i
<1>7. Between(u)'
  BY <1>5 DEF Good, Between, Changing
<1>8. H!Child(r) \in Cells(r, Mine(u)) /\ (j \in Mine(u) => H!Nxt(j) \in Cells(r, Mine(u)))
  BY DEF Cells
<1>9. Unlinking(u)'
  <2> SUFFICES ASSUME op[u] = "free" PROVE Unlinking(u)'
    BY DEF Unlinking
  <2>1. ASSUME pc[u] = "del3"
        PROVE  /\ prev'[j] \in Cells(r, Mine(u))
               /\ ListOf(r, Rest(u), [link' EXCEPT ![prev'[j]] = next[u]], prev')
    <3>1. /\ prev[j] \in Cells(r, Mine(u)) /\ j \in Mine(u)
          /\ ListOf(r, Rest(u), [link EXCEPT ![prev[j]] = next[u]], prev)
      BY <2>1 DEF Good, Within, Changing, Unlinking, i
    <3>2. prev'[j] = prev[j]
      BY <3>1
    <3> DEFINE lk  == [link EXCEPT ![prev[j]] = next[u]]
               lk2 == [link' EXCEPT ![prev[j]] = next[u]]
    <3>3. \A c \in Cells(r, Rest(u)) : lk2[c] = lk[c]
      BY <1>1, <1>2, <1>3 DEF LinkType
    <3>4. ListOf(r, Rest(u), lk, prev) /\ \A b \in Rest(u) : prev'[b] = prev[b]
      BY <1>3, <3>1
    <3> HIDE DEF lk, lk2
    <3>5. ListOf(r, Rest(u), lk2, prev')
      BY <3>3, <3>4, ListFrame
    <3> QED
      BY <3>1, <3>2, <3>5 DEF lk2
  <2>2. pc[u] = "del2" => next[u] = link'[H!Nxt(j)]
    BY <1>8 DEF Good, Within, Changing, Unlinking, i
  <2> QED
    BY <1>4, <1>5, <2>1, <2>2 DEF Good, Unlinking, i
<1>10. Linking(u)'
  <2> SUFFICES ASSUME op[u] = "attach" PROVE Linking(u)'
    BY DEF Linking
  <2>1. Changing(u) => j \in Mine(u) /\ link'[H!Nxt(j)] = link[H!Nxt(j)] /\ prev'[j] = prev[j]
    BY <1>8 DEF Good, Within, i
  <2>2. link'[H!Child(r)] = link[H!Child(r)]
    BY <1>8
  <2>3. ASSUME pc[u] = "add4", Changing(u)
        PROVE  ListOf(r, Mine(u), [link' EXCEPT ![H!Child(r)] = j], [prev' EXCEPT ![j] = H!Child(r)])
    <3> DEFINE lk  == [link EXCEPT ![H!Child(r)] = j]
               lk2 == [link' EXCEPT ![H!Child(r)] = j]
               pv  == [prev EXCEPT ![j] = H!Child(r)]
               pv2 == [prev' EXCEPT ![j] = H!Child(r)]
    <3>1. ListOf(r, Mine(u), lk, pv)
      BY <2>3 DEF Good, Linking, i
    <3>2. /\ \A c \in Cells(r, Mine(u)) : lk2[c] = lk[c]
          /\ \A b \in Mine(u) : pv2[b] = pv[b]
      BY <1>1, <1>2 DEF LinkType, PrevType
    <3> HIDE DEF lk, lk2, pv, pv2
    <3>3. ListOf(r, Mine(u), lk2, pv2)
      BY <3>1, <3>2, ListFrame
    <3> QED
      BY <3>3 DEF lk2, pv2
  <2>4. ASSUME pc[u] = "add5", Changing(u)
        PROVE  ListOf(r, Mine(u), link', [prev' EXCEPT ![j] = H!Child(r)])
    <3> DEFINE pv  == [prev EXCEPT ![j] = H!Child(r)]
               pv2 == [prev' EXCEPT ![j] = H!Child(r)]
    <3>1. ListOf(r, Mine(u), link, pv)
      BY <2>4 DEF Good, Linking, i
    <3>2. \A b \in Mine(u) : pv2[b] = pv[b]
      BY <1>1, <1>2 DEF PrevType
    <3> HIDE DEF pv, pv2
    <3>3. ListOf(r, Mine(u), link', pv2)
      BY <3>1, <3>2, ListFrame
    <3> QED
      BY <3>3 DEF pv2
  <2> QED
    BY <1>4, <1>5, <2>1, <2>2, <2>3, <2>4 DEF Good, Linking, Changing, i
<1> QED
  BY <1>6, <1>7, <1>9, <1>10 DEF Good

\* A step of t that changes only cells and items of t.
LEMMA Local ==
    ASSUME IInv, OwnHomes, NEW t \in Thread, TypeOK', UNCHANGED <<owner, home>>,
           \A u \in Thread \ {t} : /\ pc'[u] = pc[u] /\ op'[u] = op[u]
                                   /\ cur'[u] = cur[u] /\ next'[u] = next[u],
           \A c \in H!Cell \ Cells(Home[t], Mine(t)) : link'[c] = link[c],
           \A b \in Item \ Mine(t) : prev'[b] = prev[b],
           Good(t)'
    PROVE  IInv'
<1>1. \A u \in Thread : Mine(u)' = Mine(u)
  BY DEF Mine, Held
<1>2. link' \in LinkType /\ prev' \in PrevType
  BY DEF TypeOK, LinkType, PrevType
<1>3. ASSUME NEW u \in Thread \ {t} PROVE Good(u)'
  <2>1. /\ \A c \in Cells(Home[u], Mine(u)) : link'[c] = link[c]
        /\ \A b \in Mine(u) : prev'[b] = prev[b]
    BY Apart, CellsTyped DEF IInv
  <2> QED
    BY <1>1, <1>2, <2>1, Undisturbed DEF IInv
<1>4. Untouched'
  <2> SUFFICES ASSUME NEW r \in Root, \A u \in Thread : Home[u] # r
               PROVE  link'[H!Child(r)] = Null
    BY DEF Untouched
  <2>1. H!Child(r) \in H!Cell \ Cells(Home[t], Mine(t))
    BY CellsDiffer DEF Cells, Block
  <2> QED
    BY <2>1 DEF IInv, Untouched
<1> QED
  BY <1>3, <1>4 DEF IInv, Held

\* What Good says of the thread t when it is about to execute a statement.
LEMMA TypedStep ==
    ASSUME IInv, NEW t \in Thread, Changing(t)
    PROVE  /\ link \in LinkType /\ prev \in PrevType
           /\ Home[t] \in Root /\ Mine(t) \subseteq Item /\ i(t) \in Mine(t)
           /\ Mine(t) = Rest(t) \cup {i(t)} /\ i(t) \notin Rest(t)
           /\ h(t) = H!Child(Home[t]) /\ h(t) \in Cells(Home[t], Mine(t))
           /\ H!Nxt(i(t)) \in Cells(Home[t], Mine(t))
           /\ H!Nxt(i(t)) \notin Cells(Home[t], Rest(t))
           /\ Cells(Home[t], Rest(t)) \subseteq Cells(Home[t], Mine(t))
           /\ Cells(Home[t], Mine(t)) \subseteq H!Cell
           /\ i(t) # Null /\ h(t) # H!Nxt(i(t))
<1>1. link \in LinkType /\ prev \in PrevType /\ i(t) \in Mine(t)
  BY DEF IInv, TypeOK, LinkType, PrevType, Good, Within
<1>2. h(t) = H!Child(Home[t])
  BY <1>1 DEF IInv, Mine, h, i
<1> QED
  BY <1>1, <1>2, CellsTyped, CellsDiffer, ThreadsAssumption DEF IInv, Rest, Cells

\* Outside hlist_del and hlist_add no pointer changes.
LEMMA InvCalls ==
    ASSUME IInv, OwnHomes, NEW t \in Thread,
           \/ Start(t) \/ Call(t) \/ Test(t) \/ AssertUnset(t) \/ SetAllocator(t)
           \/ MakeHome(t) \/ NoMemory(t) \/ CallFree(t)
    PROVE  IInv'
<1> USE DEF At, Goto
<1>1. UNCHANGED <<link, prev, owner, home>>
  BY DEF Start, Call, Test, AssertUnset, SetAllocator, MakeHome, NoMemory, CallFree, heap
<1>2. TypeOK'
  <2>1. /\ \/ pc' = pc
           \/ \E s \in {"idle", "test", "set", "store", "malloc", "del1"} : pc' = [pc EXCEPT ![t] = s]
        /\ op' = op \/ op' = [op EXCEPT ![t] = "free"]
        /\ cur' = cur \/ \E b \in Held : cur' = [cur EXCEPT ![t] = b]
        /\ next' = next
        /\ allocatorSet' \in BOOLEAN /\ asserted' \in BOOLEAN
        /\ made' \subseteq Root /\ started' \subseteq Thread
    <3>1. CASE Start(t) \/ Call(t) \/ Test(t) \/ AssertUnset(t) \/ SetAllocator(t)
      BY <3>1 DEF IInv, TypeOK, Start, Call, Test, AssertUnset, SetAllocator, regs
    <3>2. CASE MakeHome(t) \/ NoMemory(t) \/ CallFree(t)
      BY <3>2, ThreadsAssumption DEF IInv, TypeOK, MakeHome, NoMemory, CallFree, regs
    <3> QED
      BY <3>1, <3>2
  <2> QED
    BY <1>1, <2>1 DEF IInv, TypeOK, Held
<1>3. \A u \in Thread \ {t} : /\ pc'[u] = pc[u] /\ op'[u] = op[u]
                              /\ cur'[u] = cur[u] /\ next'[u] = next[u]
  BY DEF IInv, TypeOK, Start, Call, Test, AssertUnset, SetAllocator, MakeHome, NoMemory, CallFree,
         regs
<1>4. Mine(t)' = Mine(t)
  BY <1>1 DEF Mine, Held
<1>5. Good(t)'
  <2>1. CASE Start(t)
    BY <1>1, <1>4, <2>1 DEF Start, regs, IInv, Good, Within, Between, Unlinking, Linking, Changing,
       Rest, i
  <2>2. CASE \/ Call(t) \/ Test(t) \/ AssertUnset(t) \/ SetAllocator(t)
             \/ MakeHome(t) \/ NoMemory(t)
    <3>1. ~Changing(t) /\ ~Changing(t)'
      BY <2>2 DEF Call, Test, AssertUnset, SetAllocator, MakeHome, NoMemory, Changing, IInv, TypeOK
    <3> QED
      BY <1>1, <1>4, <3>1 DEF IInv, Good, Within, Between, Unlinking, Linking, Changing
  <2>3. CASE CallFree(t)
    <3>1. /\ ~Changing(t) /\ pc'[t] = "del1" /\ op'[t] = "free" /\ cur'[t] \in Mine(t)
      BY <2>3 DEF CallFree, Changing, IInv, TypeOK, Mine
    <3> QED
      BY <1>1, <1>4, <3>1 DEF IInv, Good, Within, Between, Unlinking, Linking, Changing, i
  <2> QED
    BY <2>1, <2>2, <2>3
<1> QED
  BY <1>1, <1>2, <1>3, <1>5, Local

LEMMA InvDel1 == ASSUME IInv, OwnHomes, NEW t \in Thread, Del1(t) PROVE IInv'
<1>1. /\ pc[t] = "del1" /\ pc' = [pc EXCEPT ![t] = "del2"]
      /\ UNCHANGED <<link, prev, owner, home, op, cur, allocatorSet, made, started, asserted>>
      /\ next' = [next EXCEPT ![t] = link[H!Nxt(i(t))]]
  BY DEF Del1, Statement, At, Goto, heap
<1>2. Changing(t)
  BY <1>1 DEF Changing
<1>3. op[t] \in {"free", "attach"}
  BY DEF IInv, TypeOK
<1>4. link[H!Nxt(i(t))] \in Item \cup {Null}
  BY <1>1, <1>2, <1>3, TypedStep DEF IInv, Good, Unlinking, Linking, ListOf
<1>5. TypeOK'
  BY <1>1, <1>4 DEF IInv, TypeOK, Held
<1>6. Mine(t)' = Mine(t) /\ Rest(t)' = Rest(t)
  BY <1>1 DEF Mine, Rest, Held, i
<1>7. Good(t)'
  BY <1>1, <1>3, <1>6 DEF IInv, TypeOK, Good, Within, Between, Unlinking, Linking, Changing, i
<1> QED
  BY <1>1, <1>5, <1>7, Local DEF IInv, TypeOK

LEMMA InvDel2 == ASSUME IInv, OwnHomes, NEW t \in Thread, Del2(t) PROVE IInv'
<1>1. /\ pc[t] = "del2" /\ pc' = [pc EXCEPT ![t] = "del3"]
      /\ UNCHANGED <<link, next, owner, home, op, cur, allocatorSet, made, started, asserted>>
      /\ prev' = [prev EXCEPT ![next[t]] = prev[i(t)]]
  BY DEF Del2, Statement, At, Goto
<1>2. Changing(t)
  BY <1>1 DEF Changing
<1>3. op[t] \in {"free", "attach"} /\ next[t] \in Item \cup {Null}
  BY DEF IInv, TypeOK
<1>4. Mine(t)' = Mine(t) /\ Rest(t)' = Rest(t)
  BY <1>1 DEF Mine, Rest, Held, i
<1>5. TypeOK'
  <2>1. prev[i(t)] \in H!Cell \cup {Null}
    BY <1>2, TypedStep DEF PrevType
  <2> QED
    BY <1>1, <2>1 DEF IInv, TypeOK, Held
<1>6. CASE op[t] = "free"
  <2>1. ListOf(Home[t], Mine(t), link, prev) /\ next[t] = link[H!Nxt(i(t))]
    BY <1>1, <1>6 DEF IInv, Good, Unlinking
  <2>2. /\ next[t] = Null \/ (next[t] \in Mine(t) /\ prev[next[t]] = H!Nxt(i(t)))
        /\ prev[i(t)] \in Cells(Home[t], Mine(t))
    BY <1>2, <2>1, TypedStep DEF ListOf
  <2>3. next[t] # i(t)
    <3>1. H!Owner(prev[i(t)]) # i(t)
      <4>1. {i(t)} \in SUBSET Mine(t) /\ {i(t)} # {}
        BY <1>2, TypedStep
      <4> QED
        BY <2>1, <4>1 DEF ListOf
    <3> QED
      BY <1>2, <2>2, <3>1, TypedStep, CellsDiffer DEF Block
  <2>4. prev'[i(t)] = prev[i(t)]
    BY <1>1, <1>2, <2>3, TypedStep DEF PrevType
  <2>5. ListOf(Home[t], Rest(t), [link EXCEPT ![prev[i(t)]] = next[t]], prev')
    BY <1>1, <1>2, <2>1, TypedStep, ListWithout DEF Rest
  <2>6. Good(t)'
    BY <1>1, <1>2, <1>4, <1>6, <2>2, <2>4, <2>5, TypedStep
       DEF IInv, TypeOK, Good, Within, Between, Unlinking, Linking, Changing, i
  <2>7. \A b \in Item \ Mine(t) : prev'[b] = prev[b]
    BY <1>1, <1>2, <2>2, TypedStep, ThreadsAssumption DEF PrevType
  <2> QED
    BY <1>1, <1>5, <2>6, <2>7, Local DEF IInv, TypeOK
<1>7. CASE op[t] = "attach"
  <2>1. /\ next[t] = Null /\ link[H!Nxt(i(t))] = Null /\ prev[i(t)] = H!Nxt(i(t))
        /\ ListOf(Home[t], Rest(t), link, prev)
    BY <1>1, <1>7 DEF IInv, Good, Linking
  <2>2. \A b \in Item : prev'[b] = prev[b]
    BY <1>1, <1>2, <2>1, TypedStep, ThreadsAssumption DEF PrevType
  <2>3. ListOf(Home[t], Rest(t), link, prev')
    BY <1>2, <2>1, <2>2, TypedStep, ListFrame
  <2>4. Good(t)'
    <3>1. i(t) \in Mine(t) /\ prev'[i(t)] = H!Nxt(i(t))
      BY <1>2, <2>1, <2>2, TypedStep
    <3>2. pc'[t] = "del3"
      BY <1>1 DEF IInv, TypeOK
    <3> QED
      BY <1>1, <1>4, <1>7, <2>1, <2>3, <3>1, <3>2
         DEF Good, Within, Between, Unlinking, Linking, Changing, i
  <2> QED
    BY <1>1, <1>5, <2>2, <2>4, Local DEF IInv, TypeOK
<1> QED
  BY <1>3, <1>6, <1>7

LEMMA InvDel3 == ASSUME IInv, OwnHomes, NEW t \in Thread, Del3(t) PROVE IInv'
<1>1. /\ pc[t] = "del3" /\ pc' = [pc EXCEPT ![t] = "del4"]
      /\ UNCHANGED <<prev, next, owner, home, op, cur, allocatorSet, made, started, asserted>>
      /\ link' = [link EXCEPT ![prev[i(t)]] = next[t]]
  BY DEF Del3, Statement, At, Goto, Store
<1>2. Changing(t)
  BY <1>1 DEF Changing
<1>3. op[t] \in {"free", "attach"} /\ next[t] \in Item \cup {Null}
  BY DEF IInv, TypeOK
<1>4. Mine(t)' = Mine(t) /\ Rest(t)' = Rest(t)
  BY <1>1 DEF Mine, Rest, Held, i
<1>5. TypeOK'
  BY <1>1, <1>3 DEF IInv, TypeOK, Held, Block
<1>6. prev[i(t)] \in Cells(Home[t], Mine(t))
  BY <1>1, <1>2, <1>3, TypedStep DEF IInv, Good, Unlinking, Linking
<1>7. \A c \in H!Cell \ Cells(Home[t], Mine(t)) : link'[c] = link[c]
  BY <1>1, <1>2, <1>6, TypedStep DEF LinkType
<1>8. Good(t)'
  <2>1. CASE op[t] = "free"
    BY <1>1, <1>2, <1>4, <2>1, TypedStep
       DEF IInv, TypeOK, Good, Within, Between, Unlinking, Linking, Changing, i
  <2>2. CASE op[t] = "attach"
    <3>1. /\ link[H!Nxt(i(t))] = Null /\ prev[i(t)] = H!Nxt(i(t)) /\ next[t] = Null
          /\ ListOf(Home[t], Rest(t), link, prev)
      BY <1>1, <2>2 DEF IInv, Good, Linking
    <3>2. \A c \in H!Cell : link'[c] = link[c]
      BY <1>1, <1>2, <3>1, TypedStep DEF LinkType
    <3>3. ListOf(Home[t], Rest(t), link', prev)
      BY <1>2, <3>1, <3>2, TypedStep, ListFrame
    <3> QED
      BY <1>1, <1>2, <1>4, <2>2, <3>1, <3>2, <3>3, TypedStep
         DEF IInv, TypeOK, Good, Within, Between, Unlinking, Linking, Changing, i
  <2> QED
    BY <1>3, <2>1, <2>2
<1> QED
  BY <1>1, <1>5, <1>7, <1>8, Local DEF IInv, TypeOK

LEMMA InvDel45 == ASSUME IInv, OwnHomes, NEW t \in Thread, Del4(t) \/ Del5(t) PROVE IInv'
<1>1. /\ pc[t] \in {"del4", "del5"}
      /\ pc' = [pc EXCEPT ![t] = IF pc[t] = "del4" THEN "del5"
                                 ELSE IF op[t] = "free" THEN "release" ELSE "add1"]
      /\ UNCHANGED <<next, owner, home, op, cur, allocatorSet, made, started, asserted>>
      /\ \/ prev' = [prev EXCEPT ![i(t)] = H!Nxt(i(t))] /\ UNCHANGED link
         \/ link' = [link EXCEPT ![H!Nxt(i(t))] = Null] /\ UNCHANGED prev
  BY DEF Del4, Del5, Statement, At, Goto, Store
<1>2. Changing(t)
  BY <1>1 DEF Changing
<1>3. op[t] \in {"free", "attach"}
  BY DEF IInv, TypeOK
<1>4. Mine(t)' = Mine(t) /\ Rest(t)' = Rest(t)
  BY <1>1 DEF Mine, Rest, Held, i
<1>5. TypeOK'
  <2>1. H!Nxt(i(t)) \in H!Cell
    BY <1>2, TypedStep
  <2> QED
    BY <1>1, <2>1 DEF IInv, TypeOK, Held
<1>6. ListOf(Home[t], Rest(t), link, prev)
  BY <1>1, <1>3 DEF IInv, Good, Unlinking, Linking
<1>7. /\ \A c \in H!Cell : c # H!Nxt(i(t)) => link'[c] = link[c]
      /\ \A b \in Item : b # i(t) => prev'[b] = prev[b]
      /\ link[H!Nxt(i(t))] = Null => link'[H!Nxt(i(t))] = Null
      /\ prev[i(t)] = H!Nxt(i(t)) => prev'[i(t)] = H!Nxt(i(t))
  BY <1>1, <1>2, TypedStep DEF LinkType, PrevType
<1>8. ListOf(Home[t], Rest(t), link', prev')
  <2>1. /\ \A c \in Cells(Home[t], Rest(t)) : link'[c] = link[c]
        /\ \A b \in Rest(t) : prev'[b] = prev[b]
    BY <1>2, <1>7, TypedStep
  <2> QED
    BY <1>6, <2>1, ListFrame
<1>9. Good(t)'
  BY <1>1, <1>3, <1>4, <1>7, <1>8
     DEF IInv, TypeOK, Good, Within, Between, Unlinking, Linking, Changing, i
<1>10. /\ \A c \in H!Cell \ Cells(Home[t], Mine(t)) : link'[c] = link[c]
       /\ \A b \in Item \ Mine(t) : prev'[b] = prev[b]
  BY <1>2, <1>7, TypedStep
<1> QED
  BY <1>1, <1>5, <1>9, <1>10, Local DEF IInv, TypeOK

LEMMA InvAdd12 == ASSUME IInv, OwnHomes, NEW t \in Thread, Add1(t) \/ Add2(t) PROVE IInv'
<1>1. /\ \/ /\ pc[t] = "add1" /\ pc' = [pc EXCEPT ![t] = "add2"]
            /\ next' = [next EXCEPT ![t] = link[h(t)]] /\ UNCHANGED link
         \/ /\ pc[t] = "add2" /\ pc' = [pc EXCEPT ![t] = "add3"]
            /\ link' = [link EXCEPT ![H!Nxt(i(t))] = next[t]] /\ UNCHANGED next
      /\ UNCHANGED <<prev, owner, home, op, cur, allocatorSet, made, started, asserted>>
  BY DEF Add1, Add2, Statement, At, Goto, Store, heap
<1>2. Changing(t)
  BY <1>1 DEF Changing
<1>3. op[t] = "attach"
  BY <1>1 DEF IInv, Good, Within
<1>4. Mine(t)' = Mine(t) /\ Rest(t)' = Rest(t)
  BY <1>1 DEF Mine, Rest, Held, i
<1>5. /\ ListOf(Home[t], Rest(t), link, prev)
      /\ link[H!Nxt(i(t))] = Null /\ prev[i(t)] = H!Nxt(i(t))
      /\ pc[t] = "add2" => next[t] = link[h(t)]
  BY <1>1, <1>2, <1>3, TypedStep DEF IInv, Good, Linking
<1>6. link[h(t)] \in Item \cup {Null}
  <2>1. H!Child(Home[t]) \in Cells(Home[t], Rest(t))
    BY DEF Cells
  <2> QED
    BY <1>2, <1>5, <2>1, TypedStep DEF ListOf, Rest
<1>7. TypeOK'
  BY <1>1, <1>5, <1>6 DEF IInv, TypeOK, Held, Block
<1>8. /\ \A c \in H!Cell : c # H!Nxt(i(t)) => link'[c] = link[c]
      /\ link'[h(t)] = link[h(t)]
      /\ pc[t] = "add1" => next'[t] = link[h(t)] /\ link'[H!Nxt(i(t))] = Null
      /\ pc[t] = "add2" => next'[t] = link[h(t)] /\ link'[H!Nxt(i(t))] = link[h(t)]
  BY <1>1, <1>2, <1>5, TypedStep DEF LinkType, IInv, TypeOK
<1>9. ListOf(Home[t], Rest(t), link', prev)
  <2>1. \A c \in Cells(Home[t], Rest(t)) : link'[c] = link[c]
    BY <1>2, <1>8, TypedStep
  <2> QED
    BY <1>5, <2>1, ListFrame
<1>10. Good(t)'
  BY <1>1, <1>2, <1>3, <1>4, <1>5, <1>8, <1>9, TypedStep
     DEF IInv, TypeOK, Good, Within, Between, Unlinking, Linking, Changing, i
<1>11. \A c \in H!Cell \ Cells(Home[t], Mine(t)) : link'[c] = link[c]
  BY <1>2, <1>8, TypedStep
<1> QED
  BY <1>1, <1>7, <1>10, <1>11, Local DEF IInv, TypeOK

LEMMA InvAdd3 == ASSUME IInv, OwnHomes, NEW t \in Thread, Add3(t) PROVE IInv'
<1>1. /\ pc[t] = "add3" /\ pc' = [pc EXCEPT ![t] = "add4"]
      /\ UNCHANGED <<link, next, owner, home, op, cur, allocatorSet, made, started, asserted>>
      /\ prev' = [prev EXCEPT ![next[t]] = H!Nxt(i(t))]
  BY DEF Add3, Statement, At, Goto
<1>2. Changing(t)
  BY <1>1 DEF Changing
<1>3. op[t] = "attach" /\ next[t] \in Item \cup {Null}
  BY <1>1 DEF IInv, TypeOK, Good, Within
<1>4. Mine(t)' = Mine(t)
  BY <1>1 DEF Mine, Held
<1>5. TypeOK'
  <2>1. H!Nxt(i(t)) \in H!Cell
    BY <1>2, TypedStep
  <2> QED
    BY <1>1, <2>1 DEF IInv, TypeOK, Held
<1>6. /\ ListOf(Home[t], Rest(t), link, prev)
      /\ next[t] = link[H!Child(Home[t])] /\ link[H!Nxt(i(t))] = link[H!Child(Home[t])]
  BY <1>1, <1>3 DEF IInv, Good, Linking
<1>7. next[t] \in Rest(t) \cup {Null}
  BY <1>6 DEF ListOf, Cells
<1> DEFINE k == H!Child(Home[t])
<1>8. ListOf(Home[t], Mine(t), [link EXCEPT ![k] = i(t)], [prev' EXCEPT ![i(t)] = k])
  <2>1. ListOf(Home[t], Rest(t) \cup {i(t)}, [link EXCEPT ![k] = i(t)],
               [[prev EXCEPT ![link[k]] = H!Nxt(i(t))] EXCEPT ![i(t)] = k])
    <3>1. Rest(t) \in SUBSET Item /\ i(t) \in Item \ Rest(t)
      BY <1>2, TypedStep
    <3> QED
      BY <1>2, <1>6, <3>1, TypedStep, ListWith
  <2>2. Rest(t) \cup {i(t)} = Mine(t)
    BY <1>2, TypedStep
  <2> QED
    BY <1>1, <1>6, <2>1, <2>2
<1>9. Good(t)'
  BY <1>1, <1>2, <1>3, <1>4, <1>8, TypedStep
     DEF IInv, TypeOK, Good, Within, Between, Unlinking, Linking, Changing, i
<1>10. \A b \in Item \ Mine(t) : prev'[b] = prev[b]
  BY <1>1, <1>2, <1>7, TypedStep, ThreadsAssumption DEF PrevType
<1> QED
  BY <1>1, <1>5, <1>9, <1>10, Local DEF IInv, TypeOK

LEMMA InvAdd45 == ASSUME IInv, OwnHomes, NEW t \in Thread, Add4(t) \/ Add5(t) PROVE IInv'
<1>1. /\ \/ /\ pc[t] = "add4" /\ pc' = [pc EXCEPT ![t] = "add5"]
            /\ link' = [link EXCEPT ![h(t)] = i(t)] /\ UNCHANGED prev
         \/ /\ pc[t] = "add5" /\ pc' = [pc EXCEPT ![t] = "idle"]
            /\ prev' = [prev EXCEPT ![i(t)] = h(t)] /\ UNCHANGED link
      /\ UNCHANGED <<next, owner, home, op, cur, allocatorSet, made, started, asserted>>
  BY DEF Add4, Add5, Statement, At, Goto, Store
<1>2. Changing(t) /\ op[t] = "attach"
  BY <1>1 DEF Changing, IInv, Good, Within
<1>3. Mine(t)' = Mine(t)
  BY <1>1 DEF Mine, Held
<1>4. TypeOK'
  <2>1. i(t) \in Item /\ h(t) \in H!Cell
    BY <1>2, TypedStep
  <2> QED
    BY <1>1, <2>1 DEF IInv, TypeOK, Held, Block
<1>5. Good(t)'
  <2> DEFINE k == H!Child(Home[t])
  <2>1. h(t) = k
    BY <1>2, TypedStep
  <2>2. CASE pc[t] = "add4"
    <3>1. /\ link' = [link EXCEPT ![k] = i(t)] /\ prev' = prev
          /\ pc' = [pc EXCEPT ![t] = "add5"]
      BY <1>1, <2>1, <2>2
    <3>2. ListOf(Home[t], Mine(t), [link EXCEPT ![k] = i(t)], [prev EXCEPT ![i(t)] = k])
      BY <1>2, <2>2 DEF IInv, Good, Linking
    <3>3. ListOf(Home[t], Mine(t), link', [prev' EXCEPT ![i(t)] = k])
      BY <3>1, <3>2
    <3> QED
      BY <1>1, <1>2, <1>3, <3>1, <3>3
         DEF IInv, TypeOK, Good, Within, Between, Unlinking, Linking, Changing, i
  <2>3. CASE pc[t] = "add5"
    <3>1. /\ prev' = [prev EXCEPT ![i(t)] = k] /\ link' = link
          /\ pc' = [pc EXCEPT ![t] = "idle"]
      BY <1>1, <2>1, <2>3
    <3>2. ListOf(Home[t], Mine(t), link, [prev EXCEPT ![i(t)] = k])
      BY <1>2, <2>3 DEF IInv, Good, Linking
    <3>3. ListOf(Home[t], Mine(t), link', prev')
      BY <3>1, <3>2
    <3>4. pc'[t] = "idle"
      BY <3>1 DEF IInv, TypeOK
    <3> QED
      BY <1>3, <3>3, <3>4 DEF Good, Within, Between, Unlinking, Linking, Changing
  <2> QED
    BY <1>1, <2>2, <2>3
<1>6. /\ \A c \in H!Cell \ Cells(Home[t], Mine(t)) : link'[c] = link[c]
      /\ \A b \in Item \ Mine(t) : prev'[b] = prev[b]
  BY <1>1, <1>2, TypedStep DEF LinkType, PrevType
<1> QED
  BY <1>1, <1>4, <1>5, <1>6, Local DEF IInv, TypeOK

\* A block fresh from malloc is on no list and was in no thread's.
LEMMA InvMalloc == ASSUME IInv, OwnHomes, NEW t \in Thread, Malloc(t) PROVE IInv'
<1>1. PICK b \in Item \ Held :
        /\ pc[t] = "malloc" /\ pc' = [pc EXCEPT ![t] = "del1"]
        /\ link' = H!InitLink(link, {b})
        /\ prev' = [prev EXCEPT ![b] = H!Nxt(b)]
        /\ owner' = [x \in Held \cup {b} |-> IF x = b THEN t ELSE owner[x]]
        /\ home' = [x \in Held \cup {b} |-> IF x = b THEN Home[t] ELSE home[x]]
        /\ cur' = [cur EXCEPT ![t] = b]
        /\ op' = [op EXCEPT ![t] = "attach"]
        /\ UNCHANGED <<next, allocatorSet, made, started, asserted>>
  BY DEF Malloc, At, Goto
<1>2. /\ link \in LinkType /\ prev \in PrevType /\ Home[t] \in Root
      /\ b \in Block /\ b # Null /\ H!Nxt(b) \in H!Cell
  BY ThreadsAssumption, CellsTyped, CellsDiffer DEF IInv, TypeOK, LinkType, PrevType, Block
<1>3. /\ link' \in LinkType
      /\ \A c \in H!Cell : link'[c] = IF H!Owner(c) = b THEN Null ELSE link[c]
      /\ prev' \in PrevType /\ prev'[b] = H!Nxt(b)
      /\ \A x \in Item : x # b => prev'[x] = prev[x]
  BY <1>1, <1>2 DEF H!InitLink, LinkType, PrevType
<1>4. /\ Held' = Held \cup {b}
      /\ Mine(t)' = Mine(t) \cup {b} /\ b \notin Mine(t) /\ Rest(t)' = Mine(t)
      /\ \A u \in Thread \ {t} : Mine(u)' = Mine(u) /\ b \notin Mine(u)
  BY <1>1 DEF Held, Mine, Rest, i, IInv, TypeOK
<1>5. TypeOK'
  <2>1. Held' \subseteq Item /\ owner' \in [Held' -> Thread] /\ home' \in [Held' -> Root]
    BY <1>1, <1>2, <1>4 DEF IInv, TypeOK
  <2> QED
    BY <1>1, <1>3, <2>1 DEF IInv, TypeOK, LinkType, PrevType
<1>6. \A x \in Held' : home'[x] = Home[owner'[x]]
  BY <1>1, <1>4 DEF IInv
<1>7. \A u \in Thread : /\ \A c \in Cells(Home[u], Mine(u)) : link'[c] = link[c]
                        /\ \A x \in Mine(u) : prev'[x] = prev[x]
  <2> TAKE u \in Thread
  <2>1. /\ Home[u] \in Root /\ Mine(u) \subseteq Item /\ Cells(Home[u], Mine(u)) \subseteq H!Cell
        /\ b \notin Mine(u) /\ Home[u] # b
    BY <1>4, CellsTyped, ThreadsAssumption DEF IInv
  <2>2. \A c \in Cells(Home[u], Mine(u)) : H!Owner(c) # b
    BY <2>1, CellsDiffer DEF Cells, Block
  <2> QED
    BY <1>3, <2>1, <2>2
<1>8. ASSUME NEW u \in Thread \ {t} PROVE Good(u)'
  <2>1. pc'[u] = pc[u] /\ op'[u] = op[u] /\ cur'[u] = cur[u] /\ next'[u] = next[u]
    BY <1>1 DEF IInv, TypeOK
  <2> QED
    BY <1>3, <1>4, <1>7, <2>1, Undisturbed DEF IInv
<1>9. Good(t)'
  <2>1. ListOf(Home[t], Mine(t), link, prev)
    BY <1>1 DEF IInv, Good, Between, Changing
  <2>2. ListOf(Home[t], Rest(t)', link', prev')
    BY <1>4, <1>7, <2>1, ListFrame
  <2>3. link'[H!Nxt(b)] = Null
    BY <1>2, <1>3, CellsDiffer
  <2>4. pc'[t] = "del1" /\ op'[t] = "attach" /\ i(t)' = b
    BY <1>1 DEF i, IInv, TypeOK
  <2> QED
    BY <1>3, <1>4, <2>2, <2>3, <2>4
       DEF Good, Within, Between, Unlinking, Linking, Changing
<1>10. Untouched'
  BY <1>3, CellsDiffer DEF IInv, Untouched, Block
<1> QED
  BY <1>5, <1>6, <1>8, <1>9, <1>10 DEF IInv

\* The block that is freed is on no list by then.
LEMMA InvRelease == ASSUME IInv, OwnHomes, NEW t \in Thread, Release(t) PROVE IInv'
<1>1. /\ pc[t] = "release" /\ pc' = [pc EXCEPT ![t] = "idle"]
      /\ owner' = [x \in Held \ {i(t)} |-> owner[x]]
      /\ home' = [x \in Held \ {i(t)} |-> home[x]]
      /\ UNCHANGED <<link, prev, op, cur, next, allocatorSet, made, started, asserted>>
  BY DEF Release, At, Goto, heap, regs
<1>2. Changing(t) /\ op[t] = "free"
  BY <1>1 DEF Changing, IInv, Good, Within
<1>3. /\ Held' = Held \ {i(t)} /\ Mine(t)' = Rest(t) /\ i(t) \in Mine(t)
      /\ \A u \in Thread \ {t} : Mine(u)' = Mine(u)
  BY <1>1, <1>2, TypedStep DEF Held, Mine, Rest
<1>4. TypeOK'
  <2>1. Held' \subseteq Item /\ owner' \in [Held' -> Thread] /\ home' \in [Held' -> Root]
    BY <1>1, <1>3 DEF IInv, TypeOK
  <2> QED
    BY <1>1, <2>1 DEF IInv, TypeOK
<1>5. \A x \in Held' : home'[x] = Home[owner'[x]]
  BY <1>1, <1>3 DEF IInv
<1>6. ASSUME NEW u \in Thread \ {t} PROVE Good(u)'
  <2>1. pc'[u] = pc[u] /\ link' \in LinkType /\ prev' \in PrevType
    BY <1>1 DEF IInv, TypeOK, LinkType, PrevType
  <2> QED
    BY <1>1, <1>3, <2>1, Undisturbed DEF IInv
<1>7. Good(t)'
  <2>1. ListOf(Home[t], Rest(t), link, prev)
    BY <1>1, <1>2 DEF IInv, Good, Unlinking
  <2>2. pc'[t] = "idle"
    BY <1>1 DEF IInv, TypeOK
  <2> QED
    BY <1>1, <1>3, <2>1, <2>2 DEF Good, Within, Between, Unlinking, Linking, Changing
<1>8. Untouched'
  BY <1>1 DEF IInv, Untouched
<1> QED
  BY <1>4, <1>5, <1>6, <1>7, <1>8 DEF IInv

-----------------------------------------------------------------------------
LEMMA InvInit == Init => IInv
<1> SUFFICES ASSUME Init PROVE IInv
  OBVIOUS
<1>1. Held = {} /\ \A t \in Thread : Mine(t) = {} /\ pc[t] = "idle"
  BY DEF Init, Held, Mine
<1>2. TypeOK
  BY <1>1, ThreadsAssumption DEF Init, TypeOK, Held
<1>3. \A t \in Thread : ListOf(Home[t], Mine(t), link, prev)
  BY <1>1, CellsTyped, <1>2 DEF Init, ListOf, Cells
<1>4. Untouched
  BY CellsDiffer DEF Init, Untouched, Block
<1> QED
  BY <1>1, <1>2, <1>3, <1>4 DEF IInv, Good, Within, Between, Unlinking, Linking, Changing

LEMMA InvNext == IInv /\ OwnHomes /\ Next => IInv'
BY InvCalls, InvDel1, InvDel2, InvDel3, InvDel45, InvAdd12, InvAdd3, InvAdd45, InvMalloc,
   InvRelease DEF Next, Step

LEMMA InvStutters == IInv /\ UNCHANGED vars => IInv'
<1> SUFFICES ASSUME IInv, UNCHANGED vars PROVE IInv'
  OBVIOUS
<1>1. UNCHANGED <<link, prev, owner, home, pc, op, cur, next, allocatorSet, made, started,
                  asserted>>
  BY DEF vars, heap, regs
<1>2. \A t \in Thread : Mine(t)' = Mine(t)
  BY <1>1 DEF Mine, Held
<1>3. TypeOK' /\ Untouched'
  BY <1>1 DEF IInv, TypeOK, Untouched, Held
<1>4. link' \in LinkType /\ prev' \in PrevType
  BY <1>1 DEF IInv, TypeOK, LinkType, PrevType
<1>5. \A t \in Thread : Good(t)'
  BY <1>1, <1>2, <1>4, Undisturbed DEF IInv
<1> QED
  BY <1>1, <1>3, <1>5 DEF IInv, Held

LEMMA InvQuiet == IInv /\ OwnHomes => QuietSound
<1> SUFFICES ASSUME IInv, OwnHomes, NEW r \in Root, Quiet(r)
             PROVE  /\ H!Kids(r) = Attached(r)
                    /\ \A b \in Attached(r) : /\ prev[b] \in H!Cell
                                              /\ H!Owner(prev[b]) \in Attached(r) \cup {r}
                                              /\ link[prev[b]] = b
  BY DEF QuietSound, QuietListsIntact, IInv
<1>1. CASE \E t \in Thread : Home[t] = r
  <2>1. PICK t \in Thread : Home[t] = r
    BY <1>1
  <2>2. Mine(t) = Attached(r)
    BY <2>1 DEF Mine, Attached, IInv, TypeOK, OwnHomes
  <2>3. ~Changing(t)
    <3>1. Changing(t) => home[cur[t]] = r
      BY <2>1, <2>2 DEF IInv, Good, Within, Attached, i
    <3> QED
      BY <3>1 DEF Quiet
  <2>4. ListOf(r, Attached(r), link, prev) /\ Attached(r) \subseteq Item
    BY <2>1, <2>2, <2>3, CellsTyped DEF IInv, Good, Between
  <2>5. H!Kids(r) = Attached(r)
    BY <2>4, ListKids
  <2>6. Attached(r) \subseteq Block /\ r \in Block
    BY <2>4 DEF Block
  <2> QED
    BY <2>4, <2>5, <2>6, CellsDiffer DEF ListOf, Cells
<1>2. CASE ~\E t \in Thread : Home[t] = r
  <2>1. Attached(r) = {}
    BY <1>2 DEF Attached, IInv, TypeOK
  <2>2. link[H!Child(r)] = Null
    BY <1>2 DEF IInv, Untouched
  <2>3. H!Kids(r) = {}
    <3>1. ListOf(r, {}, link, prev)
      BY <2>2 DEF ListOf, Cells
    <3> QED
      BY <3>1, ListKids
  <2> QED
    BY <2>1, <2>3
<1> QED
  BY <1>1, <1>2

(***************************************************************************)
(* When every thread attaches its blocks to a home of its own, the list of *)
(* a root that no thread is changing holds exactly the blocks attached to  *)
(* it, wherever the others are in hlist_add and hlist_del: the sentinel    *)
(* they all write is never followed.                                       *)
(***************************************************************************)
THEOREM ThreadsQuietSound == OwnHomes => (Spec => []QuietSound)
<1> SUFFICES ASSUME OwnHomes PROVE Spec => []QuietSound
  OBVIOUS
<1>1. IInv /\ [Next]_vars => IInv'
  BY InvNext, InvStutters
<1> QED
  BY InvInit, <1>1, InvQuiet, PTL DEF Spec

=============================================================================
