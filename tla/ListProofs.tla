----------------------------- MODULE ListProofs -----------------------------
(***************************************************************************)
(* Proofs about List, for any nodes, lists, keys and pool, and as many     *)
(* extra lists as the recursion of list_sort is deep: the pointers of each *)
(* list are the sequence it stands for at every step of every loop, each   *)
(* node is in one place, list_process and list_merge go on where they      *)
(* should, and list_sort ends with all its nodes in order.                 *)
(***************************************************************************)
EXTENDS ListRings

-----------------------------------------------------------------------------
(***************************************************************************)
(* The invariant.                                                          *)
(***************************************************************************)
Types ==
    /\ heap \in HeapType
    /\ nodecount \in [Header -> Nat] /\ maxcount \in [Header -> Nat]
    /\ fre \in Pooled \cup {NULL} /\ pooled \in BOOLEAN /\ held \subseteq Node
    /\ seq \in [Header -> Seq(Node)]

\* A node is with the client or in one list, or the client has not created it.
Places ==
    /\ Apart(seq) /\ held \cap InUse(seq) = {}
    /\ ~pooled => Pooled \cap (held \cup InUse(seq)) = {}
    /\ \A l \in Header : maxcount[l] = 0 => seq[l] = <<>>

Rings ==
    \A l \in Header \ Emptying :
        maxcount[l] > 0 => Linked(heap.next, heap.prev, l, seq[l])

Counts ==
    \A l \in Header \ Emptying : nodecount[l] = Len(seq[l]) /\ nodecount[l] <= maxcount[l]

\* The nodes c are the free list of the pool.
FreeList(c) ==
    /\ c \in Seq(Node) /\ IsInjective(c) /\ Range(c) = Spare(seq, held)
    /\ fre = At(NULL, c, 1) /\ Threaded(heap.next, NULL, c)

PoolInv ==
    /\ \A n \in held : heap.next[n] = NULL /\ heap.prev[n] = NULL
    /\ pooled => /\ \A n \in Spare(seq, held) : heap.next[n] # NULL \/ heap.prev[n] # NULL
                 /\ \E c : FreeList(c)

EmptyInv ==
    op.do = "empty" =>
        LET l == op.list
        IN  /\ op = [do |-> "empty", into |-> op.into, list |-> l, node |-> op.node]
            /\ l \in List /\ maxcount[l] > 0
            /\ op.node = At(l, seq[l], 1) /\ Threaded(heap.next, l, seq[l])
            /\ \/ op.into = "pool" /\ Members(l) \subseteq Pooled
               \/ op.into = "free" /\ Members(l) \cap Pooled = {}

\* The nodes todo of s are still to come, the first of them is nx.
Ahead(l, s, nx, todo) ==
    \E i \in 1 .. Len(s) + 1 : nx = At(l, s, i) /\ todo = {s[j] : j \in i .. Len(s)}

ScanInv ==
    scan # NoScan =>
        LET l == scan.list
        IN  /\ op = Idle
            /\ scan = [list |-> l, next |-> scan.next, seen |-> scan.seen, todo |-> scan.todo]
            /\ l \in List /\ maxcount[l] > 0
            /\ scan.seen \subseteq Members(l) /\ scan.seen \cap scan.todo = {}
            /\ Ahead(l, seq[l], scan.next, scan.todo)

-----------------------------------------------------------------------------
(***************************************************************************)
(* The stack of list_sort.  A frame that waits has split its list and is   *)
(* having one half sorted; the other half waits in its list or in the      *)
(* extra list.                                                             *)
(***************************************************************************)
FrameType == [at : {"split", "left", "right", "merge"}, list : Header,
              sour : Header \cup {NULL}, dn : Cell \cup {NULL}, sn : Cell \cup {NULL}]

Waiting(f, j) == IF f[j].at = "left" THEN Extra[j] ELSE f[j].list

Stack(f) ==
    LET k == Len(f)
    IN  /\ f \in Seq(FrameType) /\ k \in 1 .. Len(Extra) + 1
        /\ f[1].list \in List
        /\ \A j \in 1 .. k - 1 :
              /\ f[j].at \in {"left", "right"} /\ f[j].sour = Extra[j]
              /\ f[j + 1].list = IF f[j].at = "left" THEN f[j].list ELSE Extra[j]
        /\ f[k].at \in {"split", "merge"}
        /\ f[k].at = "merge" => /\ f[k].sour # f[k].list
                                /\ \/ k <= Len(Extra) /\ f[k].sour = Extra[k]
                                   \/ k = 1 /\ f[k].sour \in List
        /\ \A j \in 1 .. k : f[j].list = f[1].list \/ \E m \in 1 .. j - 1 : f[j].list = Extra[m]
        /\ \A i, j \in 1 .. k : j < i => f[i].list # Waiting(f, j)

\* The extra lists that exist are those of the frames.
ExtraLives(f, j) == j < Len(f) \/ (j = Len(f) /\ f[j].at = "merge" /\ f[j].sour = Extra[j])

Alive(f) ==
    /\ maxcount[f[1].list] > 0
    /\ \A j \in 1 .. Len(Extra) : maxcount[Extra[j]] > 0 <=> ExtraLives(f, j)

\* w[j] nodes, the set S[j], are in the lists of frame j and of the frames above
\* it.  They fit into its list, and what is still to be sorted is short enough
\* for the extra lists that are left.
Below(f, n, w, S) ==
    LET k == Len(f)
    IN  /\ w \in [1 .. k -> Nat] /\ S \in [1 .. k -> SUBSET Node] /\ S[1] = n
        /\ \A j \in 1 .. k : w[j] <= maxcount[f[j].list]
        /\ \A j \in 1 .. k - 1 :
              /\ w[j] = w[j + 1] + Len(seq[Waiting(f, j)])
              /\ S[j] = S[j + 1] \cup Range(seq[Waiting(f, j)])
              /\ f[j].at = "left" => Len(seq[Waiting(f, j)]) <= Pow(Len(Extra) - j)
              /\ f[j].at = "right" => Sorted(seq[Waiting(f, j)])

\* list_merge has gone through the destination up to place a.
Merged(l, s, dn, sn, a) ==
    /\ a \in 1 .. Len(seq[l]) + 1 /\ dn = At(l, seq[l], a) /\ sn = At(s, seq[s], 1)
    /\ Sorted(seq[l]) /\ Sorted(seq[s])
    /\ \A i \in 1 .. a - 1, j \in 1 .. Len(seq[s]) : KeyOf[seq[l][i]] <= KeyOf[seq[s][j]]

\* The frame that runs.
SplitTop(f, w, S) ==
    LET k == Len(f)
        l == f[k].list
    IN  w[k] = Len(seq[l]) /\ S[k] = Range(seq[l]) /\ w[k] <= Pow(Len(Extra) - k + 1)

MergeTop(f, w, S) ==
    LET k == Len(f)
        l == f[k].list
        s == f[k].sour
    IN  /\ w[k] = Len(seq[l]) + Len(seq[s]) /\ S[k] = Range(seq[l]) \cup Range(seq[s])
        /\ maxcount[s] > 0
        /\ \E a : Merged(l, s, f[k].dn, f[k].sn, a)

Sorting(f, n) ==
    /\ Stack(f) /\ Alive(f)
    /\ \E w, S : /\ Below(f, n, w, S)
                 /\ f[Len(f)].at = "split" => SplitTop(f, w, S)
                 /\ f[Len(f)].at = "merge" => MergeTop(f, w, S)

SortRecord(f) == [do |-> "sort", frames |-> f, lists |-> op.lists, nodes |-> op.nodes]

SortInv ==
    IF op.do = "sort" THEN op = SortRecord(op.frames) /\ Sorting(op.frames, op.nodes)
    ELSE \A j \in 1 .. Len(Extra) : maxcount[Extra[j]] = 0

Shape == op = Idle \/ op.do \in {"empty", "sort"}

Inv == /\ Types /\ Places /\ Rings /\ Counts /\ PoolInv
       /\ Shape /\ EmptyInv /\ ScanInv /\ SortInv

-----------------------------------------------------------------------------
(***************************************************************************)
(* The state between two steps.                                            *)
(***************************************************************************)
\* The lists whose nil nodes can be trusted.
Fit == {l \in Header \ Emptying : maxcount[l] > 0}

Core == Types /\ Places /\ Rings /\ Counts /\ PoolInv

LEMMA CoreLists == Types /\ Places /\ Rings => Lists(heap, seq, Fit)
BY DEF Types, Places, Rings, Fit, Lists

LEMMA ListsCore ==
    ASSUME NEW A, Lists(heap', seq', A), {l \in Header : maxcount'[l] > 0} \ Emptying' \subseteq A
    PROVE  Rings' /\ Apart(seq')
BY DEF Rings, Lists

\* Neither the free list nor a node of the client has been touched.
LEMMA PoolFrame ==
    ASSUME PoolInv, Spare(seq, held)' = Spare(seq, held), fre' = fre, pooled' = pooled,
           \A n \in Spare(seq, held) : heap'.next[n] = heap.next[n] /\ heap'.prev[n] = heap.prev[n],
           \A n \in held' : heap'.next[n] = NULL /\ heap'.prev[n] = NULL
    PROVE  PoolInv'
<1>1. ASSUME NEW c, FreeList(c) PROVE FreeList(c)'
  <2>1. \A i \in 1 .. Len(c) : c[i] \in Spare(seq, held)
    <3>1. c \in Seq(Node) /\ Range(c) = Spare(seq, held)
      BY <1>1 DEF FreeList
    <3> QED
      BY <3>1 DEF Range
  <2> QED
    BY <1>1, <2>1 DEF FreeList, Threaded
<1>2. pooled' => \E c : FreeList(c)'
  BY <1>1 DEF PoolInv
<1>3. pooled' => \A n \in Spare(seq, held)' : heap'.next[n] # NULL \/ heap'.prev[n] # NULL
  BY DEF PoolInv
<1> QED
  BY <1>2, <1>3 DEF PoolInv

\* The lists have the nodes they had.
LEMMA PoolKept ==
    ASSUME Types, Places, PoolInv, NEW M, Elsewhere(heap, heap', M), M \subseteq InUse(seq),
           InUse(seq)' = InUse(seq), held' = held, fre' = fre, pooled' = pooled
    PROVE  PoolInv'
<1>1. Spare(seq, held)' = Spare(seq, held)
  BY DEF Spare
<1>2. \A n \in Node : n \notin InUse(seq) => heap'.next[n] = heap.next[n] /\ heap'.prev[n] = heap.prev[n]
  BY DEF Elsewhere
<1>3. Pooled \subseteq Node
  <2>1. Pool \in Seq(Node)
    BY ListAssumption
  <2> QED
    BY <2>1 DEF Pooled, Range
<1>4. \A n \in Spare(seq, held) : heap'.next[n] = heap.next[n] /\ heap'.prev[n] = heap.prev[n]
  BY <1>2, <1>3 DEF Spare
<1>5. \A n \in held' : heap'.next[n] = NULL /\ heap'.prev[n] = NULL
  <2>1. \A n \in held : n \in Node /\ n \notin InUse(seq) /\ heap.next[n] = NULL /\ heap.prev[n] = NULL
    BY DEF Types, Places, PoolInv
  <2> QED
    BY <1>2, <2>1
<1> QED
  BY <1>1, <1>4, <1>5, PoolFrame

\* A nil node that points to itself is an empty list.
LEMMA NilRing ==
    ASSUME NEW h, NEW sq, NEW A, Lists(h, sq, A), NEW l \in Header, sq[l] = <<>>
    PROVE  Lists(NilNode(h, l), sq, A \cup {l}) /\ Elsewhere(h, NilNode(h, l), {})
<1> DEFINE g == NilNode(h, l)
<1>1. h \in HeapType /\ l \in Cell /\ A \subseteq Header /\ sq \in [Header -> Seq(Node)] /\ Apart(sq)
  BY DEF Lists, Cell
<1>2. g \in HeapType /\ Written(h.next, g.next, l, l) /\ Written(h.prev, g.prev, l, l)
  BY <1>1, LinkUpFields DEF NilNode
<1> HIDE DEF g
<1>3. \A c \in Cell : c # l => g.next[c] = h.next[c] /\ g.prev[c] = h.prev[c]
  BY <1>2 DEF Written
<1>4. g.next[l] = l /\ g.prev[l] = l
  BY <1>1, <1>2 DEF Written
<1>5. Linked(g.next, g.prev, l, sq[l])
  <2>1. Len(<<>>) = 0 /\ \A i \in 0 .. 0 : i = 0
    OBVIOUS
  <2>2. At(l, <<>>, 0) = l /\ At(l, <<>>, 0 + 1) = l
    BY DEF At
  <2> QED
    BY <1>4, <2>1, <2>2 DEF Linked
<1>6. ASSUME NEW k \in A, k # l PROVE Linked(g.next, g.prev, k, sq[k])
  <2>1. /\ k \in Header /\ OnRing(k, sq[k]) /\ Linked(h.next, h.prev, k, sq[k])
        /\ Range(sq[k]) \subseteq InUse(sq) /\ InUse(sq) \subseteq Node
    BY <1>1, ListsRings DEF Lists
  <2>2. \A c \in {k} \cup Range(sq[k]) : c \in Cell /\ c # l
    BY <1>6, <2>1, ListAssumption DEF Cell
  <2>3. \A c \in {k} \cup Range(sq[k]) : g.next[c] = h.next[c] /\ g.prev[c] = h.prev[c]
    BY <1>3, <2>2
  <2> QED
    BY <2>1, <2>3, LinkedFrame
<1>7. Lists(g, sq, A \cup {l})
  BY <1>1, <1>2, <1>5, <1>6 DEF Lists
<1>8. Elsewhere(h, g, {})
  <2>1. \A n \in Node : n \in Cell /\ n # l
    BY ListAssumption DEF Cell
  <2> QED
    BY <1>3, <2>1 DEF Elsewhere
<1> QED
  BY <1>7, <1>8 DEF g

LEMMA ExtraHeaders ==
    /\ Len(Extra) \in Nat
    /\ \A j \in 1 .. Len(Extra) : /\ Extra[j] \in Header /\ Extra[j] \in Range(Extra)
                                  /\ Extra[j] \notin List
    /\ \A i, j \in 1 .. Len(Extra) : Extra[i] = Extra[j] => i = j
    /\ \A l \in Header : l \in List \/ \E j \in 1 .. Len(Extra) : l = Extra[j]
<1>1. /\ Extra \in Seq(Header) /\ IsInjective(Extra) /\ List \cap Range(Extra) = {}
  BY ListAssumption
<1>2. Len(Extra) \in Nat /\ DOMAIN Extra = 1 .. Len(Extra)
      /\ \A j \in 1 .. Len(Extra) : Extra[j] \in Header
  BY <1>1
<1>3. \A j \in 1 .. Len(Extra) : Extra[j] \in Range(Extra)
  BY <1>2 DEF Range
<1>4. \A i, j \in 1 .. Len(Extra) : Extra[i] = Extra[j] => i = j
  BY <1>1, <1>2 DEF IsInjective
<1>5. \A l \in Header : l \in List \/ \E j \in 1 .. Len(Extra) : l = Extra[j]
  BY <1>2 DEF Header, Range
<1> QED
  BY <1>1, <1>2, <1>3, <1>4, <1>5

\* Between two calls.
LEMMA IdleRest ==
    ASSUME SortInv, op = Idle, op' = Idle,
           \A j \in 1 .. Len(Extra) : maxcount'[Extra[j]] = maxcount[Extra[j]]
    PROVE  Shape' /\ EmptyInv' /\ SortInv'
<1>1. op.do = "idle" /\ op'.do = "idle"
  BY DEF Idle
<1> QED
  BY <1>1 DEF Shape, EmptyInv, SortInv

LEMMA IdleFacts ==
    ASSUME Inv, op = Idle
    PROVE  /\ Emptying = {} /\ Fit = {l \in Header : maxcount[l] > 0}
           /\ \A j \in 1 .. Len(Extra) : maxcount[Extra[j]] = 0
           /\ \A l \in Range(Extra) : seq[l] = <<>> /\ maxcount[l] = 0
           /\ InUse(seq) = UNION {Members(l) : l \in List}
<1>1. op.do = "idle"
  BY DEF Idle
<1>2. Emptying = {} /\ Fit = {l \in Header : maxcount[l] > 0}
  BY <1>1 DEF Emptying, Fit
<1>3. \A j \in 1 .. Len(Extra) : maxcount[Extra[j]] = 0
  BY <1>1 DEF Inv, SortInv
<1>4. \A l \in Range(Extra) : l \in Header /\ maxcount[l] = 0
  BY <1>3, ListAssumption DEF Range, Header
<1>5. \A l \in Range(Extra) : seq[l] = <<>>
  BY <1>4 DEF Inv, Places
<1>6. \A l \in Range(Extra) : Members(l) = {}
  BY <1>5 DEF Members, Range
<1>7. InUse(seq) = UNION {Members(l) : l \in List}
  BY <1>6 DEF InUse, Members, Header
<1> QED
  BY <1>2, <1>3, <1>4, <1>5, <1>7

-----------------------------------------------------------------------------
(***************************************************************************)
(* The calls that do not loop.                                             *)
(***************************************************************************)
LEMMA InitInv == Init => Inv
<1> SUFFICES ASSUME Init PROVE Inv
  OBVIOUS
<1>1. /\ op = Idle /\ scan = NoScan /\ held = {} /\ fre = NULL /\ pooled = FALSE
      /\ seq = [l \in Header |-> <<>>]
      /\ nodecount = [l \in Header |-> 0] /\ maxcount = [l \in Header |-> 0]
      /\ heap = [next |-> [c \in Cell |-> NULL], prev |-> [c \in Cell |-> NULL]]
  BY DEF Init
<1>2. op.do = "idle" /\ InUse(seq) = {} /\ \A l \in Header : seq[l] = <<>> /\ DOMAIN seq[l] = {}
  <2>1. \A l \in Header : seq[l] = <<>>
    BY <1>1
  <2>2. DOMAIN <<>> = {} /\ Range(<<>>) = {}
    BY DEF Range
  <2>3. InUse(seq) = {}
    BY <2>1, <2>2 DEF InUse
  <2>4. \A l \in Header : DOMAIN seq[l] = {}
    BY <2>1, <2>2
  <2>5. op.do = "idle"
    BY <1>1 DEF Idle
  <2> QED
    BY <2>1, <2>3, <2>4, <2>5
<1>3. Types
  <2>1. heap \in HeapType
    <3> DEFINE e == [c \in Cell |-> NULL]
    <3>1. e \in [Cell -> Cell \cup {NULL}]
      OBVIOUS
    <3> HIDE DEF e
    <3>2. [next |-> e, prev |-> e] \in HeapType
      BY <3>1 DEF HeapType
    <3> QED
      BY <1>1, <3>2 DEF e
  <2>2. <<>> \in Seq(Node)
    OBVIOUS
  <2>3. seq \in [Header -> Seq(Node)]
    BY <1>1, <2>2
  <2> QED
    BY <1>1, <2>1, <2>3 DEF Types
<1>4. Places
  BY <1>1, <1>2 DEF Places, Apart
<1>5. Rings /\ Counts
  BY <1>1, <1>2 DEF Rings, Counts
<1>6. PoolInv /\ ScanInv /\ EmptyInv /\ Shape
  BY <1>1, <1>2 DEF PoolInv, ScanInv, EmptyInv, Shape
<1>7. SortInv
  <2>1. \A j \in 1 .. Len(Extra) : Extra[j] \in Header
    BY ListAssumption
  <2> QED
    BY <1>1, <1>2, <2>1 DEF SortInv
<1> QED
  BY <1>3, <1>4, <1>5, <1>6, <1>7 DEF Inv

\* Writing one cell that is neither a node of a list nor one of the nil nodes.
OneCell(h, g, c) ==
    /\ g \in HeapType
    /\ \A x \in Cell : x # c => g.next[x] = h.next[x] /\ g.prev[x] = h.prev[x]

LEMMA ListsOneCell ==
    ASSUME NEW h, NEW sq, NEW A, Lists(h, sq, A), NEW B, B \subseteq A, NEW c,
           c \notin B, c \notin InUse(sq), NEW g, OneCell(h, g, c)
    PROVE  Lists(g, sq, B)
<1>1. Lists(h, sq, B)
  BY DEF Lists
<1>2. \A x \in B \cup InUse(sq) : x \in Cell /\ x # c
  <2>1. B \subseteq Header
    BY <1>1 DEF Lists
  <2>2. \A l \in Header : sq[l] \in Seq(Node)
    BY DEF Lists
  <2>3. InUse(sq) \subseteq Node
    <3>1. ASSUME NEW l \in Header PROVE Range(sq[l]) \subseteq Node
      BY <2>2 DEF Range
    <3> QED
      BY <3>1 DEF InUse
  <2> QED
    BY <2>1, <2>3 DEF Cell
<1>3. \A x \in B \cup InUse(sq) : g.next[x] = h.next[x] /\ g.prev[x] = h.prev[x]
  BY <1>2 DEF OneCell
<1> QED
  BY <1>1, <1>3, ListsFrame DEF OneCell

LEMMA ClearOneCell ==
    ASSUME NEW h \in HeapType, NEW c \in Cell
    PROVE  /\ OneCell(h, Clear(h, c), c)
           /\ Clear(h, c).next[c] = NULL /\ Clear(h, c).prev[c] = NULL
<1> DEFINE g == Clear(h, c)
<1>1. g \in HeapType /\ Written(h.next, g.next, c, NULL) /\ Written(h.prev, g.prev, c, NULL)
  BY ClearFields
<1> HIDE DEF g
<1>2. OneCell(h, g, c) /\ g.next[c] = NULL /\ g.prev[c] = NULL
  BY <1>1 DEF Written, OneCell
<1> QED
  BY <1>2 DEF g

LEMMA CreateKeeps ==
    ASSUME Inv, NEW l \in List, NEW m \in Limits, Create(l, m)
    PROVE  Inv'
<1>1. /\ op = Idle /\ scan = NoScan /\ maxcount[l] = 0 /\ heap' = NilNode(heap, l)
      /\ nodecount' = [nodecount EXCEPT ![l] = 0] /\ maxcount' = [maxcount EXCEPT ![l] = m]
      /\ UNCHANGED <<fre, pooled, op, scan, seq, held>>
  BY DEF Create, Quiet
<1>2. l \in Header /\ l \notin Range(Extra) /\ seq[l] = <<>> /\ m \in Nat /\ m > 0
  <2>1. l \in Header /\ l \notin Range(Extra)
    BY ListAssumption DEF Header
  <2>2. m \in Nat /\ m > 0
    BY ListAssumption
  <2>3. seq[l] = <<>>
    BY <1>1, <2>1 DEF Inv, Places
  <2> QED
    BY <2>1, <2>2, <2>3
<1>3. /\ Emptying = {} /\ Emptying' = {} /\ Fit = {k \in Header : maxcount[k] > 0}
      /\ \A j \in 1 .. Len(Extra) : Extra[j] \in Header /\ Extra[j] # l
  <2>1. Emptying = {} /\ Fit = {k \in Header : maxcount[k] > 0}
    BY <1>1, IdleFacts
  <2>2. Emptying' = {}
    BY <1>1 DEF Emptying, Idle
  <2>3. \A j \in 1 .. Len(Extra) : Extra[j] \in Header /\ Extra[j] # l
    BY <1>2, ExtraHeaders
  <2> QED
    BY <2>1, <2>2, <2>3
<1>4. Lists(heap', seq', Fit \cup {l}) /\ Elsewhere(heap, heap', {})
  BY <1>1, <1>2, CoreLists, NilRing DEF Inv
<1>5. Types /\ Places /\ Counts /\ PoolInv /\ SortInv
  BY DEF Inv
<1>6. /\ \A k \in Header : nodecount'[k] = IF k = l THEN 0 ELSE nodecount[k]
      /\ \A k \in Header : maxcount'[k] = IF k = l THEN m ELSE maxcount[k]
      /\ nodecount' \in [Header -> Nat] /\ maxcount' \in [Header -> Nat]
  BY <1>1, <1>2, <1>5 DEF Types
<1>7. Types'
  BY <1>1, <1>4, <1>5, <1>6 DEF Types, Lists
<1>8. Rings' /\ Apart(seq')
  BY <1>3, <1>4, <1>6, ListsCore
<1>9. Places'
  BY <1>1, <1>2, <1>5, <1>6, <1>8 DEF Places
<1>10. Counts'
  BY <1>1, <1>2, <1>3, <1>5, <1>6 DEF Counts
<1>11. PoolInv'
  BY <1>1, <1>4, <1>5, PoolKept
<1>12. Shape' /\ EmptyInv' /\ SortInv'
  BY <1>1, <1>3, <1>5, <1>6, IdleRest
<1>13. ScanInv'
  BY <1>1 DEF ScanInv
<1> QED
  BY <1>7, <1>8, <1>9, <1>10, <1>11, <1>12, <1>13 DEF Inv

LEMMA DestroyKeeps ==
    ASSUME Inv, NEW l \in List, Destroy(l)
    PROVE  Inv'
<1>1. /\ op = Idle /\ scan = NoScan /\ maxcount[l] > 0 /\ nodecount[l] = 0 /\ heap' = Clear(heap, l)
      /\ maxcount' = [maxcount EXCEPT ![l] = 0]
      /\ UNCHANGED <<nodecount, fre, pooled, op, scan, seq, held>>
  BY DEF Destroy, Quiet, Live
<1>2. /\ Emptying = {} /\ Fit = {k \in Header : maxcount[k] > 0} /\ l \in Header /\ l \in Cell
      /\ \A j \in 1 .. Len(Extra) : Extra[j] \in Header /\ Extra[j] # l
  <2>1. Emptying = {} /\ Fit = {k \in Header : maxcount[k] > 0}
    BY <1>1, IdleFacts
  <2>2. \A j \in 1 .. Len(Extra) : Extra[j] \in Header /\ Extra[j] # l
    BY ExtraHeaders
  <2> QED
    BY <2>1, <2>2 DEF Header, Cell
<1>3. Emptying' = {}
  BY <1>1 DEF Emptying, Idle
<1>4. Types /\ Places /\ Rings /\ Counts /\ PoolInv /\ SortInv
  BY DEF Inv
<1>5. seq[l] = <<>>
  <2>1. Len(seq[l]) = 0 /\ seq[l] \in Seq(Node)
    BY <1>1, <1>2, <1>4 DEF Counts, Types
  <2> QED
    BY <2>1
<1>6. Lists(heap, seq, Fit)
  BY <1>4, CoreLists
<1>7. OneCell(heap, heap', l)
  BY <1>1, <1>2, <1>4, ClearOneCell DEF Types
<1>8. l \notin InUse(seq) /\ l \notin Node
  <2>1. l \notin Node
    BY <1>2, ListAssumption
  <2>2. InUse(seq) \subseteq Node
    BY <1>2, <1>6, ListsRings
  <2> QED
    BY <2>1, <2>2
<1>9. Lists(heap', seq', Fit \ {l})
  <2>1. Lists(heap', seq, Fit \ {l})
    BY <1>6, <1>7, <1>8, ListsOneCell
  <2> QED
    BY <1>1, <2>1
<1>10. Elsewhere(heap, heap', {})
  BY <1>7, <1>8 DEF Elsewhere, OneCell, Cell
<1>11. /\ \A k \in Header : maxcount'[k] = IF k = l THEN 0 ELSE maxcount[k]
       /\ maxcount' \in [Header -> Nat]
  BY <1>1, <1>4 DEF Types
<1>12. Types'
  BY <1>1, <1>4, <1>9, <1>11 DEF Types, Lists
<1>13. Rings' /\ Apart(seq')
  BY <1>2, <1>3, <1>9, <1>11, ListsCore
<1>14. Places'
  BY <1>1, <1>4, <1>5, <1>11, <1>13 DEF Places
<1>15. Counts'
  BY <1>1, <1>2, <1>3, <1>4, <1>5, <1>11 DEF Counts
<1>16. PoolInv'
  BY <1>1, <1>4, <1>10, PoolKept
<1>17. Shape' /\ EmptyInv' /\ SortInv'
  BY <1>1, <1>2, <1>4, <1>11, IdleRest
<1>18. ScanInv'
  BY <1>1 DEF ScanInv
<1> QED
  BY <1>12, <1>13, <1>14, <1>15, <1>16, <1>17, <1>18 DEF Inv

\* The calls about nodes that are in no list.
LEMMA HeldStep ==
    ASSUME Inv, op = Idle, Lists(heap', seq, Fit), UNCHANGED <<nodecount, maxcount, op, scan, seq>>,
           held' \subseteq Node, held' \cap InUse(seq) = {},
           fre' \in Pooled \cup {NULL}, pooled' \in BOOLEAN,
           ~pooled' => Pooled \cap (held' \cup InUse(seq)) = {}, PoolInv'
    PROVE  Inv'
<1>1. Types /\ Places /\ Rings /\ Counts /\ PoolInv /\ SortInv /\ ScanInv
  BY DEF Inv
<1>2. Emptying = {} /\ Emptying' = {} /\ Fit = {k \in Header : maxcount[k] > 0}
  <2>1. Emptying' = Emptying
    BY DEF Emptying
  <2> QED
    BY <2>1, IdleFacts
<1>3. Types'
  BY <1>1 DEF Types, Lists
<1>4. Lists(heap', seq', Fit)
  OBVIOUS
<1>5. Rings' /\ Apart(seq')
  BY <1>2, <1>4, ListsCore
<1>6. Places'
  BY <1>1, <1>5 DEF Places
<1>7. Counts'
  BY <1>1, <1>2 DEF Counts
<1>8. Shape' /\ EmptyInv' /\ SortInv'
  BY <1>1, IdleRest
<1>9. ScanInv'
  BY <1>1 DEF ScanInv, Members
<1> QED
  BY <1>3, <1>5, <1>6, <1>7, <1>8, <1>9 DEF Inv

LEMMA PooledNodes == Pooled \subseteq Node /\ NULL \notin Pooled
<1>1. Pool \in Seq(Node) /\ NULL \notin Cell
  BY ListAssumption
<1> QED
  BY <1>1 DEF Pooled, Range, Cell

\* A node of no list is written.
LEMMA NodeStep ==
    ASSUME Inv, op = Idle, NEW n \in Node, n \notin InUse(seq), OneCell(heap, heap', n)
    PROVE  Lists(heap', seq, Fit)
<1>1. Lists(heap, seq, Fit)
  BY CoreLists DEF Inv
<1>2. n \notin Fit
  BY ListAssumption DEF Fit
<1> QED
  BY <1>1, <1>2, ListsOneCell

LEMMA NodeCreateKeeps ==
    ASSUME Inv, NEW n \in Node, NodeCreate(n)
    PROVE  Inv'
<1>1. /\ op = Idle /\ n \notin held /\ n \notin Pooled /\ heap' = Clear(heap, n)
      /\ \A l \in List : n \notin Members(l) 
      /\ held' = held \cup {n}
      /\ UNCHANGED <<nodecount, maxcount, fre, pooled, op, scan, seq>>
  BY DEF NodeCreate, Quiet
<1>2. n \notin InUse(seq)
  BY <1>1, IdleFacts
<1>3. Types /\ Places /\ PoolInv
  BY DEF Inv
<1>4. OneCell(heap, heap', n) /\ heap'.next[n] = NULL /\ heap'.prev[n] = NULL
  <2>1. heap \in HeapType /\ n \in Cell
    BY <1>3 DEF Types, Cell
  <2> QED
    BY <1>1, <2>1, ClearOneCell
<1>5. Lists(heap', seq, Fit)
  BY <1>1, <1>2, <1>4, NodeStep
<1>6. Spare(seq, held)' = Spare(seq, held)
  BY <1>1 DEF Spare
<1>7. \A x \in Spare(seq, held) : heap'.next[x] = heap.next[x] /\ heap'.prev[x] = heap.prev[x]
  BY <1>1, <1>4, PooledNodes DEF Spare, OneCell, Cell
<1>8. \A x \in held' : heap'.next[x] = NULL /\ heap'.prev[x] = NULL
  BY <1>1, <1>3, <1>4 DEF PoolInv, Types, OneCell, Cell
<1>9. PoolInv'
  BY <1>1, <1>3, <1>6, <1>7, <1>8, PoolFrame
<1>10. /\ held' \subseteq Node /\ held' \cap InUse(seq) = {}
       /\ ~pooled' => Pooled \cap (held' \cup InUse(seq)) = {}
       /\ fre' \in Pooled \cup {NULL} /\ pooled' \in BOOLEAN
  BY <1>1, <1>2, <1>3 DEF Types, Places
<1> QED
  BY <1>1, <1>5, <1>9, <1>10, HeldStep

LEMMA NodeDestroyKeeps ==
    ASSUME Inv, NEW n \in Node, NodeDestroy(n)
    PROVE  Inv'
<1>1. /\ op = Idle /\ n \notin Pooled /\ held' = held \ {n}
      /\ UNCHANGED <<heap, nodecount, maxcount, fre, pooled, op, scan, seq>>
  BY DEF NodeDestroy, Quiet
<1>2. Types /\ Places /\ PoolInv
  BY DEF Inv
<1>3. Lists(heap', seq, Fit)
  <2>1. Lists(heap, seq, Fit)
    BY CoreLists DEF Inv
  <2> QED
    BY <1>1, <2>1
<1>4. Spare(seq, held)' = Spare(seq, held)
  BY <1>1 DEF Spare
<1>5. \A x \in held' : heap'.next[x] = NULL /\ heap'.prev[x] = NULL
  BY <1>1, <1>2 DEF PoolInv
<1>6. PoolInv'
  BY <1>1, <1>2, <1>4, <1>5, PoolFrame
<1>7. /\ held' \subseteq Node /\ held' \cap InUse(seq) = {}
      /\ ~pooled' => Pooled \cap (held' \cup InUse(seq)) = {}
      /\ fre' \in Pooled \cup {NULL} /\ pooled' \in BOOLEAN
  BY <1>1, <1>2 DEF Types, Places
<1> QED
  BY <1>1, <1>3, <1>6, <1>7, HeldStep

LEMMA PushFreeOneCell ==
    ASSUME Types, NEW n \in Pooled, NEW h \in HeapType
    PROVE  /\ OneCell(h, PushFree(h, n), n)
           /\ PushFree(h, n).next[n] = fre /\ PushFree(h, n).prev[n] = n
<1>1. n \in Cell /\ fre \in Cell \cup {NULL}
  BY PooledNodes DEF Types, Cell
<1>2. PushFree(h, n) \in HeapType
  BY <1>1 DEF PushFree, HeapType
<1> QED
  BY <1>1, <1>2 DEF PushFree, HeapType, OneCell

\* The free list gets a node n in front.
LEMMA PoolPushed ==
    ASSUME Types, PoolInv, pooled, pooled', NEW n \in Pooled, fre' = n, n \notin Spare(seq, held),
           Spare(seq, held)' = Spare(seq, held) \cup {n},
           OneCell(heap, heap', n), heap'.next[n] = fre, heap'.prev[n] = n,
           \A x \in held' : heap'.next[x] = NULL /\ heap'.prev[x] = NULL
    PROVE  PoolInv'
<1>1. PICK c : FreeList(c)
  BY DEF PoolInv
<1>2. /\ c \in Seq(Node) /\ IsInjective(c) /\ Range(c) = Spare(seq, held)
      /\ fre = At(NULL, c, 1) /\ Threaded(heap.next, NULL, c)
  BY <1>1 DEF FreeList
<1> DEFINE k == Len(c)
           t == <<n>> \o c
<1>3. n \in Node /\ n # NULL /\ k \in Nat /\ DOMAIN c = 1 .. k
  BY <1>2, PooledNodes
<1>4. /\ t \in Seq(Node) /\ Len(t) = k + 1 /\ t[1] = n
      /\ \A i \in 1 .. k : t[i + 1] = c[i]
  BY <1>2, <1>3
<1> HIDE DEF k, t
<1>5. DOMAIN t = 1 .. k + 1 /\ \A i \in 1 .. k + 1 : i = 1 \/ (i - 1 \in 1 .. k /\ t[i] = c[i - 1])
  <2>1. DOMAIN t = 1 .. k + 1
    BY <1>4
  <2>2. ASSUME NEW i \in 1 .. k + 1, i # 1 PROVE i - 1 \in 1 .. k /\ t[i] = c[i - 1]
    <3>1. i - 1 \in 1 .. k /\ (i - 1) + 1 = i
      BY <1>3, <2>2
    <3> QED
      BY <1>4, <3>1
  <2> QED
    BY <2>1, <2>2
<1>6. Range(t) = Range(c) \cup {n}
  <2>1. Range(t) = {t[i] : i \in 1 .. k + 1} /\ Range(c) = {c[i] : i \in 1 .. k}
    BY <1>3, <1>5 DEF Range
  <2>2. \A i \in 1 .. k : i + 1 \in 1 .. k + 1
    BY <1>3
  <2>3. 1 \in 1 .. k + 1
    BY <1>3
  <2> QED
    BY <1>4, <1>5, <2>1, <2>2, <2>3
<1>7. \A i \in 1 .. k : c[i] # n /\ c[i] \in Cell
  BY <1>2, <1>3 DEF Range, Cell
<1>8. IsInjective(t)
  <2> SUFFICES ASSUME NEW i \in 1 .. k + 1, NEW j \in 1 .. k + 1, t[i] = t[j] PROVE i = j
    BY <1>5 DEF IsInjective
  <2>1. CASE i = 1 \/ j = 1
    BY <1>4, <1>5, <1>7, <2>1
  <2>2. CASE i # 1 /\ j # 1
    <3>1. i - 1 \in 1 .. k /\ j - 1 \in 1 .. k /\ c[i - 1] = c[j - 1]
      BY <1>5, <2>2
    <3>2. i - 1 = j - 1
      BY <1>2, <1>3, <3>1 DEF IsInjective
    <3> QED
      BY <3>2
  <2> QED
    BY <2>1, <2>2
<1>9. At(NULL, t, 1) = n /\ \A i \in 1 .. k + 1 : At(NULL, t, i + 1) = At(NULL, c, i)
  <2>1. 1 \in 1 .. k + 1
    BY <1>3
  <2>2. \A i \in 1 .. k + 1 : i + 1 \in 1 .. k + 1 <=> i \in 1 .. k
    BY <1>3
  <2> QED
    BY <1>4, <2>1, <2>2 DEF At, k
<1>10. Threaded(heap'.next, NULL, t)
  <2> SUFFICES ASSUME NEW i \in 1 .. k + 1 PROVE heap'.next[t[i]] = At(NULL, t, i + 1)
    BY <1>4 DEF Threaded
  <2>1. CASE i = 1
    BY <1>2, <1>4, <1>9, <2>1
  <2>2. CASE i # 1
    <3>1. i - 1 \in 1 .. k /\ t[i] = c[i - 1] /\ (i - 1) + 1 = i
      BY <1>3, <1>5, <2>2
    <3>2. heap.next[c[i - 1]] = At(NULL, c, i)
      BY <1>2, <3>1 DEF Threaded, k
    <3> QED
      BY <1>7, <1>9, <3>1, <3>2 DEF OneCell
  <2> QED
    BY <2>1, <2>2
<1>11. FreeList(t)'
  BY <1>2, <1>4, <1>6, <1>8, <1>9, <1>10 DEF FreeList
<1>12. \A x \in Spare(seq, held)' : heap'.next[x] # NULL \/ heap'.prev[x] # NULL
  <2>1. ASSUME NEW x \in Spare(seq, held), x # n PROVE heap'.next[x] # NULL \/ heap'.prev[x] # NULL
    <3>1. x \in Cell
      BY PooledNodes DEF Spare, Cell
    <3> QED
      BY <2>1, <3>1 DEF OneCell, PoolInv
  <2> QED
    BY <1>3, <2>1
<1> QED
  BY <1>11, <1>12 DEF PoolInv

\* A node goes from the client to the free list.
LEMMA ReturnKeeps ==
    ASSUME Inv, NEW n \in Node, Return(n)
    PROVE  Inv'
<1>1. /\ op = Idle /\ n \in held /\ n \in Pooled /\ heap' = PushFree(heap, n) /\ fre' = n
      /\ held' = held \ {n}
      /\ UNCHANGED <<nodecount, maxcount, pooled, op, scan, seq>>
  BY DEF Return
<1>2. Types /\ Places /\ PoolInv
  BY DEF Inv
<1>3. n \notin InUse(seq) /\ pooled
  BY <1>1, <1>2 DEF Places
<1>4. OneCell(heap, heap', n) /\ heap'.next[n] = fre /\ heap'.prev[n] = n
  <2>1. heap \in HeapType
    BY <1>2 DEF Types
  <2> QED
    BY <1>1, <1>2, <2>1, PushFreeOneCell
<1>5. Lists(heap', seq, Fit)
  BY <1>1, <1>3, <1>4, NodeStep
<1>6. PoolInv'
  <2>1. \A x \in held' : heap'.next[x] = NULL /\ heap'.prev[x] = NULL
    BY <1>1, <1>2, <1>4 DEF PoolInv, Types, OneCell, Cell
  <2>2. Spare(seq, held)' = Spare(seq, held) \cup {n} /\ n \notin Spare(seq, held)
    BY <1>1, <1>3 DEF Spare
  <2> QED
    BY <1>1, <1>2, <1>3, <1>4, <2>1, <2>2, PoolPushed
<1>7. /\ held' \subseteq Node /\ held' \cap InUse(seq) = {}
      /\ ~pooled' => Pooled \cap (held' \cup InUse(seq)) = {}
      /\ fre' \in Pooled \cup {NULL} /\ pooled' \in BOOLEAN
  BY <1>1, <1>2, <1>3 DEF Types, Places
<1> QED
  BY <1>1, <1>5, <1>6, <1>7, HeldStep

\* The first node f leaves the nodes c, which lead to z.
PoppedTo(z, f, c, t) ==
    /\ t \in Seq(Node) /\ IsInjective(t) /\ Range(t) = Range(c) \ {f} /\ f = c[1] /\ f \in Range(c)
    /\ At(z, t, 1) = At(z, c, 2)
    /\ \A i \in 1 .. Len(t) : /\ t[i] # f /\ t[i] \in Cell /\ i + 1 \in 1 .. Len(c)
                              /\ t[i] = c[i + 1] /\ At(z, t, i + 1) = At(z, c, i + 2)

LEMMA Popped ==
    ASSUME NEW z, NEW c \in Seq(Node), IsInjective(c), NEW f, f = At(z, c, 1), f # z
    PROVE  PoppedTo(z, f, c, Tail(c))
<1> DEFINE k == Len(c)
           t == Tail(c)
<1>1. k \in Nat /\ DOMAIN c = 1 .. k /\ k >= 1 /\ f = c[1] /\ \A i \in 1 .. k : c[i] \in Node
  BY DEF At
<1>2. /\ t \in Seq(Node) /\ Len(t) = k - 1 /\ \A i \in 1 .. k - 1 : t[i] = c[i + 1]
  <2>1. c # <<>>
    BY <1>1
  <2> QED
    BY <1>1, <2>1
<1> HIDE DEF t, k
<1>3. DOMAIN t = 1 .. k - 1 /\ \A i \in 1 .. k - 1 : i + 1 \in 1 .. k /\ i + 1 # 1
  BY <1>1, <1>2
<1>4. \A i, j \in 1 .. k : c[i] = c[j] => i = j
  BY <1>1 DEF IsInjective
<1>5. \A i \in 1 .. k - 1 : t[i] # f /\ t[i] \in Cell
  <2>1. 1 \in 1 .. k
    BY <1>1
  <2> QED
    BY <1>1, <1>2, <1>3, <1>4, <2>1 DEF Cell
<1>6. IsInjective(t)
  <2> SUFFICES ASSUME NEW i \in 1 .. k - 1, NEW j \in 1 .. k - 1, t[i] = t[j] PROVE i = j
    BY <1>3 DEF IsInjective
  <2>1. i + 1 = j + 1
    BY <1>2, <1>3, <1>4
  <2> QED
    BY <2>1
<1>7. Range(t) = Range(c) \ {f} /\ f \in Range(c)
  <2>1. Range(t) = {t[i] : i \in 1 .. k - 1} /\ Range(c) = {c[i] : i \in 1 .. k}
    BY <1>1, <1>3 DEF Range
  <2>2. ASSUME NEW i \in 1 .. k, c[i] # f PROVE c[i] \in Range(t)
    <3>1. i - 1 \in 1 .. k - 1 /\ (i - 1) + 1 = i
      BY <1>1, <2>2
    <3> QED
      BY <1>2, <2>1, <3>1
  <2>3. \A i \in 1 .. k - 1 : t[i] \in Range(c) /\ t[i] # f
    BY <1>2, <1>3, <1>5, <2>1
  <2>4. 1 \in 1 .. k
    BY <1>1
  <2> QED
    BY <1>1, <2>1, <2>2, <2>3, <2>4
<1>8. \A i \in 1 .. k : At(z, t, i) = At(z, c, i + 1)
  <2>1. \A i \in 1 .. k : i \in 1 .. k - 1 <=> i + 1 \in 1 .. k
    BY <1>1
  <2>2. Len(t) = k - 1 /\ Len(c) = k
    BY <1>2 DEF k
  <2> QED
    BY <1>2, <2>1, <2>2 DEF At
<1>9. ASSUME NEW i \in 1 .. k - 1 PROVE At(z, t, i + 1) = At(z, c, i + 2)
  <2>1. i + 1 \in 1 .. k /\ (i + 1) + 1 = i + 2
    BY <1>1
  <2> QED
    BY <1>8, <2>1
<1>10. At(z, t, 1) = At(z, c, 2)
  <2>1. 1 \in 1 .. k /\ 1 + 1 = 2
    BY <1>1
  <2> QED
    BY <1>8, <2>1
<1>11. PoppedTo(z, f, c, t)
  BY <1>1, <1>2, <1>3, <1>5, <1>6, <1>7, <1>9, <1>10 DEF PoppedTo, k
<1> QED
  BY <1>11 DEF t

LEMMA BorrowKeeps ==
    ASSUME Inv, Borrow
    PROVE  Inv'
<1>1. /\ op = Idle /\ pooled /\ fre # NULL /\ fre' = heap.next[fre] /\ heap' = Clear(heap, fre)
      /\ held' = held \cup {fre}
      /\ UNCHANGED <<nodecount, maxcount, pooled, op, scan, seq>>
  BY DEF Borrow
<1>2. Types /\ Places /\ PoolInv
  BY DEF Inv
<1>3. PICK c : FreeList(c)
  BY <1>1, <1>2 DEF PoolInv
<1>4. /\ c \in Seq(Node) /\ IsInjective(c) /\ Range(c) = Spare(seq, held)
      /\ fre = At(NULL, c, 1) /\ Threaded(heap.next, NULL, c)
  BY <1>3 DEF FreeList
<1> DEFINE t == Tail(c)
<1>5. PoppedTo(NULL, fre, c, t)
  BY <1>1, <1>4, Popped
<1> HIDE DEF t
<1>6. /\ t \in Seq(Node) /\ IsInjective(t) /\ Range(t) = Range(c) \ {fre}
      /\ fre = c[1] /\ fre \in Range(c) /\ At(NULL, t, 1) = At(NULL, c, 2)
      /\ \A i \in 1 .. Len(t) : /\ t[i] # fre /\ t[i] \in Cell /\ i + 1 \in 1 .. Len(c)
                                /\ t[i] = c[i + 1] /\ At(NULL, t, i + 1) = At(NULL, c, i + 2)
  BY <1>5 DEF PoppedTo
<1>7. /\ fre \in Node /\ fre \in Pooled /\ fre \notin InUse(seq) /\ fre \notin held
      /\ fre \in Spare(seq, held) /\ fre \in Cell
  BY <1>4, <1>6, PooledNodes DEF Spare, Cell
<1>8. OneCell(heap, heap', fre) /\ heap'.next[fre] = NULL /\ heap'.prev[fre] = NULL
  <2>1. heap \in HeapType
    BY <1>2 DEF Types
  <2> QED
    BY <1>1, <1>7, <2>1, ClearOneCell
<1>9. Lists(heap', seq, Fit)
  BY <1>1, <1>7, <1>8, NodeStep
<1>10. fre' = At(NULL, t, 1)
  <2>1. 1 \in 1 .. Len(c) /\ 1 + 1 = 2
    BY <1>1, <1>4 DEF At
  <2>2. heap.next[c[1]] = At(NULL, c, 1 + 1)
    BY <1>4, <2>1 DEF Threaded
  <2> QED
    BY <1>1, <1>6, <2>1, <2>2
<1>11. Spare(seq, held)' = Spare(seq, held) \ {fre}
  BY <1>1, <1>7 DEF Spare
<1>12. Threaded(heap'.next, NULL, t)
  <2> SUFFICES ASSUME NEW i \in 1 .. Len(t) PROVE heap'.next[t[i]] = At(NULL, t, i + 1)
    BY DEF Threaded
  <2>1. Len(t) \in Nat /\ (i + 1) + 1 = i + 2
    BY <1>6
  <2>2. heap.next[c[i + 1]] = At(NULL, c, (i + 1) + 1)
    BY <1>4, <1>6 DEF Threaded
  <2>3. heap'.next[t[i]] = heap.next[t[i]]
    BY <1>6, <1>8 DEF OneCell
  <2> QED
    BY <1>6, <2>1, <2>2, <2>3
<1>13. FreeList(t)'
  BY <1>4, <1>6, <1>10, <1>11, <1>12 DEF FreeList
<1>14. PoolInv'
  <2>1. \A x \in held' : heap'.next[x] = NULL /\ heap'.prev[x] = NULL
    BY <1>1, <1>2, <1>8 DEF PoolInv, Types, OneCell, Cell
  <2>2. \A x \in Spare(seq, held)' : heap'.next[x] # NULL \/ heap'.prev[x] # NULL
    <3>1. \A x \in Spare(seq, held)' : x \in Spare(seq, held) /\ x # fre /\ x \in Cell
      BY <1>11, PooledNodes DEF Spare, Cell
    <3> QED
      BY <1>1, <1>2, <1>8, <3>1 DEF PoolInv, OneCell
  <2> QED
    BY <1>13, <2>1, <2>2 DEF PoolInv
<1>15. /\ held' \subseteq Node /\ held' \cap InUse(seq) = {}
       /\ ~pooled' => Pooled \cap (held' \cup InUse(seq)) = {}
       /\ pooled' \in BOOLEAN
  BY <1>1, <1>2, <1>7 DEF Types, Places
<1>16. fre' \in Pooled \cup {NULL}
  <2>1. At(NULL, t, 1) \in Range(t) \cup {NULL}
    BY <1>6 DEF At, Range
  <2> QED
    BY <1>4, <1>6, <1>10, <2>1 DEF Spare
<1> QED
  BY <1>1, <1>9, <1>14, <1>15, <1>16, HeldStep

\* Only nodes of the pool are written, which are free.
LEMMA PoolStep ==
    ASSUME Inv, op = Idle, Pooled \cap (held \cup InUse(seq)) = {}, heap' \in HeapType,
           \A c \in Cell : c \notin Pooled => heap'.next[c] = heap.next[c] /\ heap'.prev[c] = heap.prev[c]
    PROVE  /\ Lists(heap', seq, Fit)
           /\ \A n \in held : heap'.next[n] = NULL /\ heap'.prev[n] = NULL
<1>1. Lists(heap, seq, Fit)
  BY CoreLists DEF Inv
<1>2. held \subseteq Node /\ \A n \in held : heap.next[n] = NULL /\ heap.prev[n] = NULL
  BY DEF Inv, PoolInv, Types
<1>3. \A c \in Fit \cup InUse(seq) : c \in Cell /\ c \notin Pooled
  <2>1. Fit \subseteq Header /\ \A l \in Header : l \in Cell /\ l \notin Node
    BY ListAssumption DEF Fit, Cell
  <2>2. \A l \in Header : Range(seq[l]) \subseteq Node
    BY <1>1 DEF Lists, Range
  <2>3. InUse(seq) \subseteq Node
    BY <2>2 DEF InUse
  <2> QED
    BY <2>1, <2>3, PooledNodes DEF Cell
<1>4. Lists(heap', seq, Fit)
  BY <1>1, <1>3, ListsFrame
<1> QED
  BY <1>2, <1>4 DEF Cell

LEMMA PoolCreateKeeps ==
    ASSUME Inv, NEW junk \in {NULL} \cup Pooled, PoolCreate(junk)
    PROVE  Inv'
<1> DEFINE k == Len(Pool)
           h == [heap EXCEPT !.prev = [c \in Cell |-> IF c \in Pooled THEN junk ELSE @[c]]]
<1>1. /\ op = Idle /\ ~pooled /\ heap' = Chain(h) /\ fre' = Pool[1] /\ pooled' = TRUE
      /\ UNCHANGED <<nodecount, maxcount, op, scan, seq, held>>
  BY DEF PoolCreate, Quiet
<1>2. Types /\ Places /\ PoolInv
  BY DEF Inv
<1>3. Pooled \cap (held \cup InUse(seq)) = {}
  BY <1>1, <1>2 DEF Places
<1>4. /\ Pool \in Seq(Node) /\ IsInjective(Pool) /\ k \in Nat /\ k > 0 /\ DOMAIN Pool = 1 .. k
      /\ \A i, j \in 1 .. k : Pool[i] = Pool[j] => i = j
      /\ \A i \in 1 .. k : Pool[i] \in Node /\ Pool[i] \in Pooled
      /\ \A n \in Pooled : \E i \in 1 .. k : n = Pool[i]
  <2>1. Pool \in Seq(Node) /\ Len(Pool) > 0 /\ IsInjective(Pool)
    BY ListAssumption
  <2>2. k \in Nat /\ k > 0 /\ DOMAIN Pool = 1 .. k /\ \A i \in 1 .. k : Pool[i] \in Node
    BY <2>1
  <2>3. \A i, j \in 1 .. k : Pool[i] = Pool[j] => i = j
    BY <2>1, <2>2 DEF IsInjective
  <2>4. Pooled = {Pool[i] : i \in 1 .. k}
    BY <2>2 DEF Pooled, Range
  <2> QED
    BY <2>1, <2>2, <2>3, <2>4
<1>5. junk \in Cell \cup {NULL} /\ heap \in HeapType /\ Pooled \subseteq Cell /\ NULL \notin Node
  <2>1. NULL \notin Node
    BY ListAssumption DEF Cell
  <2> QED
    BY <1>2, <2>1, PooledNodes DEF Types, Cell
<1>6. /\ h \in HeapType /\ h.next = heap.next
      /\ \A c \in Cell : h.prev[c] = IF c \in Pooled THEN junk ELSE heap.prev[c]
  BY <1>5 DEF HeapType
<1> HIDE DEF h, k
<1> DEFINE succ(c) == IF \E i \in 1 .. k - 1 : Pool[i] = c
                      THEN Pool[(CHOOSE i \in DOMAIN Pool : Pool[i] = c) + 1]
                      ELSE IF c \in Pooled THEN NULL ELSE h.next[c]
<1>7. \A i \in 1 .. k : (CHOOSE j \in DOMAIN Pool : Pool[j] = Pool[i]) = i
  BY <1>4
<1>8. \A i \in 1 .. k - 1 : i \in 1 .. k /\ i + 1 \in 1 .. k /\ succ(Pool[i]) = Pool[i + 1]
  <2> SUFFICES ASSUME NEW i \in 1 .. k - 1
               PROVE  i \in 1 .. k /\ i + 1 \in 1 .. k /\ succ(Pool[i]) = Pool[i + 1]
    OBVIOUS
  <2>1. i \in 1 .. k /\ i + 1 \in 1 .. k
    BY <1>4
  <2> QED
    BY <1>7, <2>1
<1>9. k \in 1 .. k /\ 1 \in 1 .. k /\ succ(Pool[k]) = NULL
  <2>1. k \in 1 .. k /\ 1 \in 1 .. k /\ \A i \in 1 .. k - 1 : i \in 1 .. k /\ i # k
    BY <1>4
  <2> QED
    BY <1>4, <2>1
<1>10. \A c \in Cell : c \notin Pooled => succ(c) = heap.next[c]
  <2>1. \A i \in 1 .. k - 1 : i \in 1 .. k
    BY <1>4
  <2> QED
    BY <1>4, <1>6, <2>1
<1>11. \A c \in Cell : succ(c) \in Cell \cup {NULL}
  <2> SUFFICES ASSUME NEW c \in Cell PROVE succ(c) \in Cell \cup {NULL}
    OBVIOUS
  <2>1. CASE c \in Pooled
    <3>1. PICK i \in 1 .. k : c = Pool[i]
      BY <1>4, <2>1
    <3>2. i = k \/ i \in 1 .. k - 1
      BY <1>4
    <3> QED
      BY <1>4, <1>8, <1>9, <3>1, <3>2 DEF Cell
  <2>2. CASE c \notin Pooled
    BY <1>5, <1>10, <2>2 DEF HeapType
  <2> QED
    BY <2>1, <2>2
<1>12. /\ heap' \in HeapType /\ \A c \in Cell : heap'.next[c] = succ(c)
       /\ \A c \in Cell : heap'.prev[c] = IF c = Pool[k] THEN Pool[1] ELSE h.prev[c]
  <2> DEFINE f == [c \in Cell |-> succ(c)]
  <2>1. Chain(h) = [h EXCEPT !.next = f, !.prev[Pool[k]] = Pool[1]]
    BY DEF Chain, k
  <2>2. f \in [Cell -> Cell \cup {NULL}] /\ \A c \in Cell : f[c] = succ(c)
    BY <1>11
  <2>3. Pool[k] \in Cell /\ Pool[1] \in Cell
    BY <1>4, <1>9 DEF Cell
  <2> HIDE DEF f, succ
  <2>4. heap' = [h EXCEPT !.next = f, !.prev[Pool[k]] = Pool[1]]
    BY <1>1, <2>1
  <2>5. heap'.next = f /\ heap'.prev = [h.prev EXCEPT ![Pool[k]] = Pool[1]]
    BY <1>6, <2>4 DEF HeapType
  <2>6. h.prev \in [Cell -> Cell \cup {NULL}]
    BY <1>6 DEF HeapType
  <2>7. /\ heap'.prev \in [Cell -> Cell \cup {NULL}]
        /\ \A c \in Cell : heap'.prev[c] = IF c = Pool[k] THEN Pool[1] ELSE h.prev[c]
    BY <2>3, <2>5, <2>6
  <2>8. heap' \in HeapType
    BY <1>6, <2>2, <2>4, <2>5, <2>7 DEF HeapType
  <2> QED
    BY <2>2, <2>5, <2>7, <2>8
<1> HIDE DEF succ
<1>13. \A c \in Cell : c \notin Pooled => heap'.next[c] = heap.next[c] /\ heap'.prev[c] = heap.prev[c]
  BY <1>4, <1>6, <1>9, <1>10, <1>12
<1>14. /\ Lists(heap', seq, Fit)
       /\ \A n \in held : heap'.next[n] = NULL /\ heap'.prev[n] = NULL
  BY <1>1, <1>3, <1>12, <1>13, PoolStep
<1>15. Spare(seq, held)' = Pooled
  BY <1>1, <1>3 DEF Spare
<1>16. FreeList(Pool)'
  <2>1. Threaded(heap'.next, NULL, Pool)
    <3> SUFFICES ASSUME NEW i \in 1 .. k PROVE heap'.next[Pool[i]] = At(NULL, Pool, i + 1)
      BY DEF Threaded, k
    <3>1. i = k \/ i \in 1 .. k - 1
      BY <1>4
    <3>2. CASE i = k
      <4>1. k + 1 \notin 1 .. k /\ Pool[k] \in Cell
        BY <1>4, <1>5, <1>9
      <4> QED
        BY <1>9, <1>12, <3>2, <4>1 DEF At, k
    <3>3. CASE i \in 1 .. k - 1
      <4>1. Pool[i] \in Cell
        BY <1>4, <1>5, <1>8, <3>3
      <4> QED
        BY <1>8, <1>12, <3>3, <4>1 DEF At, k
    <3> QED
      BY <3>1, <3>2, <3>3
  <2>2. Range(Pool) = Spare(seq, held)'
    BY <1>15 DEF Pooled
  <2>3. fre' = At(NULL, Pool, 1)
    BY <1>1, <1>9 DEF At, k
  <2> QED
    BY <1>4, <2>1, <2>2, <2>3 DEF FreeList
<1>17. \A n \in Spare(seq, held)' : heap'.next[n] # NULL \/ heap'.prev[n] # NULL
  <2> SUFFICES ASSUME NEW i \in 1 .. k PROVE heap'.next[Pool[i]] # NULL \/ heap'.prev[Pool[i]] # NULL
    BY <1>4, <1>15
  <2>1. i = k \/ i \in 1 .. k - 1
    BY <1>4
  <2>2. \A j \in 1 .. k : Pool[j] \in Cell /\ Pool[j] # NULL
    BY <1>4, <1>5
  <2>3. CASE i = k
    BY <1>9, <1>12, <2>2, <2>3
  <2>4. CASE i \in 1 .. k - 1
    BY <1>8, <1>12, <2>2, <2>4
  <2> QED
    BY <2>1, <2>3, <2>4
<1>18. PoolInv'
  BY <1>1, <1>14, <1>16, <1>17 DEF PoolInv
<1>19. /\ held' \subseteq Node /\ held' \cap InUse(seq) = {} /\ pooled' = TRUE /\ pooled' \in BOOLEAN
       /\ fre' \in Pooled \cup {NULL}
  BY <1>1, <1>2, <1>4, <1>9 DEF Types, Places
<1> QED
  BY <1>1, <1>14, <1>18, <1>19, HeldStep

LEMMA PoolDestroyKeeps ==
    ASSUME Inv, PoolDestroy
    PROVE  Inv'
<1>1. /\ op = Idle /\ pooled' = FALSE /\ fre' = NULL
      /\ Pooled \cap (held \cup UNION {Members(l) : l \in List}) = {}
      /\ heap' = [next |-> [c \in Cell |-> IF c \in Pooled THEN NULL ELSE heap.next[c]],
                  prev |-> [c \in Cell |-> IF c \in Pooled THEN NULL ELSE heap.prev[c]]]
      /\ UNCHANGED <<nodecount, maxcount, op, scan, seq, held>>
  BY DEF PoolDestroy, Quiet
<1>2. Types /\ Places
  BY DEF Inv
<1>3. Pooled \cap (held \cup InUse(seq)) = {}
  BY <1>1, IdleFacts
<1>4. heap' \in HeapType
  <2> DEFINE f == [c \in Cell |-> IF c \in Pooled THEN NULL ELSE heap.next[c]]
             g == [c \in Cell |-> IF c \in Pooled THEN NULL ELSE heap.prev[c]]
  <2>1. f \in [Cell -> Cell \cup {NULL}] /\ g \in [Cell -> Cell \cup {NULL}]
    BY <1>2 DEF Types, HeapType
  <2>2. heap' = [next |-> f, prev |-> g]
    BY <1>1
  <2> HIDE DEF f, g
  <2> QED
    BY <2>1, <2>2 DEF HeapType
<1>5. \A c \in Cell : c \notin Pooled => heap'.next[c] = heap.next[c] /\ heap'.prev[c] = heap.prev[c]
  BY <1>1
<1>6. /\ Lists(heap', seq, Fit)
      /\ \A n \in held : heap'.next[n] = NULL /\ heap'.prev[n] = NULL
  BY <1>1, <1>3, <1>4, <1>5, PoolStep
<1>7. PoolInv'
  BY <1>1, <1>6 DEF PoolInv
<1>8. /\ held' \subseteq Node /\ held' \cap InUse(seq) = {} /\ pooled' = FALSE /\ pooled' \in BOOLEAN
      /\ fre' \in Pooled \cup {NULL} /\ Pooled \cap (held' \cup InUse(seq)) = {}
  BY <1>1, <1>2, <1>3 DEF Types, Places
<1> QED
  BY <1>1, <1>6, <1>7, <1>8, HeldStep

-----------------------------------------------------------------------------
(***************************************************************************)
(* Insertion and deletion, also by the callback of list_process.           *)
(***************************************************************************)
Behind(t, nx, n) == \E i, j \in DOMAIN t : i < j /\ t[i] = nx /\ t[j] = n

LEMMA SplicedOne ==
    ASSUME NEW s \in Seq(Node), NEW n \in Node, NEW p \in 1 .. Len(s) + 1
    PROVE  /\ Spliced(s, p, <<n>>) \in Seq(Node) /\ Len(Spliced(s, p, <<n>>)) = Len(s) + 1
           /\ \A x \in 1 .. Len(s) + 1 :
                 Spliced(s, p, <<n>>)[x] = IF x < p THEN s[x] ELSE IF x = p THEN n ELSE s[x - 1]
<1> DEFINE m == <<n>>
           r == Spliced(s, p, m)
<1>1. m \in Seq(Node) /\ Len(m) = 1 /\ m[1] = n /\ Len(s) \in Nat /\ p \in Nat
  OBVIOUS
<1> HIDE DEF m
<1>2. /\ r \in Seq(Node) /\ Len(r) = Len(s) + Len(m)
      /\ \A x \in 1 .. Len(s) + Len(m) :
            r[x] = IF x < p THEN s[x] ELSE IF x < p + Len(m) THEN m[x - p + 1] ELSE s[x - Len(m)]
  BY <1>1, SplicedSeq
<1> HIDE DEF r
<1>3. ASSUME NEW x \in 1 .. Len(s) + 1
      PROVE  r[x] = IF x < p THEN s[x] ELSE IF x = p THEN n ELSE s[x - 1]
  <2>1. x < p + 1 <=> (x < p \/ x = p)
    BY <1>1
  <2>2. x = p => x - p + 1 = 1
    BY <1>1
  <2>3. ~(x < p) \/ x # p
    BY <1>1
  <2> QED
    BY <1>1, <1>2, <2>1, <2>2, <2>3
<1> QED
  BY <1>1, <1>2, <1>3 DEF r, m

LEMMA AheadInserted ==
    ASSUME NEW l, NEW s, OnRing(l, s), NEW n \in Node, n \notin Range(s), NEW p \in 1 .. Len(s) + 1,
           NEW t, t = Spliced(s, p, <<n>>), NEW nx, NEW todo, Ahead(l, s, nx, todo)
    PROVE  Ahead(l, t, nx, IF Behind(t, nx, n) THEN todo \cup {n} ELSE todo)
<1> DEFINE k == Len(s)
<1>1. /\ s \in Seq(Node) /\ k \in Nat /\ p \in Nat /\ 1 <= p /\ p <= k + 1 /\ DOMAIN s = 1 .. k
      /\ l \notin Node /\ \A x \in 1 .. k : s[x] \in Node /\ s[x] # n
      /\ \A x, y \in 1 .. k : s[x] = s[y] => x = y
  <2>1. s \in Seq(Node) /\ IsInjective(s) /\ l \notin Node
    BY RingPlaces DEF OnRing
  <2>2. k \in Nat /\ DOMAIN s = 1 .. k /\ \A x \in 1 .. k : s[x] \in Node
    BY <2>1
  <2> QED
    BY <2>1, <2>2 DEF IsInjective, Range
<1>2. /\ Len(t) = k + 1 /\ DOMAIN t = 1 .. k + 1
      /\ \A x \in 1 .. k + 1 : t[x] = IF x < p THEN s[x] ELSE IF x = p THEN n ELSE s[x - 1]
  <2>1. t \in Seq(Node) /\ Len(t) = Len(s) + 1
    BY <1>1, SplicedOne
  <2>2. \A x \in 1 .. Len(s) + 1 : t[x] = IF x < p THEN s[x] ELSE IF x = p THEN n ELSE s[x - 1]
    BY <1>1, SplicedOne
  <2> QED
    BY <2>1, <2>2
<1>3. PICK i \in 1 .. k + 1 : nx = At(l, s, i) /\ todo = {s[j] : j \in i .. k}
  BY DEF Ahead
<1> HIDE DEF k
<1>4. i \in Nat /\ 1 <= i /\ i <= k + 1
  BY <1>1, <1>3
<1>5. \A x \in 1 .. k + 1 : t[x] = n => x = p
  <2> SUFFICES ASSUME NEW x \in 1 .. k + 1, t[x] = n, x # p PROVE FALSE
    OBVIOUS
  <2>1. (x < p /\ x \in 1 .. k) \/ (~(x < p) /\ x - 1 \in 1 .. k)
    BY <1>1
  <2> QED
    BY <1>1, <1>2, <2>1
<1>6. CASE p <= i
  <2>1. /\ i + 1 \in 1 .. (k + 1) + 1 /\ ~(i + 1 < p) /\ i + 1 # p /\ (i + 1) - 1 = i /\ p \in 1 .. k + 1
    BY <1>1, <1>4, <1>6
  <2>2. nx = At(l, t, i + 1)
    <3>1. i \in 1 .. k <=> i + 1 \in 1 .. k + 1
      BY <1>1, <1>4
    <3> QED
      BY <1>2, <1>3, <2>1, <3>1 DEF At, k
  <2>3. ~ Behind(t, nx, n)
    <3> SUFFICES ASSUME NEW a \in 1 .. k + 1, NEW b \in 1 .. k + 1, a < b, t[a] = nx, t[b] = n
                 PROVE  FALSE
      BY <1>2 DEF Behind
    <3>1. b = p /\ a < p /\ a \in 1 .. k /\ t[a] = s[a]
      BY <1>1, <1>2, <1>5
    <3>2. i \in 1 .. k /\ nx = s[i]
      BY <1>1, <1>3, <3>1 DEF At, k
    <3>3. a = i
      BY <1>1, <3>1, <3>2
    <3> QED
      BY <1>1, <1>4, <1>6, <3>1, <3>3
  <2>4. \A j \in i .. k : j + 1 \in i + 1 .. k + 1 /\ t[j + 1] = s[j]
    <3> SUFFICES ASSUME NEW j \in i .. k PROVE j + 1 \in i + 1 .. k + 1 /\ t[j + 1] = s[j]
      OBVIOUS
    <3>1. j + 1 \in i + 1 .. k + 1 /\ j + 1 \in 1 .. k + 1 /\ ~(j + 1 < p) /\ j + 1 # p /\ (j + 1) - 1 = j
      BY <1>1, <1>4, <1>6
    <3> QED
      BY <1>2, <3>1
  <2>5. \A j \in i + 1 .. k + 1 : j - 1 \in i .. k /\ (j - 1) + 1 = j
    BY <1>1, <1>4
  <2>6. todo = {t[j] : j \in i + 1 .. k + 1}
    BY <1>3, <2>4, <2>5
  <2> QED
    BY <1>2, <2>1, <2>2, <2>3, <2>6 DEF Ahead
<1>7. CASE ~(p <= i)
  <2>1. i \in 1 .. k /\ i \in 1 .. k + 1 /\ i < p /\ p \in 1 .. k + 1
    BY <1>1, <1>4, <1>7
  <2>2. nx = s[i] /\ t[i] = s[i] /\ t[p] = n /\ nx = At(l, t, i)
    <3>1. nx = s[i] /\ t[i] = s[i]
      BY <1>2, <1>3, <2>1 DEF At, k
    <3>2. t[p] = n
      BY <1>1, <1>2, <2>1
    <3> QED
      BY <1>2, <2>1, <3>1, <3>2 DEF At
  <2>3. Behind(t, nx, n)
    BY <1>2, <2>1, <2>2 DEF Behind
  <2>4. ASSUME NEW j \in i .. k PROVE s[j] \in {t[x] : x \in i .. k + 1}
    <3>1. CASE j < p
      <4>1. j \in i .. k + 1 /\ j \in 1 .. k + 1
        BY <1>1, <2>1
      <4> QED
        BY <1>2, <3>1, <4>1
    <3>2. CASE ~(j < p)
      <4>1. j + 1 \in i .. k + 1 /\ j + 1 \in 1 .. k + 1 /\ ~(j + 1 < p) /\ j + 1 # p /\ (j + 1) - 1 = j
        BY <1>1, <2>1, <3>2
      <4>2. t[j + 1] = s[j]
        BY <1>2, <4>1
      <4> QED
        BY <4>1, <4>2
    <3> QED
      BY <3>1, <3>2
  <2>5. n \in {t[x] : x \in i .. k + 1}
    <3>1. p \in i .. k + 1
      BY <1>1, <2>1
    <3> QED
      BY <2>2, <3>1
  <2>6. ASSUME NEW x \in i .. k + 1 PROVE t[x] \in {s[j] : j \in i .. k} \cup {n}
    <3>1. CASE x < p
      <4>1. x \in 1 .. k + 1 /\ x \in i .. k
        BY <1>1, <2>1, <3>1
      <4> QED
        BY <1>2, <3>1, <4>1
    <3>2. CASE x = p
      BY <2>2, <3>2
    <3>3. CASE ~(x < p) /\ x # p
      <4>1. x \in 1 .. k + 1 /\ x - 1 \in i .. k
        BY <1>1, <2>1, <3>3
      <4> QED
        BY <1>2, <3>3, <4>1
    <3> QED
      BY <3>1, <3>2, <3>3
  <2>7. todo \cup {n} = {t[x] : x \in i .. k + 1}
    <3> DEFINE U == {t[x] : x \in i .. k + 1}
    <3>1. \A y \in todo : y \in U
      BY <1>3, <2>4
    <3>2. \A y \in U : y \in todo \cup {n}
      BY <1>3, <2>6
    <3>3. n \in U
      BY <2>5
    <3> HIDE DEF U
    <3>4. todo \cup {n} = U
      BY <3>1, <3>2, <3>3
    <3> QED
      BY <3>4 DEF U
  <2>8. i \in 1 .. (k + 1) + 1
    BY <1>1, <2>1
  <2> QED
    BY <1>2, <2>2, <2>3, <2>7, <2>8 DEF Ahead
<1> QED
  BY <1>6, <1>7

LEMMA AheadRemoved ==
    ASSUME NEW l, NEW s, OnRing(l, s), NEW p \in 1 .. Len(s), NEW n, n = s[p],
           NEW t, t = Without(s, p, p), NEW nx, nx # n, NEW todo, Ahead(l, s, nx, todo)
    PROVE  Ahead(l, t, nx, todo \ {n})
<1> DEFINE k == Len(s)
<1>1. /\ s \in Seq(Node) /\ k \in Nat /\ p \in Nat /\ 1 <= p /\ p <= k
      /\ \A x, y \in 1 .. k : s[x] = s[y] => x = y
  <2>1. s \in Seq(Node) /\ IsInjective(s)
    BY DEF OnRing
  <2>2. k \in Nat /\ DOMAIN s = 1 .. k
    BY <2>1
  <2> QED
    BY <2>1, <2>2 DEF IsInjective
<1>2. Len(t) = k - 1 /\ \A x \in 1 .. k - 1 : t[x] = IF x < p THEN s[x] ELSE s[x + 1]
  <2>1. p \in p .. Len(s) /\ p - p + 1 = 1
    BY <1>1
  <2>0. /\ Len(Without(s, p, p)) = Len(s) - (p - p + 1)
        /\ \A x \in 1 .. Len(s) - (p - p + 1) :
              Without(s, p, p)[x] = IF x < p THEN s[x] ELSE s[x + (p - p + 1)]
    BY <1>1, <2>1, WithoutSlice
  <2>2. Len(t) = Len(s) - 1
    BY <2>0, <2>1
  <2>3. \A x \in 1 .. Len(s) - 1 : t[x] = IF x < p THEN s[x] ELSE s[x + 1]
    BY <2>0, <2>1
  <2> QED
    BY <2>2, <2>3
<1>3. PICK i \in 1 .. k + 1 : nx = At(l, s, i) /\ todo = {s[j] : j \in i .. k}
  BY DEF Ahead
<1> HIDE DEF k
<1>4. i \in Nat /\ 1 <= i /\ i <= k + 1 /\ i # p
  <2>1. p \in 1 .. k
    BY <1>1
  <2> QED
    BY <1>1, <1>3, <2>1 DEF At, k
<1>5. CASE p < i
  <2>1. i - 1 \in 1 .. (k - 1) + 1 /\ (i - 1) + 1 = i /\ ~(i - 1 < p)
    BY <1>1, <1>4, <1>5
  <2>2. nx = At(l, t, i - 1)
    <3>1. i \in 1 .. k <=> i - 1 \in 1 .. k - 1
      BY <1>1, <1>4, <1>5
    <3> QED
      BY <1>2, <1>3, <2>1, <3>1 DEF At, k
  <2>3. \A j \in i .. k : j - 1 \in i - 1 .. k - 1 /\ t[j - 1] = s[j] /\ s[j] # n
    <3> SUFFICES ASSUME NEW j \in i .. k
                 PROVE  j - 1 \in i - 1 .. k - 1 /\ t[j - 1] = s[j] /\ s[j] # n
      OBVIOUS
    <3>1. /\ j - 1 \in i - 1 .. k - 1 /\ j - 1 \in 1 .. k - 1 /\ ~(j - 1 < p) /\ (j - 1) + 1 = j
          /\ j \in 1 .. k /\ p \in 1 .. k /\ j # p
      BY <1>1, <1>4, <1>5
    <3> QED
      BY <1>1, <1>2, <3>1
  <2>4. \A j \in i - 1 .. k - 1 : j + 1 \in i .. k /\ (j + 1) - 1 = j
    BY <1>1, <1>4
  <2>5. todo \ {n} = {t[j] : j \in i - 1 .. k - 1}
    BY <1>3, <2>3, <2>4
  <2> QED
    BY <1>2, <2>1, <2>2, <2>5 DEF Ahead
<1>6. CASE ~(p < i)
  <2>1. i < p /\ i \in 1 .. k /\ i \in 1 .. k - 1 /\ i \in 1 .. (k - 1) + 1
    BY <1>1, <1>4, <1>6
  <2>2. nx = At(l, t, i)
    BY <1>2, <1>3, <2>1 DEF At, k
  <2>3. ASSUME NEW j \in i .. k, s[j] # n PROVE s[j] \in {t[x] : x \in i .. k - 1}
    <3>1. CASE j < p
      <4>1. j \in i .. k - 1 /\ j \in 1 .. k - 1
        BY <1>1, <2>1, <3>1
      <4> QED
        BY <1>2, <3>1, <4>1
    <3>2. CASE ~(j < p)
      <4>1. j # p
        BY <2>3
      <4>2. j - 1 \in i .. k - 1 /\ j - 1 \in 1 .. k - 1 /\ ~(j - 1 < p) /\ (j - 1) + 1 = j
        BY <1>1, <2>1, <3>2, <4>1
      <4>3. t[j - 1] = s[j]
        BY <1>2, <4>2
      <4> QED
        BY <4>2, <4>3
    <3> QED
      BY <3>1, <3>2
  <2>4. ASSUME NEW x \in i .. k - 1 PROVE t[x] \in {s[j] : j \in i .. k} /\ t[x] # n
    <3>0. p \in 1 .. k /\ x \in 1 .. k - 1
      BY <1>1, <2>1
    <3>1. CASE x < p
      <4>1. x \in 1 .. k /\ x # p /\ x \in i .. k
        BY <1>1, <2>1, <3>1
      <4> QED
        BY <1>1, <1>2, <3>0, <3>1, <4>1
    <3>2. CASE ~(x < p)
      <4>1. x + 1 \in 1 .. k /\ x + 1 # p /\ x + 1 \in i .. k
        BY <1>1, <2>1, <3>2
      <4> QED
        BY <1>1, <1>2, <3>0, <3>2, <4>1
    <3> QED
      BY <3>1, <3>2
  <2>5. todo \ {n} = {t[x] : x \in i .. k - 1}
    BY <1>3, <2>3, <2>4
  <2> QED
    BY <1>2, <2>1, <2>2, <2>5 DEF Ahead
<1> QED
  BY <1>5, <1>6

\* What an insertion or a deletion of l leaves alone.
LEMMA CallStep ==
    ASSUME Inv, op = Idle, NEW l \in List, maxcount[l] > 0, NEW M,
           Lists(heap', seq', Fit), UNCHANGED <<maxcount, fre, pooled, op>>,
           NEW x \in Nat, nodecount' = [nodecount EXCEPT ![l] = x],
           Len(seq'[l]) = x, x <= maxcount[l], \A k \in Header : k # l => seq'[k] = seq[k],
           Elsewhere(heap, heap', M), M \subseteq InUse(seq) \cup InUse(seq'),
           held' \cup InUse(seq') = held \cup InUse(seq), held' \cap InUse(seq') = {},
           \A n \in held' : n \in held \/ (heap'.next[n] = NULL /\ heap'.prev[n] = NULL),
           ScanInv'
    PROVE  Inv'
<1>1. Types /\ Places /\ Counts /\ PoolInv /\ SortInv
  BY DEF Inv
<1>2. /\ Emptying = {} /\ Emptying' = {} /\ Fit = {k \in Header : maxcount[k] > 0}
      /\ l \in Header
  <2>1. Emptying' = Emptying
    BY DEF Emptying
  <2> QED
    BY <2>1, IdleFacts DEF Header
<1>3. InUse(seq) \subseteq Node /\ InUse(seq') \subseteq Node
  <2>1. Lists(heap, seq, Fit)
    BY CoreLists DEF Inv
  <2> QED
    BY <1>2, <2>1, ListsRings
<1>4. held' \subseteq Node
  BY <1>1, <1>3 DEF Types
<1>5. /\ nodecount' \in [Header -> Nat] /\ \A k \in Header : nodecount'[k] = IF k = l THEN x ELSE nodecount[k]
  BY <1>1, <1>2 DEF Types
<1>6. heap' \in HeapType /\ seq' \in [Header -> Seq(Node)]
  BY DEF Lists
<1>7. Types'
  BY <1>1, <1>4, <1>5, <1>6 DEF Types
<1>8. Rings' /\ Apart(seq')
  BY <1>2, ListsCore
<1>9. Places'
  BY <1>1, <1>2, <1>8 DEF Places
<1>10. Counts'
  BY <1>1, <1>2, <1>5 DEF Counts
<1>11. PoolInv'
  <2>1. Spare(seq, held)' = Spare(seq, held)
    BY DEF Spare
  <2>2. \A n \in Spare(seq, held) : n \in Node /\ n \notin M
    BY PooledNodes DEF Spare
  <2>3. \A n \in Spare(seq, held) : heap'.next[n] = heap.next[n] /\ heap'.prev[n] = heap.prev[n]
    BY <2>2 DEF Elsewhere
  <2>4. \A n \in held : n \in held' => n \in Node /\ n \notin M
    BY <1>1, <1>4 DEF Places
  <2>5. \A n \in held' : heap'.next[n] = NULL /\ heap'.prev[n] = NULL
    BY <1>1, <2>4 DEF Elsewhere, PoolInv
  <2> QED
    BY <1>1, <2>1, <2>3, <2>5, PoolFrame
<1>12. Shape' /\ EmptyInv' /\ SortInv'
  BY <1>1, IdleRest
<1> QED
  BY <1>7, <1>8, <1>9, <1>10, <1>11, <1>12 DEF Inv

LEMMA ScanFrame ==
    ASSUME ScanInv, op' = op, maxcount' = maxcount, scan' = scan,
           \A l \in List : l = scan.list => seq'[l] = seq[l]
    PROVE  ScanInv'
BY DEF ScanInv, Members, Ahead

LEMMA InsertKeeps ==
    ASSUME Inv, NEW l \in List, NEW n \in Node, NEW p \in 1 .. Len(seq[l]) + 1,
           Insert(l, n, At(l, seq[l], p - 1), At(l, seq[l], p), p)
    PROVE  Inv'
<1>1. /\ op = Idle /\ maxcount[l] > 0 /\ n \in held /\ nodecount[l] # maxcount[l]
      /\ heap' = InsertPtrs(heap, n, At(l, seq[l], p - 1), At(l, seq[l], p))
      /\ nodecount' = [nodecount EXCEPT ![l] = @ + 1]
      /\ seq' = [seq EXCEPT ![l] = InsertAt(@, p, n)]
      /\ held' = held \ {n}
      /\ scan' = Expecting(l, seq'[l], n)
      /\ UNCHANGED <<maxcount, fre, pooled, op>>
  BY DEF Insert, Live, Full
<1>2. Types /\ Places /\ Counts /\ ScanInv /\ l \in Header
  BY DEF Inv, Header
<1>3. Lists(heap, seq, Fit) /\ l \in Fit /\ Emptying = {}
  <2>1. Lists(heap, seq, Fit)
    BY CoreLists DEF Inv
  <2> QED
    BY <1>1, <1>2, <2>1, IdleFacts
<1>4. n \notin InUse(seq)
  BY <1>1, <1>2 DEF Places
<1>5. Becomes(seq, seq', l, Spliced(seq[l], p, <<n>>))
  BY <1>1, InsertIsSpliced DEF Becomes
<1>6. InsertDone(heap, seq, Fit, l, p, n, seq', heap')
  BY <1>1, <1>3, <1>4, <1>5, Inserted
<1>7. Lists(heap', seq', Fit) /\ InUse(seq') = InUse(seq) \cup {n} /\ Elsewhere(heap, heap', InUse(seq'))
  BY <1>6 DEF InsertDone
<1>8. /\ seq[l] \in Seq(Node) /\ seq'[l] = Spliced(seq[l], p, <<n>>)
      /\ \A k \in Header : k # l => seq'[k] = seq[k]
  BY <1>2, <1>5 DEF Types, Becomes
<1>9. Len(seq'[l]) = Len(seq[l]) + 1 /\ Len(seq[l]) \in Nat
  BY <1>8, SplicedOne
<1>10. nodecount[l] = Len(seq[l]) /\ nodecount[l] <= maxcount[l] /\ maxcount[l] \in Nat
  BY <1>2, <1>3 DEF Counts, Types
<1> DEFINE x == Len(seq[l]) + 1
<1>11. x \in Nat /\ nodecount' = [nodecount EXCEPT ![l] = x] /\ x <= maxcount[l] /\ Len(seq'[l]) = x
  BY <1>1, <1>9, <1>10
<1>12. /\ held' \cup InUse(seq') = held \cup InUse(seq) /\ held' \cap InUse(seq') = {}
       /\ held' \subseteq held
  BY <1>1, <1>2, <1>7 DEF Places
<1>13. OnRing(l, seq[l]) /\ OnRing(l, seq'[l]) /\ n \notin Range(seq[l])
  BY <1>2, <1>3, <1>4, <1>7, ListsRings
<1>14. ScanInv'
  <2>1. CASE scan.list # l
    <3>1. scan' = scan
      BY <1>1, <2>1 DEF Expecting
    <3> QED
      BY <1>1, <1>2, <1>8, <2>1, <3>1, ScanFrame DEF Header
  <2>2. CASE scan.list = l
    <3>1. scan # NoScan
      BY <1>2, <2>2, ListAssumption DEF NoScan, Cell
    <3>2. /\ scan = [list |-> l, next |-> scan.next, seen |-> scan.seen, todo |-> scan.todo]
          /\ scan.seen \subseteq Range(seq[l]) /\ scan.seen \cap scan.todo = {}
          /\ Ahead(l, seq[l], scan.next, scan.todo)
      BY <1>2, <2>2, <3>1 DEF ScanInv, Members
    <3> DEFINE todo == IF Behind(seq'[l], scan.next, n) THEN scan.todo \cup {n} ELSE scan.todo
    <3>3. Ahead(l, seq'[l], scan.next, todo)
      BY <1>8, <1>13, <3>2, AheadInserted
    <3>4. scan' = [list |-> l, next |-> scan.next, seen |-> scan.seen, todo |-> todo]
      BY <1>1, <2>2, <3>2 DEF Expecting, Behind
    <3>5. n \notin scan.seen /\ scan.seen \cap todo = {}
      BY <1>13, <3>2
    <3>6. Range(seq[l]) \subseteq Range(seq'[l])
      <4>1. IsInjective(seq[l]) /\ <<n>> \in Seq(Node) /\ IsInjective(<<n>>) /\ Range(<<n>>) = {n}
        BY <1>13 DEF OnRing, IsInjective, Range
      <4>2. Range(<<n>>) \cap Range(seq[l]) = {}
        BY <1>13, <4>1
      <4>3. Range(Spliced(seq[l], p, <<n>>)) = Range(seq[l]) \cup Range(<<n>>)
        BY <1>8, <4>1, <4>2, SplicedNodes
      <4> QED
        BY <1>8, <4>3
    <3> HIDE DEF todo
    <3>7. /\ scan'.list = l /\ scan'.next = scan.next /\ scan'.seen = scan.seen /\ scan'.todo = todo
      BY <3>4
    <3> QED
      BY <1>1, <3>2, <3>3, <3>4, <3>5, <3>6, <3>7 DEF ScanInv, Members
  <2> QED
    BY <2>1, <2>2
<1> HIDE DEF x
<1> QED
  BY <1>1, <1>7, <1>8, <1>11, <1>12, <1>14, CallStep

LEMMA InsAfterKeeps ==
    ASSUME Inv, NEW l \in List, NEW n \in Node, NEW i \in 0 .. Len(seq[l]), InsAfter(l, n, i)
    PROVE  Inv'
<1> DEFINE s == seq[l]
<1>1. l \in Header /\ maxcount[l] > 0 /\ op = Idle
  BY DEF InsAfter, Insert, Live, Header
<1>2. Linked(heap.next, heap.prev, l, s) /\ Len(s) \in Nat
  BY <1>1, IdleFacts DEF Inv, Rings, Types
<1>3. /\ (IF i = 0 THEN l ELSE s[i]) = At(l, s, i) /\ heap.next[At(l, s, i)] = At(l, s, i + 1)
      /\ i + 1 \in 1 .. Len(s) + 1 /\ (i + 1) - 1 = i
  BY <1>2 DEF At, Linked
<1>4. Insert(l, n, At(l, s, (i + 1) - 1), At(l, s, i + 1), i + 1)
  BY <1>3 DEF InsAfter
<1> QED
  BY <1>3, <1>4, InsertKeeps

LEMMA InsBeforeKeeps ==
    ASSUME Inv, NEW l \in List, NEW n \in Node, NEW i \in 1 .. Len(seq[l]) + 1, InsBefore(l, n, i)
    PROVE  Inv'
<1> DEFINE s == seq[l]
<1>1. l \in Header /\ maxcount[l] > 0 /\ op = Idle
  BY DEF InsBefore, Insert, Live, Header
<1>2. Linked(heap.next, heap.prev, l, s) /\ Len(s) \in Nat
  BY <1>1, IdleFacts DEF Inv, Rings, Types
<1>3. (IF i > Len(s) THEN l ELSE s[i]) = At(l, s, i)
  BY <1>2 DEF At
<1>4. heap.prev[At(l, s, i)] = At(l, s, i - 1)
  <2>1. i - 1 \in 0 .. Len(s) /\ (i - 1) + 1 = i
    BY <1>2
  <2> QED
    BY <1>2, <2>1 DEF Linked
<1>5. Insert(l, n, At(l, s, i - 1), At(l, s, i), i)
  BY <1>3, <1>4 DEF InsBefore
<1> QED
  BY <1>5, InsertKeeps

LEMMA WithoutOne ==
    ASSUME NEW s \in Seq(Node), IsInjective(s), NEW i \in 1 .. Len(s)
    PROVE  /\ Without(s, i, i) \in Seq(Node) /\ Len(Without(s, i, i)) = Len(s) - 1
           /\ Range(Without(s, i, i)) = Range(s) \ {s[i]}
<1> DEFINE r == Without(s, i, i)
           m == SubSeq(s, i, i)
<1>1. Len(s) \in Nat /\ i \in i .. Len(s) /\ i - i + 1 = 1
  OBVIOUS
<1>2. SliceOf(s, i, i, m, r)
  BY <1>1, SliceNodes
<1>3. Len(r) = Len(s) - (i - i + 1)
  BY <1>1, WithoutSlice
<1> HIDE DEF r, m
<1>4. /\ m \in Seq(Node) /\ Len(m) = i - i + 1 /\ m[1] = s[i] /\ r \in Seq(Node)
      /\ Range(r) \cap Range(m) = {} /\ Range(s) = Range(r) \cup Range(m)
  BY <1>2 DEF SliceOf
<1>5. DOMAIN m = 1 .. 1
  BY <1>1, <1>4
<1>6. Range(m) = {s[i]}
  BY <1>4, <1>5 DEF Range
<1> QED
  BY <1>1, <1>3, <1>4, <1>6 DEF r

LEMMA DeleteKeeps ==
    ASSUME Inv, NEW l \in List, NEW n \in Node, Delete(l, n)
    PROVE  Inv'
<1>1. /\ op = Idle /\ maxcount[l] > 0 /\ n \in Members(l) /\ n # scan.next
      /\ heap' = DeletePtrs(heap, n)
      /\ nodecount' = [nodecount EXCEPT ![l] = @ - 1]
      /\ seq' = [seq EXCEPT ![l] = RemoveAt(@, Place(l, n))]
      /\ held' = held \cup {n}
      /\ scan' = IF scan.list = l THEN [scan EXCEPT !.todo = @ \ {n}, !.seen = @ \ {n}] ELSE scan
      /\ UNCHANGED <<maxcount, fre, pooled, op>>
  BY DEF Delete, Live
<1>2. Types /\ Places /\ Counts /\ ScanInv /\ l \in Header
  BY DEF Inv, Header
<1>3. Lists(heap, seq, Fit) /\ l \in Fit /\ Emptying = {}
  <2>1. Lists(heap, seq, Fit)
    BY CoreLists DEF Inv
  <2> QED
    BY <1>1, <1>2, <2>1, IdleFacts
<1>4. PICK p \in 1 .. Len(seq[l]) : p = Place(l, n) /\ seq[l][p] = n
  <2>1. seq[l] \in Seq(Node)
    BY <1>2 DEF Types
  <2>2. DOMAIN seq[l] = 1 .. Len(seq[l])
    BY <2>1
  <2>3. \E i \in DOMAIN seq[l] : seq[l][i] = n
    BY <1>1 DEF Members, Range
  <2> QED
    BY <2>2, <2>3 DEF Place
<1>5. Becomes(seq, seq', l, Without(seq[l], p, p))
  BY <1>1, <1>4, RemoveIsWithout DEF Becomes
<1>6. UnlinkDone(heap, seq, Fit, n, seq', heap')
  <2>1. UnlinkDone(heap, seq, Fit, seq[l][p], seq', DeletePtrs(heap, seq[l][p]))
    BY <1>3, <1>5, Unlinked
  <2> QED
    BY <1>1, <1>4, <2>1
<1>7. /\ Lists(heap', seq', Fit) /\ n \notin InUse(seq') /\ InUse(seq) = InUse(seq') \cup {n}
      /\ Elsewhere(heap, heap', InUse(seq)) /\ heap'.next[n] = NULL /\ heap'.prev[n] = NULL
  BY <1>6 DEF UnlinkDone
<1>8. /\ seq[l] \in Seq(Node) /\ seq'[l] = Without(seq[l], p, p)
      /\ \A k \in Header : k # l => seq'[k] = seq[k]
  BY <1>2, <1>5 DEF Types, Becomes
<1>9. OnRing(l, seq[l])
  BY <1>2, <1>3, ListsRings
<1>10. Len(seq'[l]) = Len(seq[l]) - 1 /\ Range(seq'[l]) = Range(seq[l]) \ {n}
  <2>1. IsInjective(seq[l])
    BY <1>9 DEF OnRing
  <2> QED
    BY <1>4, <1>8, <2>1, WithoutOne
<1>11. nodecount[l] = Len(seq[l]) /\ nodecount[l] <= maxcount[l] /\ maxcount[l] \in Nat
       /\ Len(seq[l]) \in Nat /\ Len(seq[l]) >= 1
  <2>1. Len(seq[l]) \in Nat
    BY <1>8
  <2> QED
    BY <1>2, <1>3, <1>4, <2>1 DEF Counts, Types
<1> DEFINE x == Len(seq[l]) - 1
<1>12. x \in Nat /\ nodecount' = [nodecount EXCEPT ![l] = x] /\ x <= maxcount[l] /\ Len(seq'[l]) = x
  BY <1>1, <1>10, <1>11
<1>13. /\ held' \cup InUse(seq') = held \cup InUse(seq) /\ held' \cap InUse(seq') = {}
       /\ \A y \in held' : y \in held \/ (heap'.next[y] = NULL /\ heap'.prev[y] = NULL)
  <2>1. held' = held \cup {n}
    BY <1>1
  <2>2. held \cap InUse(seq) = {}
    BY <1>2 DEF Places
  <2>3. n \notin InUse(seq') /\ InUse(seq) = InUse(seq') \cup {n}
    BY <1>7
  <2>4. \A y \in held' : y \in held \/ (heap'.next[y] = NULL /\ heap'.prev[y] = NULL)
    BY <1>7, <2>1
  <2> QED
    BY <2>1, <2>2, <2>3, <2>4, Zenon
<1>14. ScanInv'
  <2>1. CASE scan.list # l
    <3>1. scan' = scan
      BY <1>1, <2>1
    <3> QED
      BY <1>1, <1>2, <1>8, <2>1, <3>1, ScanFrame DEF Header
  <2>2. CASE scan.list = l
    <3>1. scan # NoScan
      BY <1>2, <2>2, ListAssumption DEF NoScan, Cell
    <3>2. /\ scan = [list |-> l, next |-> scan.next, seen |-> scan.seen, todo |-> scan.todo]
          /\ scan.seen \subseteq Range(seq[l]) /\ scan.seen \cap scan.todo = {}
          /\ Ahead(l, seq[l], scan.next, scan.todo)
      BY <1>2, <2>2, <3>1 DEF ScanInv, Members
    <3> DEFINE todo == scan.todo \ {n}
               seen == scan.seen \ {n}
    <3>3. Ahead(l, seq'[l], scan.next, todo)
      BY <1>1, <1>4, <1>8, <1>9, <3>2, AheadRemoved
    <3>4. scan' = [list |-> l, next |-> scan.next, seen |-> seen, todo |-> todo]
      BY <1>1, <2>2, <3>2
    <3>5. seen \cap todo = {} /\ seen \subseteq Range(seq'[l])
      BY <1>10, <3>2
    <3> HIDE DEF todo, seen
    <3>7. /\ scan'.list = l /\ scan'.next = scan.next /\ scan'.seen = seen /\ scan'.todo = todo
      BY <3>4
    <3> QED
      BY <1>1, <3>2, <3>3, <3>4, <3>5, <3>7 DEF ScanInv, Members
  <2> QED
    BY <2>1, <2>2
<1> HIDE DEF x
<1> QED
  BY <1>1, <1>7, <1>8, <1>12, <1>13, <1>14, CallStep

-----------------------------------------------------------------------------
(***************************************************************************)
(* Moving nodes between two lists.                                         *)
(***************************************************************************)
LEMMA ResequenceIs ==
    ASSUME Types, NEW d \in Header, NEW l \in Header, NEW i, NEW j, seq' = Resequence(d, l, i, j)
    PROVE  Resequenced(seq, seq', d, l, i, j)
<1> DEFINE cut == [seq EXCEPT ![l] = Without(seq[l], i, j)]
<1>1. Becomes(seq, cut, l, Without(seq[l], i, j))
  BY DEF Becomes
<1>2. Becomes(cut, seq', d, cut[d] \o SubSeq(seq[l], i, j))
  BY DEF Becomes, Resequence
<1> QED
  BY <1>1, <1>2 DEF Resequenced

RecountDone(c, d, l, k, new) ==
    /\ new \in [Header -> Nat]
    /\ d = l => new = c
    /\ d # l => new[l] = c[l] - k /\ new[d] = c[d] + k
    /\ \A x \in Header \ {d, l} : new[x] = c[x]

LEMMA RecountIs ==
    ASSUME NEW c \in [Header -> Nat], NEW d \in Header, NEW l \in Header, NEW k \in Nat, k <= c[l]
    PROVE  RecountDone(c, d, l, k, Recount(c, d, l, k))
<1> DEFINE less == [c EXCEPT ![l] = c[l] - k]
           more == [less EXCEPT ![d] = less[d] + k]
<1>1. Recount(c, d, l, k) = more
  BY DEF Recount
<1>2. less \in [Header -> Nat] /\ less[l] = c[l] - k /\ \A x \in Header : x # l => less[x] = c[x]
  BY DEF less
<1> HIDE DEF less
<1>3. more \in [Header -> Nat] /\ more[d] = less[d] + k /\ \A x \in Header : x # d => more[x] = less[x]
  BY <1>2
<1> HIDE DEF more
<1>4. c[l] \in Nat /\ c[d] \in Nat
  OBVIOUS
<1>5. d = l => \A x \in Header : more[x] = c[x]
  BY <1>2, <1>3, <1>4
<1>6. d = l => more = c
  BY <1>3, <1>5
<1> QED
  BY <1>1, <1>2, <1>3, <1>6 DEF RecountDone

\* Both calls: the slice from i to j of l goes to the end of d.
SpliceTo(d, l, i, j) ==
    /\ Quiet /\ {d, l} \subseteq Live /\ Room(d, l, j - i + 1)
    /\ heap' = Extracted(heap, d, seq[l][i], seq[l][j])
    /\ nodecount' = Recount(nodecount, d, l, Moved(heap', seq[l][i], seq[l][j]))
    /\ seq' = Resequence(d, l, i, j)
    /\ UNCHANGED <<maxcount, fre, pooled, op, scan, held>>

LEMMA SpliceKeeps ==
    ASSUME Inv, NEW d \in List, NEW l \in List, NEW i \in 1 .. Len(seq[l]), NEW j \in i .. Len(seq[l]),
           SpliceTo(d, l, i, j)
    PROVE  Inv'
<1> DEFINE k == j - i + 1
<1>1. /\ op = Idle /\ scan = NoScan /\ maxcount[d] > 0 /\ maxcount[l] > 0
      /\ d = l \/ nodecount[d] + k <= maxcount[d]
      /\ heap' = Extracted(heap, d, seq[l][i], seq[l][j])
      /\ nodecount' = Recount(nodecount, d, l, Moved(heap', seq[l][i], seq[l][j]))
      /\ seq' = Resequence(d, l, i, j)
      /\ UNCHANGED <<maxcount, fre, pooled, op, scan, held>>
  BY DEF SpliceTo, Quiet, Live, Room
<1>2. Types /\ Places /\ Counts /\ PoolInv /\ SortInv /\ d \in Header /\ l \in Header
  BY DEF Inv, Header
<1>3. /\ Lists(heap, seq, Fit) /\ l \in Fit /\ d \in Fit /\ Emptying = {} /\ Emptying' = {}
      /\ Fit = {x \in Header : maxcount[x] > 0}
  <2>1. Lists(heap, seq, Fit)
    BY CoreLists DEF Inv
  <2>2. Emptying' = Emptying
    BY <1>1 DEF Emptying
  <2> QED
    BY <1>1, <1>2, <2>1, <2>2, IdleFacts
<1>4. Resequenced(seq, seq', d, l, i, j)
  BY <1>1, <1>2, ResequenceIs
<1>5. SpliceDone(heap, seq, Fit, d, l, i, j, seq', heap')
  BY <1>1, <1>3, <1>4, Spliced2
<1>6. /\ Lists(heap', seq', Fit) /\ InUse(seq') = InUse(seq) /\ Elsewhere(heap, heap', InUse(seq))
      /\ Moved(heap', seq[l][i], seq[l][j]) = k
      /\ d = l => Len(seq'[l]) = Len(seq[l])
      /\ d # l => Len(seq'[d]) = Len(seq[d]) + k /\ Len(seq'[l]) = Len(seq[l]) - k
      /\ \A x \in Header \ {d, l} : seq'[x] = seq[x]
  BY <1>5 DEF SpliceDone
<1>7. /\ k \in Nat /\ k > 0 /\ Len(seq[l]) \in Nat /\ Len(seq[d]) \in Nat /\ k <= Len(seq[l])
      /\ nodecount[l] = Len(seq[l]) /\ nodecount[d] = Len(seq[d])
      /\ nodecount[l] <= maxcount[l] /\ nodecount[d] <= maxcount[d]
      /\ maxcount[l] \in Nat /\ maxcount[d] \in Nat
  <2>1. seq[l] \in Seq(Node) /\ seq[d] \in Seq(Node)
    BY <1>2 DEF Types
  <2>2. /\ nodecount[l] = Len(seq[l]) /\ nodecount[d] = Len(seq[d])
        /\ nodecount[l] <= maxcount[l] /\ nodecount[d] <= maxcount[d]
        /\ maxcount[l] \in Nat /\ maxcount[d] \in Nat
    BY <1>2, <1>3 DEF Counts, Types
  <2>3. Len(seq[l]) \in Nat /\ Len(seq[d]) \in Nat
    BY <2>1
  <2>4. k \in Nat /\ k > 0 /\ k <= Len(seq[l])
    BY <2>3
  <2> QED
    BY <2>2, <2>3, <2>4
<1> HIDE DEF k
<1>8. /\ nodecount' \in [Header -> Nat]
      /\ d = l => nodecount' = nodecount
      /\ d # l => nodecount'[l] = nodecount[l] - k /\ nodecount'[d] = nodecount[d] + k
      /\ \A x \in Header \ {d, l} : nodecount'[x] = nodecount[x]
  <2>1. nodecount \in [Header -> Nat] /\ nodecount' = Recount(nodecount, d, l, k)
    BY <1>1, <1>2, <1>6 DEF Types
  <2>2. k \in Nat /\ k <= nodecount[l]
    BY <1>7
  <2>3. RecountDone(nodecount, d, l, k, Recount(nodecount, d, l, k))
    BY <1>2, <2>1, <2>2, RecountIs
  <2> QED
    BY <2>1, <2>3 DEF RecountDone
<1>9. Types'
  <2>1. heap' \in HeapType /\ seq' \in [Header -> Seq(Node)]
    BY <1>6 DEF Lists
  <2> QED
    BY <1>1, <1>2, <1>8, <2>1 DEF Types
<1>10. Rings' /\ Apart(seq')
  BY <1>1, <1>3, <1>6, ListsCore
<1>11. Places'
  <2>1. \A x \in Header : maxcount'[x] = 0 => seq'[x] = <<>>
    BY <1>1, <1>2, <1>6, <1>7 DEF Places
  <2> QED
    BY <1>1, <1>2, <1>6, <1>10, <2>1 DEF Places
<1>12. Counts'
  <2>1. ASSUME NEW x \in Header PROVE nodecount'[x] = Len(seq'[x]) /\ nodecount'[x] <= maxcount'[x]
    <3>1. CASE x \notin {d, l}
      BY <1>1, <1>2, <1>3, <1>6, <1>8, <3>1 DEF Counts
    <3>2. CASE x \in {d, l} /\ d = l
      BY <1>1, <1>6, <1>7, <1>8, <3>2
    <3>3. CASE x = l /\ d # l
      <4>1. /\ nodecount'[l] = nodecount[l] - k /\ Len(seq'[l]) = Len(seq[l]) - k
            /\ maxcount' = maxcount
        BY <1>1, <1>6, <1>8, <3>3
      <4> QED
        BY <1>7, <3>3, <4>1
    <3>4. CASE x = d /\ d # l
      <4>1. /\ nodecount'[d] = nodecount[d] + k /\ Len(seq'[d]) = Len(seq[d]) + k
            /\ maxcount' = maxcount /\ nodecount[d] + k <= maxcount[d]
        BY <1>1, <1>6, <1>8, <3>4
      <4> QED
        BY <1>7, <3>4, <4>1
    <3> QED
      BY <3>1, <3>2, <3>3, <3>4
  <2> QED
    BY <2>1 DEF Counts
<1>13. PoolInv'
  BY <1>1, <1>2, <1>6, PoolKept
<1>14. Shape' /\ EmptyInv' /\ SortInv'
  BY <1>1, <1>2, IdleRest
<1>15. ScanInv'
  BY <1>1 DEF ScanInv
<1> QED
  BY <1>9, <1>10, <1>11, <1>12, <1>13, <1>14, <1>15 DEF Inv

LEMMA PlaceIs ==
    ASSUME NEW h, NEW A, Lists(h, seq, A), NEW l \in Header, NEW i \in 1 .. Len(seq[l])
    PROVE  Place(l, seq[l][i]) = i
<1>1. OnRing(l, seq[l])
  BY ListsRings
<1>2. seq[l] \in Seq(Node) /\ IsInjective(seq[l])
  BY <1>1 DEF OnRing
<1>3. DOMAIN seq[l] = 1 .. Len(seq[l])
  BY <1>2
<1>4. \A x, y \in 1 .. Len(seq[l]) : seq[l][x] = seq[l][y] => x = y
  BY <1>2, <1>3 DEF IsInjective
<1> QED
  BY <1>3, <1>4 DEF Place

\* The end of a list is the slice from a node to the last one.
TransferIs(h, c, d, l, i, j) ==
    /\ j = Len(seq[l]) /\ j \in i .. Len(seq[l])
    /\ heap' = Extracted(h, d, seq[l][i], seq[l][j])
    /\ nodecount' = Recount(c, d, l, Moved(heap', seq[l][i], seq[l][j]))
    /\ seq' = Resequence(d, l, i, j)

LEMMA TransferAllIs ==
    ASSUME NEW h, NEW A, Lists(h, seq, A), NEW l \in A, NEW i \in 1 .. Len(seq[l]), NEW c, NEW d,
           TransferAll(h, c, d, l, seq[l][i])
    PROVE  TransferIs(h, c, d, l, i, Len(seq[l]))
<1>1. l \in Header /\ seq[l] \in Seq(Node)
  BY DEF Lists
<1>2. Len(seq[l]) \in Nat /\ Len(seq[l]) \in i .. Len(seq[l]) /\ Len(seq[l]) \in 1 .. Len(seq[l])
  <2>1. Len(seq[l]) \in Nat
    BY <1>1
  <2> QED
    BY <2>1
<1>3. h.prev[l] = At(l, seq[l], Len(seq[l]))
  BY RingIsThreaded
<1>4. h.prev[l] = seq[l][Len(seq[l])]
  BY <1>2, <1>3 DEF At
<1>5. Place(l, seq[l][i]) = i
  BY <1>1, PlaceIs
<1>6. Transferred(h, d, l, seq[l][i]) = Extracted(h, d, seq[l][i], seq[l][Len(seq[l])])
  BY <1>4 DEF Transferred
<1> QED
  BY <1>2, <1>4, <1>5, <1>6 DEF TransferAll, TransferIs

LEMMA ExtractKeeps ==
    ASSUME Inv, NEW d \in List, NEW l \in List, NEW i \in DOMAIN seq[l], NEW j \in DOMAIN seq[l],
           Extract(d, l, i, j)
    PROVE  Inv'
<1>1. DOMAIN seq[l] = 1 .. Len(seq[l]) /\ Len(seq[l]) \in Nat
  <2>1. l \in Header
    BY DEF Header
  <2>2. seq[l] \in Seq(Node)
    BY <2>1 DEF Inv, Types
  <2> QED
    BY <2>2
<1>2. i \in 1 .. Len(seq[l]) /\ j \in i .. Len(seq[l])
  BY <1>1 DEF Extract
<1>3. SpliceTo(d, l, i, j)
  BY DEF Extract, SpliceTo
<1> QED
  BY <1>2, <1>3, SpliceKeeps

LEMMA TransferKeeps ==
    ASSUME Inv, NEW d \in List, NEW l \in List, NEW i \in DOMAIN seq[l], Transfer(d, l, i)
    PROVE  Inv'
<1>1. l \in Header /\ maxcount[l] > 0 /\ op = Idle
  BY DEF Header, Transfer, Live, Quiet
<1>2. i \in 1 .. Len(seq[l]) /\ Len(seq[l]) \in Nat
  <2>1. seq[l] \in Seq(Node)
    BY <1>1 DEF Inv, Types
  <2> QED
    BY <2>1
<1>3. Lists(heap, seq, Fit) /\ l \in Fit
  <2>1. Lists(heap, seq, Fit)
    BY CoreLists DEF Inv
  <2> QED
    BY <1>1, <2>1, IdleFacts
<1>4. TransferAll(heap, nodecount, d, l, seq[l][i])
  BY DEF Transfer
<1> DEFINE j == Len(seq[l])
<1>5. TransferIs(heap, nodecount, d, l, i, j)
  BY <1>2, <1>3, <1>4, TransferAllIs
<1> HIDE DEF j
<1>6. j \in i .. Len(seq[l]) /\ j = Len(seq[l])
  BY <1>5 DEF TransferIs
<1>7. SpliceTo(d, l, i, j)
  BY <1>5, <1>6 DEF Transfer, TransferIs, SpliceTo
<1> QED
  BY <1>2, <1>6, <1>7, SpliceKeeps

-----------------------------------------------------------------------------
(***************************************************************************)
(* list_destroy_nodes, list_return_nodes and list_process.                 *)
(***************************************************************************)
\* A list that no operation changes keeps the invariant.
LEMMA SameLists ==
    ASSUME Inv, Emptying \subseteq Emptying',
           UNCHANGED <<heap, nodecount, maxcount, fre, pooled, seq, held>>
    PROVE  Types' /\ Places' /\ Rings' /\ Counts' /\ PoolInv'
<1>1. Types /\ Places /\ Rings /\ Counts /\ PoolInv
  BY DEF Inv
<1>2. Types' /\ Places' /\ Rings' /\ Counts'
  BY <1>1 DEF Types, Places, Rings, Counts
<1>3. PoolInv'
  BY <1>1 DEF PoolInv, FreeList
<1> QED
  BY <1>2, <1>3

LEMMA ProcessBeginKeeps ==
    ASSUME Inv, NEW l \in List, ProcessBegin(l)
    PROVE  Inv'
<1>1. /\ op = Idle /\ maxcount[l] > 0
      /\ scan' = [list |-> l, next |-> heap.next[l], seen |-> {}, todo |-> Members(l)]
      /\ UNCHANGED <<heap, nodecount, maxcount, fre, pooled, op, seq, held>>
  BY DEF ProcessBegin, Quiet, Live
<1>2. Emptying' = Emptying
  BY <1>1 DEF Emptying
<1>3. Types' /\ Places' /\ Rings' /\ Counts' /\ PoolInv'
  BY <1>1, <1>2, SameLists
<1>4. Shape' /\ EmptyInv' /\ SortInv'
  BY <1>1, IdleRest DEF Inv
<1>5. l \in Header /\ seq[l] \in Seq(Node) /\ Linked(heap.next, heap.prev, l, seq[l])
  <2>1. l \in Header /\ Emptying = {}
    BY <1>1, IdleFacts DEF Header
  <2> QED
    BY <1>1, <2>1 DEF Inv, Types, Rings
<1>6. heap.next[l] = At(l, seq[l], 1)
  <2>1. Len(seq[l]) \in Nat /\ 0 \in 0 .. Len(seq[l]) /\ 0 + 1 = 1
    BY <1>5
  <2>2. heap.next[At(l, seq[l], 0)] = At(l, seq[l], 0 + 1)
    BY <1>5, <2>1 DEF Linked
  <2> QED
    BY <2>1, <2>2 DEF At
<1>7. Ahead(l, seq[l], heap.next[l], Members(l))
  <2>1. 1 \in 1 .. Len(seq[l]) + 1 /\ DOMAIN seq[l] = 1 .. Len(seq[l])
    BY <1>5
  <2> QED
    BY <1>6, <2>1 DEF Ahead, Members, Range
<1>8. ScanInv'
  BY <1>1, <1>7 DEF ScanInv, Members
<1> QED
  BY <1>3, <1>4, <1>8 DEF Inv

LEMMA ProcessNextKeeps ==
    ASSUME Inv, ProcessNext
    PROVE  Inv'
<1> DEFINE l == scan.list
           s == seq[l]
<1>1. /\ op = Idle /\ l # NULL /\ scan.next # l
      /\ scan' = [scan EXCEPT !.next = heap.next[@], !.seen = @ \cup {scan.next}, !.todo = @ \ {scan.next}]
      /\ UNCHANGED <<heap, nodecount, maxcount, fre, pooled, op, seq, held>>
  BY DEF ProcessNext
<1>2. Emptying' = Emptying
  BY <1>1 DEF Emptying
<1>3. Types' /\ Places' /\ Rings' /\ Counts' /\ PoolInv'
  BY <1>1, <1>2, SameLists
<1>4. Shape' /\ EmptyInv' /\ SortInv'
  BY <1>1, IdleRest DEF Inv
<1>5. scan # NoScan
  BY <1>1 DEF NoScan
<1>6. /\ scan = [list |-> l, next |-> scan.next, seen |-> scan.seen, todo |-> scan.todo]
      /\ l \in List /\ maxcount[l] > 0
      /\ scan.seen \subseteq Members(l) /\ scan.seen \cap scan.todo = {}
      /\ Ahead(l, s, scan.next, scan.todo)
  BY <1>5 DEF Inv, ScanInv
<1>7. Lists(heap, seq, Fit) /\ l \in Fit /\ l \in Header
  <2>1. Lists(heap, seq, Fit)
    BY CoreLists DEF Inv
  <2>2. l \in Header
    BY <1>6 DEF Header
  <2> QED
    BY <1>1, <1>6, <2>1, <2>2, IdleFacts
<1>8. OnRing(l, s) /\ Threaded(heap.next, l, s)
  BY <1>7, ListsRings, RingIsThreaded
<1> HIDE DEF l, s
<1>9. /\ s \in Seq(Node) /\ Len(s) \in Nat /\ DOMAIN s = 1 .. Len(s)
      /\ \A x, y \in 1 .. Len(s) : s[x] = s[y] => x = y
  BY <1>8 DEF OnRing, IsInjective
<1>10. PICK i \in 1 .. Len(s) + 1 : scan.next = At(l, s, i) /\ scan.todo = {s[j] : j \in i .. Len(s)}
  BY <1>6 DEF Ahead
<1>11. i \in 1 .. Len(s) /\ scan.next = s[i] /\ heap.next[scan.next] = At(l, s, i + 1)
  <2>1. i \in 1 .. Len(s) /\ scan.next = s[i]
    BY <1>1, <1>10 DEF At
  <2> QED
    BY <1>8, <2>1 DEF Threaded
<1>12. scan.todo \ {scan.next} = {s[j] : j \in i + 1 .. Len(s)}
  <2>1. \A j \in i .. Len(s) : s[j] # s[i] => j \in i + 1 .. Len(s)
    BY <1>9, <1>11
  <2>2. \A j \in i + 1 .. Len(s) : j \in i .. Len(s) /\ s[j] # s[i]
    <3>1. \A j \in i + 1 .. Len(s) : j \in i .. Len(s) /\ j \in 1 .. Len(s) /\ j # i
      BY <1>9, <1>11
    <3> QED
      BY <1>9, <1>11, <3>1
  <2> QED
    BY <1>10, <1>11, <2>1, <2>2
<1>13. Ahead(l, s, heap.next[scan.next], scan.todo \ {scan.next})
  <2>1. i + 1 \in 1 .. Len(s) + 1
    BY <1>9, <1>11
  <2> QED
    BY <1>11, <1>12, <2>1 DEF Ahead
<1>14. scan.next \in Range(s)
  BY <1>9, <1>11 DEF Range
<1> DEFINE nx == heap.next[scan.next]
           todo == scan.todo \ {scan.next}
           seen == scan.seen \cup {scan.next}
<1>15. scan' = [list |-> l, next |-> nx, seen |-> seen, todo |-> todo]
  BY <1>1, <1>6 DEF l
<1>16. seen \subseteq Range(s) /\ seen \cap todo = {} /\ Ahead(l, s, nx, todo)
  BY <1>6, <1>13, <1>14 DEF Members, s
<1> HIDE DEF nx, todo, seen
<1>17. scan'.list = l /\ scan'.next = nx /\ scan'.seen = seen /\ scan'.todo = todo
  BY <1>15
<1>18. seq'[l] = s
  BY <1>1 DEF s
<1>19. ScanInv'
  BY <1>1, <1>6, <1>15, <1>16, <1>17, <1>18 DEF ScanInv, Members
<1> QED
  BY <1>3, <1>4, <1>19 DEF Inv

LEMMA ProcessEndKeeps ==
    ASSUME Inv, ProcessEnd
    PROVE  Inv'
<1>1. /\ op = Idle /\ scan' = NoScan
      /\ UNCHANGED <<heap, nodecount, maxcount, fre, pooled, op, seq, held>>
  BY DEF ProcessEnd
<1>2. Emptying' = Emptying
  BY <1>1 DEF Emptying
<1>3. Types' /\ Places' /\ Rings' /\ Counts' /\ PoolInv'
  BY <1>1, <1>2, SameLists
<1>4. Shape' /\ EmptyInv' /\ SortInv'
  BY <1>1, IdleRest DEF Inv
<1>5. ScanInv'
  BY <1>1 DEF ScanInv
<1> QED
  BY <1>3, <1>4, <1>5 DEF Inv

\* A list that is not in A loses a node.
LostOne(h, sq, A, n, new) ==
    Lists(h, new, A) /\ n \notin InUse(new) /\ InUse(sq) = InUse(new) \cup {n}

LEMMA Lost ==
    ASSUME NEW h, NEW sq, NEW A, Lists(h, sq, A), NEW l \in Header, l \notin A,
           NEW n \in Range(sq[l]), NEW r \in Seq(Node), IsInjective(r), Range(r) = Range(sq[l]) \ {n},
           NEW new, Becomes(sq, new, l, r)
    PROVE  LostOne(h, sq, A, n, new)
<1>1. new \in [Header -> Seq(Node)] /\ new[l] = r /\ \A k \in Header : k # l => new[k] = sq[k]
  BY DEF Becomes, Lists
<1>2. \A k \in Header : k # l => Range(sq[l]) \cap Range(sq[k]) = {}
  <2>1. ASSUME NEW k \in Header, k # l PROVE Range(sq[l]) \cap Range(sq[k]) = {}
    <3>1. ({l} \cup Range(sq[l])) \cap ({k} \cup Range(sq[k])) = {}
      BY <2>1, RingsApart
    <3> QED
      BY <3>1
  <2> QED
    BY <2>1
<1>3. Apart(new)
  <2> SUFFICES ASSUME NEW k \in Header, NEW m \in Header, NEW x \in DOMAIN new[k],
                      NEW y \in DOMAIN new[m], new[k][x] = new[m][y]
               PROVE  k = m /\ x = y
    BY DEF Apart
  <2>1. new[k][x] \in Range(new[k]) /\ new[m][y] \in Range(new[m])
    BY DEF Range
  <2>2. CASE k = l /\ m = l
    BY <1>1, <2>2 DEF IsInjective
  <2>3. CASE k # l /\ m # l
    BY <1>1, <2>3 DEF Lists, Apart
  <2>4. CASE (k # l /\ m = l) \/ (k = l /\ m # l)
    BY <1>1, <1>2, <2>1, <2>4
  <2> QED
    BY <2>2, <2>3, <2>4
<1>4. Lists(h, new, A)
  <2>1. \A k \in A : k \in Header /\ new[k] = sq[k]
    BY <1>1 DEF Lists
  <2> QED
    BY <1>1, <1>3, <2>1 DEF Lists
<1>5. ASSUME NEW k \in Header PROVE n \notin Range(new[k])
  BY <1>1, <1>2
<1>6. n \notin InUse(new)
  BY <1>5 DEF InUse
<1>7. ASSUME NEW k \in Header
      PROVE  Range(sq[k]) \subseteq Range(new[k]) \cup {n} /\ Range(new[k]) \subseteq Range(sq[k])
  BY <1>1
<1>8. InUse(sq) = InUse(new) \cup {n}
  BY <1>7 DEF InUse
<1> QED
  BY <1>4, <1>6, <1>8 DEF LostOne

LEMMA EmptyBeginKeeps ==
    ASSUME Inv, NEW l \in List, NEW into \in {"free", "pool"}, EmptyBegin(l, into)
    PROVE  Inv'
<1>1. /\ op = Idle /\ scan = NoScan /\ maxcount[l] > 0
      /\ Members(l) \subseteq IF into = "pool" THEN Pooled ELSE Node \ Pooled
      /\ op' = [do |-> "empty", into |-> into, list |-> l, node |-> heap.next[l]]
      /\ UNCHANGED <<heap, nodecount, maxcount, fre, pooled, scan, seq, held>>
  BY DEF EmptyBegin, Quiet, Live
<1>2. op'.do = "empty" /\ op'.into = into /\ op'.list = l /\ op'.node = heap.next[l]
  BY <1>1
<1>3. l \in Header /\ Emptying = {} /\ Lists(heap, seq, Fit) /\ l \in Fit
      /\ \A j \in 1 .. Len(Extra) : maxcount[Extra[j]] = 0
  <2>1. Lists(heap, seq, Fit)
    BY CoreLists DEF Inv
  <2>2. l \in Header
    BY DEF Header
  <2> QED
    BY <1>1, <2>1, <2>2, IdleFacts
<1>4. Types' /\ Places' /\ Rings' /\ Counts' /\ PoolInv'
  BY <1>1, <1>3, SameLists
<1>5. Threaded(heap.next, l, seq[l]) /\ heap.next[l] = At(l, seq[l], 1)
  BY <1>3, RingIsThreaded
<1>6. (into = "pool" /\ Members(l) \subseteq Pooled) \/ (into = "free" /\ Members(l) \cap Pooled = {})
  BY <1>1
<1>7. EmptyInv'
  BY <1>1, <1>2, <1>5, <1>6 DEF EmptyInv, Members
<1>8. Shape' /\ SortInv' /\ ScanInv'
  BY <1>1, <1>2, <1>3 DEF Shape, SortInv, ScanInv
<1> QED
  BY <1>4, <1>7, <1>8 DEF Inv

LEMMA EmptyNodeKeeps ==
    ASSUME Inv, EmptyNode
    PROVE  Inv'
<1> DEFINE l == op.list
           n == op.node
           s == seq[l]
           t == Tail(s)
<1>1. /\ op.do = "empty" /\ n # l
      /\ op' = [op EXCEPT !.node = heap.next[@]]
      /\ heap' = IF op.into = "pool" THEN PushFree(Clear(heap, n), n) ELSE Clear(heap, n)
      /\ fre' = IF op.into = "pool" THEN n ELSE fre
      /\ seq' = [seq EXCEPT ![l] = Tail(@)]
      /\ UNCHANGED <<nodecount, maxcount, pooled, scan, held>>
  BY DEF EmptyNode
<1>2. Types /\ Places /\ Counts /\ PoolInv
  BY DEF Inv
<1>3. /\ op = [do |-> "empty", into |-> op.into, list |-> l, node |-> n]
      /\ l \in List /\ maxcount[l] > 0 /\ n = At(l, s, 1) /\ Threaded(heap.next, l, s)
      /\ \/ op.into = "pool" /\ Range(s) \subseteq Pooled
         \/ op.into = "free" /\ Range(s) \cap Pooled = {}
  BY <1>1 DEF Inv, EmptyInv, Members
<1>4. scan = NoScan /\ \A j \in 1 .. Len(Extra) : maxcount[Extra[j]] = 0
  BY <1>1 DEF Inv, ScanInv, SortInv, Idle
<1>5. l \in Header /\ Emptying = {l} /\ l \notin Fit /\ Lists(heap, seq, Fit)
  <2>1. Lists(heap, seq, Fit)
    BY CoreLists DEF Inv
  <2> QED
    BY <1>1, <1>3, <2>1 DEF Header, Emptying, Fit
<1>6. s \in Seq(Node) /\ IsInjective(s)
  BY <1>5, ListsRings DEF OnRing
<1> HIDE DEF l, n, s, t
<1>7. PoppedTo(l, n, s, t)
  BY <1>1, <1>3, <1>6, Popped DEF t
<1>8. /\ t \in Seq(Node) /\ IsInjective(t) /\ Range(t) = Range(s) \ {n} /\ n = s[1] /\ n \in Range(s)
      /\ At(l, t, 1) = At(l, s, 2)
      /\ \A i \in 1 .. Len(t) : /\ t[i] # n /\ t[i] \in Cell /\ i + 1 \in 1 .. Len(s)
                                /\ t[i] = s[i + 1] /\ At(l, t, i + 1) = At(l, s, i + 2)
  BY <1>7 DEF PoppedTo
<1>9. Becomes(seq, seq', l, t)
  BY <1>1 DEF Becomes, s, t
<1>10. LostOne(heap, seq, Fit, n, seq')
  BY <1>5, <1>8, <1>9, Lost DEF s
<1>11. Lists(heap, seq', Fit) /\ n \notin InUse(seq') /\ InUse(seq) = InUse(seq') \cup {n}
  BY <1>10 DEF LostOne
<1>12. seq'[l] = t /\ \A k \in Header : k # l => seq'[k] = seq[k]
  BY <1>2, <1>5, <1>9 DEF Becomes, Types
<1>13. n \in Node /\ n \in Cell /\ n \notin held /\ n \notin Fit
  <2>1. n \in Node
    BY <1>6, <1>8 DEF Range
  <2>2. n \notin Header
    BY <2>1, ListAssumption
  <2> QED
    BY <1>2, <1>11, <2>1, <2>2 DEF Cell, Places, Fit
<1>14. (op.into = "pool" => n \in Pooled) /\ (op.into = "free" => n \notin Pooled)
       /\ (n \in Pooled => pooled)
  BY <1>2, <1>3, <1>8, <1>11 DEF Places
<1>15. /\ OneCell(heap, heap', n)
       /\ op.into = "pool" => heap'.next[n] = fre /\ heap'.prev[n] = n
  <2>1. heap \in HeapType
    BY <1>2 DEF Types
  <2> DEFINE h == Clear(heap, n)
  <2>2. OneCell(heap, h, n)
    BY <1>13, <2>1, ClearOneCell
  <2> HIDE DEF h
  <2>3. CASE op.into = "pool"
    <3>1. h \in HeapType /\ n \in Pooled /\ heap' = PushFree(h, n)
      BY <1>1, <1>14, <2>2, <2>3 DEF OneCell, h
    <3>2. /\ OneCell(h, PushFree(h, n), n)
          /\ PushFree(h, n).next[n] = fre /\ PushFree(h, n).prev[n] = n
      BY <1>2, <3>1, PushFreeOneCell
    <3> QED
      BY <2>2, <3>1, <3>2 DEF OneCell
  <2>4. CASE op.into # "pool"
    BY <1>1, <2>2, <2>4 DEF h
  <2> QED
    BY <2>3, <2>4
<1>16. Lists(heap', seq', Fit)
  BY <1>11, <1>13, <1>15, ListsOneCell
<1>17. op' = [do |-> "empty", into |-> op.into, list |-> l, node |-> heap.next[n]]
  BY <1>1, <1>3 DEF n
<1>18. /\ op'.do = "empty" /\ op'.into = op.into /\ op'.list = l /\ op'.node = heap.next[n]
       /\ Emptying' = {l}
  BY <1>17 DEF Emptying
<1>19. heap.next[n] = At(l, t, 1)
  <2>1. 1 \in 1 .. Len(s) /\ 1 + 1 = 2
    BY <1>1, <1>3, <1>6 DEF At
  <2>2. heap.next[s[1]] = At(l, s, 1 + 1)
    BY <1>3, <2>1 DEF Threaded
  <2> QED
    BY <1>8, <2>1, <2>2
<1>20. Threaded(heap'.next, l, t)
  <2> SUFFICES ASSUME NEW i \in 1 .. Len(t) PROVE heap'.next[t[i]] = At(l, t, i + 1)
    BY DEF Threaded
  <2>1. Len(t) \in Nat /\ (i + 1) + 1 = i + 2
    BY <1>8
  <2>2. heap.next[s[i + 1]] = At(l, s, (i + 1) + 1)
    BY <1>3, <1>8 DEF Threaded
  <2>3. heap'.next[t[i]] = heap.next[t[i]]
    BY <1>8, <1>15 DEF OneCell
  <2> QED
    BY <1>8, <2>1, <2>2, <2>3
<1>21. EmptyInv'
  <2>1. (op.into = "pool" /\ Range(t) \subseteq Pooled) \/ (op.into = "free" /\ Range(t) \cap Pooled = {})
    BY <1>3, <1>8
  <2>2. maxcount'[l] > 0 /\ op'.node = At(l, seq'[l], 1) /\ Threaded(heap'.next, l, seq'[l])
    BY <1>1, <1>3, <1>12, <1>18, <1>19, <1>20
  <2> QED
    BY <1>3, <1>12, <1>17, <1>18, <2>1, <2>2 DEF EmptyInv, Members
<1>22. Types'
  <2>1. heap' \in HeapType /\ seq' \in [Header -> Seq(Node)]
    BY <1>16 DEF Lists
  <2>2. fre' \in Pooled \cup {NULL}
    BY <1>1, <1>2, <1>14 DEF Types
  <2> QED
    BY <1>1, <1>2, <2>1, <2>2 DEF Types
<1>23. Rings' /\ Apart(seq')
  <2>1. {k \in Header : maxcount'[k] > 0} \ Emptying' \subseteq Fit
    BY <1>1, <1>5, <1>18 DEF Fit
  <2> QED
    BY <1>16, <2>1, ListsCore
<1>24. Places'
  <2>1. \A k \in Header : maxcount'[k] = 0 => seq'[k] = <<>>
    BY <1>1, <1>2, <1>3, <1>12 DEF Places
  <2> QED
    BY <1>1, <1>2, <1>11, <1>23, <2>1 DEF Places
<1>25. Counts'
  BY <1>1, <1>2, <1>5, <1>12, <1>18 DEF Counts
<1>26. PoolInv'
  <2>1. \A x \in held' : heap'.next[x] = NULL /\ heap'.prev[x] = NULL
    BY <1>1, <1>2, <1>13, <1>15 DEF PoolInv, Types, OneCell, Cell
  <2>2. CASE op.into = "pool"
    <3>1. Spare(seq, held)' = Spare(seq, held) \cup {n} /\ n \notin Spare(seq, held)
      BY <1>1, <1>11, <1>13, <1>14, <2>2 DEF Spare
    <3>2. pooled /\ pooled' /\ fre' = n /\ n \in Pooled
      BY <1>1, <1>14, <2>2
    <3> QED
      BY <1>2, <1>15, <2>1, <2>2, <3>1, <3>2, PoolPushed
  <2>3. CASE op.into = "free"
    <3>1. Spare(seq, held)' = Spare(seq, held) /\ fre' = fre
      BY <1>1, <1>11, <1>14, <2>3 DEF Spare
    <3>2. \A x \in Spare(seq, held) : x \in Cell /\ x # n
      BY <1>14, <2>3, PooledNodes DEF Spare, Cell
    <3>3. \A x \in Spare(seq, held) : heap'.next[x] = heap.next[x] /\ heap'.prev[x] = heap.prev[x]
      BY <1>15, <3>2 DEF OneCell
    <3> QED
      BY <1>1, <1>2, <2>1, <3>1, <3>3, PoolFrame
  <2> QED
    BY <1>3, <2>2, <2>3
<1>27. Shape' /\ SortInv' /\ ScanInv'
  BY <1>1, <1>4, <1>18 DEF Shape, SortInv, ScanInv
<1> QED
  BY <1>21, <1>22, <1>23, <1>24, <1>25, <1>26, <1>27 DEF Inv

LEMMA EmptyEndKeeps ==
    ASSUME Inv, EmptyEnd
    PROVE  Inv'
<1> DEFINE l == op.list
<1>1. /\ op.do = "empty" /\ op.node = l /\ heap' = NilNode(heap, l)
      /\ nodecount' = [nodecount EXCEPT ![l] = 0] /\ op' = Idle
      /\ UNCHANGED <<maxcount, fre, pooled, scan, seq, held>>
  BY DEF EmptyEnd
<1>2. Types /\ Places /\ Counts /\ PoolInv
  BY DEF Inv
<1>3. l \in List /\ maxcount[l] > 0 /\ op.node = At(l, seq[l], 1)
  BY <1>1 DEF Inv, EmptyInv
<1>4. scan = NoScan /\ \A j \in 1 .. Len(Extra) : maxcount[Extra[j]] = 0
  BY <1>1 DEF Inv, ScanInv, SortInv, Idle
<1>5. l \in Header /\ Emptying = {l} /\ Lists(heap, seq, Fit)
  <2>1. Lists(heap, seq, Fit)
    BY CoreLists DEF Inv
  <2> QED
    BY <1>1, <1>3, <2>1 DEF Header, Emptying
<1>6. op'.do = "idle" /\ Emptying' = {}
  BY <1>1 DEF Idle, Emptying
<1> HIDE DEF l
<1>7. seq[l] = <<>>
  <2>1. OnRing(l, seq[l])
    BY <1>5, ListsRings
  <2>2. /\ Len(seq[l]) \in Nat /\ l \notin Node /\ \A i \in 1 .. Len(seq[l]) : seq[l][i] \in Node
    BY <2>1, RingPlaces
  <2>3. seq[l] \in Seq(Node) /\ Len(seq[l]) = 0
    <3>1. 1 \notin 1 .. Len(seq[l])
      BY <1>1, <1>3, <2>2 DEF At
    <3> QED
      BY <2>1, <2>2, <3>1 DEF OnRing
  <2> QED
    BY <2>3
<1>8. Lists(heap', seq', Fit \cup {l}) /\ Elsewhere(heap, heap', {})
  BY <1>1, <1>5, <1>7, NilRing
<1>9. /\ nodecount' \in [Header -> Nat] /\ nodecount'[l] = 0
      /\ \A k \in Header : k # l => nodecount'[k] = nodecount[k]
  BY <1>1, <1>2, <1>5 DEF Types
<1>10. Types'
  BY <1>1, <1>2, <1>8, <1>9 DEF Types, Lists
<1>11. Rings' /\ Apart(seq')
  <2>1. {k \in Header : maxcount'[k] > 0} \ Emptying' \subseteq Fit \cup {l}
    BY <1>1, <1>5 DEF Fit
  <2> QED
    BY <1>8, <2>1, ListsCore
<1>12. Places'
  BY <1>1, <1>2, <1>11 DEF Places
<1>13. Counts'
  <2>1. maxcount[l] \in Nat /\ Len(seq[l]) = 0
    BY <1>2, <1>5, <1>7 DEF Types
  <2> QED
    BY <1>1, <1>2, <1>5, <1>6, <1>9, <2>1 DEF Counts
<1>14. PoolInv'
  BY <1>1, <1>2, <1>8, PoolKept
<1>15. Shape' /\ EmptyInv' /\ SortInv' /\ ScanInv'
  BY <1>1, <1>4, <1>6 DEF Shape, EmptyInv, SortInv, ScanInv
<1> QED
  BY <1>10, <1>11, <1>12, <1>13, <1>14, <1>15 DEF Inv

-----------------------------------------------------------------------------
(***************************************************************************)
(* The stack of frames.                                                    *)
(***************************************************************************)
LEMMA FrontFacts ==
    ASSUME NEW T, NEW s \in Seq(T), Len(s) > 0
    PROVE  /\ Front(s) \in Seq(T) /\ Len(Front(s)) = Len(s) - 1
           /\ \A x \in 1 .. Len(s) - 1 : Front(s)[x] = s[x]
<1> DEFINE k == Len(s) - 1
<1>1. k \in Nat /\ 1 \in Int /\ k \in Int /\ \A x \in 1 .. k : s[x] \in T
  OBVIOUS
<1> HIDE DEF k
<1>2. /\ SubSeq(s, 1, k) \in Seq(T)
      /\ Len(SubSeq(s, 1, k)) = IF 1 <= k THEN k - 1 + 1 ELSE 0
      /\ \A x \in 1 .. k - 1 + 1 : SubSeq(s, 1, k)[x] = s[1 + x - 1]
  BY <1>1, SubSeqProperties
<1>3. k - 1 + 1 = k /\ (IF 1 <= k THEN k - 1 + 1 ELSE 0) = k /\ \A x \in 1 .. k : 1 + x - 1 = x
  BY <1>1
<1> QED
  BY <1>2, <1>3 DEF Front, k

\* g is the first m frames of f with the frame fr on top.
OnTop(g, f, m, fr) ==
    g \in Seq(FrameType) /\ Len(g) = m + 1 /\ g[m + 1] = fr /\ \A j \in 1 .. m : g[j] = f[j]

LEMMA TopReplaced ==
    ASSUME NEW f \in Seq(FrameType), Len(f) > 0, NEW fr \in FrameType
    PROVE  OnTop(Append(Front(f), fr), f, Len(f) - 1, fr)
<1> DEFINE r == Front(f)
<1>1. r \in Seq(FrameType) /\ Len(r) = Len(f) - 1 /\ \A x \in 1 .. Len(f) - 1 : r[x] = f[x]
  BY FrontFacts
<1> HIDE DEF r
<1>2. /\ Append(r, fr) \in Seq(FrameType) /\ Len(Append(r, fr)) = Len(r) + 1
      /\ Append(r, fr)[Len(r) + 1] = fr /\ \A x \in 1 .. Len(r) : Append(r, fr)[x] = r[x]
  BY <1>1
<1> QED
  BY <1>1, <1>2 DEF OnTop, r

LEMMA TopPushed ==
    ASSUME NEW f \in Seq(FrameType), NEW fr \in FrameType
    PROVE  OnTop(Append(f, fr), f, Len(f), fr)
BY DEF OnTop

\* The lists of the frames, the waiting ones and those to come are different.
StackApart(f) ==
    /\ Len(f) \in Nat /\ Len(f) >= 1
    /\ \A j \in 1 .. Len(f) : f[j] \in FrameType /\ f[j].list \in Header
    /\ \A i \in 1 .. Len(f), m \in 1 .. Len(Extra) : i <= m => f[i].list # Extra[m]
    /\ \A j \in 1 .. Len(f) - 1 :
          /\ j <= Len(Extra) /\ Waiting(f, j) \in Header /\ Waiting(f, j) # f[Len(f)].list
          /\ \A m \in 1 .. Len(Extra) : j < m => Waiting(f, j) # Extra[m]

LEMMA StackIsApart == ASSUME NEW f, Stack(f) PROVE StackApart(f)
<1> DEFINE k == Len(f)
           e == Len(Extra)
<1>1. /\ f \in Seq(FrameType) /\ k \in 1 .. e + 1 /\ f[1].list \in List
      /\ \A j \in 1 .. k - 1 : f[j].at \in {"left", "right"}
      /\ \A j \in 1 .. k : f[j].list = f[1].list \/ \E m \in 1 .. j - 1 : f[j].list = Extra[m]
      /\ \A i, j \in 1 .. k : j < i => f[i].list # Waiting(f, j)
  BY DEF Stack
<1>2. /\ e \in Nat /\ k \in Nat /\ k >= 1
      /\ \A j \in 1 .. e : Extra[j] \in Header /\ Extra[j] \notin List
      /\ \A i, j \in 1 .. e : Extra[i] = Extra[j] => i = j
  BY <1>1, ExtraHeaders
<1> HIDE DEF k, e
<1>3. \A j \in 1 .. k : f[j] \in FrameType
  BY <1>1 DEF k
<1>4. \A j \in 1 .. k : f[j].list \in Header
  BY <1>3 DEF FrameType
<1>5. ASSUME NEW i \in 1 .. k, NEW m \in 1 .. e, i <= m PROVE f[i].list # Extra[m]
  <2>1. CASE f[i].list = f[1].list
    BY <1>1, <1>2, <2>1
  <2>2. CASE \E x \in 1 .. i - 1 : f[i].list = Extra[x]
    <3>1. PICK x \in 1 .. i - 1 : f[i].list = Extra[x]
      BY <2>2
    <3>2. x \in 1 .. e /\ x # m
      BY <1>2, <1>5
    <3> QED
      BY <1>2, <3>1, <3>2
  <2> QED
    BY <1>1, <2>1, <2>2
<1>6. ASSUME NEW j \in 1 .. k - 1
      PROVE  /\ j <= e /\ Waiting(f, j) \in Header /\ Waiting(f, j) # f[k].list
             /\ \A m \in 1 .. e : j < m => Waiting(f, j) # Extra[m]
  <2>1. j <= e /\ j \in 1 .. k /\ k \in 1 .. k /\ j < k /\ j \in 1 .. e
    BY <1>1, <1>2
  <2>2. Waiting(f, j) # f[k].list
    BY <1>1, <2>1
  <2>3. Waiting(f, j) \in Header
    BY <1>2, <1>4, <2>1 DEF Waiting
  <2>4. ASSUME NEW m \in 1 .. e, j < m PROVE Waiting(f, j) # Extra[m]
    <3>1. j # m /\ j <= m
      BY <2>1, <2>4
    <3> QED
      BY <1>2, <1>5, <2>1, <3>1 DEF Waiting
  <2> QED
    BY <2>1, <2>2, <2>3, <2>4
<1> QED
  BY <1>2, <1>3, <1>4, <1>5, <1>6 DEF StackApart, k, e

\* The lists of the frames exist.
LEMMA StackAlive ==
    ASSUME NEW f, Stack(f), Alive(f)
    PROVE  \A j \in 1 .. Len(f) : maxcount[f[j].list] > 0
<1> SUFFICES ASSUME NEW j \in 1 .. Len(f) PROVE maxcount[f[j].list] > 0
  OBVIOUS
<1>1. StackApart(f)
  BY StackIsApart
<1>2. Len(f) \in Nat /\ Len(f) <= Len(Extra) + 1 /\ Len(Extra) \in Nat
  BY <1>1, ExtraHeaders DEF StackApart, Stack
<1>3. CASE f[j].list = f[1].list
  BY <1>3 DEF Alive
<1>4. CASE \E m \in 1 .. j - 1 : f[j].list = Extra[m]
  <2>1. PICK m \in 1 .. j - 1 : f[j].list = Extra[m]
    BY <1>4
  <2>2. m \in 1 .. Len(Extra) /\ m < Len(f)
    BY <1>2
  <2> QED
    BY <2>1, <2>2 DEF Alive, ExtraLives
<1> QED
  BY <1>3, <1>4 DEF Stack

\* The stacks a step leads to from f: the top frame has split its list,
SplitStack(f, g) ==
    LET k == Len(f)
    IN  /\ g \in Seq(FrameType) /\ Len(g) = k + 1 /\ \A j \in 1 .. k - 1 : g[j] = f[j]
        /\ g[k].at = "left" /\ g[k].list = f[k].list /\ g[k].sour = Extra[k]
        /\ g[k + 1] = SortFrame(f[k].list)

\* the frame below has one half sorted,
RightStack(f, g) ==
    LET k == Len(f)
    IN  /\ g \in Seq(FrameType) /\ Len(g) = k /\ \A j \in 1 .. k - 2 : g[j] = f[j]
        /\ g[k - 1].at = "right" /\ g[k - 1].list = f[k - 1].list /\ g[k - 1].sour = Extra[k - 1]
        /\ g[k] = SortFrame(Extra[k - 1])

\* or both, and list_merge goes on.
MergeStack(f, g, dn, sn) ==
    LET k == Len(g)
    IN  /\ g \in Seq(FrameType) /\ k \in 1 .. Len(f) /\ \A j \in 1 .. k - 1 : g[j] = f[j]
        /\ g[k].at = "merge" /\ g[k].list = f[k].list /\ g[k].dn = dn /\ g[k].sn = sn
        /\ IF k = Len(f) THEN f[k].at = "merge" /\ g[k].sour = f[k].sour ELSE g[k].sour = Extra[k]

LEMMA StackSplit ==
    ASSUME NEW f, Stack(f), NEW g, SplitStack(f, g), Len(f) <= Len(Extra)
    PROVE  Stack(g)
<1> DEFINE k == Len(f)
           e == Len(Extra)
<1>0. StackApart(f)
  BY StackIsApart
<1>1. /\ k \in Nat /\ k >= 1 /\ e \in Nat /\ k <= e /\ f[1].list \in List
      /\ \A j \in 1 .. k - 1 :
            /\ f[j].at \in {"left", "right"} /\ f[j].sour = Extra[j]
            /\ f[j + 1].list = IF f[j].at = "left" THEN f[j].list ELSE Extra[j]
      /\ \A j \in 1 .. k : f[j].list = f[1].list \/ \E m \in 1 .. j - 1 : f[j].list = Extra[m]
      /\ \A i, j \in 1 .. k : j < i => f[i].list # Waiting(f, j)
      /\ f[k].list # Extra[k]
  <2>1. k \in Nat /\ k >= 1 /\ e \in Nat /\ k <= e
    BY <1>0, ExtraHeaders DEF StackApart
  <2>2. k \in 1 .. k /\ k \in 1 .. e /\ k <= k
    BY <2>1
  <2>3. f[k].list # Extra[k]
    BY <1>0, <2>2 DEF StackApart
  <2> QED
    BY <2>1, <2>3 DEF Stack
<1>2. /\ g \in Seq(FrameType) /\ Len(g) = k + 1 /\ \A j \in 1 .. k - 1 : g[j] = f[j]
      /\ g[k].at = "left" /\ g[k].list = f[k].list /\ g[k].sour = Extra[k]
      /\ g[k + 1].at = "split" /\ g[k + 1].list = f[k].list
  BY DEF SplitStack, SortFrame
<1> HIDE DEF k, e
<1>3. \A j \in 1 .. k : j = k \/ j \in 1 .. k - 1
  BY <1>1
<1>4. \A j \in 1 .. k : g[j].list = f[j].list
  BY <1>2, <1>3
<1>5. \A j \in 1 .. k - 1 : Waiting(g, j) = Waiting(f, j)
  BY <1>2 DEF Waiting
<1>6. Waiting(g, k) = Extra[k]
  BY <1>2 DEF Waiting
<1>7. 1 \in 1 .. k /\ k \in 1 .. k /\ k + 1 \in 1 .. e + 1 /\ (k + 1) - 1 = k
  BY <1>1
<1>8. ASSUME NEW j \in 1 .. k
      PROVE  /\ g[j].at \in {"left", "right"} /\ g[j].sour = Extra[j]
             /\ g[j + 1].list = IF g[j].at = "left" THEN g[j].list ELSE Extra[j]
  <2>1. CASE j = k
    BY <1>2, <2>1
  <2>2. CASE j \in 1 .. k - 1
    <3>1. j + 1 \in 1 .. k
      BY <1>1, <2>2
    <3> QED
      BY <1>1, <1>2, <1>4, <2>2, <3>1
  <2> QED
    BY <1>3, <2>1, <2>2
<1>9. ASSUME NEW j \in 1 .. k + 1
      PROVE  g[j].list = g[1].list \/ \E m \in 1 .. j - 1 : g[j].list = Extra[m]
  <2>1. CASE j \in 1 .. k
    BY <1>1, <1>4, <1>7, <2>1
  <2>2. CASE j = k + 1
    <3>1. g[j].list = f[k].list /\ \A m \in 1 .. k - 1 : m \in 1 .. j - 1
      BY <1>1, <1>2, <2>2
    <3> QED
      BY <1>1, <1>4, <1>7, <3>1
  <2> QED
    BY <1>1, <2>1, <2>2
<1>10. ASSUME NEW i \in 1 .. k + 1, NEW j \in 1 .. k + 1, j < i PROVE g[i].list # Waiting(g, j)
  <2>1. CASE i \in 1 .. k
    <3>1. j \in 1 .. k - 1 /\ j \in 1 .. k
      BY <1>1, <1>10, <2>1
    <3> QED
      BY <1>1, <1>4, <1>5, <1>10, <2>1, <3>1
  <2>2. CASE i = k + 1 /\ j # k
    <3>1. j \in 1 .. k - 1 /\ j \in 1 .. k /\ j < k
      BY <1>1, <1>10, <2>2
    <3> QED
      BY <1>1, <1>2, <1>5, <1>7, <2>2, <3>1
  <2>3. CASE i = k + 1 /\ j = k
    BY <1>1, <1>2, <1>6, <2>3
  <2> QED
    BY <1>1, <2>1, <2>2, <2>3
<1>11. /\ g \in Seq(FrameType) /\ Len(g) = k + 1 /\ Len(g) \in 1 .. Len(Extra) + 1 /\ Len(g) - 1 = k
       /\ g[1].list \in List
  BY <1>1, <1>2, <1>4, <1>7 DEF e
<1>12. /\ \A j \in 1 .. Len(g) - 1 :
             /\ g[j].at \in {"left", "right"} /\ g[j].sour = Extra[j]
             /\ g[j + 1].list = IF g[j].at = "left" THEN g[j].list ELSE Extra[j]
       /\ g[Len(g)].at = "split"
  BY <1>2, <1>8, <1>11
<1>13. /\ \A j \in 1 .. Len(g) : g[j].list = g[1].list \/ \E m \in 1 .. j - 1 : g[j].list = Extra[m]
       /\ \A i, j \in 1 .. Len(g) : j < i => g[i].list # Waiting(g, j)
  BY <1>9, <1>10, <1>11
<1> QED
  BY <1>11, <1>12, <1>13, Zenon DEF Stack

LEMMA StackRight ==
    ASSUME NEW f, Stack(f), Len(f) > 1, NEW g, RightStack(f, g)
    PROVE  Stack(g)
<1> DEFINE k == Len(f)
           e == Len(Extra)
           a == Len(f) - 1
<1>0. StackApart(f)
  BY StackIsApart
<1>1. /\ k \in Nat /\ k > 1 /\ e \in Nat /\ k <= e + 1 /\ f[1].list \in List
      /\ a \in Nat /\ a >= 1 /\ k = a + 1
      /\ \A j \in 1 .. k - 1 :
            /\ f[j].at \in {"left", "right"} /\ f[j].sour = Extra[j]
            /\ f[j + 1].list = IF f[j].at = "left" THEN f[j].list ELSE Extra[j]
      /\ \A j \in 1 .. k : f[j].list = f[1].list \/ \E m \in 1 .. j - 1 : f[j].list = Extra[m]
      /\ \A i, j \in 1 .. k : j < i => f[i].list # Waiting(f, j)
  <2>1. k \in Nat /\ k > 1 /\ e \in Nat
    BY <1>0, ExtraHeaders DEF StackApart
  <2>2. k <= e + 1
    BY <2>1 DEF Stack
  <2>3. a \in Nat /\ a >= 1 /\ k = a + 1
    BY <2>1
  <2> QED
    BY <2>1, <2>2, <2>3 DEF Stack
<1>2. /\ f[a].list # Extra[a] /\ \A j \in 1 .. a - 1 : Waiting(f, j) # Extra[a]
      /\ Extra[a] \in Header
  <2>1. a \in 1 .. k /\ a \in 1 .. e /\ a <= a /\ \A j \in 1 .. a - 1 : j \in 1 .. k - 1 /\ j < a
    BY <1>1
  <2> HIDE DEF a
  <2> QED
    BY <1>0, <2>1, ExtraHeaders DEF StackApart
<1>3. /\ g \in Seq(FrameType) /\ Len(g) = k /\ \A j \in 1 .. a - 1 : g[j] = f[j]
      /\ g[a].at = "right" /\ g[a].list = f[a].list /\ g[a].sour = Extra[a]
      /\ g[k].at = "split" /\ g[k].list = Extra[a]
  <2>1. k - 2 = a - 1
    BY <1>1
  <2> QED
    BY <2>1 DEF RightStack, SortFrame
<1> HIDE DEF k, e, a
<1>4. \A j \in 1 .. a : j = a \/ j \in 1 .. a - 1
  BY <1>1
<1>5. \A j \in 1 .. a : g[j].list = f[j].list /\ j \in 1 .. k - 1 /\ j \in 1 .. k
  BY <1>1, <1>3, <1>4
<1>6. \A j \in 1 .. a - 1 : Waiting(g, j) = Waiting(f, j)
  BY <1>3 DEF Waiting
<1>7. Waiting(g, a) = f[a].list
  BY <1>3 DEF Waiting
<1>8. 1 \in 1 .. a /\ a \in 1 .. a /\ k \in 1 .. e + 1 /\ k - 1 = a
  BY <1>1
<1>9. ASSUME NEW j \in 1 .. a
      PROVE  /\ g[j].at \in {"left", "right"} /\ g[j].sour = Extra[j]
             /\ g[j + 1].list = IF g[j].at = "left" THEN g[j].list ELSE Extra[j]
  <2>1. CASE j = a
    BY <1>1, <1>3, <2>1
  <2>2. CASE j \in 1 .. a - 1
    <3>1. j + 1 \in 1 .. a
      BY <1>1, <2>2
    <3>2. j \in 1 .. a /\ j \in 1 .. k - 1
      BY <1>1, <2>2
    <3>3. g[j] = f[j] /\ g[j + 1].list = f[j + 1].list
      BY <1>3, <1>5, <2>2, <3>1
    <3>4. /\ f[j].at \in {"left", "right"} /\ f[j].sour = Extra[j]
          /\ f[j + 1].list = IF f[j].at = "left" THEN f[j].list ELSE Extra[j]
      BY <1>1, <3>2
    <3> QED
      BY <3>3, <3>4
  <2> QED
    BY <1>4, <2>1, <2>2
<1>10. ASSUME NEW j \in 1 .. k
      PROVE  g[j].list = g[1].list \/ \E m \in 1 .. j - 1 : g[j].list = Extra[m]
  <2>1. CASE j \in 1 .. a
    BY <1>1, <1>5, <1>8, <2>1
  <2>2. CASE j = k
    BY <1>3, <1>8, <2>2
  <2> QED
    BY <1>1, <2>1, <2>2
<1>11. ASSUME NEW i \in 1 .. k, NEW j \in 1 .. k, j < i PROVE g[i].list # Waiting(g, j)
  <2>1. CASE i \in 1 .. a
    <3>1. j \in 1 .. a - 1
      BY <1>1, <1>11, <2>1
    <3> QED
      BY <1>1, <1>5, <1>6, <1>11, <2>1, <3>1
  <2>2. CASE i = k /\ j # a
    <3>1. j \in 1 .. a - 1
      BY <1>1, <1>11, <2>2
    <3> QED
      BY <1>2, <1>3, <1>6, <2>2, <3>1
  <2>3. CASE i = k /\ j = a
    BY <1>2, <1>3, <1>7, <2>3
  <2> QED
    BY <1>1, <2>1, <2>2, <2>3
<1>12. /\ g \in Seq(FrameType) /\ Len(g) = k /\ Len(g) \in 1 .. Len(Extra) + 1 /\ Len(g) - 1 = a
       /\ g[1].list \in List
  BY <1>1, <1>3, <1>5, <1>8 DEF e
<1>13. /\ \A j \in 1 .. Len(g) - 1 :
             /\ g[j].at \in {"left", "right"} /\ g[j].sour = Extra[j]
             /\ g[j + 1].list = IF g[j].at = "left" THEN g[j].list ELSE Extra[j]
       /\ g[Len(g)].at = "split"
  BY <1>3, <1>9, <1>12
<1>14. /\ \A j \in 1 .. Len(g) : g[j].list = g[1].list \/ \E m \in 1 .. j - 1 : g[j].list = Extra[m]
       /\ \A i, j \in 1 .. Len(g) : j < i => g[i].list # Waiting(g, j)
  BY <1>10, <1>11, <1>12
<1> QED
  BY <1>12, <1>13, <1>14, Zenon DEF Stack

LEMMA StackMerge ==
    ASSUME NEW f, Stack(f), NEW g, NEW dn, NEW sn, MergeStack(f, g, dn, sn)
    PROVE  Stack(g)
<1> DEFINE k == Len(g)
           n == Len(f)
           e == Len(Extra)
<1>0. StackApart(f)
  BY StackIsApart
<1>1. /\ g \in Seq(FrameType) /\ k \in 1 .. n /\ \A j \in 1 .. k - 1 : g[j] = f[j]
      /\ g[k].at = "merge" /\ g[k].list = f[k].list
      /\ IF k = n THEN f[k].at = "merge" /\ g[k].sour = f[k].sour ELSE g[k].sour = Extra[k]
  BY DEF MergeStack
<1>2. /\ k \in Nat /\ k >= 1 /\ e \in Nat /\ n \in Nat /\ n <= e + 1 /\ k <= n /\ f[1].list \in List
      /\ \A j \in 1 .. n - 1 :
            /\ f[j].at \in {"left", "right"} /\ f[j].sour = Extra[j]
            /\ f[j + 1].list = IF f[j].at = "left" THEN f[j].list ELSE Extra[j]
      /\ f[n].at = "merge" => /\ f[n].sour # f[n].list
                              /\ \/ n <= e /\ f[n].sour = Extra[n]
                                 \/ n = 1 /\ f[n].sour \in List
      /\ \A j \in 1 .. n : f[j].list = f[1].list \/ \E m \in 1 .. j - 1 : f[j].list = Extra[m]
      /\ \A i, j \in 1 .. n : j < i => f[i].list # Waiting(f, j)
  <2>1. n \in Nat /\ n >= 1 /\ e \in Nat
    BY <1>0, ExtraHeaders DEF StackApart
  <2>2. n <= e + 1
    BY <2>1 DEF Stack
  <2>3. k \in Nat /\ k >= 1 /\ k <= n
    BY <1>1, <2>1
  <2> QED
    BY <2>1, <2>2, <2>3 DEF Stack
<1> HIDE DEF k, e, n
<1>3. \A j \in 1 .. k : (j = k \/ j \in 1 .. k - 1) /\ j \in 1 .. n
  BY <1>2
<1>4. \A j \in 1 .. k : g[j].list = f[j].list
  BY <1>1, <1>3
<1>5. \A j \in 1 .. k - 1 : Waiting(g, j) = Waiting(f, j)
  BY <1>1 DEF Waiting
<1>6. 1 \in 1 .. k /\ k \in 1 .. e + 1 /\ k \in 1 .. n
  BY <1>2
<1>7. /\ g[k].sour # g[k].list
      /\ \/ k <= e /\ g[k].sour = Extra[k]
         \/ k = 1 /\ g[k].sour \in List
  <2>1. CASE k = n
    BY <1>1, <1>2, <2>1
  <2>2. CASE k # n
    <3>1. k <= e /\ k \in 1 .. e /\ k <= k
      BY <1>2, <2>2
    <3>2. f[k].list # Extra[k]
      BY <1>0, <1>6, <3>1 DEF StackApart, n, e
    <3> QED
      BY <1>1, <2>2, <3>1, <3>2
  <2> QED
    BY <2>1, <2>2
<1>8. ASSUME NEW j \in 1 .. k - 1
      PROVE  /\ g[j].at \in {"left", "right"} /\ g[j].sour = Extra[j]
             /\ g[j + 1].list = IF g[j].at = "left" THEN g[j].list ELSE Extra[j]
  <2>1. j + 1 \in 1 .. k /\ j \in 1 .. n - 1 /\ j \in 1 .. k
    BY <1>2
  <2>2. g[j] = f[j] /\ g[j + 1].list = f[j + 1].list
    BY <1>1, <1>4, <2>1
  <2>3. /\ f[j].at \in {"left", "right"} /\ f[j].sour = Extra[j]
        /\ f[j + 1].list = IF f[j].at = "left" THEN f[j].list ELSE Extra[j]
    BY <1>2, <2>1
  <2> QED
    BY <2>2, <2>3
<1>9. \A j \in 1 .. k : g[j].list = g[1].list \/ \E m \in 1 .. j - 1 : g[j].list = Extra[m]
  BY <1>2, <1>3, <1>4, <1>6
<1>10. ASSUME NEW i \in 1 .. k, NEW j \in 1 .. k, j < i PROVE g[i].list # Waiting(g, j)
  <2>1. j \in 1 .. k - 1
    BY <1>2, <1>10
  <2> QED
    BY <1>2, <1>3, <1>4, <1>5, <1>10, <2>1
<1> QED
  BY <1>1, <1>2, <1>4, <1>6, <1>7, <1>8, <1>9, <1>10 DEF Stack, k, e

\* The top frame has its list sorted and nothing left in an extra list.
Finished(f, n) ==
    LET k == Len(f)
        l == f[k].list
    IN  /\ maxcount[f[1].list] > 0
        /\ \A j \in 1 .. Len(Extra) : maxcount[Extra[j]] > 0 <=> j < k
        /\ \E w, S : /\ Below(f, n, w, S)
                     /\ w[k] = Len(seq[l]) /\ S[k] = Range(seq[l]) /\ Sorted(seq[l])

\* v and T are w and S with another top.
Retopped(w, S, k, x, y, v, T) ==
    /\ v \in [1 .. k -> Nat] /\ T \in [1 .. k -> SUBSET Node] /\ v[k] = x /\ T[k] = y
    /\ \A j \in 1 .. k - 1 : v[j] = w[j] /\ T[j] = S[j]

LEMMA Retop ==
    ASSUME NEW k \in Nat, k >= 1, NEW w \in [1 .. k -> Nat], NEW S \in [1 .. k -> SUBSET Node],
           NEW x \in Nat, NEW y \in SUBSET Node
    PROVE  \E v, T : Retopped(w, S, k, x, y, v, T)
<1> DEFINE v == [w EXCEPT ![k] = x]
           T == [S EXCEPT ![k] = y]
<1>1. Retopped(w, S, k, x, y, v, T)
  BY DEF Retopped
<1> HIDE DEF v, T
<1> QED
  BY <1>1

\* The caller goes on to sort its other half.
LEMMA RightSorting ==
    ASSUME Counts', Emptying' = {}, Types',
           NEW f, NEW n, Stack(f), Len(f) > 1, f[Len(f) - 1].at = "left", Finished(f, n)',
           NEW g, RightStack(f, g)
    PROVE  Sorting(g, n)'
<1> DEFINE k == Len(f)
           e == Len(Extra)
           a == Len(f) - 1
<1>1. StackApart(f)
  BY StackIsApart
<1>2. Stack(g)
  BY StackRight
<1>3. /\ k \in Nat /\ k > 1 /\ e \in Nat /\ k <= e + 1
      /\ a \in Nat /\ a >= 1 /\ k = a + 1 /\ a \in 1 .. e /\ a \in 1 .. k - 1 /\ k \in 1 .. k
      /\ a \in 1 .. k
  <2>1. k \in Nat /\ e \in Nat
    BY <1>1, ExtraHeaders DEF StackApart
  <2>2. k <= e + 1
    BY <2>1 DEF Stack
  <2> QED
    BY <2>1, <2>2
<1>4. /\ f[a].sour = Extra[a] /\ f[k].list = f[a].list
      /\ Extra[a] \in Header /\ f[a].list \in Header
  <2>1. \A j \in 1 .. k - 1 :
            /\ f[j].sour = Extra[j]
            /\ f[j + 1].list = IF f[j].at = "left" THEN f[j].list ELSE Extra[j]
    BY DEF Stack
  <2>2. f[a].list \in Header /\ Extra[a] \in Header
    <3>1. a \in 1 .. Len(f) /\ a \in 1 .. e
      BY <1>3
    <3> HIDE DEF a
    <3> QED
      BY <1>1, <3>1, ExtraHeaders DEF StackApart
  <2>3. f[a].at = "left"
    OBVIOUS
  <2> QED
    BY <1>3, <2>1, <2>2, <2>3
<1>5. /\ g \in Seq(FrameType) /\ Len(g) = k /\ \A j \in 1 .. a - 1 : g[j] = f[j]
      /\ g[a].at = "right" /\ g[a].list = f[a].list /\ g[a].sour = Extra[a]
      /\ g[k].at = "split" /\ g[k].list = Extra[a]
  <2>1. k - 2 = a - 1
    BY <1>3
  <2> QED
    BY <2>1 DEF RightStack, SortFrame
<1>6. PICK w, S : Below(f, n, w, S)' /\ w[k] = Len(seq'[f[k].list])
                  /\ S[k] = Range(seq'[f[k].list]) /\ Sorted(seq'[f[k].list])
  BY DEF Finished
<1>7. f[a].at = "left"
  OBVIOUS
<1> HIDE DEF a, k, e
<1>8. /\ w \in [1 .. k -> Nat] /\ S \in [1 .. k -> SUBSET Node] /\ S[1] = n
      /\ \A j \in 1 .. k : w[j] <= maxcount'[f[j].list]
      /\ \A j \in 1 .. k - 1 :
            /\ w[j] = w[j + 1] + Len(seq'[Waiting(f, j)])
            /\ S[j] = S[j + 1] \cup Range(seq'[Waiting(f, j)])
            /\ f[j].at = "left" => Len(seq'[Waiting(f, j)]) <= Pow(e - j)
            /\ f[j].at = "right" => Sorted(seq'[Waiting(f, j)])
  BY <1>6 DEF Below, k, e
<1>9. /\ seq'[Extra[a]] \in Seq(Node) /\ Len(seq'[Extra[a]]) \in Nat
      /\ Range(seq'[Extra[a]]) \subseteq Node /\ Len(seq'[Extra[a]]) <= maxcount'[Extra[a]]
      /\ seq'[f[a].list] \in Seq(Node) /\ Len(seq'[f[a].list]) \in Nat
  <2>1. seq'[Extra[a]] \in Seq(Node) /\ seq'[f[a].list] \in Seq(Node)
    BY <1>4 DEF Types
  <2>2. Len(seq'[Extra[a]]) <= maxcount'[Extra[a]]
    BY <1>4 DEF Counts
  <2> QED
    BY <2>1, <2>2 DEF Range
<1>20. PICK v, T : Retopped(w, S, k, Len(seq'[Extra[a]]), Range(seq'[Extra[a]]), v, T)
  <2>1. k \in Nat /\ k >= 1 /\ w \in [1 .. k -> Nat] /\ S \in [1 .. k -> SUBSET Node]
    BY <1>3, <1>8
  <2>2. Len(seq'[Extra[a]]) \in Nat /\ Range(seq'[Extra[a]]) \in SUBSET Node
    BY <1>9
  <2> QED
    BY <2>1, <2>2, Retop
<1>10. /\ v \in [1 .. k -> Nat] /\ T \in [1 .. k -> SUBSET Node]
       /\ v[k] = Len(seq'[Extra[a]]) /\ T[k] = Range(seq'[Extra[a]])
       /\ \A j \in 1 .. a : v[j] = w[j] /\ T[j] = S[j] /\ j \in 1 .. k /\ j \in 1 .. k - 1
  <2>1. \A j \in 1 .. a : j \in 1 .. k /\ j \in 1 .. k - 1
    BY <1>3
  <2> QED
    BY <1>20, <2>1 DEF Retopped
<1>11. Waiting(f, a) = Extra[a] /\ Waiting(g, a) = f[a].list
  BY <1>5, <1>7 DEF Waiting
<1>12. \A j \in 1 .. a - 1 : Waiting(g, j) = Waiting(f, j) /\ g[j].at = f[j].at
  BY <1>5 DEF Waiting
<1>13. ASSUME NEW j \in 1 .. k - 1
       PROVE  /\ v[j] = v[j + 1] + Len(seq'[Waiting(g, j)])
              /\ T[j] = T[j + 1] \cup Range(seq'[Waiting(g, j)])
              /\ g[j].at = "left" => Len(seq'[Waiting(g, j)]) <= Pow(e - j)
              /\ g[j].at = "right" => Sorted(seq'[Waiting(g, j)])
  <2>1. CASE j = a
    <3>1. w[a] = w[k] + Len(seq'[Extra[a]]) /\ S[a] = S[k] \cup Range(seq'[Extra[a]])
      BY <1>3, <1>8, <1>11
    <3>2. w[k] = Len(seq'[f[a].list]) /\ S[k] = Range(seq'[f[a].list]) /\ Sorted(seq'[f[a].list])
      BY <1>4, <1>6
    <3>3. a \in 1 .. a
      BY <1>3
    <3>4. v[a] = w[a] /\ T[a] = S[a]
      BY <1>10, <3>3
    <3>5. v[a] = v[k] + Len(seq'[f[a].list])
      <4>1. \A x, y \in Nat : x + y = y + x
        OBVIOUS
      <4>2. v[a] = w[k] + v[k] /\ w[k] = Len(seq'[f[a].list]) /\ w[k] \in Nat /\ v[k] \in Nat
        BY <1>9, <1>10, <3>1, <3>2, <3>4
      <4> QED
        BY <4>1, <4>2
    <3>6. T[a] = T[k] \cup Range(seq'[f[a].list])
      BY <1>10, <3>1, <3>2, <3>4
    <3> QED
      BY <1>3, <1>5, <1>11, <2>1, <3>2, <3>5, <3>6
  <2>2. CASE j \in 1 .. a - 1
    <3>1. j \in 1 .. a /\ j + 1 \in 1 .. a
      BY <1>3, <2>2
    <3>2. v[j] = w[j] /\ T[j] = S[j] /\ v[j + 1] = w[j + 1] /\ T[j + 1] = S[j + 1]
      BY <1>10, <3>1
    <3> QED
      BY <1>8, <1>12, <2>2, <3>2
  <2> QED
    BY <1>3, <2>1, <2>2
<1>14. ASSUME NEW j \in 1 .. k PROVE v[j] <= maxcount'[g[j].list]
  <2>1. CASE j = k
    BY <1>5, <1>9, <1>10, <2>1
  <2>2. CASE j \in 1 .. a
    <3>1. g[j].list = f[j].list
      <4>1. j = a \/ j \in 1 .. a - 1
        BY <1>3, <2>2
      <4> QED
        BY <1>5, <4>1
    <3> QED
      BY <1>8, <1>10, <2>2, <3>1
  <2> QED
    BY <1>3, <2>1, <2>2
<1>15. T[1] = n
  <2>1. 1 \in 1 .. a
    BY <1>3
  <2> QED
    BY <1>8, <1>10, <2>1
<1>16. Below(g, n, v, T)'
  <2>1. Len(g) = k
    BY <1>5
  <2> QED
    BY <1>10, <1>13, <1>14, <1>15, <2>1 DEF Below, e
<1>17. SplitTop(g, v, T)'
  <2>1. v[k] <= Pow(e - a)
    <3>1. a \in 1 .. k - 1 /\ f[a].at = "left"
      BY <1>3, <1>7
    <3>2. Len(seq'[Waiting(f, a)]) <= Pow(e - a)
      BY <1>8, <3>1
    <3> QED
      BY <1>10, <1>11, <3>2
  <2>2. e - a = e - k + 1
    BY <1>3
  <2>3. Len(g) = k /\ g[k].list = Extra[a] /\ v[k] <= Pow(e - k + 1)
    BY <1>5, <2>1, <2>2
  <2>4. v[k] = Len(seq'[Extra[a]]) /\ T[k] = Range(seq'[Extra[a]])
    BY <1>10
  <2> QED
    BY <2>3, <2>4 DEF SplitTop, e
<1>18. Alive(g)'
  <2>1. maxcount'[f[1].list] > 0 /\ \A j \in 1 .. e : maxcount'[Extra[j]] > 0 <=> j < k
    BY DEF Finished, e, k
  <2>2. g[1].list = f[1].list
    <3>1. 1 = a \/ 1 \in 1 .. a - 1
      BY <1>3
    <3> QED
      BY <1>5, <3>1
  <2> QED
    BY <1>5, <2>1, <2>2 DEF Alive, ExtraLives, e
<1>19. g[Len(g)].at # "merge"
  BY <1>5
<1> QED
  BY <1>2, <1>16, <1>17, <1>18, <1>19 DEF Sorting

\* v and T are w and S up to place a.
Shortened(w, S, a, v, T) ==
    /\ v \in [1 .. a -> Nat] /\ T \in [1 .. a -> SUBSET Node]
    /\ \A j \in 1 .. a : v[j] = w[j] /\ T[j] = S[j]

LEMMA Shorten ==
    ASSUME NEW k \in Nat, NEW w \in [1 .. k -> Nat], NEW S \in [1 .. k -> SUBSET Node], NEW a \in 1 .. k
    PROVE  \E v, T : Shortened(w, S, a, v, T)
<1> DEFINE v == [j \in 1 .. a |-> w[j]]
           T == [j \in 1 .. a |-> S[j]]
<1>1. \A j \in 1 .. a : j \in 1 .. k
  OBVIOUS
<1>2. Shortened(w, S, a, v, T)
  BY <1>1 DEF Shortened
<1> HIDE DEF v, T
<1> QED
  BY <1>2

\* list_merge begins with its lists l and s.
MergeFresh(h, dn, sn, l, s) == dn = h.next[l] /\ sn = h.next[s]

LEMMA MergedAtFirst ==
    ASSUME NEW h, NEW sq, NEW A, Lists(h, sq, A), NEW l \in A, NEW s \in A, Sorted(sq[l]), Sorted(sq[s]),
           NEW dn, NEW sn, MergeFresh(h, dn, sn, l, s)
    PROVE  /\ 1 \in 1 .. Len(sq[l]) + 1 /\ dn = At(l, sq[l], 1) /\ sn = At(s, sq[s], 1)
           /\ \A i \in 1 .. 1 - 1, j \in 1 .. Len(sq[s]) : KeyOf[sq[l][i]] <= KeyOf[sq[s][j]]
<1>1. sq[l] \in Seq(Node) /\ h.next[l] = At(l, sq[l], 1) /\ h.next[s] = At(s, sq[s], 1)
  BY RingIsThreaded
<1>2. Len(sq[l]) \in Nat
  BY <1>1
<1>3. 1 \in 1 .. Len(sq[l]) + 1 /\ \A i \in 1 .. 1 - 1 : FALSE
  BY <1>2
<1> QED
  BY <1>1, <1>3 DEF MergeFresh

\* The caller goes on to merge its halves.
LEMMA MergeSorting ==
    ASSUME NEW A, Lists(heap', seq', A), {x \in Header : maxcount'[x] > 0} \subseteq A,
           NEW f, NEW n, Stack(f), Len(f) > 1, f[Len(f) - 1].at = "right", Finished(f, n)',
           NEW g, NEW dn, NEW sn, MergeStack(f, g, dn, sn), Len(g) = Len(f) - 1,
           MergeFresh(heap', dn, sn, f[Len(g)].list, Extra[Len(g)])
    PROVE  Sorting(g, n)'
<1> DEFINE k == Len(f)
           e == Len(Extra)
           a == Len(g)
<1>1. StackApart(f)
  BY StackIsApart
<1>2. Stack(g)
  BY StackMerge
<1>3. /\ k \in Nat /\ k > 1 /\ e \in Nat /\ k <= e + 1
      /\ a \in Nat /\ a >= 1 /\ k = a + 1 /\ a \in 1 .. e /\ a \in 1 .. k - 1 /\ k \in 1 .. k
      /\ a \in 1 .. k
  <2>1. k \in Nat /\ e \in Nat
    BY <1>1, ExtraHeaders DEF StackApart
  <2>2. k <= e + 1
    BY <2>1 DEF Stack
  <2>3. k > 1 /\ a = k - 1
    OBVIOUS
  <2> HIDE DEF k, e, a
  <2> QED
    BY <2>1, <2>2, <2>3
<1>4. /\ f[a].sour = Extra[a] /\ f[k].list = Extra[a] /\ f[a].at = "right"
      /\ Extra[a] \in Header /\ f[a].list \in Header
  <2>1. \A j \in 1 .. k - 1 :
            /\ f[j].sour = Extra[j]
            /\ f[j + 1].list = IF f[j].at = "left" THEN f[j].list ELSE Extra[j]
    BY DEF Stack
  <2>2. f[a].at = "right"
    OBVIOUS
  <2>3. f[a].list \in Header /\ Extra[a] \in Header
    <3>1. a \in 1 .. Len(f) /\ a \in 1 .. e
      BY <1>3
    <3> HIDE DEF a
    <3> QED
      BY <1>1, <3>1, ExtraHeaders DEF StackApart
  <2> HIDE DEF k, a
  <2> QED
    BY <1>3, <2>1, <2>2, <2>3
<1>5. /\ g \in Seq(FrameType) /\ \A j \in 1 .. a - 1 : g[j] = f[j]
      /\ g[a].at = "merge" /\ g[a].list = f[a].list /\ g[a].sour = Extra[a]
      /\ g[a].dn = dn /\ g[a].sn = sn
  <2>1. Len(g) # Len(f)
    BY <1>3
  <2> QED
    BY <2>1 DEF MergeStack
<1>6. PICK w, S : Below(f, n, w, S)' /\ w[k] = Len(seq'[f[k].list])
                  /\ S[k] = Range(seq'[f[k].list]) /\ Sorted(seq'[f[k].list])
  BY DEF Finished
<1>7. Len(g) = a
  OBVIOUS
<1>8. /\ maxcount'[f[1].list] > 0 /\ \A j \in 1 .. e : maxcount'[Extra[j]] > 0 <=> j < k
  BY DEF Finished
<1>9. MergeFresh(heap', dn, sn, f[a].list, Extra[a])
  OBVIOUS
<1>10. f[a].list = f[1].list \/ \E m \in 1 .. a - 1 : f[a].list = Extra[m]
  <2>1. \A j \in 1 .. k : f[j].list = f[1].list \/ \E m \in 1 .. j - 1 : f[j].list = Extra[m]
    BY DEF Stack
  <2> HIDE DEF k, a
  <2> QED
    BY <1>3, <2>1
<1> HIDE DEF a, k, e
<1>11. /\ w \in [1 .. k -> Nat] /\ S \in [1 .. k -> SUBSET Node] /\ S[1] = n
       /\ \A j \in 1 .. k : w[j] <= maxcount'[f[j].list]
       /\ \A j \in 1 .. k - 1 :
             /\ w[j] = w[j + 1] + Len(seq'[Waiting(f, j)])
             /\ S[j] = S[j + 1] \cup Range(seq'[Waiting(f, j)])
             /\ f[j].at = "left" => Len(seq'[Waiting(f, j)]) <= Pow(e - j)
             /\ f[j].at = "right" => Sorted(seq'[Waiting(f, j)])
  BY <1>6 DEF Below, k, e
<1>12. PICK v, T : Shortened(w, S, a, v, T)
  <2>1. k \in Nat /\ a \in 1 .. k /\ w \in [1 .. k -> Nat] /\ S \in [1 .. k -> SUBSET Node]
    BY <1>3, <1>11
  <2> QED
    BY <2>1, Shorten
<1>13. /\ v \in [1 .. a -> Nat] /\ T \in [1 .. a -> SUBSET Node]
       /\ \A j \in 1 .. a : v[j] = w[j] /\ T[j] = S[j] /\ j \in 1 .. k
  <2>1. \A j \in 1 .. a : j \in 1 .. k
    BY <1>3
  <2> QED
    BY <1>12, <2>1 DEF Shortened
<1>14. maxcount'[f[a].list] > 0 /\ maxcount'[Extra[a]] > 0
  <2>1. maxcount'[Extra[a]] > 0
    BY <1>3, <1>8
  <2>2. \A m \in 1 .. a - 1 : maxcount'[Extra[m]] > 0
    <3>1. \A m \in 1 .. a - 1 : m \in 1 .. e /\ m < k
      BY <1>3
    <3> QED
      BY <1>8, <3>1
  <2> QED
    BY <1>8, <1>10, <2>1, <2>2
<1>15. f[a].list \in A /\ Extra[a] \in A
  BY <1>4, <1>14
<1>16. Waiting(f, a) = f[a].list
  BY <1>4 DEF Waiting
<1>17. Sorted(seq'[f[a].list]) /\ Sorted(seq'[Extra[a]])
  BY <1>3, <1>4, <1>6, <1>11, <1>16
<1>18. /\ 1 \in 1 .. Len(seq'[f[a].list]) + 1 /\ dn = At(f[a].list, seq'[f[a].list], 1)
       /\ sn = At(Extra[a], seq'[Extra[a]], 1)
       /\ \A i \in 1 .. 1 - 1, j \in 1 .. Len(seq'[Extra[a]]) :
             KeyOf[seq'[f[a].list][i]] <= KeyOf[seq'[Extra[a]][j]]
  BY <1>9, <1>15, <1>17, MergedAtFirst
<1>19. Merged(f[a].list, Extra[a], dn, sn, 1)'
  BY <1>17, <1>18 DEF Merged
<1>20. /\ w[a] = w[k] + Len(seq'[f[a].list]) /\ S[a] = S[k] \cup Range(seq'[f[a].list])
       /\ w[k] = Len(seq'[Extra[a]]) /\ S[k] = Range(seq'[Extra[a]])
  BY <1>3, <1>4, <1>6, <1>11, <1>16
<1>21. /\ v[a] = Len(seq'[f[a].list]) + Len(seq'[Extra[a]])
       /\ T[a] = Range(seq'[f[a].list]) \cup Range(seq'[Extra[a]])
  <2>1. a \in 1 .. a
    BY <1>3
  <2>2. v[a] = w[a] /\ T[a] = S[a]
    BY <1>13, <2>1
  <2>3. seq'[f[a].list] \in Seq(Node) /\ seq'[Extra[a]] \in Seq(Node)
    BY <1>4 DEF Lists
  <2>4. Len(seq'[f[a].list]) \in Nat /\ Len(seq'[Extra[a]]) \in Nat
    BY <2>3
  <2>5. \A x, y \in Nat : x + y = y + x
    OBVIOUS
  <2> QED
    BY <1>20, <2>2, <2>4, <2>5
<1>22. MergeTop(g, v, T)'
  <2>1. \E x : Merged(g[a].list, g[a].sour, g[a].dn, g[a].sn, x)'
    BY <1>5, <1>19
  <2> QED
    BY <1>5, <1>7, <1>14, <1>21, <2>1 DEF MergeTop
<1>23. \A j \in 1 .. a - 1 : Waiting(g, j) = Waiting(f, j) /\ g[j].at = f[j].at
  BY <1>5 DEF Waiting
<1>24. ASSUME NEW j \in 1 .. a - 1
       PROVE  /\ v[j] = v[j + 1] + Len(seq'[Waiting(g, j)])
              /\ T[j] = T[j + 1] \cup Range(seq'[Waiting(g, j)])
              /\ g[j].at = "left" => Len(seq'[Waiting(g, j)]) <= Pow(e - j)
              /\ g[j].at = "right" => Sorted(seq'[Waiting(g, j)])
  <2>1. j \in 1 .. a /\ j + 1 \in 1 .. a /\ j \in 1 .. k - 1
    BY <1>3
  <2>2. v[j] = w[j] /\ T[j] = S[j] /\ v[j + 1] = w[j + 1] /\ T[j + 1] = S[j + 1]
    BY <1>13, <2>1
  <2> QED
    BY <1>11, <1>23, <2>1, <2>2
<1>25. ASSUME NEW j \in 1 .. a PROVE v[j] <= maxcount'[g[j].list] /\ g[j].list = f[j].list
  <2>1. j = a \/ j \in 1 .. a - 1
    BY <1>3
  <2>2. g[j].list = f[j].list
    BY <1>5, <2>1
  <2> QED
    BY <1>11, <1>13, <2>2
<1>26. T[1] = n /\ g[1].list = f[1].list
  <2>1. 1 \in 1 .. a
    BY <1>3
  <2> QED
    BY <1>11, <1>13, <1>25, <2>1
<1>27. Below(g, n, v, T)'
  BY <1>7, <1>13, <1>24, <1>25, <1>26 DEF Below, e
<1>28. Alive(g)'
  <2>1. \A j \in 1 .. e : ExtraLives(g, j) <=> j < k
    <3>1. \A j \in 1 .. e : j < k <=> (j < a \/ j = a)
      BY <1>3
    <3> QED
      BY <1>5, <1>7, <3>1 DEF ExtraLives
  <2> QED
    BY <1>8, <1>26, <2>1 DEF Alive, e
<1>29. g[Len(g)].at # "split"
  BY <1>5, <1>7
<1> QED
  BY <1>2, <1>22, <1>27, <1>28, <1>29 DEF Sorting

\* The record of a running list_sort.
LEMMA SortingOn ==
    ASSUME NEW f, NEW g, NEW n, op = SortRecord(f), op.nodes = n, op' = SortRecord(g), Sorting(g, n)'
    PROVE  SortInv' /\ Shape' /\ Emptying' = {}
<1>1. op'.do = "sort" /\ op'.frames = g /\ op'.nodes = n /\ op'.lists = op.lists
  BY DEF SortRecord
<1>2. op' = SortRecord(op.frames)'
  BY <1>1 DEF SortRecord
<1>3. Sorting(op.frames, op.nodes)'
  BY <1>1
<1> QED
  BY <1>1, <1>2, <1>3 DEF SortInv, Shape, Emptying

LEMMA WithFrames ==
    ASSUME NEW f, op = SortRecord(f), NEW g
    PROVE  [op EXCEPT !.frames = g] = SortRecord(g)
BY DEF SortRecord

\* What Pop(h) returns to when frames are left.
PopTo(f, h, g) ==
    \/ f[Len(f) - 1].at = "left" /\ RightStack(f, g)
    \/ /\ f[Len(f) - 1].at = "right" /\ Len(g) = Len(f) - 1
       /\ \E dn, sn : /\ MergeStack(f, g, dn, sn)
                      /\ MergeFresh(h, dn, sn, f[Len(g)].list, Extra[Len(g)])

LEMMA FrameTypes ==
    ASSUME NEW h \in HeapType, NEW l \in Header, NEW s \in Header
    PROVE  SortFrame(l) \in FrameType /\ MergeFrame(h, l, s) \in FrameType
<1>1. h.next[l] \in Cell \cup {NULL} /\ h.next[s] \in Cell \cup {NULL}
  BY DEF HeapType, Cell
<1> QED
  BY <1>1 DEF SortFrame, MergeFrame, FrameType

LEMMA PopReaches ==
    ASSUME NEW f, op = SortRecord(f), Stack(f), Len(f) > 1, NEW h \in HeapType
    PROVE  \E g : Pop(h) = SortRecord(g) /\ PopTo(f, h, g)
<1> DEFINE k == Len(f)
           a == Len(f) - 1
           rest == Front(f)
<1>1. StackApart(f)
  BY StackIsApart
<1>2. f \in Seq(FrameType) /\ k \in Nat /\ k > 1 /\ a \in Nat /\ a >= 1 /\ k = a + 1 /\ a \in 1 .. k
  BY <1>1 DEF Stack, StackApart
<1>3. f[a].at \in {"left", "right"} /\ f[a].sour = Extra[a] /\ Extra[a] \in Header
  <2>1. a \in 1 .. Len(f) - 1
    BY <1>2
  <2>2. a \in 1 .. Len(Extra)
    <3> HIDE DEF a
    <3> QED
      BY <1>1, <1>2, <2>1, ExtraHeaders DEF StackApart
  <2> HIDE DEF a
  <2> QED
    BY <2>1, <2>2, ExtraHeaders DEF Stack
<1>4. f[a] \in FrameType /\ f[a].list \in Header
  <2> HIDE DEF a
  <2> QED
    BY <1>1, <1>2 DEF StackApart
<1>5. rest \in Seq(FrameType) /\ Len(rest) = a /\ \A x \in 1 .. a : rest[x] = f[x]
  <2>1. f \in Seq(FrameType) /\ Len(f) > 0
    BY <1>2
  <2> QED
    BY <2>1, FrontFacts
<1>6. op.frames = f
  BY DEF SortRecord
<1> HIDE DEF rest
<1>7. Last(rest) = f[a]
  <2>1. a \in 1 .. a
    BY <1>2
  <2> HIDE DEF a
  <2> QED
    BY <1>5, <2>1 DEF Last
<1>8. \A fr \in FrameType : OnTop(Append(Front(rest), fr), rest, a - 1, fr)
  <2>1. Len(rest) > 0 /\ Len(rest) = a
    BY <1>2, <1>5
  <2> HIDE DEF a
  <2> QED
    BY <1>5, <2>1, TopReplaced
<1>9. CASE f[a].at = "left"
  <2> DEFINE fr == [f[a] EXCEPT !.at = "right"]
             g1 == Append(Front(rest), fr)
             g  == Append(g1, SortFrame(Extra[a]))
  <2>1. fr \in FrameType /\ fr.at = "right" /\ fr.list = f[a].list /\ fr.sour = Extra[a]
    <3> HIDE DEF a
    <3> QED
      BY <1>3, <1>4 DEF FrameType
  <2>2. SortFrame(Extra[a]) \in FrameType
    <3>1. h \in HeapType /\ Extra[a] \in Header
      BY <1>3
    <3> HIDE DEF a
    <3> QED
      BY <3>1, FrameTypes
  <2>3. Pop(h) = [[op EXCEPT !.frames = g1] EXCEPT !.frames = g]
    <3>1. Len(op.frames) # 1 /\ Last(Front(op.frames)) = f[a] /\ Front(op.frames) = rest
      BY <1>2, <1>6, <1>7 DEF rest
    <3>2. [op EXCEPT !.frames = g1].frames = g1
      BY DEF SortRecord
    <3>3. f[a].sour = Extra[a]
      BY <1>3
    <3> HIDE DEF a
    <3> QED
      BY <1>9, <3>1, <3>2, <3>3 DEF Pop, Push
  <2>4. OnTop(g1, rest, a - 1, fr)
    BY <1>8, <2>1
  <2> HIDE DEF g1, fr
  <2>5. g1 \in Seq(FrameType) /\ Len(g1) = a /\ g1[a] = fr /\ \A j \in 1 .. a - 1 : g1[j] = f[j]
    <3>1. (a - 1) + 1 = a /\ \A j \in 1 .. a - 1 : j \in 1 .. a
      BY <1>2
    <3> HIDE DEF a
    <3> QED
      BY <1>5, <2>4, <3>1 DEF OnTop
  <2>6. OnTop(g, g1, a, SortFrame(Extra[a]))
    BY <2>2, <2>5, TopPushed
  <2> HIDE DEF g
  <2>7. RightStack(f, g)
    <3>1. a = k - 1 /\ a - 1 = k - 2 /\ k = a + 1 /\ a \in 1 .. a /\ \A j \in 1 .. a - 1 : j \in 1 .. a
      BY <1>2
    <3>2. g \in Seq(FrameType) /\ Len(g) = k /\ g[k] = SortFrame(Extra[a]) /\ \A j \in 1 .. a : g[j] = g1[j]
      <4> HIDE DEF a, k
      <4> QED
        BY <2>6, <3>1 DEF OnTop
    <3>3. g[a] = fr /\ \A j \in 1 .. a - 1 : g[j] = f[j]
      <4> HIDE DEF a, k
      <4> QED
        BY <2>5, <3>1, <3>2
    <3> HIDE DEF a
    <3> QED
      BY <2>1, <3>1, <3>2, <3>3 DEF RightStack
  <2>8. Pop(h) = SortRecord(g)
    <3>1. [op EXCEPT !.frames = g1] = SortRecord(g1)
      BY WithFrames
    <3>2. [SortRecord(g1) EXCEPT !.frames = g] = SortRecord(g)
      BY DEF SortRecord
    <3> QED
      BY <2>3, <3>1, <3>2
  <2>9. PopTo(f, h, g)
    BY <1>9, <2>7 DEF PopTo
  <2> QED
    BY <2>8, <2>9
<1>10. CASE f[a].at = "right"
  <2> DEFINE fr == MergeFrame(h, f[a].list, Extra[a])
             g  == Append(Front(rest), fr)
  <2>1. fr \in FrameType
    <3>1. h \in HeapType /\ Extra[a] \in Header /\ f[a].list \in Header
      BY <1>3, <1>4
    <3> HIDE DEF a
    <3> QED
      BY <3>1, FrameTypes
  <2>2. Pop(h) = [op EXCEPT !.frames = g]
    <3>1. Len(op.frames) # 1 /\ Last(Front(op.frames)) = f[a] /\ Front(op.frames) = rest
      BY <1>2, <1>6, <1>7 DEF rest
    <3>3. f[a].sour = Extra[a]
      BY <1>3
    <3> HIDE DEF a
    <3> QED
      BY <1>10, <3>1, <3>3 DEF Pop
  <2>3. OnTop(g, rest, a - 1, fr)
    BY <1>8, <2>1
  <2> HIDE DEF g, fr
  <2>4. g \in Seq(FrameType) /\ Len(g) = a /\ g[a] = fr /\ \A j \in 1 .. a - 1 : g[j] = f[j]
    <3>1. (a - 1) + 1 = a /\ \A j \in 1 .. a - 1 : j \in 1 .. a
      BY <1>2
    <3> HIDE DEF a
    <3> QED
      BY <1>5, <2>3, <3>1 DEF OnTop
  <2>5. MergeStack(f, g, h.next[f[a].list], h.next[Extra[a]])
    <3>0. Len(f) = k
      OBVIOUS
    <3>1. a # Len(f) /\ a \in 1 .. Len(f)
      <4> HIDE DEF a, k
      <4>1. a # k
        BY <1>2
      <4> QED
        BY <1>2, <3>0, <4>1
    <3>2. /\ fr.at = "merge" /\ fr.list = f[a].list /\ fr.sour = Extra[a]
          /\ fr.dn = h.next[f[a].list] /\ fr.sn = h.next[Extra[a]]
      BY DEF fr, MergeFrame
    <3> HIDE DEF a
    <3> QED
      BY <2>4, <3>1, <3>2 DEF MergeStack
  <2>6. PopTo(f, h, g)
    <3>1. MergeFresh(h, h.next[f[a].list], h.next[Extra[a]], f[a].list, Extra[a])
      BY DEF MergeFresh
    <3> QED
      BY <1>10, <2>4, <2>5, <3>1 DEF PopTo
  <2>7. Pop(h) = SortRecord(g)
    BY <2>2 DEF SortRecord
  <2> QED
    BY <2>6, <2>7
<1> QED
  BY <1>3, <1>9, <1>10

Counted == \A l \in Header : nodecount[l] = Len(seq[l]) /\ nodecount[l] <= maxcount[l]

\* The return of list_sort or list_merge.
LEMMA PopKeeps ==
    ASSUME NEW f, NEW n, op = SortRecord(f), op.nodes = n, Stack(f), Types', Counted',
           NEW A, Lists(heap', seq', A), {x \in Header : maxcount'[x] > 0} \subseteq A,
           Finished(f, n)', op' = Pop(heap')
    PROVE  SortInv' /\ Shape' /\ Emptying' = {}
<1>1. op.frames = f /\ op.do = "sort"
  BY DEF SortRecord
<1>2. Len(f) \in Nat /\ Len(f) >= 1
  BY StackIsApart DEF StackApart
<1>3. CASE Len(f) = 1
  <2>1. op' = Idle
    BY <1>1, <1>3 DEF Pop
  <2>2. \A j \in 1 .. Len(Extra) : maxcount'[Extra[j]] > 0 <=> j < Len(f)
    BY DEF Finished
  <2>3. ASSUME NEW j \in 1 .. Len(Extra) PROVE maxcount'[Extra[j]] = 0
    <3>1. Extra[j] \in Header
      BY ExtraHeaders
    <3>2. maxcount'[Extra[j]] \in Nat
      BY <3>1 DEF Types
    <3>3. j \in Nat /\ j >= 1
      BY ExtraHeaders
    <3> QED
      BY <1>3, <2>2, <3>2, <3>3
  <2> QED
    BY <2>1, <2>3 DEF SortInv, Shape, Emptying, Idle
<1>4. CASE Len(f) > 1
  <2>1. heap' \in HeapType
    BY DEF Lists
  <2>2. PICK g : Pop(heap') = SortRecord(g) /\ PopTo(f, heap', g)
    BY <1>4, <2>1, PopReaches
  <2>3. op' = SortRecord(g)
    BY <2>2
  <2>4. op'.do = "sort"
    BY <2>3 DEF SortRecord
  <2>5. Emptying' = {}
    BY <2>4 DEF Emptying
  <2>6. Counts'
    BY <2>5 DEF Counted, Counts
  <2>7. CASE f[Len(f) - 1].at = "left" /\ RightStack(f, g)
    <3>1. Sorting(g, n)'
      BY <1>4, <2>5, <2>6, <2>7, RightSorting
    <3> QED
      BY <2>3, <3>1, SortingOn
  <2>8. CASE /\ f[Len(f) - 1].at = "right" /\ Len(g) = Len(f) - 1
             /\ \E dn, sn : /\ MergeStack(f, g, dn, sn)
                            /\ MergeFresh(heap', dn, sn, f[Len(g)].list, Extra[Len(g)])
    <3>1. PICK dn, sn : /\ MergeStack(f, g, dn, sn)
                        /\ MergeFresh(heap', dn, sn, f[Len(g)].list, Extra[Len(g)])
      BY <2>8
    <3>2. Sorting(g, n)'
      BY <1>4, <2>8, <3>1, MergeSorting
    <3> QED
      BY <2>3, <3>2, SortingOn
  <2> QED
    BY <2>2, <2>7, <2>8 DEF PopTo
<1>5. Len(f) = 1 \/ Len(f) > 1
  <2>1. \A x \in Nat : x >= 1 => x = 1 \/ x > 1
    OBVIOUS
  <2> QED
    BY <1>2, <2>1
<1> QED
  BY <1>3, <1>4, <1>5

-----------------------------------------------------------------------------
(***************************************************************************)
(* The calls of list_sort and list_merge by the client.                    *)
(***************************************************************************)
FirstFrame(fr) ==
    /\ fr \in FrameType /\ fr.list \in List
    /\ fr.at = "split" \/ (fr.at = "merge" /\ fr.sour \in List /\ fr.sour # fr.list)

LEMMA OneFrame ==
    ASSUME NEW fr, FirstFrame(fr), NEW f, f = <<fr>>
    PROVE  Stack(f) /\ Len(f) = 1 /\ f[1] = fr
<1>1. fr \in FrameType /\ fr.list \in List
      /\ (fr.at = "split" \/ (fr.at = "merge" /\ fr.sour \in List /\ fr.sour # fr.list))
  BY DEF FirstFrame
<1>2. f \in Seq(FrameType) /\ Len(f) = 1 /\ f[1] = fr
  BY <1>1
<1>3. Len(Extra) \in Nat
  BY ExtraHeaders
<1>4. 1 \in 1 .. Len(Extra) + 1 /\ (\A j \in 1 .. 1 - 1 : FALSE) /\ \A i, j \in 1 .. 1 : ~(j < i)
  BY <1>3
<1>5. \A j \in 1 .. 1 : f[j].list = f[1].list
  OBVIOUS
<1>6. Stack(f)
  BY <1>1, <1>2, <1>4, <1>5 DEF Stack
<1> QED
  BY <1>2, <1>6

\* The first frame has x nodes, the set n, to deal with.
Begins(fr, x, n) ==
    /\ FirstFrame(fr) /\ x \in Nat /\ n \subseteq Node /\ x <= maxcount[fr.list] /\ maxcount[fr.list] > 0
    /\ fr.at = "split" => x = Len(seq[fr.list]) /\ n = Range(seq[fr.list]) /\ x <= Pow(Len(Extra))
    /\ fr.at = "merge" => /\ x = Len(seq[fr.list]) + Len(seq[fr.sour]) /\ maxcount[fr.sour] > 0
                          /\ n = Range(seq[fr.list]) \cup Range(seq[fr.sour])
                          /\ Merged(fr.list, fr.sour, fr.dn, fr.sn, 1)

LEMMA BegunSorting ==
    ASSUME \A j \in 1 .. Len(Extra) : maxcount[Extra[j]] = 0,
           NEW fr, NEW x, NEW n, Begins(fr, x, n), maxcount' = maxcount, seq' = seq, NEW f, f = <<fr>>
    PROVE  Sorting(f, n)'
<1>1. Stack(f) /\ Len(f) = 1 /\ f[1] = fr
  BY OneFrame DEF Begins
<1> DEFINE w == [j \in 1 .. 1 |-> x]
           S == [j \in 1 .. 1 |-> n]
<1>2. /\ w \in [1 .. 1 -> Nat] /\ S \in [1 .. 1 -> SUBSET Node] /\ w[1] = x /\ S[1] = n
  BY DEF Begins
<1>3. \A j \in 1 .. 1 : j = 1
  OBVIOUS
<1>4. \A j \in 1 .. 1 - 1 : FALSE
  OBVIOUS
<1> HIDE DEF w, S
<1>5. Below(f, n, w, S)'
  <2>1. \A j \in 1 .. 1 : w[j] <= maxcount'[f[j].list]
    BY <1>1, <1>2, <1>3 DEF Begins
  <2> QED
    BY <1>1, <1>2, <1>4, <2>1 DEF Below
<1>6. (fr.at = "split" => SplitTop(f, w, S))'
  <2>1. Len(Extra) \in Nat
    BY ExtraHeaders
  <2>2. Len(Extra) - 1 + 1 = Len(Extra)
    BY <2>1
  <2> QED
    BY <1>1, <1>2, <2>2 DEF SplitTop, Begins
<1>7. (fr.at = "merge" => MergeTop(f, w, S))'
  <2>1. Merged(fr.list, fr.sour, fr.dn, fr.sn, 1) <=> Merged(fr.list, fr.sour, fr.dn, fr.sn, 1)'
    BY DEF Merged
  <2>2. fr.at = "merge" => \E a : Merged(fr.list, fr.sour, fr.dn, fr.sn, a)'
    BY <2>1 DEF Begins
  <2> QED
    BY <1>1, <1>2, <2>2 DEF MergeTop, Begins
<1>8. Alive(f)'
  <2>1. fr.at = "split" \/ fr.sour \in List
    BY DEF Begins, FirstFrame
  <2>2. ASSUME NEW j \in 1 .. Len(Extra) PROVE ~ExtraLives(f, j)
    <3>1. Extra[j] \notin List /\ ~(j < 1)
      BY ExtraHeaders
    <3> QED
      BY <1>1, <2>1, <3>1 DEF ExtraLives
  <2>3. \A j \in 1 .. Len(Extra) : ~(maxcount'[Extra[j]] > 0)
    OBVIOUS
  <2>4. maxcount'[f[1].list] > 0
    BY <1>1 DEF Begins
  <2> QED
    BY <2>2, <2>3, <2>4 DEF Alive
<1> QED
  BY <1>1, <1>5, <1>6, <1>7, <1>8 DEF Sorting

LEMMA BeginKeeps ==
    ASSUME Inv, Quiet, UNCHANGED <<heap, nodecount, maxcount, fre, pooled, scan, seq, held>>,
           NEW f, NEW n, NEW ls, op' = [do |-> "sort", frames |-> f, lists |-> ls, nodes |-> n],
           Sorting(f, n)'
    PROVE  Inv'
<1>1. op = Idle /\ scan = NoScan /\ scan' = NoScan /\ op.do = "idle"
  BY DEF Quiet, Idle
<1>2. op'.do = "sort" /\ op'.frames = f /\ op'.nodes = n /\ op'.lists = ls
  OBVIOUS
<1>3. Emptying = {} /\ Emptying' = {}
  BY <1>1, <1>2 DEF Emptying
<1>4. Types' /\ Places' /\ Rings' /\ Counts' /\ PoolInv'
  BY <1>3, SameLists
<1>5. SortInv'
  <2>1. op' = SortRecord(op.frames)'
    BY <1>2 DEF SortRecord
  <2>2. Sorting(op.frames, op.nodes)'
    BY <1>2
  <2> QED
    BY <1>2, <2>1, <2>2 DEF SortInv
<1>6. Shape' /\ EmptyInv' /\ ScanInv'
  BY <1>1, <1>2 DEF Shape, EmptyInv, ScanInv
<1> QED
  BY <1>4, <1>5, <1>6 DEF Inv

LEMMA IdleExtras ==
    ASSUME Inv, Quiet
    PROVE  /\ \A j \in 1 .. Len(Extra) : maxcount[Extra[j]] = 0
           /\ Lists(heap, seq, Fit) /\ Fit = {x \in Header : maxcount[x] > 0}
           /\ \A l \in List : l \in Header /\ nodecount[l] = Len(seq[l]) /\ Len(seq[l]) \in Nat
                              /\ Len(seq[l]) <= maxcount[l] /\ Range(seq[l]) \subseteq Node
<1>1. op = Idle
  BY DEF Quiet
<1>2. /\ \A j \in 1 .. Len(Extra) : maxcount[Extra[j]] = 0
      /\ Fit = {x \in Header : maxcount[x] > 0} /\ Emptying = {}
  BY <1>1, IdleFacts
<1>3. Lists(heap, seq, Fit) /\ Types /\ Counts
  BY CoreLists DEF Inv
<1>4. ASSUME NEW l \in List
      PROVE  /\ l \in Header /\ nodecount[l] = Len(seq[l]) /\ Len(seq[l]) \in Nat
             /\ Len(seq[l]) <= maxcount[l] /\ Range(seq[l]) \subseteq Node
  <2>1. l \in Header
    BY DEF Header
  <2>2. seq[l] \in Seq(Node)
    BY <1>3, <2>1 DEF Types
  <2>3. nodecount[l] = Len(seq[l]) /\ nodecount[l] <= maxcount[l]
    BY <1>2, <1>3, <2>1 DEF Counts
  <2> QED
    BY <2>1, <2>2, <2>3 DEF Range
<1> QED
  BY <1>2, <1>3, <1>4

LEMMA SortKeeps ==
    ASSUME Inv, NEW l \in List, Sort(l)
    PROVE  Inv'
<1>1. /\ Quiet /\ maxcount[l] > 0 /\ op' = Running({l}, <<SortFrame(l)>>)
      /\ UNCHANGED <<heap, nodecount, maxcount, fre, pooled, scan, seq, held>>
  BY DEF Sort, Live
<1>2. /\ \A j \in 1 .. Len(Extra) : maxcount[Extra[j]] = 0
      /\ Lists(heap, seq, Fit) /\ l \in Header /\ Len(seq[l]) \in Nat
      /\ Len(seq[l]) <= maxcount[l] /\ Range(seq[l]) \subseteq Node
  BY <1>1, IdleExtras
<1>3. Len(seq[l]) <= Pow(Len(Extra))
  <2>1. OnRing(l, seq[l])
    BY <1>2, ListsRings
  <2>2. Len(seq[l]) <= Cardinality(Node) /\ Cardinality(Node) \in Nat
    BY <2>1, InjectiveSize DEF OnRing
  <2>3. Cardinality(Node) <= Pow(Len(Extra))
    BY ListAssumption DEF Pow
  <2>4. Pow(Len(Extra)) \in Nat
    BY ExtraHeaders, PowerIsNat
  <2> QED
    BY <1>2, <2>2, <2>3, <2>4
<1>4. PICK n : n = Range(seq[l])
  OBVIOUS
<1>5. PICK x : x = Len(seq[l])
  OBVIOUS
<1> DEFINE fr == SortFrame(l)
<1>6. FirstFrame(fr) /\ fr.at = "split" /\ fr.list = l
  BY <1>2 DEF FirstFrame, SortFrame, FrameType
<1> HIDE DEF fr
<1>7. Begins(fr, x, n)
  BY <1>1, <1>2, <1>3, <1>4, <1>5, <1>6 DEF Begins
<1>8. Sorting(<<fr>>, n)'
  BY <1>1, <1>2, <1>7, BegunSorting
<1>9. op' = [do |-> "sort", frames |-> <<fr>>, lists |-> {l}, nodes |-> n]
  <2>1. UNION {Members(m) : m \in {l}} = n
    BY <1>4 DEF Members
  <2> QED
    BY <1>1, <2>1 DEF Running, fr
<1> QED
  BY <1>1, <1>8, <1>9, BeginKeeps

LEMMA MergeKeeps ==
    ASSUME Inv, NEW d \in List, NEW s \in List, Merge(d, s)
    PROVE  Inv'
<1>1. /\ Quiet /\ maxcount[d] > 0 /\ maxcount[s] > 0 /\ d # s
      /\ list_is_sorted(heap, d) /\ list_is_sorted(heap, s)
      /\ nodecount[d] + nodecount[s] <= maxcount[d]
      /\ op' = Running({d, s}, <<MergeFrame(heap, d, s)>>)
      /\ UNCHANGED <<heap, nodecount, maxcount, fre, pooled, scan, seq, held>>
  BY DEF Merge, Live
<1>2. /\ \A j \in 1 .. Len(Extra) : maxcount[Extra[j]] = 0
      /\ Lists(heap, seq, Fit) /\ d \in Header /\ s \in Header /\ Fit = {x \in Header : maxcount[x] > 0}
      /\ nodecount[d] = Len(seq[d]) /\ Len(seq[d]) \in Nat /\ Range(seq[d]) \subseteq Node
      /\ nodecount[s] = Len(seq[s]) /\ Len(seq[s]) \in Nat /\ Range(seq[s]) \subseteq Node
  BY <1>1, IdleExtras
<1>3. d \in Fit /\ s \in Fit
  BY <1>1, <1>2
<1>4. Sorted(seq[d]) /\ Sorted(seq[s])
  BY <1>1, <1>2, <1>3, IsSortedReads
<1>5. PICK dn, sn : dn = heap.next[d] /\ sn = heap.next[s]
  OBVIOUS
<1>6. MergeFresh(heap, dn, sn, d, s)
  BY <1>5 DEF MergeFresh
<1>7. Merged(d, s, dn, sn, 1)
  <2>1. /\ 1 \in 1 .. Len(seq[d]) + 1 /\ dn = At(d, seq[d], 1) /\ sn = At(s, seq[s], 1)
        /\ \A i \in 1 .. 1 - 1, j \in 1 .. Len(seq[s]) : KeyOf[seq[d][i]] <= KeyOf[seq[s][j]]
    BY <1>2, <1>3, <1>4, <1>6, MergedAtFirst
  <2> QED
    BY <1>4, <2>1 DEF Merged
<1>8. PICK n : n = Range(seq[d]) \cup Range(seq[s])
  OBVIOUS
<1>9. PICK x : x = Len(seq[d]) + Len(seq[s])
  OBVIOUS
<1> DEFINE fr == [at |-> "merge", list |-> d, sour |-> s, dn |-> dn, sn |-> sn]
<1>10. FirstFrame(fr) /\ fr.at = "merge" /\ fr.list = d /\ fr.sour = s /\ fr.dn = dn /\ fr.sn = sn
  <2>1. heap \in HeapType
    BY <1>2 DEF Lists
  <2>2. dn \in Cell \cup {NULL} /\ sn \in Cell \cup {NULL}
    BY <1>2, <1>5, <2>1 DEF HeapType, Cell
  <2> QED
    BY <1>1, <1>2, <2>2 DEF FirstFrame, FrameType
<1>11. <<fr>> = <<MergeFrame(heap, d, s)>>
  BY <1>5 DEF MergeFrame
<1> HIDE DEF fr
<1>12. Begins(fr, x, n)
  <2>2. n \subseteq Node
    BY <1>2, <1>8
  <2>3. Len(seq[d]) + Len(seq[s]) <= maxcount[d] /\ Len(seq[d]) \in Nat /\ Len(seq[s]) \in Nat
    BY <1>1, <1>2
  <2>5. \A p, q \in Nat : p + q \in Nat
    OBVIOUS
  <2>4. x \in Nat /\ x <= maxcount[d]
    BY <1>9, <2>3, <2>5, Zenon
  <2>1. x \in Nat /\ n \subseteq Node /\ x <= maxcount[d]
    BY <2>2, <2>4
  <2> QED
    BY <1>1, <1>7, <1>8, <1>9, <1>10, <2>1 DEF Begins
<1>13. Sorting(<<fr>>, n)'
  BY <1>1, <1>2, <1>12, BegunSorting
<1>14. op' = [do |-> "sort", frames |-> <<fr>>, lists |-> {d, s}, nodes |-> n]
  <2>1. UNION {Members(m) : m \in {d, s}} = n
    BY <1>8 DEF Members
  <2> QED
    BY <1>1, <1>11, <2>1 DEF Running
<1> QED
  BY <1>1, <1>13, <1>14, BeginKeeps

-----------------------------------------------------------------------------
(***************************************************************************)
(* The steps of list_sort and list_merge.                                  *)
(***************************************************************************)
Lives == {x \in Header : maxcount[x] > 0}

LEMMA SortFacts ==
    ASSUME Inv, op.do = "sort"
    PROVE  /\ op = SortRecord(op.frames) /\ Sorting(op.frames, op.nodes)
           /\ Emptying = {} /\ scan = NoScan /\ Types /\ Counted
           /\ Lists(heap, seq, Lives)
           /\ \A l \in Header : maxcount[l] = 0 => seq[l] = <<>>
<1>1. Types /\ Places /\ Rings /\ Counts /\ ScanInv /\ SortInv
  BY DEF Inv
<1>2. op = SortRecord(op.frames) /\ Sorting(op.frames, op.nodes)
  BY <1>1 DEF SortInv
<1>3. Emptying = {} /\ op # Idle
  BY DEF Emptying, Idle
<1>4. scan = NoScan
  BY <1>1, <1>3 DEF ScanInv
<1>5. Counted
  BY <1>1, <1>3 DEF Counts, Counted
<1>6. Fit = Lives
  BY <1>3 DEF Fit, Lives
<1>7. Lists(heap, seq, Lives)
  BY <1>1, <1>6, CoreLists
<1>8. \A l \in Header : maxcount[l] = 0 => seq[l] = <<>>
  BY <1>1 DEF Places
<1> QED
  BY <1>1, <1>2, <1>3, <1>4, <1>5, <1>7, <1>8

LEMMA SortStep ==
    ASSUME Inv, op.do = "sort", NEW A, Lists(heap', seq', A), Lives' \subseteq A,
           nodecount' \in [Header -> Nat], maxcount' \in [Header -> Nat], Counted',
           Elsewhere(heap, heap', InUse(seq)), InUse(seq') = InUse(seq),
           \A l \in Header : maxcount'[l] = 0 => seq'[l] = <<>>,
           UNCHANGED <<fre, pooled, scan, held>>, SortInv', Shape', Emptying' = {}
    PROVE  Inv'
<1>1. Types /\ Places /\ PoolInv /\ scan = NoScan
  BY SortFacts DEF Inv
<1>2. Rings' /\ Apart(seq')
  BY ListsCore DEF Lives
<1>3. heap' \in HeapType /\ seq' \in [Header -> Seq(Node)]
  BY DEF Lists
<1>4. Types'
  BY <1>1, <1>3 DEF Types
<1>5. Places'
  BY <1>1, <1>2 DEF Places
<1>6. Counts'
  BY DEF Counted, Counts
<1>7. InUse(seq)' = InUse(seq) /\ InUse(seq) \subseteq InUse(seq)
  BY DEF InUse
<1>8. PoolInv'
  BY <1>1, <1>7, PoolKept
<1>9. op'.do # "empty" /\ ScanInv'
  BY <1>1 DEF Emptying, ScanInv
<1>10. EmptyInv'
  BY <1>9 DEF EmptyInv
<1> QED
  BY <1>2, <1>4, <1>5, <1>6, <1>8, <1>9, <1>10 DEF Inv

\* Steps that only go on in the frames.
LEMMA SortStill ==
    ASSUME Inv, op.do = "sort",
           UNCHANGED <<heap, nodecount, maxcount, fre, pooled, scan, seq, held>>,
           SortInv', Shape', Emptying' = {}
    PROVE  Inv'
<1>1. Types /\ Counted /\ Lists(heap, seq, Lives) /\ \A l \in Header : maxcount[l] = 0 => seq[l] = <<>>
  BY SortFacts
<1>2. Lists(heap', seq', Lives) /\ Lives' \subseteq Lives /\ Counted'
  BY <1>1 DEF Lives, Counted
<1>3. Elsewhere(heap, heap', InUse(seq)) /\ InUse(seq') = InUse(seq)
  BY DEF Elsewhere
<1>4. nodecount' \in [Header -> Nat] /\ maxcount' \in [Header -> Nat]
  BY <1>1 DEF Types
<1> QED
  BY <1>1, <1>2, <1>3, <1>4, SortStep

LEMMA TopFacts ==
    ASSUME Inv, NEW at, Top(at)
    PROVE  \E f, n : /\ op = SortRecord(f) /\ op.nodes = n /\ op.frames = f /\ Frame = f[Len(f)]
                     /\ f[Len(f)].at = at /\ Sorting(f, n)
<1>1. op.do = "sort" /\ Last(op.frames).at = at
  BY DEF Top
<1>2. op = SortRecord(op.frames) /\ Sorting(op.frames, op.nodes)
  BY <1>1, SortFacts
<1> QED
  BY <1>1, <1>2 DEF Frame, Last

\* A list of at most one node is in order.
LEMMA ShortIsSorted == ASSUME NEW s \in Seq(Node), Len(s) <= 1 PROVE Sorted(s)
<1>1. Len(s) \in Nat
  OBVIOUS
<1>2. \A i, j \in 1 .. Len(s) : ~(i < j)
  BY <1>1
<1> QED
  BY <1>2 DEF Sorted

\* list_sort or list_merge, of the top frame f, returns with the nodes n.
Returning(f, n) ==
    /\ op = SortRecord(f) /\ op.nodes = n /\ op.frames = f /\ Stack(f)
    /\ Finished(f, n)' /\ op' = Pop(heap')

LEMMA ShortReturns == ASSUME Inv, SortShort PROVE \E f, n : Returning(f, n)
<1>1. /\ Top("split") /\ nodecount[Frame.list] <= 1 /\ op' = Pop(heap)
      /\ UNCHANGED <<heap, nodecount, maxcount, fre, pooled, scan, seq, held>>
  BY DEF SortShort
<1>2. op.do = "sort"
  BY <1>1 DEF Top
<1>3. PICK f, n : /\ op = SortRecord(f) /\ op.nodes = n /\ op.frames = f /\ Frame = f[Len(f)]
                  /\ f[Len(f)].at = "split" /\ Sorting(f, n)
  BY <1>1, TopFacts
<1>4. Types /\ Counted /\ Lists(heap, seq, Lives)
  BY <1>2, SortFacts
<1> DEFINE l == f[Len(f)].list
<1>5. Stack(f) /\ Alive(f) /\ \E w, S : Below(f, n, w, S) /\ SplitTop(f, w, S)
  BY <1>3 DEF Sorting
<1>6. l \in Header /\ Len(f) \in Nat
  <2>1. Len(f) \in 1 .. Len(f)
    BY <1>5, StackIsApart DEF StackApart
  <2> QED
    BY <1>5, <2>1, StackIsApart DEF StackApart
<1>7. Sorted(seq[l])
  <2>1. seq[l] \in Seq(Node)
    BY <1>4, <1>6 DEF Types
  <2>2. Len(seq[l]) <= 1
    BY <1>1, <1>3, <1>4, <1>6 DEF Counted
  <2> HIDE DEF l
  <2> QED
    BY <2>1, <2>2, ShortIsSorted
<1>8. Finished(f, n)'
  <2>1. PICK w, S : Below(f, n, w, S) /\ SplitTop(f, w, S)
    BY <1>5
  <2>2. Below(f, n, w, S)'
    BY <1>1, <2>1 DEF Below
  <2>3. w[Len(f)] = Len(seq'[l]) /\ S[Len(f)] = Range(seq'[l]) /\ Sorted(seq'[l])
    BY <1>1, <1>7, <2>1 DEF SplitTop
  <2>4. maxcount'[f[1].list] > 0 /\ \A j \in 1 .. Len(Extra) : maxcount'[Extra[j]] > 0 <=> j < Len(f)
    BY <1>1, <1>3, <1>5 DEF Alive, ExtraLives
  <2> QED
    BY <2>2, <2>3, <2>4 DEF Finished
<1> QED
  BY <1>1, <1>3, <1>5, <1>8 DEF Returning

LEMMA SortShortKeeps == ASSUME Inv, SortShort PROVE Inv'
<1>1. op.do = "sort" /\ UNCHANGED <<heap, nodecount, maxcount, fre, pooled, scan, seq, held>>
  BY DEF SortShort, Top
<1>2. PICK f, n : /\ op = SortRecord(f) /\ op.nodes = n /\ Stack(f)
                  /\ Finished(f, n)' /\ op' = Pop(heap')
  BY ShortReturns DEF Returning
<1>3. Types /\ Counted /\ Lists(heap, seq, Lives)
  BY <1>1, SortFacts
<1>4. Types' /\ Counted' /\ Lists(heap', seq', Lives) /\ {x \in Header : maxcount'[x] > 0} \subseteq Lives
  BY <1>1, <1>3 DEF Types, Counted, Lives
<1>5. SortInv' /\ Shape' /\ Emptying' = {}
  BY <1>2, <1>4, PopKeeps
<1> QED
  BY <1>1, <1>5, SortStill

\* The frame that runs does not touch what waits.
LEMMA WaitingElse ==
    ASSUME NEW f, Stack(f), NEW j \in 1 .. Len(f) - 1
    PROVE  /\ Waiting(f, j) \in Header /\ Waiting(f, j) # f[Len(f)].list
           /\ Len(f) <= Len(Extra) => Waiting(f, j) # Extra[Len(f)]
           /\ f[Len(f)].at = "merge" => Waiting(f, j) # f[Len(f)].sour
<1>1. StackApart(f)
  BY StackIsApart
<1> DEFINE k == Len(f)
<1>2. k \in Nat /\ k >= 1 /\ j \in 1 .. k - 1 /\ Len(Extra) \in Nat
  BY <1>1, ExtraHeaders DEF StackApart
<1>3. /\ Waiting(f, j) \in Header /\ Waiting(f, j) # f[k].list
      /\ \A m \in 1 .. Len(Extra) : j < m => Waiting(f, j) # Extra[m]
  BY <1>1 DEF StackApart
<1>4. f[k].at = "merge" => \/ k <= Len(Extra) /\ f[k].sour = Extra[k]
                           \/ k = 1 /\ f[k].sour \in List
  BY DEF Stack
<1> HIDE DEF k
<1>5. k <= Len(Extra) => k \in 1 .. Len(Extra) /\ j < k
  BY <1>2
<1>6. k # 1
  BY <1>2
<1> QED
  BY <1>3, <1>4, <1>5, <1>6 DEF k

LEMMA TopMerges ==
    ASSUME NEW f, op = SortRecord(f), Stack(f), NEW fr \in FrameType, fr.at = "merge",
           f[Len(f)].at = "merge", fr.list = f[Len(f)].list, fr.sour = f[Len(f)].sour
    PROVE  \E g : /\ WithTop(fr) = SortRecord(g) /\ Len(g) = Len(f)
                  /\ MergeStack(f, g, fr.dn, fr.sn)
<1> DEFINE k == Len(f)
           g == Append(Front(f), fr)
<1>1. f \in Seq(FrameType) /\ Len(f) > 0 /\ k \in Nat /\ k >= 1
  <2>1. k \in Nat /\ k >= 1
    BY StackIsApart DEF StackApart
  <2> QED
    BY <2>1 DEF Stack
<1>2. OnTop(g, f, k - 1, fr)
  BY <1>1, TopReplaced
<1>3. WithTop(fr) = SortRecord(g)
  <2>1. op = [do |-> "sort", frames |-> f, lists |-> op.lists, nodes |-> op.nodes]
    BY DEF SortRecord
  <2>2. op.frames = f
    BY <2>1
  <2>3. WithTop(fr) = [op EXCEPT !.frames = g]
    BY <2>2 DEF WithTop
  <2> HIDE DEF g
  <2> QED
    BY <2>1, <2>3 DEF SortRecord
<1> HIDE DEF g
<1>4. /\ g \in Seq(FrameType) /\ Len(g) = k /\ g[k] = fr /\ \A j \in 1 .. k - 1 : g[j] = f[j]
  <2>1. (k - 1) + 1 = k
    BY <1>1
  <2> QED
    BY <1>2, <2>1 DEF OnTop
<1>5. MergeStack(f, g, fr.dn, fr.sn)
  <2>1. k \in 1 .. k
    BY <1>1
  <2> QED
    BY <1>4, <2>1 DEF MergeStack
<1> QED
  BY <1>3, <1>4, <1>5

\* list_merge has the nodes it had, and goes on from dn and sn.
MergeGoesOn(l, s, dn, sn) ==
    /\ maxcount' = maxcount /\ \A x \in Header \ {l, s} : seq'[x] = seq[x]
    /\ Len(seq'[l]) + Len(seq'[s]) = Len(seq[l]) + Len(seq[s])
    /\ Range(seq'[l]) \cup Range(seq'[s]) = Range(seq[l]) \cup Range(seq[s])
    /\ \E a : Merged(l, s, dn, sn, a)'

LEMMA MergeGoes ==
    ASSUME NEW f, NEW n, Sorting(f, n), f[Len(f)].at = "merge",
           NEW g, NEW dn, NEW sn, MergeStack(f, g, dn, sn), Len(g) = Len(f),
           MergeGoesOn(f[Len(f)].list, f[Len(f)].sour, dn, sn)
    PROVE  Sorting(g, n)'
<1> DEFINE k == Len(f)
           l == f[k].list
           s == f[k].sour
<1>1. Stack(f) /\ Alive(f) /\ \E w, S : Below(f, n, w, S) /\ MergeTop(f, w, S)
  BY DEF Sorting
<1>2. Stack(g)
  BY <1>1, StackMerge
<1>3. k \in Nat /\ k >= 1
  BY <1>1, StackIsApart DEF StackApart
<1>4. /\ Len(g) = k /\ \A j \in 1 .. k - 1 : g[j] = f[j]
      /\ g[k].at = "merge" /\ g[k].list = l /\ g[k].sour = s /\ g[k].dn = dn /\ g[k].sn = sn
  BY DEF MergeStack
<1>5. f[k].at = "merge"
  OBVIOUS
<1>6. /\ maxcount' = maxcount /\ \A x \in Header \ {l, s} : seq'[x] = seq[x]
      /\ Len(seq'[l]) + Len(seq'[s]) = Len(seq[l]) + Len(seq[s])
      /\ Range(seq'[l]) \cup Range(seq'[s]) = Range(seq[l]) \cup Range(seq[s])
      /\ \E a : Merged(l, s, dn, sn, a)'
  BY DEF MergeGoesOn
<1>7. ASSUME NEW j \in 1 .. k - 1 PROVE Waiting(f, j) \in Header \ {l, s} /\ Waiting(g, j) = Waiting(f, j)
  <2>1. Waiting(f, j) \in Header /\ Waiting(f, j) # l /\ Waiting(f, j) # s
    BY <1>1, <1>5, WaitingElse
  <2>2. Waiting(g, j) = Waiting(f, j)
    BY <1>4 DEF Waiting
  <2> QED
    BY <2>1, <2>2
<1>8. PICK w, S : Below(f, n, w, S) /\ MergeTop(f, w, S)
  BY <1>1
<1>9. /\ w \in [1 .. k -> Nat] /\ S \in [1 .. k -> SUBSET Node] /\ S[1] = n
      /\ \A j \in 1 .. k : w[j] <= maxcount[f[j].list]
      /\ \A j \in 1 .. k - 1 :
            /\ w[j] = w[j + 1] + Len(seq[Waiting(f, j)])
            /\ S[j] = S[j + 1] \cup Range(seq[Waiting(f, j)])
            /\ f[j].at = "left" => Len(seq[Waiting(f, j)]) <= Pow(Len(Extra) - j)
            /\ f[j].at = "right" => Sorted(seq[Waiting(f, j)])
  BY <1>8 DEF Below
<1>10. /\ w[k] = Len(seq[l]) + Len(seq[s]) /\ S[k] = Range(seq[l]) \cup Range(seq[s])
       /\ maxcount[s] > 0
  BY <1>8 DEF MergeTop
<1>11. \A j \in 1 .. k : g[j].list = f[j].list
  <2>1. \A j \in 1 .. k : j = k \/ j \in 1 .. k - 1
    BY <1>3
  <2> QED
    BY <1>4, <2>1
<1>12. Alive(g)'
  <2>1. \A j \in 1 .. Len(Extra) : ExtraLives(g, j) <=> ExtraLives(f, j)
    BY <1>4, <1>5 DEF ExtraLives
  <2>2. g[1].list = f[1].list
    BY <1>3, <1>11
  <2> QED
    BY <1>1, <1>6, <2>1, <2>2 DEF Alive
<1> HIDE DEF k, l, s
<1>13. ASSUME NEW j \in 1 .. k - 1
       PROVE  /\ w[j] = w[j + 1] + Len(seq'[Waiting(g, j)])
              /\ S[j] = S[j + 1] \cup Range(seq'[Waiting(g, j)])
              /\ g[j].at = "left" => Len(seq'[Waiting(g, j)]) <= Pow(Len(Extra) - j)
              /\ g[j].at = "right" => Sorted(seq'[Waiting(g, j)])
  <2>1. seq'[Waiting(g, j)] = seq[Waiting(f, j)]
    BY <1>6, <1>7
  <2>2. g[j].at = f[j].at
    BY <1>4
  <2> QED
    BY <1>9, <2>1, <2>2
<1>14. \A j \in 1 .. k : w[j] <= maxcount'[g[j].list]
  BY <1>6, <1>9, <1>11
<1>15. Below(g, n, w, S)'
  BY <1>4, <1>9, <1>13, <1>14 DEF Below
<1>16. MergeTop(g, w, S)'
  <2>1. \E a : Merged(g[k].list, g[k].sour, g[k].dn, g[k].sn, a)'
    BY <1>4, <1>6
  <2>2. w[k] = Len(seq'[l]) + Len(seq'[s]) /\ S[k] = Range(seq'[l]) \cup Range(seq'[s])
        /\ maxcount'[s] > 0
    BY <1>6, <1>10
  <2> QED
    BY <1>4, <2>1, <2>2 DEF MergeTop
<1>17. g[Len(g)].at # "split"
  BY <1>4
<1> QED
  BY <1>2, <1>12, <1>15, <1>16, <1>17 DEF Sorting

\* Where list_merge stands.
MergePlace(p, q, l, s, dn, sn, a) ==
    /\ a \in 1 .. Len(p) /\ dn = p[a] /\ Len(q) >= 1 /\ 1 \in 1 .. Len(q) /\ sn = q[1]
    /\ Sorted(p) /\ Sorted(q)
    /\ \A i \in 1 .. a - 1, j \in 1 .. Len(q) : KeyOf[p[i]] <= KeyOf[q[j]]

LEMMA MergeStands ==
    ASSUME NEW l, NEW s, seq[l] \in Seq(Node), seq[s] \in Seq(Node), NEW dn, NEW sn, NEW a,
           Merged(l, s, dn, sn, a), dn # l, sn # s
    PROVE  MergePlace(seq[l], seq[s], l, s, dn, sn, a)
<1>1. /\ a \in 1 .. Len(seq[l]) + 1 /\ dn = At(l, seq[l], a) /\ sn = At(s, seq[s], 1)
      /\ Sorted(seq[l]) /\ Sorted(seq[s])
      /\ \A i \in 1 .. a - 1, j \in 1 .. Len(seq[s]) : KeyOf[seq[l][i]] <= KeyOf[seq[s][j]]
  BY DEF Merged
<1>2. a \in 1 .. Len(seq[l]) /\ dn = seq[l][a]
  BY <1>1 DEF At
<1>3. 1 \in 1 .. Len(seq[s]) /\ sn = seq[s][1]
  BY <1>1 DEF At
<1>4. Len(seq[s]) >= 1
  BY <1>3
<1> QED
  BY <1>1, <1>2, <1>3, <1>4 DEF MergePlace

LEMMA MergeKeepKeeps == ASSUME Inv, MergeKeep PROVE Inv'
<1>1. /\ Top("merge") /\ Frame.dn # Frame.list /\ Frame.sn # Frame.sour
      /\ ~(KeyOf[Frame.dn] >= KeyOf[Frame.sn])
      /\ op' = WithTop([Frame EXCEPT !.dn = heap.next[@]])
      /\ UNCHANGED <<heap, nodecount, maxcount, fre, pooled, scan, seq, held>>
  BY DEF MergeKeep, Merging, SourceFirst
<1>2. op.do = "sort"
  BY <1>1 DEF Top
<1>3. PICK f, n : /\ op = SortRecord(f) /\ op.nodes = n /\ Frame = f[Len(f)]
                  /\ f[Len(f)].at = "merge" /\ Sorting(f, n)
  BY <1>1, TopFacts
<1>4. Types /\ Lists(heap, seq, Lives)
  BY <1>2, SortFacts
<1> DEFINE fr == f[Len(f)]
           l  == fr.list
           s  == fr.sour
           dn == fr.dn
           sn == fr.sn
<1>5. Stack(f) /\ Alive(f) /\ \E w, S : Below(f, n, w, S) /\ MergeTop(f, w, S)
  BY <1>3 DEF Sorting
<1>6. Len(f) \in 1 .. Len(f) /\ fr \in FrameType /\ l \in Header
  <2>1. Len(f) \in 1 .. Len(f)
    BY <1>5, StackIsApart DEF StackApart
  <2> QED
    BY <1>5, <2>1, StackIsApart DEF StackApart
<1>7. maxcount[l] > 0
  BY <1>5, <1>6, StackAlive
<1>8. PICK a : Merged(l, s, dn, sn, a) /\ maxcount[s] > 0
  BY <1>5 DEF MergeTop
<1>9. s \in Header
  <2>1. \/ Len(f) <= Len(Extra) /\ s = Extra[Len(f)]
        \/ s \in List
    BY <1>3, <1>5 DEF Stack
  <2>2. Len(f) <= Len(Extra) => Len(f) \in 1 .. Len(Extra)
    BY <1>6, ExtraHeaders
  <2> QED
    BY <2>1, <2>2, ExtraHeaders DEF Header
<1>10. seq[l] \in Seq(Node) /\ seq[s] \in Seq(Node)
  BY <1>4, <1>6, <1>9 DEF Types
<1>11. dn # l /\ sn # s /\ ~(KeyOf[dn] >= KeyOf[sn]) /\ op' = WithTop([fr EXCEPT !.dn = heap.next[@]])
  BY <1>1, <1>3
<1> HIDE DEF l, s, dn, sn, fr
<1>12. MergePlace(seq[l], seq[s], l, s, dn, sn, a)
  BY <1>8, <1>10, <1>11, MergeStands
<1> DEFINE p == seq[l]
           q == seq[s]
<1>13. /\ a \in 1 .. Len(p) /\ dn = p[a] /\ 1 \in 1 .. Len(q) /\ sn = q[1]
       /\ Sorted(p) /\ Sorted(q)
       /\ \A i \in 1 .. a - 1, j \in 1 .. Len(q) : KeyOf[p[i]] <= KeyOf[q[j]]
  BY <1>12 DEF MergePlace
<1>14. p \in Seq(Node) /\ q \in Seq(Node)
  BY <1>10
<1> HIDE DEF p, q
<1>15. Len(p) \in Nat /\ Len(q) \in Nat /\ (\A i \in 1 .. Len(p) : KeyOf[p[i]] \in Int)
       /\ \A i \in 1 .. Len(q) : KeyOf[q[i]] \in Int
  <2>1. KeyOf \in [Node -> Int]
    BY ListAssumption
  <2> QED
    BY <1>14, <2>1
<1>16. heap.next[dn] = At(l, p, a + 1)
  <2>1. l \in Lives
    BY <1>6, <1>7 DEF Lives
  <2>2. Threaded(heap.next, l, seq[l])
    BY <1>4, <2>1, RingIsThreaded
  <2> QED
    BY <1>13, <2>2 DEF Threaded, p
<1>30. PICK nx : nx = heap.next[dn]
  OBVIOUS
<1>17. Merged(l, s, nx, sn, a + 1)
  <2>1. ASSUME NEW i \in 1 .. (a + 1) - 1, NEW j \in 1 .. Len(q) PROVE KeyOf[p[i]] <= KeyOf[q[j]]
    <3>1. CASE i \in 1 .. a - 1
      BY <1>13, <3>1
    <3>2. CASE i = a
      <4>1. KeyOf[p[a]] < KeyOf[q[1]] /\ KeyOf[p[a]] \in Int /\ KeyOf[q[1]] \in Int /\ KeyOf[q[j]] \in Int
        <5>1. KeyOf[p[a]] \in Int /\ KeyOf[q[1]] \in Int /\ KeyOf[q[j]] \in Int
          BY <1>13, <1>15
        <5>2. ~(KeyOf[p[a]] >= KeyOf[q[1]])
          BY <1>11, <1>13
        <5> QED
          BY <5>1, <5>2
      <4>2. KeyOf[q[1]] <= KeyOf[q[j]]
        <5>1. j = 1 \/ 1 < j
          BY <1>15
        <5> QED
          BY <1>13, <4>1, <5>1 DEF Sorted
      <4> QED
        BY <3>2, <4>1, <4>2
    <3> QED
      BY <1>13, <1>15, <3>1, <3>2
  <2>2. a + 1 \in 1 .. Len(p) + 1
    BY <1>13, <1>15
  <2>3. sn = At(s, q, 1)
    BY <1>13 DEF At
  <2>4. nx = At(l, p, a + 1)
    BY <1>16, <1>30
  <2> QED
    BY <1>13, <2>1, <2>2, <2>3, <2>4 DEF Merged, p, q
<1> DEFINE fn == [fr EXCEPT !.dn = nx]
<1>18. nx \in Cell \cup {NULL} /\ fr \in FrameType
  <2>1. heap.next \in [Cell -> Cell \cup {NULL}] /\ dn \in Node
    <3>1. heap \in HeapType
      BY <1>4 DEF Types
    <3> QED
      BY <1>13, <1>14, <3>1 DEF HeapType
  <2> QED
    BY <1>6, <1>30, <2>1 DEF Cell, fr
<1>19. op' = WithTop(fn) /\ fr.dn = dn /\ fr.list = l /\ fr.sour = s /\ fr.sn = sn
  BY <1>11, <1>30 DEF dn, l, s, sn
<1>20. /\ fn \in FrameType /\ fn.at = "merge" /\ fn.list = l /\ fn.sour = s /\ fn.dn = nx /\ fn.sn = sn
  BY <1>3, <1>18, <1>19 DEF FrameType, fr
<1> HIDE DEF fn
<1>21. f[Len(f)].list = l /\ f[Len(f)].sour = s
  BY <1>19 DEF fr
<1>22. PICK g : WithTop(fn) = SortRecord(g) /\ Len(g) = Len(f) /\ MergeStack(f, g, nx, sn)
  BY <1>3, <1>5, <1>20, <1>21, TopMerges
<1>23. MergeGoesOn(l, s, nx, sn)
  <2>1. Merged(l, s, nx, sn, a + 1)'
    BY <1>1, <1>17 DEF Merged
  <2> QED
    BY <1>1, <2>1 DEF MergeGoesOn
<1>24. Sorting(g, n)'
  BY <1>3, <1>21, <1>22, <1>23, MergeGoes
<1>25. SortInv' /\ Shape' /\ Emptying' = {}
  BY <1>3, <1>19, <1>22, <1>24, SortingOn
<1> QED
  BY <1>1, <1>2, <1>25, SortStill

LEMMA TailIsWithout == ASSUME NEW s \in Seq(Node), Len(s) >= 1 PROVE Tail(s) = Without(s, 1, 1)
<1> DEFINE r == Without(s, 1, 1)
<1>1. Len(s) \in Nat /\ 1 \in 1 .. Len(s) /\ 1 \in 1 .. Len(s) /\ 1 - 1 + 1 = 1
  OBVIOUS
<1>2. /\ r \in Seq(Node) /\ Len(r) = Len(s) - (1 - 1 + 1)
      /\ \A x \in 1 .. Len(s) - (1 - 1 + 1) : r[x] = IF x < 1 THEN s[x] ELSE s[x + (1 - 1 + 1)]
  BY <1>1, WithoutSlice
<1>3. Tail(s) \in Seq(Node) /\ Len(Tail(s)) = Len(s) - 1
      /\ \A x \in 1 .. Len(s) - 1 : Tail(s)[x] = s[x + 1]
  BY <1>1
<1> HIDE DEF r
<1>4. \A x \in 1 .. Len(s) - 1 : Tail(s)[x] = r[x]
  BY <1>1, <1>2, <1>3
<1>5. Tail(s) = r
  BY <1>1, <1>2, <1>3, <1>4, SeqEqual
<1> QED
  BY <1>5 DEF r

\* The first node of q goes before place a of p.
MovedSeqs(p, q, a, r, t) ==
    /\ r \in Seq(Node) /\ t \in Seq(Node) /\ Len(r) = Len(p) + 1 /\ Len(t) = Len(q) - 1
    /\ r[a + 1] = p[a] /\ Sorted(r) /\ Sorted(t)
    /\ \A i \in 1 .. (a + 1) - 1, j \in 1 .. Len(t) : KeyOf[r[i]] <= KeyOf[t[j]]
    /\ \A j \in 1 .. Len(t) : t[j] = q[j + 1]
    /\ Range(r) \cup Range(t) = Range(p) \cup Range(q)

LEMMA MoveSeqs ==
    ASSUME NEW p \in Seq(Node), IsInjective(p), NEW q \in Seq(Node), IsInjective(q),
           Range(p) \cap Range(q) = {}, NEW l, NEW s, NEW dn, NEW sn, NEW a,
           MergePlace(p, q, l, s, dn, sn, a), KeyOf[dn] >= KeyOf[sn]
    PROVE  MovedSeqs(p, q, a, Spliced(p, a, <<sn>>), Without(q, 1, 1))
<1> DEFINE r == Spliced(p, a, <<sn>>)
           t == Without(q, 1, 1)
           n == Len(p)
           k == Len(q)
<1>1. /\ a \in 1 .. n /\ dn = p[a] /\ k >= 1 /\ 1 \in 1 .. k /\ sn = q[1]
      /\ Sorted(p) /\ Sorted(q)
      /\ \A i \in 1 .. a - 1, j \in 1 .. k : KeyOf[p[i]] <= KeyOf[q[j]]
  BY DEF MergePlace
<1>2. /\ n \in Nat /\ k \in Nat /\ (\A i \in 1 .. n : KeyOf[p[i]] \in Int)
      /\ (\A i \in 1 .. k : KeyOf[q[i]] \in Int) /\ a \in 1 .. n + 1 /\ a \in Nat /\ sn \in Node
      /\ 1 - 1 + 1 = 1
  <2>1. KeyOf \in [Node -> Int]
    BY ListAssumption
  <2> QED
    BY <1>1, <2>1
<1>3. <<sn>> \in Seq(Node) /\ Len(<<sn>>) = 1 /\ <<sn>>[1] = sn /\ Range(<<sn>>) = {sn} /\ IsInjective(<<sn>>)
  BY <1>2 DEF Range, IsInjective
<1>4. sn \in Range(q)
  BY <1>1 DEF Range
<1>5. /\ t \in Seq(Node) /\ Len(t) = k - (1 - 1 + 1)
      /\ \A x \in 1 .. k - (1 - 1 + 1) : t[x] = IF x < 1 THEN q[x] ELSE q[x + (1 - 1 + 1)]
  <2>1. 1 \in 1 .. Len(q)
    BY <1>1
  <2> QED
    BY <2>1, WithoutSlice
<1>6. /\ r \in Seq(Node) /\ Len(r) = n + Len(<<sn>>)
      /\ \A x \in 1 .. n + Len(<<sn>>) :
            r[x] = IF x < a THEN p[x]
                   ELSE IF x < a + Len(<<sn>>) THEN <<sn>>[x - a + 1] ELSE p[x - Len(<<sn>>)]
  <2>1. a \in 1 .. Len(p) + 1
    BY <1>2
  <2> QED
    BY <1>3, <2>1, SplicedSeq
<1>7. Range(r) = Range(p) \cup {sn} /\ Range(t) = Range(q) \ {sn}
  <2>1. Range(t) = Range(q) \ {q[1]}
    BY <1>1, WithoutOne
  <2>2. Range(<<sn>>) \cap Range(p) = {} /\ a \in 1 .. Len(p) + 1
    BY <1>2, <1>3, <1>4
  <2>3. Range(r) = Range(p) \cup Range(<<sn>>)
    BY <1>3, <2>2, SplicedNodes
  <2> QED
    BY <1>1, <1>3, <2>1, <2>3
<1> HIDE DEF r, t
<1>8. /\ Len(r) = n + 1 /\ r[a] = sn
      /\ \A x \in 1 .. a - 1 : r[x] = p[x]
      /\ \A x \in a + 1 .. n + 1 : r[x] = p[x - 1]
  <2>1. Len(r) = n + 1 /\ \A x \in 1 .. n + 1 : r[x] = IF x < a THEN p[x]
                   ELSE IF x < a + 1 THEN <<sn>>[x - a + 1] ELSE p[x - 1]
    BY <1>3, <1>6
  <2>2. r[a] = sn
    <3>1. a \in 1 .. n + 1 /\ ~(a < a) /\ a < a + 1 /\ a - a + 1 = 1
      BY <1>1, <1>2
    <3> QED
      BY <1>3, <2>1, <3>1
  <2>3. \A x \in 1 .. a - 1 : r[x] = p[x]
    <3>1. \A x \in 1 .. a - 1 : x \in 1 .. n + 1 /\ x < a
      BY <1>1, <1>2
    <3> QED
      BY <2>1, <3>1
  <2>4. \A x \in a + 1 .. n + 1 : r[x] = p[x - 1]
    <3>1. \A x \in a + 1 .. n + 1 : x \in 1 .. n + 1 /\ ~(x < a) /\ ~(x < a + 1)
      BY <1>1, <1>2
    <3> QED
      BY <2>1, <3>1
  <2> QED
    BY <2>1, <2>2, <2>3, <2>4
<1>9. Len(t) = k - 1 /\ \A x \in 1 .. k - 1 : t[x] = q[x + 1] /\ x + 1 \in 1 .. k
  <2>1. \A x \in 1 .. k - 1 : ~(x < 1) /\ x + 1 \in 1 .. k
    BY <1>2
  <2> QED
    BY <1>2, <1>5, <2>1
<1> HIDE DEF n, k
<1>10. \A j \in 1 .. k : KeyOf[sn] <= KeyOf[q[j]]
  <2>1. ASSUME NEW j \in 1 .. k PROVE KeyOf[sn] <= KeyOf[q[j]]
    <3>1. j = 1 \/ 1 < j
      BY <1>2
    <3>2. CASE j = 1
      BY <1>1, <1>2, <3>2
    <3>3. CASE 1 < j
      BY <1>1, <3>3 DEF Sorted, k
    <3> QED
      BY <3>1, <3>2, <3>3
  <2> QED
    BY <2>1
<1>11. \A j \in a .. n : KeyOf[sn] <= KeyOf[p[j]]
  <2>1. ASSUME NEW j \in a .. n PROVE KeyOf[sn] <= KeyOf[p[j]]
    <3>1. j \in 1 .. n /\ (j = a \/ a < j)
      BY <1>1, <1>2
    <3>2. KeyOf[p[a]] <= KeyOf[p[j]]
      <4>1. CASE j = a
        BY <1>1, <1>2, <4>1
      <4>2. CASE a < j
        BY <1>1, <3>1, <4>2 DEF Sorted, n
      <4> QED
        BY <3>1, <4>1, <4>2
    <3>3. KeyOf[sn] <= KeyOf[p[a]] /\ KeyOf[sn] \in Int /\ KeyOf[p[a]] \in Int /\ KeyOf[p[j]] \in Int
      <4>1. KeyOf[sn] \in Int /\ KeyOf[p[a]] \in Int /\ KeyOf[p[j]] \in Int
        BY <1>1, <1>2, <3>1
      <4>2. KeyOf[p[a]] >= KeyOf[sn]
        BY <1>1
      <4> QED
        BY <4>1, <4>2
    <3> QED
      BY <3>2, <3>3
  <2> QED
    BY <2>1
<1>12. ASSUME NEW x \in 1 .. n + 1
       PROVE  \/ x \in 1 .. a - 1 /\ x \in 1 .. n /\ r[x] = p[x]
              \/ x = a /\ r[x] = sn
              \/ x \in a + 1 .. n + 1 /\ x - 1 \in a .. n /\ x - 1 \in 1 .. n /\ r[x] = p[x - 1]
  <2>1. \/ x \in 1 .. a - 1 /\ x \in 1 .. n
        \/ x = a
        \/ x \in a + 1 .. n + 1 /\ x - 1 \in a .. n /\ x - 1 \in 1 .. n
    BY <1>1, <1>2
  <2> QED
    BY <1>8, <2>1
<1>13. Sorted(r)
  <2>1. ASSUME NEW x \in 1 .. n + 1, NEW y \in 1 .. n + 1, x < y PROVE KeyOf[r[x]] <= KeyOf[r[y]]
    <3>1. CASE x \in 1 .. a - 1 /\ y \in 1 .. a - 1
      <4>1. x \in 1 .. n /\ y \in 1 .. n /\ r[x] = p[x] /\ r[y] = p[y]
        BY <1>1, <1>2, <1>8, <3>1
      <4> QED
        BY <1>1, <2>1, <4>1 DEF Sorted, n
    <3>2. CASE x \in 1 .. a - 1 /\ y = a
      BY <1>1, <1>8, <3>2
    <3>3. CASE x \in 1 .. a - 1 /\ y \in a + 1 .. n + 1
      <4>0. x \in 1 .. n /\ y - 1 \in 1 .. n /\ x < y - 1
        BY <1>1, <1>2, <3>3
      <4>1. x \in 1 .. n /\ y - 1 \in 1 .. n /\ x < y - 1 /\ r[x] = p[x] /\ r[y] = p[y - 1]
        BY <1>8, <3>3, <4>0
      <4> QED
        BY <1>1, <4>1 DEF Sorted, n
    <3>4. CASE x = a /\ y \in a + 1 .. n + 1
      <4>1. y - 1 \in a .. n /\ r[x] = sn /\ r[y] = p[y - 1]
        BY <1>1, <1>2, <1>8, <3>4
      <4> QED
        BY <1>11, <4>1
    <3>5. CASE x \in a + 1 .. n + 1 /\ y \in a + 1 .. n + 1
      <4>1. x - 1 \in 1 .. n /\ y - 1 \in 1 .. n /\ x - 1 < y - 1 /\ r[x] = p[x - 1] /\ r[y] = p[y - 1]
        BY <1>1, <1>2, <1>8, <2>1, <3>5
      <4> QED
        BY <1>1, <4>1 DEF Sorted, n
    <3>6. \/ x \in 1 .. a - 1 /\ (y \in 1 .. a - 1 \/ y = a \/ y \in a + 1 .. n + 1)
          \/ x = a /\ y \in a + 1 .. n + 1
          \/ x \in a + 1 .. n + 1 /\ y \in a + 1 .. n + 1
      BY <1>1, <1>2, <2>1
    <3> QED
      BY <3>1, <3>2, <3>3, <3>4, <3>5, <3>6
  <2> QED
    BY <1>8, <2>1 DEF Sorted
<1>14. Sorted(t)
  <2>1. ASSUME NEW x \in 1 .. k - 1, NEW y \in 1 .. k - 1, x < y PROVE KeyOf[t[x]] <= KeyOf[t[y]]
    <3>0. x + 1 < y + 1
      BY <1>2, <2>1
    <3>1. x + 1 \in 1 .. k /\ y + 1 \in 1 .. k /\ x + 1 < y + 1 /\ t[x] = q[x + 1] /\ t[y] = q[y + 1]
      BY <1>9, <3>0
    <3> QED
      BY <1>1, <3>1 DEF Sorted, k
  <2> QED
    BY <1>9, <2>1 DEF Sorted
<1>15. ASSUME NEW i \in 1 .. (a + 1) - 1, NEW j \in 1 .. k - 1 PROVE KeyOf[r[i]] <= KeyOf[t[j]]
  <2>1. t[j] = q[j + 1] /\ j + 1 \in 1 .. k
    BY <1>9
  <2>2. i \in 1 .. a - 1 \/ i = a
    BY <1>2
  <2>3. CASE i = a
    BY <1>8, <1>10, <2>1, <2>3
  <2>4. CASE i \in 1 .. a - 1
    BY <1>1, <1>8, <2>1, <2>4
  <2> QED
    BY <2>2, <2>3, <2>4
<1>16. r[a + 1] = p[a]
  <2>1. a + 1 \in a + 1 .. n + 1 /\ (a + 1) - 1 = a
    BY <1>1, <1>2
  <2> QED
    BY <1>8, <2>1
<1>17. Range(r) \cup Range(t) = Range(p) \cup Range(q)
  BY <1>4, <1>7
<1>18. MovedSeqs(p, q, a, r, t)
  BY <1>5, <1>6, <1>8, <1>9, <1>13, <1>14, <1>15, <1>16, <1>17 DEF MovedSeqs, n, k
<1> QED
  BY <1>18 DEF r, t

\* list_merge runs in the top frame of f.
MergeState(f, n, l, s, dn, sn, a) ==
    /\ op = SortRecord(f) /\ op.nodes = n /\ Frame = f[Len(f)] /\ f[Len(f)].at = "merge"
    /\ Sorting(f, n) /\ Stack(f) /\ f[Len(f)] \in FrameType
    /\ f[Len(f)].list = l /\ f[Len(f)].sour = s /\ f[Len(f)].dn = dn /\ f[Len(f)].sn = sn
    /\ l \in Lives /\ s \in Lives /\ l # s /\ l \in Header /\ s \in Header
    /\ Merged(l, s, dn, sn, a) /\ Len(seq[l]) + Len(seq[s]) <= maxcount[l]

LEMMA MergeStates ==
    ASSUME Inv, Top("merge")
    PROVE  \E f, n, l, s, dn, sn, a : MergeState(f, n, l, s, dn, sn, a)
<1>1. op.do = "sort"
  BY DEF Top
<1>2. PICK f, n : /\ op = SortRecord(f) /\ op.nodes = n /\ Frame = f[Len(f)]
                  /\ f[Len(f)].at = "merge" /\ Sorting(f, n)
  BY TopFacts
<1> DEFINE fr == f[Len(f)]
           l  == fr.list
           s  == fr.sour
           dn == fr.dn
           sn == fr.sn
<1>3. Stack(f) /\ Alive(f) /\ \E w, S : Below(f, n, w, S) /\ MergeTop(f, w, S)
  BY <1>2 DEF Sorting
<1>4. Len(f) \in 1 .. Len(f) /\ fr \in FrameType /\ l \in Header
  <2>1. Len(f) \in 1 .. Len(f)
    BY <1>3, StackIsApart DEF StackApart
  <2> QED
    BY <1>3, <2>1, StackIsApart DEF StackApart
<1>5. maxcount[l] > 0
  BY <1>3, <1>4, StackAlive
<1>6. PICK w, S : Below(f, n, w, S) /\ MergeTop(f, w, S)
  BY <1>3
<1>7. PICK a : Merged(l, s, dn, sn, a)
  BY <1>6 DEF MergeTop
<1>8. maxcount[s] > 0 /\ w[Len(f)] = Len(seq[l]) + Len(seq[s])
  BY <1>6 DEF MergeTop
<1>9. s \in Header /\ s # l
  <2>1. /\ s # l
        /\ \/ Len(f) <= Len(Extra) /\ s = Extra[Len(f)]
           \/ s \in List
    BY <1>2, <1>3 DEF Stack
  <2>2. Len(f) <= Len(Extra) => Len(f) \in 1 .. Len(Extra)
    BY <1>4, ExtraHeaders
  <2> QED
    BY <2>1, <2>2, ExtraHeaders DEF Header
<1>10. w[Len(f)] <= maxcount[l]
  BY <1>4, <1>6 DEF Below
<1>11. Len(seq[l]) + Len(seq[s]) <= maxcount[l]
  BY <1>8, <1>10
<1>12. l \in Lives /\ s \in Lives
  BY <1>4, <1>5, <1>8, <1>9 DEF Lives
<1>13. MergeState(f, n, l, s, dn, sn, a)
  BY <1>2, <1>3, <1>4, <1>7, <1>9, <1>11, <1>12 DEF MergeState
<1> QED
  BY <1>13

LEMMA MergeMoveKeeps == ASSUME Inv, MergeMove PROVE Inv'
<1>1. Top("merge") /\ op.do = "sort"
  BY DEF MergeMove, Merging, Top
<1>2. PICK f, n, l, s, dn, sn, a : MergeState(f, n, l, s, dn, sn, a)
  BY <1>1, MergeStates
<1>3. /\ op = SortRecord(f) /\ op.nodes = n /\ Frame = f[Len(f)] /\ f[Len(f)].at = "merge"
      /\ Sorting(f, n) /\ Stack(f) /\ f[Len(f)] \in FrameType
      /\ f[Len(f)].list = l /\ f[Len(f)].sour = s /\ f[Len(f)].dn = dn /\ f[Len(f)].sn = sn
      /\ l \in Lives /\ s \in Lives /\ l # s /\ l \in Header /\ s \in Header
      /\ Merged(l, s, dn, sn, a) /\ Len(seq[l]) + Len(seq[s]) <= maxcount[l]
  BY <1>2 DEF MergeState
<1> DEFINE h == DeletePtrs(heap, sn)
<1>4. /\ dn # l /\ sn # s /\ KeyOf[dn] >= KeyOf[sn]
      /\ heap' = InsertPtrs(h, sn, h.prev[dn], dn)
      /\ nodecount' = Recount(nodecount, l, s, 1)
      /\ seq' = [seq EXCEPT ![s] = Tail(@), ![l] = InsertAt(@, Place(l, dn), sn)]
      /\ op' = WithTop([Frame EXCEPT !.sn = heap.next[sn]])
      /\ UNCHANGED <<maxcount, fre, pooled, scan, held>>
  BY <1>3 DEF MergeMove, Merging, SourceFirst
<1>5. Types /\ Counted /\ Lists(heap, seq, Lives) /\ \A x \in Header : maxcount[x] = 0 => seq[x] = <<>>
  BY <1>1, SortFacts
<1> DEFINE p == seq[l]
           q == seq[s]
           cut == [seq EXCEPT ![s] = Without(seq[s], 1, 1)]
<1>6. p \in Seq(Node) /\ q \in Seq(Node) /\ IsInjective(p) /\ IsInjective(q) /\ Range(p) \cap Range(q) = {}
  <2>1. OnRing(l, seq[l]) /\ OnRing(s, seq[s])
    BY <1>3, <1>5, ListsRings
  <2>2. ({l} \cup Range(seq[l])) \cap ({s} \cup Range(seq[s])) = {}
    BY <1>3, <1>5, RingsApart
  <2> QED
    BY <2>1, <2>2 DEF OnRing
<1>7. MergePlace(p, q, l, s, dn, sn, a)
  BY <1>3, <1>4, <1>6, MergeStands
<1>8. a \in 1 .. Len(p) /\ dn = p[a] /\ Len(q) >= 1 /\ 1 \in 1 .. Len(q) /\ sn = q[1]
      /\ Len(p) \in Nat /\ Len(q) \in Nat
  BY <1>6, <1>7 DEF MergePlace
<1> DEFINE r == Spliced(p, a, <<sn>>)
           t == Without(q, 1, 1)
<1>9. MovedSeqs(p, q, a, r, t)
  BY <1>4, <1>6, <1>7, MoveSeqs
<1>10. Place(l, dn) = a /\ Tail(q) = t
  <2>1. Place(l, seq[l][a]) = a
    BY <1>3, <1>5, <1>8, PlaceIs
  <2>2. Tail(q) = t
    BY <1>6, <1>8, TailIsWithout
  <2> QED
    BY <1>8, <2>1, <2>2
<1>11. Becomes(seq, cut, s, Without(seq[s], 1, 1)) /\ cut[l] = p /\ cut[s] = t
  BY <1>3, <1>5 DEF Becomes, Types
<1>12. /\ seq' = [cut EXCEPT ![l] = r] /\ seq'[l] = r /\ seq'[s] = t
       /\ \A x \in Header \ {l, s} : seq'[x] = seq[x]
  <2>1. InsertAt(p, a, sn) = r
    BY InsertIsSpliced
  <2>2. seq' = [seq EXCEPT ![s] = t, ![l] = r]
    <3>1. seq' = [seq EXCEPT ![s] = Tail(seq[s]), ![l] = InsertAt(seq[l], a, sn)]
      BY <1>3, <1>4, <1>10
    <3> HIDE DEF r, t
    <3> QED
      BY <1>10, <2>1, <3>1
  <2> HIDE DEF r
  <2>3. seq' = [cut EXCEPT ![l] = r]
    BY <2>2
  <2> HIDE DEF t
  <2> QED
    BY <1>3, <1>5, <2>2, <2>3 DEF Types
<1>13. UnlinkDone(heap, seq, Lives, sn, cut, h)
  <2>1. UnlinkDone(heap, seq, Lives, seq[s][1], cut, DeletePtrs(heap, seq[s][1]))
    BY <1>3, <1>5, <1>8, <1>11, Unlinked
  <2> QED
    BY <1>8, <2>1
<1> HIDE DEF h, cut
<1>14. /\ sn \in Node /\ Lists(h, cut, Lives) /\ sn \notin InUse(cut) /\ InUse(seq) = InUse(cut) \cup {sn}
       /\ Elsewhere(heap, h, InUse(seq))
  BY <1>13 DEF UnlinkDone
<1>15. h.prev[dn] = At(l, cut[l], a - 1) /\ dn = At(l, cut[l], a) /\ a \in 1 .. Len(cut[l]) + 1
  <2>1. dn = At(l, cut[l], a) /\ a \in 1 .. Len(cut[l]) + 1
    BY <1>8, <1>11 DEF At
  <2>2. Becomes(cut, [cut EXCEPT ![l] = Spliced(cut[l], a, <<sn>>)], l, Spliced(cut[l], a, <<sn>>))
    BY DEF Becomes
  <2>3. InsertDone(h, cut, Lives, l, a, sn, [cut EXCEPT ![l] = Spliced(cut[l], a, <<sn>>)],
                   InsertPtrs(h, sn, At(l, cut[l], a - 1), At(l, cut[l], a)))
    BY <1>3, <1>14, <2>1, <2>2, Inserted
  <2> QED
    BY <2>1, <2>3 DEF InsertDone
<1>16. InsertDone(h, cut, Lives, l, a, sn, seq', heap')
  <2>1. heap' = InsertPtrs(h, sn, At(l, cut[l], a - 1), At(l, cut[l], a))
    BY <1>4, <1>15
  <2>2. Becomes(cut, seq', l, Spliced(cut[l], a, <<sn>>))
    BY <1>11, <1>12 DEF Becomes
  <2> QED
    BY <1>3, <1>14, <1>15, <2>1, <2>2, Inserted
<1>17. Lists(heap', seq', Lives) /\ InUse(seq') = InUse(seq) /\ Elsewhere(heap, heap', InUse(seq))
  <2>1. Lists(heap', seq', Lives) /\ InUse(seq') = InUse(cut) \cup {sn} /\ Elsewhere(h, heap', InUse(seq'))
    BY <1>16 DEF InsertDone
  <2> QED
    BY <1>14, <2>1 DEF Elsewhere
<1> HIDE DEF p, q, r, t
<1>18. /\ r \in Seq(Node) /\ t \in Seq(Node) /\ Len(r) = Len(p) + 1 /\ Len(t) = Len(q) - 1
       /\ r[a + 1] = p[a] /\ Sorted(r) /\ Sorted(t)
       /\ \A i \in 1 .. (a + 1) - 1, j \in 1 .. Len(t) : KeyOf[r[i]] <= KeyOf[t[j]]
       /\ \A j \in 1 .. Len(t) : t[j] = q[j + 1]
       /\ Range(r) \cup Range(t) = Range(p) \cup Range(q)
  BY <1>9 DEF MovedSeqs
<1>19. p = seq[l] /\ q = seq[s]
  BY DEF p, q
<1>20. PICK nx : nx = heap.next[sn]
  OBVIOUS
<1>21. nx = At(s, t, 1)
  <2>1. Threaded(heap.next, s, q)
    BY <1>3, <1>5, <1>19, RingIsThreaded
  <2>2. heap.next[sn] = At(s, q, 1 + 1)
    BY <1>8, <2>1 DEF Threaded
  <2>3. At(s, q, 1 + 1) = At(s, t, 1)
    <3>1. (1 + 1 \in 1 .. Len(q) <=> 1 \in 1 .. Len(t)) /\ (1 \in 1 .. Len(t) => t[1] = q[1 + 1])
      BY <1>8, <1>18
    <3> QED
      BY <3>1 DEF At
  <2> QED
    BY <1>20, <2>2, <2>3
<1>22. Merged(l, s, dn, nx, a + 1)'
  <2>1. a + 1 \in 1 .. Len(r) /\ a + 1 \in 1 .. Len(r) + 1
    BY <1>8, <1>18
  <2>2. dn = At(l, r, a + 1)
    BY <1>8, <1>18, <2>1 DEF At
  <2> QED
    BY <1>12, <1>18, <1>21, <2>1, <2>2 DEF Merged
<1>23. MergeGoesOn(l, s, dn, nx)
  <2>1. Len(r) + Len(t) = Len(p) + Len(q)
    BY <1>8, <1>18
  <2> QED
    BY <1>4, <1>12, <1>18, <1>19, <1>22, <2>1 DEF MergeGoesOn
<1> DEFINE fr == f[Len(f)]
           fn == [fr EXCEPT !.sn = nx]
<1>24. nx \in Cell \cup {NULL}
  <2>1. heap \in HeapType
    BY <1>5 DEF Types
  <2> QED
    BY <1>14, <1>20, <2>1 DEF HeapType, Cell
<1>25. op' = WithTop(fn)
  BY <1>3, <1>4, <1>20
<1>26. fn \in FrameType /\ fn.at = "merge" /\ fn.list = l /\ fn.sour = s /\ fn.dn = dn /\ fn.sn = nx
  BY <1>3, <1>24 DEF FrameType
<1> HIDE DEF fn
<1>27. PICK g : WithTop(fn) = SortRecord(g) /\ Len(g) = Len(f) /\ MergeStack(f, g, dn, nx)
  BY <1>3, <1>26, TopMerges
<1>28. Sorting(g, n)'
  BY <1>3, <1>23, <1>27, MergeGoes
<1>29. SortInv' /\ Shape' /\ Emptying' = {}
  BY <1>3, <1>25, <1>27, <1>28, SortingOn
<1>30. nodecount \in [Header -> Nat] /\ maxcount \in [Header -> Nat]
       /\ nodecount[l] = Len(p) /\ nodecount[s] = Len(q)
       /\ nodecount[s] <= maxcount[s] /\ \A x \in Header : nodecount[x] = Len(seq[x]) /\ nodecount[x] <= maxcount[x]
  BY <1>3, <1>5, <1>19 DEF Types, Counted
<1>31. RecountDone(nodecount, l, s, 1, nodecount')
  <2>1. 1 <= nodecount[s] /\ 1 \in Nat
    BY <1>8, <1>30
  <2> QED
    BY <1>3, <1>4, <1>30, <2>1, RecountIs
<1>32. /\ nodecount' \in [Header -> Nat] /\ nodecount'[s] = nodecount[s] - 1
       /\ nodecount'[l] = nodecount[l] + 1 /\ \A x \in Header \ {l, s} : nodecount'[x] = nodecount[x]
  BY <1>3, <1>31 DEF RecountDone
<1>33. Counted'
  <2>1. nodecount'[l] = Len(seq'[l]) /\ nodecount'[l] <= maxcount'[l]
    <3>1. Len(p) + 1 <= maxcount[l]
      <4>1. maxcount[l] \in Nat /\ Len(p) + Len(q) <= maxcount[l]
        BY <1>3, <1>19, <1>30
      <4> QED
        BY <1>8, <4>1
    <3>2. nodecount'[l] = Len(p) + 1 /\ Len(seq'[l]) = Len(p) + 1 /\ maxcount'[l] = maxcount[l]
      <4>1. seq'[l] = r /\ Len(r) = Len(p) + 1
        BY <1>12, <1>18
      <4>2. nodecount'[l] = Len(p) + 1
        BY <1>30, <1>32
      <4> QED
        BY <1>4, <4>1, <4>2
    <3> QED
      BY <3>1, <3>2
  <2>2. nodecount'[s] = Len(seq'[s]) /\ nodecount'[s] <= maxcount'[s]
    <3>1. maxcount[s] \in Nat /\ Len(q) - 1 <= maxcount[s]
      BY <1>3, <1>8, <1>30
    <3>2. nodecount'[s] = Len(q) - 1 /\ Len(seq'[s]) = Len(q) - 1 /\ maxcount'[s] = maxcount[s]
      <4>1. seq'[s] = t /\ Len(t) = Len(q) - 1
        BY <1>12, <1>18
      <4>2. nodecount'[s] = Len(q) - 1
        BY <1>30, <1>32
      <4> QED
        BY <1>4, <4>1, <4>2
    <3> QED
      BY <3>1, <3>2
  <2>3. \A x \in Header \ {l, s} : nodecount'[x] = Len(seq'[x]) /\ nodecount'[x] <= maxcount'[x]
    BY <1>4, <1>12, <1>30, <1>32
  <2> QED
    BY <2>1, <2>2, <2>3 DEF Counted
<1>34. \A x \in Header : maxcount'[x] = 0 => seq'[x] = <<>>
  <2>1. maxcount[l] # 0 /\ maxcount[s] # 0
    BY <1>3 DEF Lives
  <2> QED
    BY <1>4, <1>5, <1>12, <2>1
<1>35. Lives' \subseteq Lives
  BY <1>4 DEF Lives
<1> QED
  BY <1>1, <1>4, <1>17, <1>29, <1>30, <1>32, <1>33, <1>34, <1>35, SortStep

\* All nodes are in l now, in order.
MergeDone(l, s) ==
    /\ Lists(heap', seq', Lives) /\ InUse(seq') = InUse(seq) /\ Elsewhere(heap, heap', InUse(seq))
    /\ seq'[s] = <<>> /\ Sorted(seq'[l])
    /\ Len(seq'[l]) = Len(seq[l]) + Len(seq[s])
    /\ Range(seq'[l]) = Range(seq[l]) \cup Range(seq[s])
    /\ \A x \in Header \ {l, s} : seq'[x] = seq[x] /\ nodecount'[x] = nodecount[x]
    /\ nodecount' \in [Header -> Nat] /\ nodecount'[l] = Len(seq'[l]) /\ nodecount'[s] = 0

LEMMA JoinedSorted ==
    ASSUME NEW p \in Seq(Node), NEW q \in Seq(Node), Sorted(p), Sorted(q),
           \A i \in 1 .. Len(p), j \in 1 .. Len(q) : KeyOf[p[i]] <= KeyOf[q[j]]
    PROVE  Sorted(p \o q) /\ Range(p \o q) = Range(p) \cup Range(q)
<1> DEFINE n == Len(p)
           k == Len(q)
           r == p \o q
<1>1. n \in Nat /\ k \in Nat /\ DOMAIN p = 1 .. n /\ DOMAIN q = 1 .. k
  OBVIOUS
<1>2. /\ r \in Seq(Node) /\ Len(r) = n + k
      /\ \A x \in 1 .. n + k : r[x] = IF x <= n THEN p[x] ELSE q[x - n]
  BY ConcatProperties
<1>3. DOMAIN r = 1 .. n + k
  BY <1>1, <1>2
<1> HIDE DEF n, k, r
<1>4. ASSUME NEW x \in 1 .. n + k
      PROVE  \/ x \in 1 .. n /\ r[x] = p[x]
             \/ x \in n + 1 .. n + k /\ x - n \in 1 .. k /\ r[x] = q[x - n]
  <2>1. \/ x \in 1 .. n /\ x <= n
        \/ x \in n + 1 .. n + k /\ x - n \in 1 .. k /\ ~(x <= n)
    BY <1>1
  <2> QED
    BY <1>2, <2>1
<1>5. ASSUME NEW x \in 1 .. n + k, NEW y \in 1 .. n + k, x < y PROVE KeyOf[r[x]] <= KeyOf[r[y]]
  <2>1. CASE x \in 1 .. n /\ r[x] = p[x] /\ y \in 1 .. n /\ r[y] = p[y]
    BY <1>5, <2>1 DEF Sorted, n
  <2>2. CASE x \in 1 .. n /\ r[x] = p[x] /\ y - n \in 1 .. k /\ r[y] = q[y - n]
    BY <2>2 DEF n, k
  <2>3. CASE x - n \in 1 .. k /\ r[x] = q[x - n] /\ y - n \in 1 .. k /\ r[y] = q[y - n]
    <3>1. x - n < y - n
      BY <1>1, <1>5
    <3> QED
      BY <2>3, <3>1 DEF Sorted, k
  <2>4. ~(x \in n + 1 .. n + k /\ y \in 1 .. n)
    BY <1>1, <1>5
  <2> QED
    BY <1>4, <2>1, <2>2, <2>3, <2>4
<1>6. Sorted(r)
  BY <1>2, <1>5 DEF Sorted
<1>7. Range(r) \subseteq Range(p) \cup Range(q)
  BY <1>1, <1>3, <1>4 DEF Range
<1>8. Range(p) \subseteq Range(r)
  <2>1. \A x \in 1 .. n : x \in 1 .. n + k /\ x <= n
    BY <1>1
  <2>2. \A x \in 1 .. n : r[x] = p[x] /\ x \in 1 .. n + k
    BY <1>2, <2>1
  <2> QED
    BY <1>1, <1>3, <2>2 DEF Range
<1>9. Range(q) \subseteq Range(r)
  <2>1. \A x \in 1 .. k : x + n \in 1 .. n + k /\ ~(x + n <= n) /\ (x + n) - n = x
    BY <1>1
  <2>2. \A x \in 1 .. k : r[x + n] = q[x] /\ x + n \in 1 .. n + k
    BY <1>2, <2>1
  <2> QED
    BY <1>1, <1>3, <2>2 DEF Range
<1> QED
  BY <1>6, <1>7, <1>8, <1>9 DEF r

LEMMA WholeSlice == ASSUME NEW s \in Seq(Node) PROVE SubSeq(s, 1, Len(s)) = s
<1>1. Len(s) \in Nat /\ 1 \in 1 .. Len(s) + 1 /\ Len(s) \in 1 - 1 .. Len(s) /\ Len(s) - 1 + 1 = Len(s)
      /\ \A x \in 1 .. Len(s) : x + 1 - 1 = x
  OBVIOUS
<1>2. /\ SubSeq(s, 1, Len(s)) \in Seq(Node) /\ Len(SubSeq(s, 1, Len(s))) = Len(s) - 1 + 1
      /\ \A x \in 1 .. Len(s) - 1 + 1 : SubSeq(s, 1, Len(s))[x] = s[x + 1 - 1]
  BY <1>1, Slice
<1> QED
  BY <1>1, <1>2, SeqEqual

\* The destination is through: the rest of the source goes to its end.
LEMMA RestTransferred ==
    ASSUME Inv, op.do = "sort", NEW l \in Lives, NEW s \in Lives, l # s, NEW sn, NEW a,
           Merged(l, s, l, sn, a), sn # s, TransferAll(heap, nodecount, l, s, sn)
    PROVE  MergeDone(l, s)
<1>1. Types /\ Counted /\ Lists(heap, seq, Lives)
  BY SortFacts
<1>2. l \in Header /\ s \in Header
  BY DEF Lives
<1> DEFINE p == seq[l]
           q == seq[s]
<1>3. OnRing(l, p) /\ p \in Seq(Node) /\ q \in Seq(Node)
  BY <1>1, <1>2, ListsRings DEF OnRing
<1>4. Len(p) \in Nat /\ Len(q) \in Nat
  BY <1>3
<1>5. /\ a \in 1 .. Len(p) + 1 /\ l = At(l, p, a) /\ sn = At(s, q, 1)
      /\ Sorted(p) /\ Sorted(q)
      /\ \A i \in 1 .. a - 1, j \in 1 .. Len(q) : KeyOf[p[i]] <= KeyOf[q[j]]
  BY DEF Merged
<1>6. a = Len(p) + 1
  <2>1. \A i \in 1 .. Len(p) : p[i] # l /\ At(l, p, i) = p[i]
    BY <1>3, RingPlaces
  <2>2. a \notin 1 .. Len(p)
    BY <1>5, <2>1
  <2> QED
    BY <1>4, <1>5, <2>2
<1>7. 1 \in 1 .. Len(q) /\ sn = q[1]
  BY <1>5 DEF At
<1>8. Sorted(p \o q) /\ Range(p \o q) = Range(p) \cup Range(q)
  <2>1. a - 1 = Len(p)
    BY <1>4, <1>6
  <2> QED
    BY <1>3, <1>5, <2>1, JoinedSorted
<1> DEFINE k == Len(q)
<1>9. TransferIs(heap, nodecount, l, s, 1, Len(seq[s]))
  BY <1>1, <1>7, TransferAllIs
<1>10. /\ k \in 1 .. Len(q) /\ heap' = Extracted(heap, l, seq[s][1], seq[s][k])
       /\ nodecount' = Recount(nodecount, l, s, Moved(heap', seq[s][1], seq[s][k]))
       /\ seq' = Resequence(l, s, 1, k)
  BY <1>9 DEF TransferIs
<1>11. Resequenced(seq, seq', l, s, 1, k)
  BY <1>1, <1>2, <1>10, ResequenceIs
<1>12. SpliceDone(heap, seq, Lives, l, s, 1, k, seq', heap')
  <2>1. k \in 1 .. Len(seq[s]) /\ 1 \in 1 .. Len(seq[s])
    BY <1>7, <1>10
  <2> HIDE DEF k
  <2> QED
    BY <1>1, <1>10, <1>11, <2>1, Spliced2
<1>13. /\ Lists(heap', seq', Lives) /\ InUse(seq') = InUse(seq) /\ Elsewhere(heap, heap', InUse(seq))
       /\ Moved(heap', seq[s][1], seq[s][k]) = k - 1 + 1
       /\ seq'[l] = seq[l] \o SubSeq(seq[s], 1, k)
       /\ Len(seq'[l]) = Len(seq[l]) + (k - 1 + 1) /\ Len(seq'[s]) = Len(seq[s]) - (k - 1 + 1)
       /\ \A x \in Header \ {l, s} : seq'[x] = seq[x]
  BY <1>12 DEF SpliceDone
<1>14. k - 1 + 1 = k /\ k \in Nat /\ Len(seq[s]) - k = 0
  BY <1>4
<1>15. seq'[l] = p \o q
  BY <1>3, <1>13, WholeSlice
<1>16. seq'[s] = <<>>
  <2>1. seq'[s] \in Seq(Node)
    BY <1>2, <1>13 DEF Lists
  <2>2. Len(seq'[s]) = 0
    BY <1>13, <1>14
  <2> QED
    BY <2>1, <2>2
<1>17. nodecount \in [Header -> Nat] /\ nodecount[s] = k /\ nodecount[l] = Len(p)
  BY <1>1, <1>2 DEF Types, Counted
<1>18. RecountDone(nodecount, l, s, k, nodecount')
  <2>1. k \in Nat /\ k <= nodecount[s] /\ nodecount' = Recount(nodecount, l, s, k)
    BY <1>10, <1>13, <1>14, <1>17
  <2> HIDE DEF k
  <2> QED
    BY <1>2, <1>17, <2>1, RecountIs
<1>19. /\ nodecount' \in [Header -> Nat] /\ nodecount'[s] = nodecount[s] - k
       /\ nodecount'[l] = nodecount[l] + k /\ \A x \in Header \ {l, s} : nodecount'[x] = nodecount[x]
  BY <1>18 DEF RecountDone
<1>20. nodecount'[s] = 0 /\ nodecount'[l] = Len(seq'[l]) /\ Len(seq'[l]) = Len(p) + Len(q)
  BY <1>4, <1>13, <1>14, <1>17, <1>19
<1> QED
  BY <1>8, <1>13, <1>15, <1>16, <1>19, <1>20 DEF MergeDone

\* The source is through.
LEMMA NothingLeft ==
    ASSUME Inv, op.do = "sort", NEW l \in Lives, NEW s \in Lives, l # s, NEW dn, NEW a,
           Merged(l, s, dn, s, a), UNCHANGED <<heap, nodecount, seq>>
    PROVE  MergeDone(l, s)
<1>1. Types /\ Counted /\ Lists(heap, seq, Lives)
  BY SortFacts
<1>2. l \in Header /\ s \in Header
  BY DEF Lives
<1>3. OnRing(s, seq[s]) /\ OnRing(l, seq[l])
  BY <1>1, <1>2, ListsRings
<1>4. Len(seq[s]) \in Nat /\ Len(seq[l]) \in Nat /\ seq[s] \in Seq(Node)
  BY <1>3, RingPlaces DEF OnRing
<1>5. s = At(s, seq[s], 1) /\ Sorted(seq[l])
  BY DEF Merged
<1>6. 1 \notin 1 .. Len(seq[s])
  <2>1. \A i \in 1 .. Len(seq[s]) : seq[s][i] # s /\ At(s, seq[s], i) = seq[s][i]
    BY <1>3, RingPlaces
  <2> QED
    BY <1>5, <2>1
<1>7. Len(seq[s]) = 0 /\ seq[s] = <<>>
  <2>1. Len(seq[s]) = 0
    BY <1>4, <1>6
  <2> QED
    BY <1>4, <2>1
<1>8. Range(seq[s]) = {} /\ Len(seq[l]) = Len(seq[l]) + Len(seq[s])
  BY <1>4, <1>7 DEF Range
<1>9. nodecount \in [Header -> Nat] /\ nodecount[l] = Len(seq[l]) /\ nodecount[s] = 0
  BY <1>1, <1>2, <1>7 DEF Types, Counted
<1>10. Lists(heap', seq', Lives) /\ InUse(seq') = InUse(seq) /\ Elsewhere(heap, heap', InUse(seq))
  BY <1>1 DEF Elsewhere
<1> QED
  BY <1>5, <1>7, <1>8, <1>9, <1>10 DEF MergeDone

\* The frame of list_merge is done with, its extra list is gone.
LEMMA MergeFinishes ==
    ASSUME Types, NEW f, NEW n, Sorting(f, n), f[Len(f)].at = "merge",
           NEW l, NEW s, l = f[Len(f)].list, s = f[Len(f)].sour, l \in Header, s \in Header,
           MergeDone(l, s), maxcount' = [maxcount EXCEPT ![s] = IF s \in List THEN @ ELSE 0]
    PROVE  Finished(f, n)'
<1> DEFINE k == Len(f)
           e == Len(Extra)
<1>1. Stack(f) /\ Alive(f) /\ \E w, S : Below(f, n, w, S) /\ MergeTop(f, w, S)
  BY DEF Sorting
<1>2. StackApart(f)
  BY <1>1, StackIsApart
<1>3. k \in Nat /\ k >= 1 /\ k \in 1 .. k /\ e \in Nat
  BY <1>2, ExtraHeaders DEF StackApart
<1>4. /\ f[1].list \in List /\ s # l
      /\ \/ k <= e /\ s = Extra[k]
         \/ k = 1 /\ s \in List
  <2>1. /\ f[1].list \in List /\ f[k].sour # f[k].list
        /\ \/ k <= e /\ f[k].sour = Extra[k]
           \/ k = 1 /\ f[k].sour \in List
    BY <1>1 DEF Stack
  <2>2. s = f[k].sour /\ l = f[k].list
    OBVIOUS
  <2> HIDE DEF k, e
  <2> QED
    BY <2>1, <2>2
<1>5. \A i \in 1 .. k : f[i].list \in Header /\ f[i].list # s
  <2>1. CASE k <= e /\ s = Extra[k]
    <3>1. k \in 1 .. e /\ \A i \in 1 .. k : i <= k
      BY <1>3, <2>1
    <3> HIDE DEF k
    <3> QED
      BY <1>2, <2>1, <3>1 DEF StackApart, k
  <2>2. CASE k = 1 /\ s \in List
    <3>1. \A i \in 1 .. k : f[i].list = l
      BY <2>2
    <3> QED
      BY <1>4, <3>1
  <2> QED
    BY <1>4, <2>1, <2>2
<1>6. /\ \A x \in Header : x # s => maxcount'[x] = maxcount[x]
      /\ maxcount'[s] = IF s \in List THEN maxcount[s] ELSE 0
  BY DEF Types
<1>7. PICK w, S : Below(f, n, w, S) /\ MergeTop(f, w, S)
  BY <1>1
<1>8. w[k] = Len(seq[l]) + Len(seq[s]) /\ S[k] = Range(seq[l]) \cup Range(seq[s])
  BY <1>7 DEF MergeTop
<1>9. w[k] = Len(seq'[l]) /\ S[k] = Range(seq'[l]) /\ Sorted(seq'[l])
  BY <1>8 DEF MergeDone
<1>10. ASSUME NEW j \in 1 .. k - 1 PROVE seq'[Waiting(f, j)] = seq[Waiting(f, j)]
  <2>1. Waiting(f, j) \in Header /\ Waiting(f, j) # l /\ Waiting(f, j) # s
    BY <1>1, WaitingElse
  <2> QED
    BY <2>1 DEF MergeDone
<1>11. Below(f, n, w, S)'
  <2>1. /\ w \in [1 .. k -> Nat] /\ S \in [1 .. k -> SUBSET Node] /\ S[1] = n
        /\ \A j \in 1 .. k : w[j] <= maxcount[f[j].list]
        /\ \A j \in 1 .. k - 1 :
              /\ w[j] = w[j + 1] + Len(seq[Waiting(f, j)])
              /\ S[j] = S[j + 1] \cup Range(seq[Waiting(f, j)])
              /\ f[j].at = "left" => Len(seq[Waiting(f, j)]) <= Pow(Len(Extra) - j)
              /\ f[j].at = "right" => Sorted(seq[Waiting(f, j)])
    BY <1>7 DEF Below
  <2>2. \A j \in 1 .. k : w[j] <= maxcount'[f[j].list]
    BY <1>5, <1>6, <2>1
  <2> QED
    BY <1>10, <2>1, <2>2 DEF Below
<1>12. maxcount'[f[1].list] > 0
  <2>1. 1 \in 1 .. k
    BY <1>3
  <2> QED
    BY <1>1, <1>5, <1>6, <2>1 DEF Alive
<1>13. ASSUME NEW j \in 1 .. e PROVE maxcount'[Extra[j]] > 0 <=> j < k
  <2>1. Extra[j] \in Header /\ Extra[j] \notin List /\ j \in Nat
    BY ExtraHeaders
  <2>2. maxcount[Extra[j]] > 0 <=> (j < k \/ (j = k /\ s = Extra[j]))
    BY <1>1 DEF Alive, ExtraLives
  <2>3. CASE Extra[j] = s
    <3>1. k \in 1 .. e /\ s = Extra[k]
      BY <1>3, <1>4, <2>1, <2>3
    <3>2. j = k
      BY <2>3, <3>1, ExtraHeaders
    <3>3. maxcount'[Extra[j]] = 0 /\ ~(j < k)
      BY <1>3, <1>6, <2>1, <2>3, <3>2
    <3> QED
      BY <3>3
  <2>4. CASE Extra[j] # s
    BY <1>6, <2>1, <2>2, <2>4
  <2> QED
    BY <2>3, <2>4
<1> QED
  BY <1>9, <1>11, <1>12, <1>13 DEF Finished

\* list_merge, its frame at the top, returns.
MergeReturn(f, n, l, s) ==
    /\ Returning(f, n) /\ MergeDone(l, s) /\ l \in Lives /\ s \in Lives /\ l # s
    /\ Len(seq[l]) + Len(seq[s]) <= maxcount[l]
    /\ maxcount' = [maxcount EXCEPT ![s] = IF s \in List THEN @ ELSE 0]
    /\ UNCHANGED <<fre, pooled, scan, held>>

LEMMA MergeReturns == ASSUME Inv, MergeEnd PROVE \E f, n, l, s : MergeReturn(f, n, l, s)
<1>1. Top("merge") /\ op.do = "sort"
  BY DEF MergeEnd, Top
<1>2. PICK f, n, l, s, dn, sn, a : MergeState(f, n, l, s, dn, sn, a)
  BY <1>1, MergeStates
<1>3. /\ op = SortRecord(f) /\ op.nodes = n /\ Frame = f[Len(f)] /\ f[Len(f)].at = "merge"
      /\ Sorting(f, n) /\ Stack(f)
      /\ f[Len(f)].list = l /\ f[Len(f)].sour = s /\ f[Len(f)].dn = dn /\ f[Len(f)].sn = sn
      /\ l \in Lives /\ s \in Lives /\ l # s /\ l \in Header /\ s \in Header
      /\ Merged(l, s, dn, sn, a) /\ Len(seq[l]) + Len(seq[s]) <= maxcount[l]
  BY <1>2 DEF MergeState
<1>4. /\ dn = l \/ sn = s
      /\ IF dn = l /\ sn # s THEN TransferAll(heap, nodecount, l, s, sn)
         ELSE UNCHANGED <<heap, nodecount, seq>>
      /\ maxcount' = [maxcount EXCEPT ![s] = IF s \in List THEN @ ELSE 0]
      /\ op' = Pop(heap') /\ UNCHANGED <<fre, pooled, scan, held>>
  BY <1>1, <1>3 DEF MergeEnd, Merging
<1>5. MergeDone(l, s)
  <2>1. CASE dn = l /\ sn # s
    BY <1>1, <1>3, <1>4, <2>1, RestTransferred
  <2>2. CASE sn = s
    BY <1>1, <1>3, <1>4, <2>2, NothingLeft
  <2> QED
    BY <1>4, <2>1, <2>2
<1>6. Types /\ Counted /\ \A x \in Header : maxcount[x] = 0 => seq[x] = <<>>
  BY <1>1, SortFacts
<1>7. Finished(f, n)'
  BY <1>3, <1>4, <1>5, <1>6, MergeFinishes
<1>8. op.frames = f
  BY <1>3 DEF SortRecord
<1> QED
  BY <1>3, <1>4, <1>5, <1>7, <1>8 DEF MergeReturn, Returning

LEMMA MergeEndKeeps == ASSUME Inv, MergeEnd PROVE Inv'
<1>1. op.do = "sort"
  BY DEF MergeEnd, Top
<1>2. PICK f, n, l, s : MergeReturn(f, n, l, s)
  BY MergeReturns
<1>3. /\ op = SortRecord(f) /\ op.nodes = n /\ Stack(f)
      /\ l \in Lives /\ s \in Lives /\ l # s /\ l \in Header /\ s \in Header
      /\ Len(seq[l]) + Len(seq[s]) <= maxcount[l]
  BY <1>2 DEF MergeReturn, Returning, Lives
<1>4. /\ maxcount' = [maxcount EXCEPT ![s] = IF s \in List THEN @ ELSE 0]
      /\ op' = Pop(heap') /\ UNCHANGED <<fre, pooled, scan, held>>
  BY <1>2 DEF MergeReturn, Returning
<1>5. MergeDone(l, s)
  BY <1>2 DEF MergeReturn
<1>6. Types /\ Counted /\ \A x \in Header : maxcount[x] = 0 => seq[x] = <<>>
  BY <1>1, SortFacts
<1>7. Finished(f, n)'
  BY <1>2 DEF MergeReturn, Returning
<1>8. /\ Lists(heap', seq', Lives) /\ InUse(seq') = InUse(seq) /\ Elsewhere(heap, heap', InUse(seq))
      /\ seq'[s] = <<>> /\ Len(seq'[l]) = Len(seq[l]) + Len(seq[s])
      /\ \A x \in Header \ {l, s} : seq'[x] = seq[x] /\ nodecount'[x] = nodecount[x]
      /\ nodecount' \in [Header -> Nat] /\ nodecount'[l] = Len(seq'[l]) /\ nodecount'[s] = 0
  BY <1>5 DEF MergeDone
<1>9. /\ maxcount' \in [Header -> Nat]
      /\ \A x \in Header : x # s => maxcount'[x] = maxcount[x]
      /\ maxcount'[s] = maxcount[s] \/ maxcount'[s] = 0
  BY <1>3, <1>4, <1>6 DEF Types
<1>10. Types'
  <2>1. heap' \in HeapType /\ seq' \in [Header -> Seq(Node)]
    BY <1>8 DEF Lists
  <2> QED
    BY <1>4, <1>6, <1>8, <1>9, <2>1 DEF Types
<1>11. Counted'
  <2>1. \A x \in Header \ {l, s} : nodecount'[x] = Len(seq'[x]) /\ nodecount'[x] <= maxcount'[x]
    BY <1>6, <1>8, <1>9 DEF Counted
  <2>2. nodecount'[l] = Len(seq'[l]) /\ nodecount'[l] <= maxcount'[l]
    BY <1>3, <1>8, <1>9
  <2>3. nodecount'[s] = Len(seq'[s]) /\ nodecount'[s] <= maxcount'[s]
    <3>1. maxcount'[s] \in Nat
      BY <1>3, <1>9
    <3> QED
      BY <1>8, <3>1
  <2> QED
    BY <2>1, <2>2, <2>3 DEF Counted
<1>12. Lives' \subseteq Lives
  BY <1>3, <1>9 DEF Lives
<1>13. {x \in Header : maxcount'[x] > 0} \subseteq Lives
  BY <1>12 DEF Lives
<1>14. SortInv' /\ Shape' /\ Emptying' = {}
  BY <1>3, <1>4, <1>7, <1>8, <1>10, <1>11, <1>13, PopKeeps
<1>15. \A x \in Header : maxcount'[x] = 0 => seq'[x] = <<>>
  <2>1. maxcount[l] # 0
    BY <1>3 DEF Lives
  <2> QED
    BY <1>3, <1>6, <1>8, <1>9, <2>1
<1> QED
  BY <1>1, <1>4, <1>8, <1>9, <1>11, <1>12, <1>14, <1>15, SortStep

LEMMA Halves ==
    ASSUME NEW n \in Nat, n > 1
    PROVE  /\ Middle(n) \in Nat /\ Middle(n) >= 1 /\ Middle(n) + 1 \in 1 .. n /\ n - Middle(n) \in Nat
           /\ n - Middle(n) > 0 /\ Middle(n) <= n - Middle(n) /\ Middle(n) + (n - Middle(n)) = n
           /\ \A b \in Nat : n <= 2 * b => n - Middle(n) <= b
<1>1. n = 2 * (n \div 2) + (n % 2) /\ n % 2 \in 0 .. 1 /\ n \div 2 \in Int
  OBVIOUS
<1> DEFINE m == n \div 2
           r == n % 2
<1>2. n = 2 * m + r /\ (r = 0 \/ r = 1) /\ m \in Int
  BY <1>1
<1> HIDE DEF m, r
<1>3. /\ m \in Nat /\ m >= 1 /\ m + 1 \in 1 .. n /\ n - m \in Nat /\ n - m > 0 /\ m <= n - m
      /\ m + (n - m) = n /\ \A b \in Nat : n <= 2 * b => n - m <= b
  <2>1. CASE r = 0
    <3>1. n = 2 * m
      BY <1>2, <2>1
    <3>2. m >= 1 /\ m \in Nat
      BY <1>2, <3>1
    <3> QED
      BY <3>1, <3>2
  <2>2. CASE r = 1
    <3>1. n = 2 * m + 1
      BY <1>2, <2>2
    <3>2. m >= 1 /\ m \in Nat
      BY <1>2, <3>1
    <3> QED
      BY <3>1, <3>2
  <2> QED
    BY <1>2, <2>1, <2>2
<1> QED
  BY <1>3 DEF Middle, m

\* The list x, new, has the second half of l.
HalvesDone(l, x, m) ==
    /\ Lists(heap', seq', Lives \cup {x}) /\ InUse(seq') = InUse(seq)
    /\ Elsewhere(heap, heap', InUse(seq))
    /\ Len(seq'[l]) = m /\ Len(seq'[x]) = Len(seq[l]) - m
    /\ Range(seq[l]) = Range(seq'[l]) \cup Range(seq'[x])
    /\ \A y \in Header \ {l, x} : seq'[y] = seq[y] /\ nodecount'[y] = nodecount[y]
    /\ nodecount' \in [Header -> Nat] /\ nodecount'[l] = m /\ nodecount'[x] = Len(seq[l]) - m

LEMMA SplitHalves ==
    ASSUME Inv, op.do = "sort", NEW l \in Lives, NEW x \in Header, maxcount[x] = 0, nodecount[l] > 1,
           NEW m, m = Middle(nodecount[l]),
           TransferAll(NilNode(heap, x), [nodecount EXCEPT ![x] = 0], x, l,
                       Walk(heap, l, heap.next[l])[m + 1])
    PROVE  HalvesDone(l, x, m)
<1>1. Types /\ Counted /\ Lists(heap, seq, Lives) /\ \A y \in Header : maxcount[y] = 0 => seq[y] = <<>>
  BY SortFacts
<1>2. l \in Header /\ l # x
  BY DEF Lives
<1> DEFINE p == seq[l]
           k == Len(seq[l])
           h == NilNode(heap, x)
           A == Lives \cup {x}
<1>3. nodecount[l] = k /\ nodecount \in [Header -> Nat] /\ nodecount[x] = 0 /\ seq[x] = <<>>
  <2>1. seq[x] = <<>>
    BY <1>1
  <2> QED
    BY <1>1, <1>2, <2>1 DEF Types, Counted
<1>4. [nodecount EXCEPT ![x] = 0] = nodecount
  BY <1>3
<1>5. OnRing(l, p) /\ p \in Seq(Node) /\ IsInjective(p)
  BY <1>1, <1>2, ListsRings DEF OnRing
<1>6. /\ k \in Nat /\ m \in Nat /\ m + 1 \in 1 .. k /\ k - m \in Nat /\ k - m > 0 /\ m + (k - m) = k
      /\ m <= k - m
  <2>1. k \in Nat /\ k > 1 /\ m = Middle(k)
    BY <1>3, <1>5
  <2> HIDE DEF k
  <2> QED
    BY <2>1, Halves
<1>7. Walk(heap, l, heap.next[l])[m + 1] = seq[l][m + 1]
  BY <1>1, RingWalk
<1>8. Lists(h, seq, A) /\ Elsewhere(heap, h, {})
  BY <1>1, <1>3, NilRing
<1> HIDE DEF h, A
<1>9. l \in A /\ x \in A
  BY DEF A
<1>10. TransferIs(h, nodecount, x, l, m + 1, Len(seq[l]))
  <2>1. TransferAll(h, nodecount, x, l, seq[l][m + 1])
    BY <1>4, <1>7 DEF h
  <2>2. m + 1 \in 1 .. Len(seq[l])
    BY <1>6
  <2> DEFINE i == m + 1
  <2> HIDE DEF i
  <2>3. TransferAll(h, nodecount, x, l, seq[l][i]) /\ i \in 1 .. Len(seq[l])
    BY <2>1, <2>2 DEF i
  <2>4. TransferIs(h, nodecount, x, l, i, Len(seq[l]))
    BY <1>8, <1>9, <2>3, TransferAllIs
  <2> QED
    BY <2>4 DEF i
<1> DEFINE i == m + 1
<1> HIDE DEF i
<1>11. /\ k \in i .. Len(seq[l]) /\ heap' = Extracted(h, x, seq[l][i], seq[l][k])
       /\ nodecount' = Recount(nodecount, x, l, Moved(heap', seq[l][i], seq[l][k]))
       /\ seq' = Resequence(x, l, i, k)
  BY <1>10 DEF TransferIs, i
<1>12. Resequenced(seq, seq', x, l, i, k)
  BY <1>1, <1>2, <1>11, ResequenceIs
<1>13. SpliceDone(h, seq, A, x, l, i, k, seq', heap')
  <2>1. i \in 1 .. Len(seq[l]) /\ k \in i .. Len(seq[l])
    BY <1>6, <1>11 DEF i
  <2> HIDE DEF k
  <2> QED
    BY <1>8, <1>9, <1>11, <1>12, <2>1, Spliced2
<1>14. k - i + 1 = k - m /\ Len(seq[l]) - (k - m) = m
  <2>1. \A y, z \in Nat : y - (z + 1) + 1 = y - z /\ y - (y - z) = z
    OBVIOUS
  <2>2. k \in Nat /\ m \in Nat /\ i = m + 1 /\ Len(seq[l]) = k
    BY <1>6 DEF i
  <2> HIDE DEF k
  <2> QED
    BY <2>1, <2>2
<1>15. /\ Lists(heap', seq', A) /\ InUse(seq') = InUse(seq) /\ Elsewhere(h, heap', InUse(seq))
       /\ Moved(heap', seq[l][i], seq[l][k]) = k - m
       /\ seq'[x] = seq[x] \o SubSeq(seq[l], i, k) /\ seq'[l] = Without(seq[l], i, k)
       /\ Len(seq'[x]) = Len(seq[x]) + (k - m) /\ Len(seq'[l]) = Len(seq[l]) - (k - m)
       /\ \A y \in Header \ {x, l} : seq'[y] = seq[y]
  BY <1>2, <1>13, <1>14 DEF SpliceDone
<1>16. Len(seq'[x]) = k - m /\ Len(seq'[l]) = m
  <2>1. Len(seq[x]) = 0
    BY <1>3
  <2>2. 0 + (k - m) = k - m
    BY <1>6
  <2> QED
    BY <1>14, <1>15, <2>1, <2>2
<1>17. Range(seq[l]) = Range(seq'[l]) \cup Range(seq'[x])
  <2>1. i \in 1 .. Len(p) /\ k \in i .. Len(p)
    BY <1>6, <1>11 DEF i
  <2>2. SliceOf(p, i, k, SubSeq(p, i, k), Without(p, i, k))
    BY <1>5, <2>1, SliceNodes
  <2>3. SubSeq(p, i, k) \in Seq(Node) /\ Range(p) = Range(Without(p, i, k)) \cup Range(SubSeq(p, i, k))
    BY <2>2 DEF SliceOf
  <2>4. <<>> \o SubSeq(p, i, k) = SubSeq(p, i, k)
    BY <2>3
  <2> QED
    BY <1>3, <1>15, <2>3, <2>4
<1>18. RecountDone(nodecount, x, l, k - m, nodecount')
  <2>1. k - m \in Nat /\ k - m <= nodecount[l]
    BY <1>3, <1>6
  <2>2. nodecount' = Recount(nodecount, x, l, k - m)
    BY <1>11, <1>15
  <2> DEFINE d == k - m
  <2> HIDE DEF d
  <2>3. d \in Nat /\ d <= nodecount[l] /\ nodecount' = Recount(nodecount, x, l, d)
    BY <2>1, <2>2 DEF d
  <2>4. RecountDone(nodecount, x, l, d, nodecount')
    BY <1>2, <1>3, <2>3, RecountIs
  <2> QED
    BY <2>4 DEF d
<1>19. /\ nodecount' \in [Header -> Nat] /\ nodecount'[l] = nodecount[l] - (k - m)
       /\ nodecount'[x] = nodecount[x] + (k - m)
       /\ \A y \in Header \ {x, l} : nodecount'[y] = nodecount[y]
  BY <1>2, <1>18 DEF RecountDone
<1>20. nodecount'[l] = m /\ nodecount'[x] = k - m
  BY <1>3, <1>6, <1>14, <1>19
<1>21. Elsewhere(heap, heap', InUse(seq))
  BY <1>8, <1>15 DEF Elsewhere
<1> QED
  BY <1>15, <1>16, <1>17, <1>19, <1>20, <1>21 DEF HalvesDone, A

LEMMA SplitReaches ==
    ASSUME NEW f, op = SortRecord(f), Stack(f), Len(f) <= Len(Extra), NEW x, x = Extra[Len(f)],
           NEW l, l = f[Len(f)].list
    PROVE  \E g : /\ Push(WithTop([f[Len(f)] EXCEPT !.at = "left", !.sour = x]), SortFrame(l)) = SortRecord(g)
                  /\ SplitStack(f, g)
<1> DEFINE k == Len(f)
           fr == [f[k] EXCEPT !.at = "left", !.sour = x]
           g1 == Append(Front(f), fr)
           g  == Append(g1, SortFrame(l))
<1>1. StackApart(f)
  BY StackIsApart
<1>2. f \in Seq(FrameType) /\ k \in Nat /\ k >= 1 /\ Len(f) > 0 /\ k \in 1 .. k
  <2>1. k \in Nat /\ k >= 1
    BY <1>1 DEF StackApart
  <2> QED
    BY <2>1 DEF Stack
<1>3. f[k] \in FrameType /\ f[k].list \in Header
  BY <1>1, <1>2 DEF StackApart
<1>4. x \in Header
  <2>1. k \in 1 .. Len(Extra)
    BY <1>2, ExtraHeaders
  <2> QED
    BY <2>1, ExtraHeaders
<1>5. fr \in FrameType /\ fr.at = "left" /\ fr.list = f[k].list /\ fr.sour = x
  <2> HIDE DEF k
  <2> QED
    BY <1>3, <1>4 DEF FrameType
<1>6. SortFrame(l) \in FrameType
  BY <1>3 DEF SortFrame, FrameType
<1> HIDE DEF fr
<1>7. OnTop(g1, f, k - 1, fr)
  <2>1. f \in Seq(FrameType) /\ Len(f) > 0 /\ fr \in FrameType
    BY <1>2, <1>5
  <2> QED
    BY <2>1, TopReplaced
<1>8. WithTop(fr) = SortRecord(g1)
  <2>1. op.frames = f
    BY DEF SortRecord
  <2>2. WithTop(fr) = [op EXCEPT !.frames = g1]
    BY <2>1 DEF WithTop
  <2> HIDE DEF g1
  <2>3. [op EXCEPT !.frames = g1] = SortRecord(g1)
    BY WithFrames
  <2> QED
    BY <2>2, <2>3
<1> HIDE DEF g1
<1>9. Push(WithTop(fr), SortFrame(l)) = SortRecord(g)
  <2>1. SortRecord(g1).frames = g1
    BY DEF SortRecord
  <2>2. ASSUME NEW b PROVE [SortRecord(g1) EXCEPT !.frames = b] = SortRecord(b)
    BY DEF SortRecord
  <2>3. Push(SortRecord(g1), SortFrame(l)) = [SortRecord(g1) EXCEPT !.frames = Append(g1, SortFrame(l))]
    BY <2>1 DEF Push
  <2> QED
    BY <1>8, <2>2, <2>3
<1>10. g1 \in Seq(FrameType) /\ Len(g1) = k /\ g1[k] = fr /\ \A j \in 1 .. k - 1 : g1[j] = f[j]
  <2>1. (k - 1) + 1 = k
    BY <1>2
  <2> QED
    BY <1>7, <2>1 DEF OnTop
<1>11. OnTop(g, g1, k, SortFrame(l))
  BY <1>6, <1>10, TopPushed
<1> HIDE DEF g
<1>12. SplitStack(f, g)
  <2>1. \A j \in 1 .. k - 1 : j \in 1 .. k
    BY <1>2
  <2>2. /\ g \in Seq(FrameType) /\ Len(g) = k + 1 /\ g[k + 1] = SortFrame(l)
        /\ \A j \in 1 .. k : g[j] = g1[j]
    BY <1>11 DEF OnTop
  <2>3. g[k] = fr /\ \A j \in 1 .. k - 1 : g[j] = f[j]
    BY <1>2, <1>10, <2>1, <2>2
  <2> QED
    BY <1>5, <2>2, <2>3 DEF SplitStack
<1> QED
  BY <1>9, <1>12 DEF fr

\* w and S with one more place.
Extended(w, S, k, x, y, v, T) ==
    /\ v \in [1 .. k + 1 -> Nat] /\ T \in [1 .. k + 1 -> SUBSET Node]
    /\ v[k + 1] = x /\ T[k + 1] = y
    /\ \A j \in 1 .. k : v[j] = w[j] /\ T[j] = S[j]

LEMMA Extend ==
    ASSUME NEW k \in Nat, NEW w \in [1 .. k -> Nat], NEW S \in [1 .. k -> SUBSET Node],
           NEW x \in Nat, NEW y \in SUBSET Node
    PROVE  \E v, T : Extended(w, S, k, x, y, v, T)
<1> DEFINE v == [j \in 1 .. k + 1 |-> IF j = k + 1 THEN x ELSE w[j]]
           T == [j \in 1 .. k + 1 |-> IF j = k + 1 THEN y ELSE S[j]]
<1>1. \A j \in 1 .. k + 1 : j = k + 1 \/ j \in 1 .. k
  OBVIOUS
<1>2. \A j \in 1 .. k : j # k + 1 /\ j \in 1 .. k + 1
  OBVIOUS
<1>3. k + 1 \in 1 .. k + 1
  OBVIOUS
<1>4. Extended(w, S, k, x, y, v, T)
  BY <1>1, <1>2, <1>3 DEF Extended
<1> HIDE DEF v, T
<1> QED
  BY <1>4

\* list_sort has split the list l of its frame, and x has the second half.
LEMMA SplitSorting ==
    ASSUME Types, Counted, NEW f, NEW n, Sorting(f, n), f[Len(f)].at = "split", Len(f) <= Len(Extra),
           NEW l, l = f[Len(f)].list, NEW x, x = Extra[Len(f)], Len(seq[l]) > 1,
           NEW m, m = Middle(Len(seq[l])), HalvesDone(l, x, m),
           maxcount' = [maxcount EXCEPT ![x] = Len(seq[l]) - m],
           NEW g, SplitStack(f, g)
    PROVE  Sorting(g, n)'
<1> DEFINE k == Len(f)
           c == Len(seq[l])
           e == Len(Extra)
<1>1. Stack(f) /\ Alive(f)
  BY DEF Sorting
<1>2. StackApart(f)
  BY <1>1, StackIsApart
<1>3. k \in Nat /\ k >= 1 /\ e \in Nat /\ k \in 1 .. e /\ k \in 1 .. k
  <2>1. k \in Nat /\ k >= 1
    BY <1>2 DEF StackApart
  <2> QED
    BY <2>1, ExtraHeaders
<1>4. l \in Header /\ x \in Header /\ l # x
  <2>1. l \in Header /\ f[k].list # Extra[k]
    BY <1>2, <1>3 DEF StackApart
  <2> QED
    BY <1>3, <2>1, ExtraHeaders
<1>5. /\ Len(g) = k + 1 /\ \A j \in 1 .. k - 1 : g[j] = f[j]
      /\ g[k].at = "left" /\ g[k].list = l /\ g[k].sour = x
      /\ g[k + 1].at = "split" /\ g[k + 1].list = l
  BY DEF SplitStack, SortFrame
<1>6. Stack(g)
  BY <1>1, StackSplit
<1>7. /\ maxcount' \in [Header -> Nat] /\ maxcount'[x] = c - m
      /\ \A y \in Header : y # x => maxcount'[y] = maxcount[y]
  <2>1. c \in Nat /\ c - m \in Nat
    <3>1. c \in Nat
      BY <1>4 DEF Types
    <3>2. c > 1
      OBVIOUS
    <3> HIDE DEF c
    <3> QED
      BY <3>1, <3>2, Halves DEF c
  <2> QED
    BY <1>4, <2>1 DEF Types
<1>8. /\ c \in Nat /\ m \in Nat /\ c - m > 0 /\ m + (c - m) = c /\ m <= c - m
      /\ \A b \in Nat : c <= 2 * b => c - m <= b
  <2>1. c \in Nat /\ c > 1 /\ m = Middle(c)
    BY <1>4 DEF Types
  <2> HIDE DEF c
  <2> QED
    BY <2>1, Halves
<1>9. /\ seq'[l] \in Seq(Node) /\ seq'[x] \in Seq(Node)
      /\ Len(seq'[l]) = m /\ Len(seq'[x]) = c - m
      /\ Range(seq[l]) = Range(seq'[l]) \cup Range(seq'[x])
      /\ \A y \in Header \ {l, x} : seq'[y] = seq[y]
  BY <1>4 DEF HalvesDone, Lists
<1>10. ASSUME NEW j \in 1 .. k - 1
       PROVE  /\ Waiting(g, j) = Waiting(f, j) /\ seq'[Waiting(f, j)] = seq[Waiting(f, j)]
              /\ maxcount'[f[j].list] = maxcount[f[j].list]
  <2>1. Waiting(g, j) = Waiting(f, j)
    BY <1>5 DEF Waiting
  <2>2. Waiting(f, j) \in Header \ {l, x}
    <3>1. j \in 1 .. Len(f) - 1
      OBVIOUS
    <3> QED
      BY <1>1, <3>1, WaitingElse
  <2>3. f[j].list \in Header /\ f[j].list # x
    <3>1. j \in 1 .. k /\ j <= k
      BY <1>3
    <3> QED
      BY <1>2, <1>3, <3>1 DEF StackApart
  <2> QED
    BY <1>7, <1>9, <2>1, <2>2, <2>3
<1>11. Waiting(g, k) = x
  BY <1>5 DEF Waiting
<1>12. Alive(g)'
  <2>1. maxcount'[g[1].list] > 0
    <3>1. g[1].list = f[1].list
      <4>1. 1 = k \/ 1 \in 1 .. k - 1
        <5> HIDE DEF k
        <5> QED
          BY <1>3
      <4> QED
        BY <1>5, <4>1
    <3>2. f[1].list \in Header /\ f[1].list # x
      <4>1. 1 \in 1 .. k /\ 1 <= k
        BY <1>3
      <4> QED
        BY <1>2, <1>3, <4>1 DEF StackApart
    <3>3. maxcount[f[1].list] > 0
      BY <1>1 DEF Alive
    <3> QED
      BY <1>7, <3>1, <3>2, <3>3
  <2>2. ASSUME NEW j \in 1 .. e
        PROVE  maxcount'[Extra[j]] > 0 <=> ExtraLives(g, j)
    <3>1. ExtraLives(g, j) <=> j < k + 1
      BY <1>5 DEF ExtraLives
    <3>2. ExtraLives(f, j) <=> j < k
      BY DEF ExtraLives
    <3>3. maxcount[Extra[j]] > 0 <=> ExtraLives(f, j)
      BY <1>1 DEF Alive
    <3>4. CASE j = k
      BY <1>3, <1>7, <1>8, <3>1, <3>4
    <3>5. CASE j # k
      <4>1. Extra[j] \in Header /\ Extra[j] # x
        BY <1>3, <3>5, ExtraHeaders
      <4>2. j < k + 1 <=> j < k
        BY <1>3, <3>5
      <4> QED
        BY <1>7, <3>1, <3>2, <3>3, <4>1, <4>2
    <3> QED
      BY <3>4, <3>5
  <2> QED
    BY <2>1, <2>2 DEF Alive, ExtraLives
<1>13. PICK w, S : Below(f, n, w, S) /\ SplitTop(f, w, S)
  BY DEF Sorting
<1>14. /\ w \in [1 .. k -> Nat] /\ S \in [1 .. k -> SUBSET Node] /\ S[1] = n
       /\ \A j \in 1 .. k : w[j] <= maxcount[f[j].list]
       /\ \A j \in 1 .. k - 1 :
             /\ w[j] = w[j + 1] + Len(seq[Waiting(f, j)])
             /\ S[j] = S[j + 1] \cup Range(seq[Waiting(f, j)])
             /\ f[j].at = "left" => Len(seq[Waiting(f, j)]) <= Pow(e - j)
             /\ f[j].at = "right" => Sorted(seq[Waiting(f, j)])
       /\ w[k] = c /\ S[k] = Range(seq[l]) /\ w[k] <= Pow(e - k + 1)
  BY <1>13 DEF Below, SplitTop
<1>15. c - m <= Pow(e - k) /\ m <= Pow(e - k)
  <2> DEFINE d == e - k
  <2>1. d \in Nat
    BY <1>3
  <2>2. c <= Pow(d + 1)
    BY <1>14
  <2> HIDE DEF d
  <2>3. Pow(d + 1) = 2 * Pow(d) /\ Pow(d) \in Nat
    BY <2>1, PowerDoubles, PowerIsNat
  <2> HIDE DEF c
  <2>4. c - m <= Pow(d)
    BY <1>8, <2>2, <2>3
  <2>5. m <= Pow(d)
    BY <1>8, <2>3, <2>4
  <2> QED
    BY <2>4, <2>5 DEF d
<1>16. PICK v, T : Extended(w, S, k, m, Range(seq'[l]), v, T)
  <2>1. Range(seq'[l]) \in SUBSET Node
    BY <1>9 DEF Range
  <2> DEFINE y == Range(seq'[l])
  <2> HIDE DEF y
  <2>2. y \in SUBSET Node
    BY <2>1 DEF y
  <2>3. \E v, T : Extended(w, S, k, m, y, v, T)
    BY <1>3, <1>8, <1>14, <2>2, Extend
  <2> QED
    BY <2>3 DEF y
<1>17. /\ v \in [1 .. k + 1 -> Nat] /\ T \in [1 .. k + 1 -> SUBSET Node]
       /\ v[k + 1] = m /\ T[k + 1] = Range(seq'[l])
       /\ \A j \in 1 .. k : v[j] = w[j] /\ T[j] = S[j]
  BY <1>16 DEF Extended
<1>18. T[1] = n
  <2>1. 1 \in 1 .. k
    BY <1>3
  <2> QED
    BY <1>14, <1>17, <2>1
<1>19. ASSUME NEW j \in 1 .. k + 1 PROVE v[j] <= maxcount'[g[j].list]
  <2>1. CASE j = k + 1
    <3>1. c <= maxcount[l] /\ maxcount[l] \in Nat
      BY <1>4 DEF Types, Counted
    <3>2. maxcount'[l] = maxcount[l]
      BY <1>4, <1>7
    <3> HIDE DEF c
    <3>3. m <= maxcount[l]
      BY <1>8, <3>1
    <3> QED
      BY <1>5, <1>17, <2>1, <3>2, <3>3
  <2>2. CASE j = k
    <3>1. v[k] = c /\ c <= maxcount[l]
      BY <1>3, <1>4, <1>14, <1>17 DEF Types, Counted
    <3> QED
      BY <1>4, <1>5, <1>7, <2>2, <3>1
  <2>3. CASE j # k /\ j # k + 1
    <3>1. j \in 1 .. k - 1 /\ j \in 1 .. k
      BY <1>3, <2>3
    <3>2. v[j] = w[j] /\ w[j] <= maxcount[f[j].list]
      BY <1>14, <1>17, <3>1
    <3> QED
      BY <1>5, <1>10, <3>1, <3>2
  <2> QED
    BY <2>1, <2>2, <2>3
<1>20. ASSUME NEW j \in 1 .. k
       PROVE  /\ v[j] = v[j + 1] + Len(seq'[Waiting(g, j)])
              /\ T[j] = T[j + 1] \cup Range(seq'[Waiting(g, j)])
              /\ g[j].at = "left" => Len(seq'[Waiting(g, j)]) <= Pow(e - j)
              /\ g[j].at = "right" => Sorted(seq'[Waiting(g, j)])
  <2>1. CASE j = k
    <3>1. v[k] = c /\ T[k] = Range(seq[l])
      BY <1>3, <1>14, <1>17
    <3>2. c = m + (c - m)
      BY <1>8
    <3> HIDE DEF c
    <3> QED
      BY <1>5, <1>9, <1>11, <1>15, <1>17, <2>1, <3>1, <3>2
  <2>2. CASE j # k
    <3>1. j \in 1 .. k - 1 /\ j \in 1 .. k /\ j + 1 \in 1 .. k
      BY <1>3, <2>2
    <3>2. v[j] = w[j] /\ T[j] = S[j] /\ v[j + 1] = w[j + 1] /\ T[j + 1] = S[j + 1] /\ g[j] = f[j]
      BY <1>5, <1>17, <3>1
    <3>3. Waiting(g, j) = Waiting(f, j) /\ seq'[Waiting(f, j)] = seq[Waiting(f, j)]
      BY <1>10, <3>1
    <3> QED
      BY <1>14, <3>1, <3>2, <3>3
  <2> QED
    BY <2>1, <2>2
<1>21. Below(g, n, v, T)'
  <2>1. k + 1 - 1 = k
    BY <1>3
  <2> HIDE DEF k, e
  <2>2. /\ v \in [1 .. Len(g) -> Nat] /\ T \in [1 .. Len(g) -> SUBSET Node]
        /\ \A j \in 1 .. Len(g) : v[j] <= maxcount'[g[j].list]
        /\ \A j \in 1 .. Len(g) - 1 :
              /\ v[j] = v[j + 1] + Len(seq'[Waiting(g, j)])
              /\ T[j] = T[j + 1] \cup Range(seq'[Waiting(g, j)])
              /\ g[j].at = "left" => Len(seq'[Waiting(g, j)]) <= Pow(e - j)
              /\ g[j].at = "right" => Sorted(seq'[Waiting(g, j)])
    <3>1. Len(g) = k + 1 /\ Len(g) - 1 = k
      <4>1. Len(g) = k + 1
        BY <1>5
      <4>2. ASSUME NEW z, z = k + 1 PROVE z - 1 = k
        BY <1>3, <4>2
      <4> QED
        BY <4>1, <4>2
    <3> QED
      BY <1>17, <1>19, <1>20, <3>1
  <2> QED
    BY <1>18, <2>2 DEF Below, Waiting, e
<1>22. SplitTop(g, v, T)'
  <2>1. e - (k + 1) + 1 = e - k
    BY <1>3
  <2>2. v[k + 1] = Len(seq'[l]) /\ T[k + 1] = Range(seq'[l]) /\ v[k + 1] <= Pow(e - (k + 1) + 1)
    BY <1>9, <1>15, <1>17, <2>1
  <2> QED
    BY <1>5, <2>2 DEF SplitTop
<1> QED
  BY <1>5, <1>6, <1>12, <1>21, <1>22 DEF Sorting, Stack, Waiting

LEMMA SortSplitKeeps == ASSUME Inv, SortSplit PROVE Inv'
<1>1. /\ Top("split") /\ nodecount[Frame.list] > 1
      /\ TransferAll(NilNode(heap, Extra[Len(op.frames)]),
                     [nodecount EXCEPT ![Extra[Len(op.frames)]] = 0],
                     Extra[Len(op.frames)], Frame.list,
                     Walk(heap, Frame.list, heap.next[Frame.list])[Middle(nodecount[Frame.list]) + 1])
      /\ maxcount' = [maxcount EXCEPT ![Extra[Len(op.frames)]] = ExtraMax(nodecount[Frame.list])]
      /\ op' = Push(WithTop([Frame EXCEPT !.at = "left", !.sour = Extra[Len(op.frames)]]),
                    SortFrame(Frame.list))
      /\ UNCHANGED <<fre, pooled, scan, held>>
  BY DEF SortSplit
<1>2. op.do = "sort"
  BY <1>1 DEF Top
<1>3. PICK f, n : /\ op = SortRecord(f) /\ op.nodes = n /\ op.frames = f /\ Frame = f[Len(f)]
                  /\ f[Len(f)].at = "split" /\ Sorting(f, n)
  BY <1>1, TopFacts
<1>4. /\ Types /\ Counted /\ Lists(heap, seq, Lives)
      /\ \A y \in Header : maxcount[y] = 0 => seq[y] = <<>>
  BY <1>2, SortFacts
<1>5. Stack(f) /\ Alive(f) /\ \E w, S : Below(f, n, w, S) /\ SplitTop(f, w, S)
  BY <1>3 DEF Sorting
<1> DEFINE k == Len(f)
<1>6. PICK l : l = f[k].list
  OBVIOUS
<1>7. l \in Header /\ k \in Nat /\ k >= 1 /\ l \in Lives
  <2>1. k \in Nat /\ k >= 1
    BY <1>5, StackIsApart DEF StackApart
  <2>2. k \in 1 .. k
    BY <2>1
  <2> QED
    BY <1>5, <1>6, <2>1, <2>2, StackIsApart, StackAlive DEF StackApart, Lives
<1> DEFINE c == Len(seq[l])
<1>8. nodecount[l] = c /\ c > 1 /\ c \in Nat
  <2>1. nodecount[l] = c /\ c \in Nat
    BY <1>4, <1>7 DEF Types, Counted
  <2> QED
    BY <1>1, <1>3, <1>6, <2>1
<1>9. k <= Len(Extra)
  <2>1. PICK w, S : Below(f, n, w, S) /\ SplitTop(f, w, S)
    BY <1>5
  <2>2. c <= Pow(Len(Extra) - k + 1)
    BY <1>6, <2>1 DEF SplitTop
  <2>3. k \in 1 .. Len(Extra) + 1 /\ Len(Extra) \in Nat
    BY <1>5, ExtraHeaders DEF Stack
  <2>4. Pow(0) = 1
    BY DEF Pow
  <2>5. CASE k = Len(Extra) + 1
    <3>1. Len(Extra) - k + 1 = 0
      BY <2>3, <2>5
    <3>2. c <= 1
      BY <2>2, <2>4, <3>1
    <3> QED
      BY <1>8, <3>2
  <2> QED
    BY <2>3, <2>5
<1>10. PICK x : x = Extra[k]
  OBVIOUS
<1>11. x \in Header /\ maxcount[x] = 0 /\ x # l
  <2>1. k \in 1 .. Len(Extra)
    BY <1>7, <1>9, ExtraHeaders
  <2>2. ~ExtraLives(f, k)
    BY <1>3 DEF ExtraLives
  <2>3. x \in Header /\ ~(maxcount[x] > 0)
    BY <1>5, <1>10, <2>1, <2>2, ExtraHeaders DEF Alive
  <2>4. maxcount[x] \in Nat
    BY <1>4, <2>3 DEF Types
  <2> QED
    BY <1>7, <2>3, <2>4 DEF Lives
<1>12. PICK m : m = Middle(c)
  OBVIOUS
<1>13. /\ m \in Nat /\ c - m \in Nat /\ c - m > 0 /\ ExtraMax(nodecount[l]) = c - m
       /\ m <= c
  <2> HIDE DEF c
  <2>1. m \in Nat /\ c - m \in Nat /\ c - m > 0
    BY <1>8, <1>12, Halves
  <2> QED
    BY <1>8, <1>12, <2>1 DEF ExtraMax
<1>14. HalvesDone(l, x, m)
  <2>1. TransferAll(NilNode(heap, x), [nodecount EXCEPT ![x] = 0], x, l,
                    Walk(heap, l, heap.next[l])[m + 1])
    BY <1>1, <1>3, <1>6, <1>8, <1>10, <1>12
  <2>2. nodecount[l] > 1 /\ m = Middle(nodecount[l])
    BY <1>8, <1>12
  <2> QED
    BY <1>2, <1>7, <1>11, <2>1, <2>2, SplitHalves
<1>15. /\ Lists(heap', seq', Lives \cup {x}) /\ InUse(seq') = InUse(seq)
       /\ Elsewhere(heap, heap', InUse(seq))
       /\ Len(seq'[l]) = m /\ Len(seq'[x]) = c - m
       /\ \A y \in Header \ {l, x} : seq'[y] = seq[y] /\ nodecount'[y] = nodecount[y]
       /\ nodecount' \in [Header -> Nat] /\ nodecount'[l] = m /\ nodecount'[x] = c - m
  BY <1>14 DEF HalvesDone
<1>16. maxcount' = [maxcount EXCEPT ![x] = c - m]
  BY <1>1, <1>3, <1>6, <1>10, <1>13
<1>17. /\ maxcount' \in [Header -> Nat] /\ maxcount'[x] = c - m
       /\ \A y \in Header : y # x => maxcount'[y] = maxcount[y]
  BY <1>4, <1>11, <1>13, <1>16 DEF Types
<1>18. PICK g : /\ op' = SortRecord(g) /\ SplitStack(f, g)
  <2>1. op' = Push(WithTop([f[Len(f)] EXCEPT !.at = "left", !.sour = x]), SortFrame(l))
    BY <1>1, <1>3, <1>6, <1>10
  <2> QED
    BY <1>3, <1>5, <1>6, <1>9, <1>10, <2>1, SplitReaches
<1>19. Sorting(g, n)'
  <2>1. Len(seq[l]) > 1 /\ m = Middle(Len(seq[l])) /\ maxcount' = [maxcount EXCEPT ![x] = Len(seq[l]) - m]
    BY <1>8, <1>12, <1>16
  <2> QED
    BY <1>3, <1>4, <1>6, <1>9, <1>10, <1>14, <1>18, <2>1, SplitSorting
<1>20. Counted'
  <2>1. nodecount'[l] <= maxcount'[l]
    <3>1. c <= maxcount[l] /\ maxcount[l] \in Nat /\ maxcount'[l] = maxcount[l]
      BY <1>4, <1>7, <1>11, <1>17 DEF Types, Counted
    <3> HIDE DEF c
    <3> QED
      BY <1>8, <1>13, <1>15, <3>1
  <2>2. nodecount'[x] <= maxcount'[x]
    <3> HIDE DEF c
    <3> QED
      BY <1>13, <1>15, <1>17
  <2>3. \A y \in Header \ {l, x} : nodecount'[y] = Len(seq'[y]) /\ nodecount'[y] <= maxcount'[y]
    BY <1>4, <1>15, <1>17 DEF Counted
  <2> QED
    BY <1>15, <2>1, <2>2, <2>3 DEF Counted
<1>21. Lives' \subseteq Lives \cup {x}
  BY <1>17 DEF Lives
<1>22. \A y \in Header : maxcount'[y] = 0 => seq'[y] = <<>>
  <2>1. maxcount'[l] # 0
    BY <1>7, <1>11, <1>17 DEF Lives
  <2>2. maxcount'[x] # 0
    BY <1>13, <1>17
  <2> QED
    BY <1>4, <1>15, <1>17, <2>1, <2>2
<1>23. SortInv' /\ Shape' /\ Emptying' = {}
  BY <1>3, <1>18, <1>19, SortingOn
<1> DEFINE A == Lives \cup {x}
<1> HIDE DEF A
<1>24. Lists(heap', seq', A) /\ Lives' \subseteq A
  BY <1>15, <1>21 DEF A
<1> QED
  BY <1>1, <1>2, <1>15, <1>17, <1>20, <1>22, <1>23, <1>24, SortStep

-----------------------------------------------------------------------------
(***************************************************************************)
(* The invariant holds.                                                    *)
(***************************************************************************)
LEMMA Stutters == ASSUME Inv, UNCHANGED vars PROVE Inv'
<1>1. UNCHANGED <<heap, nodecount, maxcount, fre, pooled, op, scan, seq, held>>
  BY DEF vars
<1>2. Emptying' = Emptying
  BY <1>1 DEF Emptying
<1>3. Types' /\ Places' /\ Shape'
  BY <1>1 DEF Inv, Types, Places, Shape
<1>4. Rings' /\ Counts'
  BY <1>1, <1>2 DEF Inv, Rings, Counts
<1>5. PoolInv'
  BY <1>1 DEF Inv, PoolInv, FreeList
<1>6. EmptyInv'
  BY <1>1 DEF Inv, EmptyInv, Members
<1>7. ScanInv'
  BY <1>1 DEF Inv, ScanInv, Members, Ahead
<1>8. SortInv'
  <2>1. CASE op.do = "sort"
    <3>1. op = SortRecord(op.frames) /\ Sorting(op.frames, op.nodes)
      BY <2>1 DEF Inv, SortInv
    <3>2. PICK f, n : f = op.frames /\ n = op.nodes /\ f = op'.frames /\ n = op'.nodes
      BY <1>1
    <3>3. Stack(f) /\ Alive(f)' /\ \E w, S : /\ Below(f, n, w, S)
                                             /\ f[Len(f)].at = "split" => SplitTop(f, w, S)
                                             /\ f[Len(f)].at = "merge" => MergeTop(f, w, S)
      BY <1>1, <3>1, <3>2 DEF Sorting, Alive
    <3>4. PICK w, S : /\ Below(f, n, w, S)
                      /\ f[Len(f)].at = "split" => SplitTop(f, w, S)
                      /\ f[Len(f)].at = "merge" => MergeTop(f, w, S)
      BY <3>3
    <3>5. Below(f, n, w, S)'
      BY <1>1, <3>4 DEF Below
    <3>6. f[Len(f)].at = "split" => SplitTop(f, w, S)'
      BY <1>1, <3>4 DEF SplitTop
    <3>7. f[Len(f)].at = "merge" => MergeTop(f, w, S)'
      BY <1>1, <3>4 DEF MergeTop, Merged
    <3>8. Sorting(f, n)'
      BY <3>3, <3>5, <3>6, <3>7 DEF Sorting
    <3> QED
      BY <1>1, <2>1, <3>1, <3>2, <3>8 DEF SortInv, SortRecord
  <2>2. CASE op.do # "sort"
    BY <1>1, <2>2 DEF Inv, SortInv
  <2> QED
    BY <2>1, <2>2
<1> QED
  BY <1>3, <1>4, <1>5, <1>6, <1>7, <1>8 DEF Inv

LEMMA NextKeeps == Inv /\ [Next]_vars => Inv'
<1> SUFFICES ASSUME Inv, [Next]_vars PROVE Inv'
  OBVIOUS
<1>1. ASSUME NEW l \in List, ListNext(l) PROVE Inv'
  <2>1. ASSUME NEW m \in Limits, Create(l, m) PROVE Inv'
    BY <2>1, CreateKeeps
  <2>2. CASE Destroy(l)
    BY <2>2, DestroyKeeps
  <2>3. CASE ProcessBegin(l)
    BY <2>3, ProcessBeginKeeps
  <2>4. CASE Sort(l)
    BY <2>4, SortKeeps
  <2>5. ASSUME NEW into \in {"free", "pool"}, EmptyBegin(l, into) PROVE Inv'
    BY <2>5, EmptyBeginKeeps
  <2>6. ASSUME NEW n \in Node, NEW i \in 0 .. Len(seq[l]), InsAfter(l, n, i) PROVE Inv'
    BY <2>6, InsAfterKeeps
  <2>7. ASSUME NEW n \in Node, NEW i \in 1 .. (Len(seq[l]) + 1), InsBefore(l, n, i) PROVE Inv'
    BY <2>7, InsBeforeKeeps
  <2>8. ASSUME NEW n \in Node, Delete(l, n) PROVE Inv'
    BY <2>8, DeleteKeeps
  <2>9. ASSUME NEW s \in List, Merge(l, s) PROVE Inv'
    BY <2>9, MergeKeeps
  <2>10. ASSUME NEW s \in List, NEW i \in DOMAIN seq[s], Transfer(l, s, i) PROVE Inv'
    BY <2>10, TransferKeeps
  <2>11. ASSUME NEW s \in List, NEW i \in DOMAIN seq[s], NEW j \in DOMAIN seq[s], Extract(l, s, i, j)
         PROVE  Inv'
    BY <2>11, ExtractKeeps
  <2> QED
    BY <1>1, <2>1, <2>2, <2>3, <2>4, <2>5, <2>6, <2>7, <2>8, <2>9, <2>10, <2>11 DEF ListNext
<1>2. ASSUME NEW n \in Node, NodeNext(n) PROVE Inv'
  BY <1>2, NodeCreateKeeps, NodeDestroyKeeps, ReturnKeeps DEF NodeNext
<1>3. CASE PoolNext
  <2>1. ASSUME NEW junk \in {NULL} \cup Pooled, PoolCreate(junk) PROVE Inv'
    BY <2>1, PoolCreateKeeps
  <2> QED
    BY <1>3, <2>1, PoolDestroyKeeps, BorrowKeeps DEF PoolNext
<1>4. CASE Loop
  BY <1>4, EmptyNodeKeeps, EmptyEndKeeps, SortSplitKeeps, SortShortKeeps, MergeMoveKeeps,
     MergeKeepKeeps, MergeEndKeeps DEF Loop
<1>5. CASE UNCHANGED vars
  BY <1>5, Stutters
<1> QED
  BY <1>1, <1>2, <1>3, <1>4, <1>5, ProcessNextKeeps, ProcessEndKeeps DEF Next

LEMMA Invariant == Spec => []Inv
BY InitInv, NextKeeps, PTL DEF Spec

-----------------------------------------------------------------------------
(***************************************************************************)
(* What the invariant says in the words of List.                           *)
(***************************************************************************)
LEMMA InvTypes == Inv => TypeOK
<1> SUFFICES ASSUME Inv PROVE TypeOK
  OBVIOUS
<1>1. op.do \in {"idle", "sort", "empty"}
  BY DEF Inv, Shape, Idle
<1>2. scan.list \in List \cup {NULL}
  <2>1. CASE scan = NoScan
    BY <2>1 DEF NoScan
  <2>2. CASE scan # NoScan
    BY <2>2 DEF Inv, ScanInv
  <2> QED
    BY <2>1, <2>2
<1> QED
  BY <1>1, <1>2 DEF TypeOK, Inv, Types, HeapType

LEMMA RingReads ==
    ASSUME NEW h, NEW l \in Header, NEW s \in Seq(Node), Linked(h.next, h.prev, l, s)
    PROVE  Ring(h, l, s)
<1> DEFINE r == <<l>> \o s \o <<l>>
<1>1. s \in Seq(Node \cup {l}) /\ <<l>> \in Seq(Node \cup {l}) /\ Len(s) \in Nat
  OBVIOUS
<1>2. /\ Len(r) = Len(s) + 2
      /\ \A i \in 1 .. Len(s) + 2 : r[i] = IF i = 1 THEN l ELSE IF i = Len(s) + 2 THEN l ELSE s[i - 1]
  BY <1>1
<1>3. \A i \in 1 .. Len(s) + 2 : r[i] = At(l, s, i - 1)
  BY <1>1, <1>2 DEF At
<1> HIDE DEF r
<1>4. ASSUME NEW i \in 1 .. (Len(r) - 1) PROVE h.next[r[i]] = r[i + 1] /\ h.prev[r[i + 1]] = r[i]
  <2>1. /\ i \in 1 .. Len(s) + 2 /\ i + 1 \in 1 .. Len(s) + 2 /\ i - 1 \in 0 .. Len(s)
        /\ i + 1 - 1 = i - 1 + 1
    BY <1>1, <1>2
  <2>2. r[i] = At(l, s, i - 1) /\ r[i + 1] = At(l, s, i - 1 + 1)
    BY <1>3, <2>1
  <2> QED
    BY <2>1, <2>2 DEF Linked
<1> QED
  BY <1>4 DEF Ring, r

LEMMA InvVerify == Inv => ListVerify
<1> SUFFICES ASSUME Inv PROVE ListVerify
  OBVIOUS
<1>1. RingsIntact
  <2> SUFFICES ASSUME NEW l \in Header \ Emptying, maxcount[l] > 0 PROVE Ring(heap, l, seq[l])
    BY DEF RingsIntact
  <2>1. Linked(heap.next, heap.prev, l, seq[l]) /\ seq[l] \in Seq(Node)
    BY DEF Inv, Rings, Types
  <2> QED
    BY <2>1, RingReads
<1>2. CountsExact
  <2> SUFFICES ASSUME NEW l \in Header \ Emptying
               PROVE  /\ nodecount[l] = IF maxcount[l] = 0 THEN 0 ELSE Len(seq[l])
                      /\ nodecount[l] <= maxcount[l]
    BY DEF CountsExact
  <2>1. nodecount[l] = Len(seq[l]) /\ nodecount[l] <= maxcount[l]
    BY DEF Inv, Counts
  <2>2. maxcount[l] = 0 => Len(seq[l]) = 0
    BY DEF Inv, Places
  <2> QED
    BY <2>1, <2>2
<1> QED
  BY <1>1, <1>2, InvTypes DEF ListVerify

\* A node in a list has a successor, the nil node at the end.
LEMMA InListFollowed ==
    ASSUME Inv, NEW n \in InUse(seq)
    PROVE  heap.next[n] # NULL
<1>1. PICK l \in Header : n \in Range(seq[l])
  BY DEF InUse
<1>2. Types /\ Places /\ Rings /\ EmptyInv /\ Shape
  BY DEF Inv
<1>3. seq[l] \in Seq(Node)
  BY <1>2 DEF Types
<1>4. PICK i \in 1 .. Len(seq[l]) : seq[l][i] = n
  BY <1>1, <1>3 DEF Range
<1>5. maxcount[l] > 0
  <2>1. maxcount[l] # 0
    BY <1>2, <1>3, <1>4 DEF Places
  <2> QED
    BY <1>2, <2>1 DEF Types
<1>6. heap.next[n] = At(l, seq[l], i + 1)
  <2>1. CASE l \in Emptying
    <3>1. op.do = "empty" /\ l = op.list
      BY <2>1 DEF Emptying
    <3>2. Threaded(heap.next, l, seq[l])
      BY <1>2, <3>1 DEF EmptyInv
    <3> QED
      BY <1>4, <3>2 DEF Threaded
  <2>2. CASE l \notin Emptying
    <3>1. Linked(heap.next, heap.prev, l, seq[l])
      BY <1>2, <1>5, <2>2 DEF Rings
    <3>2. i \in 0 .. Len(seq[l]) /\ At(l, seq[l], i) = n
      BY <1>4 DEF At
    <3> QED
      BY <3>1, <3>2 DEF Linked
  <2> QED
    BY <2>1, <2>2
<1>7. At(l, seq[l], i + 1) \in Cell
  BY <1>3 DEF At, Cell
<1> QED
  BY <1>6, <1>7, ListAssumption

LEMMA InvPool == Inv => PoolExact
<1> SUFFICES ASSUME Inv PROVE PoolExact
  OBVIOUS
<1>1. Types /\ Places /\ PoolInv
  BY DEF Inv
<1>2. ASSUME NEW n \in held \cup Pooled, pooled \/ n \notin Pooled
      PROVE  lnode_is_in_a_list(heap, n) <=> n \notin held
  <2>1. CASE n \in held
    BY <1>1, <2>1 DEF PoolInv, lnode_is_in_a_list
  <2>2. CASE n \notin held /\ n \in InUse(seq)
    BY <2>2, InListFollowed DEF lnode_is_in_a_list
  <2>3. CASE n \notin held /\ n \notin InUse(seq)
    <3>1. pooled /\ n \in Spare(seq, held)
      BY <1>2, <2>3 DEF Spare
    <3> QED
      BY <1>1, <2>3, <3>1 DEF PoolInv, lnode_is_in_a_list
  <2> QED
    BY <2>1, <2>2, <2>3
<1>3. ASSUME pooled
      PROVE  /\ Range(Walk(heap, NULL, fre)) = Spare(seq, held)
             /\ Len(Walk(heap, NULL, fre)) = Cardinality(Spare(seq, held))
  <2>1. PICK c : FreeList(c)
    BY <1>1, <1>3 DEF PoolInv
  <2>2. /\ c \in Seq(Node) /\ IsInjective(c) /\ Range(c) = Spare(seq, held)
        /\ fre = At(NULL, c, 1) /\ Threaded(heap.next, NULL, c)
    BY <2>1 DEF FreeList
  <2>3. NULL \in Cell \cup {NULL} /\ NULL \notin Range(c)
    BY <2>2, PooledNodes DEF Spare
  <2>4. Walk(heap, NULL, fre) = c
    BY <2>2, <2>3, WalkReads
  <2>5. Cardinality(Range(c)) = Len(c)
    BY <2>2, InjectiveSize
  <2> QED
    BY <2>2, <2>4, <2>5
<1>4. FreeChainExact
  BY <1>3 DEF FreeChainExact, Spare, InUse, Members
<1> QED
  BY <1>2, <1>4 DEF PoolExact, OnListExact

\* Each loop reads on in the list it is in.
LEMMA InvEmptying == Inv => EmptyingReads
<1> SUFFICES ASSUME Inv, op.do = "empty" PROVE Walk(heap, op.list, op.node) = seq[op.list]
  BY DEF EmptyingReads
<1>1. PICK l : l = op.list
  OBVIOUS
<1>2. l \in List /\ op.node = At(l, seq[l], 1) /\ Threaded(heap.next, l, seq[l])
  BY <1>1 DEF Inv, EmptyInv
<1>3. l \in Header /\ seq[l] \in Seq(Node) /\ IsInjective(seq[l]) /\ l \notin Range(seq[l])
  <2>1. l \in Header /\ Types /\ Places /\ Rings
    BY <1>2 DEF Inv, Header
  <2>2. OnRing(l, seq[l])
    BY <2>1, CoreLists, ListsRings
  <2>3. seq[l] \in Seq(Node) /\ IsInjective(seq[l]) /\ \A i \in 1 .. Len(seq[l]) : seq[l][i] # l
    BY <2>2, RingPlaces DEF OnRing
  <2> QED
    BY <2>1, <2>3 DEF Range
<1>4. l \in Cell \cup {NULL}
  BY <1>3 DEF Cell
<1>5. Walk(heap, l, At(l, seq[l], 1)) = seq[l]
  BY <1>2, <1>3, <1>4, WalkReads
<1> QED
  BY <1>1, <1>2, <1>5

LEMMA InvProcess == Inv => ProcessExact
<1> SUFFICES ASSUME Inv, scan.list # NULL
             PROVE  /\ scan.todo = Range(Walk(heap, scan.list, scan.next))
                    /\ scan.seen \cap Range(Walk(heap, scan.list, scan.next)) = {}
  BY DEF ProcessExact
<1>1. PICK l : l = scan.list
  OBVIOUS
<1>2. scan # NoScan
  BY DEF NoScan
<1>3. /\ op = Idle /\ l \in List /\ maxcount[l] > 0
      /\ scan.seen \cap scan.todo = {} /\ Ahead(l, seq[l], scan.next, scan.todo)
  BY <1>1, <1>2 DEF Inv, ScanInv
<1>4. PICK i \in 1 .. Len(seq[l]) + 1 :
         scan.next = At(l, seq[l], i) /\ scan.todo = {seq[l][j] : j \in i .. Len(seq[l])}
  BY <1>3 DEF Ahead
<1>5. Lists(heap, seq, Fit) /\ l \in Fit
  <2>1. Types /\ Places /\ Rings /\ l \in Header /\ Emptying = {}
    BY <1>3 DEF Inv, Header, Emptying, Idle
  <2> QED
    BY <1>3, <2>1, CoreLists DEF Fit
<1>6. /\ l \in Cell \cup {NULL} /\ seq[l] \in Seq(Node) /\ IsInjective(seq[l]) /\ l \notin Range(seq[l])
      /\ Threaded(heap.next, l, seq[l])
  BY <1>5, RingIsThreaded
<1>7. Walk(heap, l, scan.next) = SubSeq(seq[l], i, Len(seq[l]))
  BY <1>4, <1>6, WalkFrom
<1>8. Range(SubSeq(seq[l], i, Len(seq[l]))) = {seq[l][j] : j \in i .. Len(seq[l])}
  <2> DEFINE p == seq[l]
             k == Len(p)
             t == SubSeq(p, i, k)
  <2>1. p \in Seq(Node) /\ k \in Nat /\ k \in i - 1 .. k /\ DOMAIN p = 1 .. k /\ i \in Nat /\ 1 <= i
    BY <1>6
  <2>2. t \in Seq(Node) /\ Len(t) = k - i + 1 /\ \A x \in 1 .. k - i + 1 : t[x] = p[x + i - 1]
    BY <2>1, Slice
  <2> HIDE DEF t, k
  <2>3. Range(t) = {t[x] : x \in 1 .. k - i + 1}
    BY <2>2 DEF Range
  <2> HIDE DEF p
  <2>4. \A x \in 1 .. k - i + 1 : x + i - 1 \in i .. k
    BY <2>1
  <2>5. \A j \in i .. k : j - i + 1 \in 1 .. k - i + 1 /\ (j - i + 1) + i - 1 = j
    BY <2>1
  <2>6. Range(t) \subseteq {p[j] : j \in i .. k}
    BY <2>2, <2>3, <2>4
  <2>7. ASSUME NEW j \in i .. k PROVE p[j] \in Range(t)
    <3>1. j - i + 1 \in 1 .. k - i + 1 /\ t[j - i + 1] = p[j]
      BY <2>2, <2>5
    <3> QED
      BY <2>3, <3>1
  <2>8. Range(t) = {p[j] : j \in i .. k}
    BY <2>6, <2>7
  <2> QED
    BY <2>8 DEF p, k, t
<1> QED
  BY <1>1, <1>3, <1>4, <1>7, <1>8

LEMMA InvMerging == Inv => MergeInvariant
<1> SUFFICES ASSUME Inv, Top("merge"), NEW l, l = Frame.list, NEW s, s = Frame.sour,
                    NEW done, done = IF Frame.dn = l THEN Members(l)
                                     ELSE Range(SubSeq(seq[l], 1, Place(l, Frame.dn) - 1))
             PROVE  /\ InOrder(seq[l]) /\ InOrder(seq[s])
                    /\ \A m \in done, n \in Members(s) : KeyOf[m] <= KeyOf[n]
  BY DEF MergeInvariant
<1>1. PICK f, n, d, r, dn, sn, a : MergeState(f, n, d, r, dn, sn, a)
  BY MergeStates
<1>2. /\ Frame = f[Len(f)] /\ f[Len(f)].list = d /\ f[Len(f)].sour = r /\ f[Len(f)].dn = dn
      /\ d \in Header /\ r \in Header /\ d \in Lives /\ Merged(d, r, dn, sn, a)
  BY <1>1 DEF MergeState
<1>3. d = l /\ r = s /\ Frame.dn = dn
  BY <1>2
<1>4. seq[l] \in Seq(Node) /\ seq[s] \in Seq(Node) /\ OnRing(l, seq[l])
  <2>1. Types /\ Lists(heap, seq, Fit)
    BY CoreLists DEF Inv
  <2> QED
    BY <1>2, <1>3, <2>1, ListsRings DEF Types
<1>5. /\ a \in 1 .. Len(seq[l]) + 1 /\ dn = At(l, seq[l], a)
      /\ Sorted(seq[l]) /\ Sorted(seq[s])
      /\ \A i \in 1 .. a - 1, j \in 1 .. Len(seq[s]) : KeyOf[seq[l][i]] <= KeyOf[seq[s][j]]
  BY <1>2, <1>3 DEF Merged
<1>6. InOrder(seq[l]) /\ InOrder(seq[s])
  BY <1>4, <1>5, SortedIsInOrder
<1>7. ASSUME NEW m \in done PROVE \E i \in 1 .. a - 1 : m = seq[l][i]
  <2>1. /\ Len(seq[l]) \in Nat /\ DOMAIN seq[l] = 1 .. Len(seq[l])
        /\ \A i \in 1 .. Len(seq[l]) : seq[l][i] # l
    BY <1>4, RingPlaces
  <2>2. CASE dn = l
    <3>1. a = Len(seq[l]) + 1
      BY <1>5, <2>1, <2>2 DEF At
    <3>2. m \in Range(seq[l])
      BY <1>3, <1>7, <2>2 DEF Members
    <3> QED
      BY <2>1, <3>1, <3>2 DEF Range
  <2>3. CASE dn # l
    <3>1. a \in 1 .. Len(seq[l]) /\ dn = seq[l][a]
      BY <1>5, <2>3 DEF At
    <3>2. l \in Header /\ Lists(heap, seq, Fit)
      BY <1>2, <1>3, CoreLists DEF Inv
    <3>3. Place(l, dn) = a
      BY <3>1, <3>2, PlaceIs
    <3>4. m \in Range(SubSeq(seq[l], 1, a - 1))
      BY <1>3, <1>7, <2>3, <3>3
    <3> DEFINE t == SubSeq(seq[l], 1, a - 1)
               b == a - 1
    <3>5. b \in 0 .. Len(seq[l]) /\ b \in Nat
      BY <2>1, <3>1
    <3>6. t \in Seq(Node) /\ Len(t) = b /\ \A x \in 1 .. b : t[x] = seq[l][x]
      BY <1>4, <3>5
    <3> HIDE DEF t, b
    <3>7. m \in Range(t)
      BY <3>4 DEF t
    <3>8. \E x \in 1 .. b : m = t[x]
      BY <3>6, <3>7 DEF Range
    <3> QED
      BY <3>6, <3>8 DEF b
  <2> QED
    BY <2>2, <2>3
<1>8. ASSUME NEW m \in done, NEW q \in Members(s) PROVE KeyOf[m] <= KeyOf[q]
  <2>1. \E j \in 1 .. Len(seq[s]) : q = seq[s][j]
    BY <1>4 DEF Members, Range
  <2> QED
    BY <1>5, <1>7, <2>1
<1> QED
  BY <1>6, <1>8

-----------------------------------------------------------------------------
(***************************************************************************)
(* The end of a sort.                                                      *)
(***************************************************************************)
SortEnds(l, n) ==
    Range(seq[l]) = n /\ Len(seq[l]) = Cardinality(n) /\ InOrder(seq[l])

\* The last frame returns to the client.
LEMMA LastReturns ==
    ASSUME Inv, Inv', NEW f, NEW n, Returning(f, n), op' = Idle
    PROVE  SortEnds(f[1].list, n)'
<1>1. op = SortRecord(f) /\ Stack(f) /\ Finished(f, n)' /\ Pop(heap') = Idle
  BY DEF Returning
<1>2. Types' /\ Places'
  BY DEF Inv
<1>3. Len(f) \in Nat /\ Len(f) >= 1
  BY <1>1, StackIsApart DEF StackApart
<1>4. Len(f) = 1
  <2>1. ASSUME Len(f) > 1 PROVE FALSE
    <3>1. heap' \in HeapType
      BY <1>2 DEF Types
    <3>2. PICK g : Pop(heap') = SortRecord(g)
      BY <1>1, <2>1, <3>1, PopReaches
    <3> QED
      BY <1>1, <3>2 DEF SortRecord, Idle
  <2>2. \A k \in Nat : k >= 1 /\ ~(k > 1) => k = 1
    OBVIOUS
  <2> QED
    BY <1>3, <2>1, <2>2, Zenon
<1>5. PICK l : l = f[1].list
  OBVIOUS
<1>6. l \in Header
  <2>1. 1 \in 1 .. Len(f)
    BY <1>4
  <2> QED
    BY <1>1, <1>5, <2>1, StackIsApart DEF StackApart
<1>7. Range(seq'[l]) = n /\ Sorted(seq'[l])
  <2>1. PICK w, S : /\ Below(f, n, w, S)' /\ S[Len(f)] = Range(seq'[f[Len(f)].list])
                    /\ Sorted(seq'[f[Len(f)].list])
    BY <1>1 DEF Finished
  <2>2. S[1] = n
    BY <2>1 DEF Below
  <2> QED
    BY <1>4, <1>5, <2>1, <2>2
<1>8. seq'[l] \in Seq(Node) /\ IsInjective(seq'[l])
  <2>1. \A i, j \in DOMAIN seq'[l] : seq'[l][i] = seq'[l][j] => i = j
    BY <1>2, <1>6 DEF Places, Apart
  <2> QED
    BY <1>2, <1>6, <2>1 DEF Types, IsInjective
<1> DEFINE p == seq'[l]
<1>9. Len(p) = Cardinality(Range(p)) /\ InOrder(p)
  <2>1. p \in Seq(Node) /\ IsInjective(p) /\ Sorted(p)
    BY <1>7, <1>8
  <2> HIDE DEF p
  <2> QED
    BY <2>1, InjectiveSize, SortedIsInOrder
<1> QED
  BY <1>5, <1>7, <1>9 DEF SortEnds

\* A step that changes the top frame only does not end a sort.
LEMMA FrameStays ==
    ASSUME Inv, op.do = "sort", NEW fr, op' = WithTop(fr)
    PROVE  op' # Idle
<1>1. op = SortRecord(op.frames)
  BY SortFacts
<1>2. op'.do = "sort"
  BY <1>1 DEF WithTop, SortRecord
<1> QED
  BY <1>2 DEF Idle

LEMMA SplitStays ==
    ASSUME Inv, op.do = "sort", NEW fr, NEW new, op' = Push(WithTop(fr), new)
    PROVE  op' # Idle
<1>1. op = SortRecord(op.frames)
  BY SortFacts
<1>2. WithTop(fr) = SortRecord(Append(Front(op.frames), fr))
  BY <1>1, WithFrames DEF WithTop
<1>3. op'.do = "sort"
  BY <1>2 DEF Push, SortRecord
<1> QED
  BY <1>3 DEF Idle

LEMMA SortStepSorts ==
    ASSUME Inv, Inv', [Next]_vars, op.do = "sort", op' = Idle
    PROVE  \E f, n : f = op.frames /\ n = op.nodes /\ SortEnds(f[1].list, n)'
<1>1. op # Idle /\ ~Quiet
  BY DEF Idle, Quiet
<1>2. CASE SortShort \/ MergeEnd
  <2>1. \E f, n : Returning(f, n)
    BY <1>2, ShortReturns, MergeReturns DEF MergeReturn
  <2> QED
    BY <2>1, LastReturns DEF Returning
<1>3. CASE SortSplit
  BY <1>3, SplitStays DEF SortSplit
<1>4. CASE MergeMove
  BY <1>4, FrameStays DEF MergeMove
<1>5. CASE MergeKeep
  BY <1>5, FrameStays DEF MergeKeep
<1>6. CASE EmptyNode \/ EmptyEnd
  BY <1>6 DEF EmptyNode, EmptyEnd
<1>7. ASSUME NEW l \in List, ListNext(l) PROVE FALSE
  BY <1>1, <1>7 DEF ListNext, Create, Destroy, ProcessBegin, Sort, EmptyBegin, InsAfter, InsBefore,
     Insert, Delete, Merge, Transfer, Extract
<1>8. ASSUME NEW n \in Node, NodeNext(n) PROVE FALSE
  BY <1>1, <1>8 DEF NodeNext, NodeCreate, NodeDestroy, Return
<1>9. ~PoolNext /\ ~ProcessNext /\ ~ProcessEnd
  BY <1>1 DEF PoolNext, PoolDestroy, PoolCreate, Borrow, ProcessNext, ProcessEnd
<1>10. ~UNCHANGED vars
  BY <1>1 DEF vars
<1> QED
  BY <1>2, <1>3, <1>4, <1>5, <1>6, <1>7, <1>8, <1>9, <1>10 DEF Next, Loop

-----------------------------------------------------------------------------
(***************************************************************************)
(* The theorems.                                                           *)
(***************************************************************************)

\* For any nodes, keys and pool, and as many extra lists as list_sort needs:
\* between any two steps of the loops, of the callbacks of list_process and of
\* the recursion of list_sort, the pointers of each list are a ring, forwards
\* and backwards, of its nodes in order, and its count is right and within its
\* maximum, as list_verify asserts after each transfer.
THEOREM ListVerified == Spec => []ListVerify
BY Invariant, InvVerify, PTL

\* lnode_is_in_a_list tells exactly which nodes a client has, and the free list
\* of lnode_borrow and lnode_return reaches each spare node of the pool once.
THEOREM ListPool == Spec => []PoolExact
BY Invariant, InvPool, PTL

\* list_destroy_nodes and list_return_nodes reach every node although each is
\* given away; list_process visits each node that stays once, whatever its
\* callback does; list_merge has what comes first before dn, in order.
THEOREM ListLoops == Spec => []LoopsExact
<1>1. Inv => LoopsExact
  BY InvEmptying, InvProcess, InvMerging DEF LoopsExact
<1> QED
  BY Invariant, <1>1, PTL

\* list_sort, all the frames of its recursion, and list_merge end with the nodes
\* they began with in the first list, each once, in order.
THEOREM ListSorts == Spec => SortSorts
<1>1. Inv /\ Inv' /\ [Next]_vars =>
         [op.do = "sort" /\ op' = Idle =>
            /\ Range(seq'[op.frames[1].list]) = op.nodes
            /\ Len(seq'[op.frames[1].list]) = Cardinality(op.nodes)
            /\ InOrder(seq'[op.frames[1].list])]_vars
  BY SortStepSorts DEF SortEnds
<1> QED
  BY Invariant, <1>1, PTL DEF Spec, SortSorts

-----------------------------------------------------------------------------
(***************************************************************************)
(* The searches.                                                           *)
(***************************************************************************)
Hits(w, k, i) == {j \in i .. Len(w) : KeyOf[w[j]] = k}

FirstOf(w, S) == IF S = {} THEN NULL ELSE w[CHOOSE i \in S : \A j \in S : i <= j]

FindOne(w, k, f, i) ==
    IF i > Len(w) THEN NULL ELSE IF KeyOf[w[i]] = k THEN w[i] ELSE f[i + 1]

Finding(w, k, f) == f = [i \in 1 .. (Len(w) + 1) |-> FindOne(w, k, f, i)]

LEMMA HitsFrom ==
    ASSUME NEW w \in Seq(Node), NEW k, NEW i \in 1 .. (Len(w) + 1)
    PROVE  FirstOf(w, Hits(w, k, i)) =
               IF i > Len(w) THEN NULL
               ELSE IF KeyOf[w[i]] = k THEN w[i] ELSE FirstOf(w, Hits(w, k, i + 1))
<1>1. Len(w) \in Nat /\ i \in Nat
  OBVIOUS
<1>2. CASE i > Len(w)
  <2>1. Hits(w, k, i) = {}
    BY <1>1, <1>2 DEF Hits
  <2> QED
    BY <1>2, <2>1 DEF FirstOf
<1>3. CASE ~(i > Len(w)) /\ KeyOf[w[i]] = k
  <2> DEFINE S == Hits(w, k, i)
  <2>1. i \in S /\ S \subseteq Nat /\ \A j \in S : i <= j
    BY <1>1, <1>3 DEF Hits
  <2> HIDE DEF S
  <2> DEFINE c == CHOOSE x \in S : \A j \in S : x <= j
  <2>2. c \in S /\ \A j \in S : c <= j
    <3>1. \E x \in S : \A j \in S : x <= j
      BY <2>1
    <3> QED
      BY <3>1, Zenon
  <2>3. c = i
    <3>1. c <= i /\ i <= c /\ c \in Nat /\ i \in Nat
      BY <2>1, <2>2
    <3> HIDE DEF c
    <3> QED
      BY <3>1
  <2> QED
    BY <1>3, <2>1, <2>3 DEF FirstOf, S
<1>4. CASE ~(i > Len(w)) /\ KeyOf[w[i]] # k
  <2>1. Hits(w, k, i) = Hits(w, k, i + 1)
    <3>1. \A j \in Int : j \in i .. Len(w) <=> j = i \/ j \in i + 1 .. Len(w)
      BY <1>1, <1>4
    <3> QED
      BY <1>4, <3>1 DEF Hits
  <2> QED
    BY <1>4, <2>1
<1> QED
  BY <1>2, <1>3, <1>4

LEMMA FindExists ==
    ASSUME NEW w \in Seq(Node), NEW k
    PROVE  \E f : Finding(w, k, f)
<1> DEFINE f == [i \in 1 .. (Len(w) + 1) |-> FirstOf(w, Hits(w, k, i))]
<1>1. Len(w) \in Nat
  OBVIOUS
<1>2. ASSUME NEW i \in 1 .. (Len(w) + 1) PROVE f[i] = FindOne(w, k, f, i)
  <2>1. i > Len(w) \/ f[i + 1] = FirstOf(w, Hits(w, k, i + 1))
    BY <1>1
  <2>2. f[i] = FirstOf(w, Hits(w, k, i))
    OBVIOUS
  <2> HIDE DEF f
  <2> QED
    BY <2>1, <2>2, HitsFrom DEF FindOne
<1>3. f = [i \in 1 .. (Len(w) + 1) |-> f[i]]
  OBVIOUS
<1> HIDE DEF f
<1>4. Finding(w, k, f)
  BY <1>2, <1>3 DEF Finding
<1> QED
  BY <1>4

\* The recursion of list_find ends at the first match.
LEMMA FindReads ==
    ASSUME NEW w \in Seq(Node), NEW k, NEW f, Finding(w, k, f)
    PROVE  f[1] = FirstOf(w, Hits(w, k, 1))
<1> DEFINE n == Len(w)
           Fine(i) == f[i] = FirstOf(w, Hits(w, k, i))
           T == {j \in 0 .. n : ~Fine(n + 1 - j)}
<1>1. n \in Nat
  OBVIOUS
<1>2. \A i \in 1 .. n + 1 : f[i] = FindOne(w, k, f, i)
  <2>1. f = [i \in 1 .. (Len(w) + 1) |-> FindOne(w, k, f, i)]
    BY DEF Finding
  <2> QED
    BY <2>1, Zenon
<1>3. T = {}
  <2> SUFFICES ASSUME T # {} PROVE FALSE
    OBVIOUS
  <2>1. T \in SUBSET Nat
    BY <1>1
  <2>2. PICK j \in T : \A m \in 0 .. j - 1 : m \notin T
    BY <2>1, LeastNumber
  <2> DEFINE i == n + 1 - j
  <2>3. j \in 0 .. n /\ ~Fine(i) /\ i \in 1 .. n + 1 /\ (j = 0 <=> i > n)
    BY <1>1, <2>2
  <2>4. j = 0 \/ Fine(i + 1)
    <3>1. j = 0 \/ (j - 1 \in 0 .. j - 1 /\ j - 1 \in 0 .. n /\ n + 1 - (j - 1) = i + 1)
      BY <1>1, <2>3
    <3> QED
      BY <2>2, <3>1
  <2> HIDE DEF i
  <2>5. f[i] = FindOne(w, k, f, i)
    BY <1>2, <2>3
  <2>6. FirstOf(w, Hits(w, k, i)) =
           IF i > Len(w) THEN NULL
           ELSE IF KeyOf[w[i]] = k THEN w[i] ELSE FirstOf(w, Hits(w, k, i + 1))
    BY <2>3, HitsFrom
  <2> QED
    BY <2>3, <2>4, <2>5, <2>6 DEF FindOne
<1>4. Fine(1)
  <2>1. n \in 0 .. n /\ n + 1 - n = 1
    BY <1>1
  <2> QED
    BY <1>3, <2>1
<1> QED
  BY <1>4

LEMMA FindIsFirst ==
    ASSUME NEW h, NEW l, NEW k, NEW w \in Seq(Node), Walk(h, l, h.next[l]) = w
    PROVE  list_find(h, l, k) = FirstOf(w, Hits(w, k, 1))
<1> DEFINE from[i \in 1 .. (Len(w) + 1)] ==
               IF i > Len(w) THEN NULL ELSE IF KeyOf[w[i]] = k THEN w[i] ELSE from[i + 1]
<1>1. \E f : f = [i \in 1 .. (Len(w) + 1) |-> FindOne(w, k, f, i)]
  BY FindExists DEF Finding
<1>2. from = [i \in 1 .. (Len(w) + 1) |-> FindOne(w, k, from, i)]
  BY <1>1, Zenon DEF FindOne
<1>3. list_find(h, l, k) = from[1]
  BY Zenon DEF list_find
<1> HIDE DEF from
<1>4. Finding(w, k, from)
  BY <1>2 DEF Finding
<1>5. from[1] = FirstOf(w, Hits(w, k, 1))
  BY <1>4, FindReads
<1> QED
  BY <1>3, <1>5

LEMMA InvSearches == Inv => SearchesExact
<1> SUFFICES ASSUME Inv, op = Idle, NEW l \in Live
             PROVE  /\ \A n \in Node : list_contains(heap, l, n) <=> n \in Members(l)
                    /\ \A n \in Node :
                          LET same == {i \in DOMAIN seq[l] : KeyOf[seq[l][i]] = KeyOf[n]}
                          IN  list_find(heap, l, KeyOf[n]) =
                                  IF same = {} THEN NULL
                                  ELSE seq[l][CHOOSE i \in same : \A j \in same : i <= j]
                    /\ list_is_sorted(heap, l) <=> InOrder(seq[l])
                    /\ \A i \in DOMAIN seq[l] :
                          /\ NextOf(heap, l, seq[l][i]) =
                                 IF i = Len(seq[l]) THEN NULL ELSE seq[l][i + 1]
                          /\ PrevOf(heap, l, seq[l][i]) = IF i = 1 THEN NULL ELSE seq[l][i - 1]
  BY DEF SearchesExact
<1>1. Lists(heap, seq, Fit) /\ l \in Fit
  <2>1. Types /\ Places /\ Rings /\ l \in Header /\ Emptying = {} /\ maxcount[l] > 0
    BY DEF Inv, Header, Emptying, Idle, Live
  <2> QED
    BY <2>1, CoreLists DEF Fit
<1>2. seq[l] \in Seq(Node) /\ Walk(heap, l, heap.next[l]) = seq[l] /\ OnRing(l, seq[l])
      /\ Linked(heap.next, heap.prev, l, seq[l])
  <2>1. l \in Header
    BY <1>1 DEF Fit
  <2>2. seq[l] \in Seq(Node) /\ Linked(heap.next, heap.prev, l, seq[l])
    BY <1>1, <2>1 DEF Lists
  <2>3. OnRing(l, seq[l])
    BY <1>1, <2>1, ListsRings
  <2>4. Walk(heap, l, heap.next[l]) = seq[l]
    BY <1>1, RingWalk
  <2> QED
    BY <2>2, <2>3, <2>4
<1>3. \A n \in Node : list_contains(heap, l, n) <=> n \in Members(l)
  BY <1>2 DEF list_contains, Members
<1>4. ASSUME NEW n \in Node, NEW same, same = {i \in DOMAIN seq[l] : KeyOf[seq[l][i]] = KeyOf[n]}
      PROVE  list_find(heap, l, KeyOf[n]) =
                 IF same = {} THEN NULL ELSE seq[l][CHOOSE i \in same : \A j \in same : i <= j]
  <2>1. same = Hits(seq[l], KeyOf[n], 1)
    <3>1. DOMAIN seq[l] = 1 .. Len(seq[l])
      BY <1>2
    <3> QED
      BY <1>4, <3>1 DEF Hits
  <2>2. list_find(heap, l, KeyOf[n]) = FirstOf(seq[l], Hits(seq[l], KeyOf[n], 1))
    BY <1>2, FindIsFirst
  <2> QED
    BY <2>1, <2>2 DEF FirstOf
<1>5. list_is_sorted(heap, l) <=> InOrder(seq[l])
  BY <1>1, <1>2, IsSortedReads, SortedIsInOrder
<1>6. ASSUME NEW i \in DOMAIN seq[l]
      PROVE  /\ NextOf(heap, l, seq[l][i]) = IF i = Len(seq[l]) THEN NULL ELSE seq[l][i + 1]
             /\ PrevOf(heap, l, seq[l][i]) = IF i = 1 THEN NULL ELSE seq[l][i - 1]
  <2> DEFINE s == seq[l]
             k == Len(s)
  <2>1. /\ k \in Nat /\ DOMAIN s = 1 .. k
        /\ \A j \in 1 .. k : s[j] # l /\ At(l, s, j) = s[j]
        /\ At(l, s, 0) = l /\ At(l, s, k + 1) = l
    BY <1>2, RingPlaces
  <2>2. /\ \A j \in 0 .. k : /\ heap.next[At(l, s, j)] = At(l, s, j + 1)
                             /\ heap.prev[At(l, s, j + 1)] = At(l, s, j)
    BY <1>2 DEF Linked
  <2> HIDE DEF s, k
  <2>3. i \in 1 .. k /\ i \in 0 .. k /\ i - 1 \in 0 .. k /\ (i - 1) + 1 = i
    BY <2>1 DEF s
  <2>4. heap.next[s[i]] = At(l, s, i + 1) /\ heap.prev[s[i]] = At(l, s, i - 1)
    BY <2>1, <2>2, <2>3
  <2>5. NextOf(heap, l, s[i]) = IF i = k THEN NULL ELSE s[i + 1]
    <3>1. i = k \/ i + 1 \in 1 .. k
      BY <2>1, <2>3
    <3> QED
      BY <2>1, <2>4, <3>1 DEF NextOf
  <2>6. PrevOf(heap, l, s[i]) = IF i = 1 THEN NULL ELSE s[i - 1]
    <3>1. (i = 1 /\ i - 1 = 0) \/ (i # 1 /\ i - 1 \in 1 .. k)
      BY <2>1, <2>3
    <3> QED
      BY <2>1, <2>4, <3>1 DEF PrevOf
  <2> QED
    BY <2>5, <2>6 DEF s, k
<1> QED
  BY <1>3, <1>4, <1>5, <1>6

\* list_contains, list_find, list_is_sorted, list_next and list_prev answer, of
\* any list the client can look at, as its sequence of nodes does.
THEOREM ListSearches == Spec => []SearchesExact
BY Invariant, InvSearches, PTL
=============================================================================
