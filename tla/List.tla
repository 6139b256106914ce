-------------------------------- MODULE List --------------------------------
(***************************************************************************)
(* The doubly linked lists and the node pool of adt/list.c.                *)
(*                                                                         *)
(* A list is its own nil node, so a Cell is a node or a list.  The history *)
(* variable seq is what a list stands for, a sequence of nodes, and each   *)
(* action changes it as the comment of its function promises; the pointers *)
(* must follow.  Assertions about arguments (a node of another list, a     *)
(* full list) are guards.  Loops that the client cannot look into but that *)
(* rewrite pointers (merge, sort, emptying a list) take one step per       *)
(* iteration; op holds their locals.  The recursion of list_sort is a      *)
(* stack of frames, the extra list of the n-th is Extra[n].                *)
(***************************************************************************)
EXTENDS Integers, FiniteSets, SequencesExt

CONSTANTS Node, List, NULL,
          Extra,      \* a sequence of further lists
          Pool,       \* the array of nodes of the pool, a sequence
          KeyOf,      \* [Node -> Int], what compare looks at
          Limits      \* the values of maxcount that clients choose

Header  == List \cup Range(Extra)
Cell    == Node \cup Header
Pooled  == Range(Pool)

ASSUME ListAssumption ==
    /\ Node \cap Header = {} /\ NULL \notin Cell /\ List \cap Range(Extra) = {}
    /\ KeyOf \in [Node -> Int] /\ Limits \subseteq Nat \ {0}
    /\ Pool \in Seq(Node) /\ Len(Pool) > 0 /\ IsInjective(Pool)
    /\ Extra \in Seq(Header) /\ IsInjective(Extra)
    /\ IsFiniteSet(Node) /\ Cardinality(Node) <= 2 ^ Len(Extra)

VARIABLES heap,       \* the fields next and prev
          nodecount,
          maxcount,   \* 0 of a list that does not exist
          fre,        \* the first free node of the pool
          pooled,     \* does the pool exist?
          op,         \* the operation under way, with its locals
          scan,       \* list_process: its list and its next node, and (history)
                      \* which nodes it has visited and which are still to come
          seq,        \* history: what each list stands for
          held        \* history: the nodes the client has and no list contains

vars == <<heap, nodecount, maxcount, fre, pooled, op, scan, seq, held>>

Idle   == [do |-> "idle"]
NoScan == [list |-> NULL, next |-> NULL, seen |-> {}, todo |-> {}]
Quiet  == op = Idle /\ scan = NoScan

LinkUp(h, a, b)    == [h EXCEPT !.next[a] = b, !.prev[b] = a]
Clear(h, c)        == [h EXCEPT !.next[c] = NULL, !.prev[c] = NULL]
NilNode(h, l)      == LinkUp(h, l, l)

lnode_is_in_a_list(h, n)    == h.next[n] # NULL \/ h.prev[n] # NULL

\* The nodes from c on until l, the nil node of a list, is reached;
\* Cardinality(Node) bounds the walk, for a reader of a broken list.
Walk(h, l, c) ==
    LET from[k \in 0..Cardinality(Node)] ==
            [v \in Cell \cup {NULL} |->
                IF v = l \/ v = NULL \/ k = 0 THEN <<>>
                ELSE <<v>> \o from[k - 1][h.next[v]]]
    IN  from[Cardinality(Node)][c]

\* list_contains, list_next and list_prev.
list_contains(h, l, n) == n \in Range(Walk(h, l, h.next[l]))
NextOf(h, l, n)    == IF h.next[n] = l THEN NULL ELSE h.next[n]
PrevOf(h, l, n)    == IF h.prev[n] = l THEN NULL ELSE h.prev[n]

\* list_find: the search goes on from the i-th node.
list_find(h, l, k) ==
    LET nodes == Walk(h, l, h.next[l])
        from[i \in 1..(Len(nodes) + 1)] ==
            IF i > Len(nodes) THEN NULL
            ELSE IF KeyOf[nodes[i]] = k THEN nodes[i] ELSE from[i + 1]
    IN  from[1]

\* Faulty variant of the next: equal keys are out of order.
IsSortedStrictly(h, l) ==
    \A n \in Range(Walk(h, l, h.next[l])) :
        h.next[n] # l => KeyOf[n] < KeyOf[h.next[n]]

\* list_is_sorted: each node against its successor.
list_is_sorted(h, l) ==
    \A n \in Range(Walk(h, l, h.next[l])) :
        h.next[n] # l => KeyOf[n] <= KeyOf[h.next[n]]

Members(l)  == Range(seq[l])
Place(l, n) == CHOOSE i \in DOMAIN seq[l] : seq[l][i] = n
InOrder(s)  == \A i \in 1..(Len(s) - 1) : KeyOf[s[i]] <= KeyOf[s[i + 1]]
Live        == {l \in List : maxcount[l] > 0}
Full(l)     == nodecount[l] = maxcount[l]

-----------------------------------------------------------------------------
\* The client uses a zeroed node or header, or none, before it creates one.
Init ==
    /\ heap = [next |-> [c \in Cell |-> NULL], prev |-> [c \in Cell |-> NULL]]
    /\ nodecount = [l \in Header |-> 0] /\ maxcount = [l \in Header |-> 0]
    /\ fre = NULL /\ pooled = FALSE
    /\ op = Idle /\ scan = NoScan
    /\ seq = [l \in Header |-> <<>>] /\ held = {}

\* list_create and list_init.
Create(l, m) ==
    /\ Quiet /\ maxcount[l] = 0
    /\ heap' = NilNode(heap, l)
    /\ nodecount' = [nodecount EXCEPT ![l] = 0]
    /\ maxcount' = [maxcount EXCEPT ![l] = m]
    /\ UNCHANGED <<fre, pooled, op, scan, seq, held>>

Destroy(l) ==
    /\ Quiet /\ l \in Live /\ nodecount[l] = 0
    /\ heap' = Clear(heap, l)
    /\ maxcount' = [maxcount EXCEPT ![l] = 0]
    /\ UNCHANGED <<nodecount, fre, pooled, op, scan, seq, held>>

\* lnode_create and lnode_init; a node of the pool comes from lnode_borrow.
NodeCreate(n) ==
    /\ Quiet /\ n \notin held \cup Pooled
    /\ \A l \in List : n \notin Members(l)
    /\ heap' = Clear(heap, n)
    /\ held' = held \cup {n}
    /\ UNCHANGED <<nodecount, maxcount, fre, pooled, op, scan, seq>>

NodeDestroy(n) ==
    /\ Quiet /\ n \in held \ Pooled /\ ~lnode_is_in_a_list(heap, n)
    /\ held' = held \ {n}
    /\ UNCHANGED <<heap, nodecount, maxcount, fre, pooled, op, scan, seq>>

-----------------------------------------------------------------------------
\* Faulty variant of the next: the node before the last ends the chain.
ChainShort(h) ==
    [h EXCEPT !.next = [c \in Cell |->
                   IF \E i \in 1..(Len(Pool) - 2) : Pool[i] = c
                   THEN Pool[(CHOOSE i \in DOMAIN Pool : Pool[i] = c) + 1]
                   ELSE IF c \in Pooled THEN NULL ELSE @[c]],
              !.prev[Pool[Len(Pool)]] = Pool[1]]

\* lnode_pool_init marks the last node as on a list by its prev field; the
\* others are by their next field, their prev is left as malloc gave it.
Chain(h) ==
    [h EXCEPT !.next = [c \in Cell |->
                   IF \E i \in 1..(Len(Pool) - 1) : Pool[i] = c
                   THEN Pool[(CHOOSE i \in DOMAIN Pool : Pool[i] = c) + 1]
                   ELSE IF c \in Pooled THEN NULL ELSE @[c]],
              !.prev[Pool[Len(Pool)]] = Pool[1]]

PoolCreate(junk) ==
    /\ Quiet /\ ~pooled
    /\ heap' = Chain([heap EXCEPT !.prev = [c \in Cell |-> IF c \in Pooled THEN junk
                                                           ELSE @[c]]])
    /\ fre' = Pool[1] /\ pooled' = TRUE
    /\ UNCHANGED <<nodecount, maxcount, op, scan, seq, held>>

\* The client has returned all nodes.
PoolDestroy ==
    /\ Quiet /\ pooled
    /\ Pooled \cap (held \cup UNION {Members(l) : l \in List}) = {}
    /\ pooled' = FALSE /\ fre' = NULL
    /\ heap' = [next |-> [c \in Cell |-> IF c \in Pooled THEN NULL ELSE heap.next[c]],
                prev |-> [c \in Cell |-> IF c \in Pooled THEN NULL ELSE heap.prev[c]]]
    /\ UNCHANGED <<nodecount, maxcount, op, scan, seq, held>>

Borrow ==
    /\ op = Idle /\ pooled /\ fre # NULL
    /\ fre' = heap.next[fre]
    /\ heap' = Clear(heap, fre)
    /\ held' = held \cup {fre}
    /\ UNCHANGED <<nodecount, maxcount, pooled, op, scan, seq>>

\* lnode_return, also used by list_return_nodes.
PushFree(h, n) == [h EXCEPT !.next[n] = fre, !.prev[n] = n]

Return(n) ==
    /\ op = Idle /\ n \in held \cap Pooled /\ ~lnode_is_in_a_list(heap, n)
    /\ heap' = PushFree(heap, n)
    /\ fre' = n
    /\ held' = held \ {n}
    /\ UNCHANGED <<nodecount, maxcount, pooled, op, scan, seq>>

-----------------------------------------------------------------------------
InsertPtrs(h, n, pred, succ) == LinkUp(LinkUp(h, pred, n), n, succ)

DeletePtrs(h, n) == Clear(LinkUp(h, h.prev[n], h.next[n]), n)

\* A list_process still comes to a new node behind the one it visits next.
Expecting(l, s, n) ==
    IF scan.list = l /\ \E i, j \in DOMAIN s : i < j /\ s[i] = scan.next /\ s[j] = n
    THEN [scan EXCEPT !.todo = @ \cup {n}] ELSE scan

Insert(l, n, pred, succ, i) ==
    /\ op = Idle /\ l \in Live /\ n \in held
    /\ ~lnode_is_in_a_list(heap, n) /\ ~Full(l)
    /\ heap' = InsertPtrs(heap, n, pred, succ)
    /\ nodecount' = [nodecount EXCEPT ![l] = @ + 1]
    /\ seq' = [seq EXCEPT ![l] = InsertAt(@, i, n)]
    /\ held' = held \ {n}
    /\ scan' = Expecting(l, seq'[l], n)
    /\ UNCHANGED <<maxcount, fre, pooled, op>>

\* list_ins_after; list_prepend inserts after the nil node.
InsAfter(l, n, i) ==
    LET pred == IF i = 0 THEN l ELSE seq[l][i]
    IN  Insert(l, n, pred, heap.next[pred], i + 1)

\* list_ins_before; list_append inserts before the nil node.
InsBefore(l, n, i) ==
    LET succ == IF i > Len(seq[l]) THEN l ELSE seq[l][i]
    IN  Insert(l, n, heap.prev[succ], succ, i)

\* list_delete, also from the callback of list_process, which must not
\* delete the node to be visited next.
Delete(l, n) ==
    /\ op = Idle /\ l \in Live /\ n \in Members(l) /\ n # scan.next
    /\ heap' = DeletePtrs(heap, n)
    /\ nodecount' = [nodecount EXCEPT ![l] = @ - 1]
    /\ seq' = [seq EXCEPT ![l] = RemoveAt(@, Place(l, n))]
    /\ held' = held \cup {n}
    /\ scan' = IF scan.list = l THEN [scan EXCEPT !.todo = @ \ {n}, !.seen = @ \ {n}]
               ELSE scan
    /\ UNCHANGED <<maxcount, fre, pooled, op>>

-----------------------------------------------------------------------------
\* Faulty variant of the next: the slice keeps its old predecessor.
GraftOneWay(h, dest, first, last) ==
    LinkUp([h EXCEPT !.next[h.prev[dest]] = first], last, dest)

\* The end of list_extract and list_transfer: the slice goes to the end of dest.
Graft(h, dest, first, last) == LinkUp(LinkUp(h, h.prev[dest], first), last, dest)

Extracted(h, dest, first, last) ==
    Graft(LinkUp(h, h.prev[first], h.next[last]), dest, first, last)

Transferred(h, dest, source, first) == Extracted(h, dest, first, h.prev[source])

\* The loop that counts the slice once it is moved, on the way to its last node.
Moved(h, first, last) == Len(Walk(h, last, first)) + 1

Recount(c, dest, source, k) ==
    LET less == [c EXCEPT ![source] = @ - k]
    IN  [less EXCEPT ![dest] = @ + k]

\* s with the elements from i to j taken out.
Without(s, i, j) == SubSeq(s, 1, i - 1) \o SubSeq(s, j + 1, Len(s))

Resequence(dest, source, i, j) ==
    LET cut == [seq EXCEPT ![source] = Without(@, i, j)]
    IN  [cut EXCEPT ![dest] = @ \o SubSeq(seq[source], i, j)]

\* The final assertions list_verify(dest) want room in dest.
Room(dest, source, k) == dest = source \/ nodecount[dest] + k <= maxcount[dest]

Extract(dest, source, i, j) ==
    LET first == seq[source][i]
        last  == seq[source][j]
    IN  /\ Quiet /\ {dest, source} \subseteq Live /\ i <= j
        /\ Room(dest, source, j - i + 1)
        /\ heap' = Extracted(heap, dest, first, last)
        /\ nodecount' = Recount(nodecount, dest, source, Moved(heap', first, last))
        /\ seq' = Resequence(dest, source, i, j)
        /\ UNCHANGED <<maxcount, fre, pooled, op, scan, held>>

TransferAll(h, c, dest, source, first) ==
    LET g == Transferred(h, dest, source, first)
    IN  /\ heap' = g
        /\ nodecount' = Recount(c, dest, source, Moved(g, first, h.prev[source]))
        /\ seq' = Resequence(dest, source, Place(source, first), Len(seq[source]))

Transfer(dest, source, i) ==
    /\ Quiet /\ {dest, source} \subseteq Live
    /\ Room(dest, source, Len(seq[source]) - i + 1)
    /\ TransferAll(heap, nodecount, dest, source, seq[source][i])
    /\ UNCHANGED <<maxcount, fre, pooled, op, scan, held>>

-----------------------------------------------------------------------------
\* list_destroy_nodes (into = "free") and list_return_nodes (into = "pool").
EmptyBegin(l, into) ==
    /\ Quiet /\ l \in Live
    /\ Members(l) \subseteq IF into = "pool" THEN Pooled ELSE Node \ Pooled
    /\ op' = [do |-> "empty", into |-> into, list |-> l, node |-> heap.next[l]]
    /\ UNCHANGED <<heap, nodecount, maxcount, fre, pooled, scan, seq, held>>

\* Faulty variant of the next: the successor is read after the node is returned.
EmptyReadsLate ==
    /\ op.do = "empty" /\ op.node # op.list
    /\ heap' = IF op.into = "pool" THEN PushFree(Clear(heap, op.node), op.node)
                ELSE Clear(heap, op.node)
    /\ fre' = IF op.into = "pool" THEN op.node ELSE fre
    /\ op' = [op EXCEPT !.node = IF heap'.next[@] = NULL THEN op.list
                                 ELSE heap'.next[@]]
    /\ seq' = [seq EXCEPT ![op.list] = Tail(@)]
    /\ UNCHANGED <<nodecount, maxcount, pooled, scan, held>>

EmptyNode ==
    /\ op.do = "empty" /\ op.node # op.list
    /\ op' = [op EXCEPT !.node = heap.next[@]]
    /\ heap' = IF op.into = "pool" THEN PushFree(Clear(heap, op.node), op.node)
                ELSE Clear(heap, op.node)
    /\ fre' = IF op.into = "pool" THEN op.node ELSE fre
    /\ seq' = [seq EXCEPT ![op.list] = Tail(@)]
    /\ UNCHANGED <<nodecount, maxcount, pooled, scan, held>>

EmptyEnd ==
    /\ op.do = "empty" /\ op.node = op.list
    /\ heap' = NilNode(heap, op.list)
    /\ nodecount' = [nodecount EXCEPT ![op.list] = 0]
    /\ op' = Idle
    /\ UNCHANGED <<maxcount, fre, pooled, scan, seq, held>>

-----------------------------------------------------------------------------
ProcessBegin(l) ==
    /\ Quiet /\ l \in Live
    /\ scan' = [list |-> l, next |-> heap.next[l], seen |-> {}, todo |-> Members(l)]
    /\ UNCHANGED <<heap, nodecount, maxcount, fre, pooled, op, seq, held>>

\* One iteration up to the callback, whose effects are other actions.
ProcessNext ==
    /\ op = Idle /\ scan.list # NULL /\ scan.next # scan.list
    /\ scan' = [scan EXCEPT !.next = heap.next[@], !.seen = @ \cup {scan.next},
                            !.todo = @ \ {scan.next}]
    /\ UNCHANGED <<heap, nodecount, maxcount, fre, pooled, op, seq, held>>

ProcessEnd ==
    /\ op = Idle /\ scan.list # NULL /\ scan.next = scan.list
    /\ scan' = NoScan
    /\ UNCHANGED <<heap, nodecount, maxcount, fre, pooled, op, seq, held>>

-----------------------------------------------------------------------------
\* A frame of list_sort, and list_merge with its two lists; at is where it is.
SortFrame(l)       == [at |-> "split", list |-> l, sour |-> NULL, dn |-> NULL, sn |-> NULL]
MergeFrame(h, d, s) ==
    [at |-> "merge", list |-> d, sour |-> s, dn |-> h.next[d], sn |-> h.next[s]]
Running(ls, fs)    == [do |-> "sort", frames |-> fs,
                       lists |-> ls, nodes |-> UNION {Members(l) : l \in ls}]

Sort(l) ==
    /\ Quiet /\ l \in Live
    /\ op' = Running({l}, <<SortFrame(l)>>)
    /\ UNCHANGED <<heap, nodecount, maxcount, fre, pooled, scan, seq, held>>

\* list_merge returns at once when both lists are the same.
Merge(dest, sour) ==
    /\ Quiet /\ {dest, sour} \subseteq Live /\ dest # sour
    /\ list_is_sorted(heap, dest) /\ list_is_sorted(heap, sour)
    /\ nodecount[dest] + nodecount[sour] <= maxcount[dest]
    /\ op' = Running({dest, sour}, <<MergeFrame(heap, dest, sour)>>)
    /\ UNCHANGED <<heap, nodecount, maxcount, fre, pooled, scan, seq, held>>

Top(at)    == op.do = "sort" /\ Last(op.frames).at = at
Frame      == Last(op.frames)
WithTop(f) == [op EXCEPT !.frames = Append(Front(@), f)]
Push(o, f) == [o EXCEPT !.frames = Append(@, f)]

\* The return of list_sort or list_merge: the calling list_sort goes on, to
\* sort the other half or to merge the two.
Pop(h) ==
    IF Len(op.frames) = 1 THEN Idle ELSE
    LET rest   == Front(op.frames)
        caller == Last(rest)
        Caller(f) == [op EXCEPT !.frames = Append(Front(rest), f)]
    IN  IF caller.at = "left"
        THEN Push(Caller([caller EXCEPT !.at = "right"]), SortFrame(caller.sour))
        ELSE Caller(MergeFrame(h, caller.list, caller.sour))

Middle(n) == n \div 2

ExtraMax(n) == n - Middle(n)

\* list_sort moves the second half to its extra list and sorts the first.
SortSplit ==
    /\ Top("split") /\ nodecount[Frame.list] > 1
    /\ LET l      == Frame.list
           extra  == Extra[Len(op.frames)]
           middle == Middle(nodecount[l])
       IN  /\ TransferAll(NilNode(heap, extra), [nodecount EXCEPT ![extra] = 0],
                          extra, l, Walk(heap, l, heap.next[l])[middle + 1])
           /\ maxcount' = [maxcount EXCEPT ![extra] = ExtraMax(nodecount[l])]
           /\ op' = Push(WithTop([Frame EXCEPT !.at = "left", !.sour = extra]),
                         SortFrame(l))
    /\ UNCHANGED <<fre, pooled, scan, held>>

SortShort ==
    /\ Top("split") /\ nodecount[Frame.list] <= 1
    /\ op' = Pop(heap)
    /\ UNCHANGED <<heap, nodecount, maxcount, fre, pooled, scan, seq, held>>

Merging == Top("merge") /\ Frame.dn # Frame.list /\ Frame.sn # Frame.sour

SourceFirst(dn, sn) == KeyOf[dn] >= KeyOf[sn]

\* Faulty variant of the next: the loop goes on from the moved node's old place
\* in the destination.
MergeSkips ==
    /\ Merging /\ SourceFirst(Frame.dn, Frame.sn)
    /\ LET l == Frame.list
           s == Frame.sour
           n == Frame.sn
           h == DeletePtrs(heap, n)
       IN  /\ heap' = InsertPtrs(h, n, h.prev[Frame.dn], Frame.dn)
           /\ nodecount' = Recount(nodecount, l, s, 1)
           /\ seq' = [seq EXCEPT ![s] = Tail(@), ![l] = InsertAt(@, Place(l, Frame.dn), n)]
           /\ op' = WithTop([Frame EXCEPT !.sn = heap.next[n], !.dn = heap.next[@]])
    /\ UNCHANGED <<maxcount, fre, pooled, scan, held>>

\* One iteration of list_merge that moves a node before dn; of equal nodes
\* the source's goes first.
MergeMove ==
    /\ Merging /\ SourceFirst(Frame.dn, Frame.sn)
    /\ LET l == Frame.list
           s == Frame.sour
           n == Frame.sn
           h == DeletePtrs(heap, n)
       IN  /\ heap' = InsertPtrs(h, n, h.prev[Frame.dn], Frame.dn)
           /\ nodecount' = Recount(nodecount, l, s, 1)
           /\ seq' = [seq EXCEPT ![s] = Tail(@), ![l] = InsertAt(@, Place(l, Frame.dn), n)]
           /\ op' = WithTop([Frame EXCEPT !.sn = heap.next[n]])
    /\ UNCHANGED <<maxcount, fre, pooled, scan, held>>

\* Faulty variant of the next: the loop does not advance.
MergeWaits ==
    /\ Merging /\ ~SourceFirst(Frame.dn, Frame.sn)
    /\ UNCHANGED vars

MergeKeep ==
    /\ Merging /\ ~SourceFirst(Frame.dn, Frame.sn)
    /\ op' = WithTop([Frame EXCEPT !.dn = heap.next[@]])
    /\ UNCHANGED <<heap, nodecount, maxcount, fre, pooled, scan, seq, held>>

\* The rest of the source is transferred; an extra list ends with its frame.
MergeEnd ==
    /\ Top("merge") /\ ~Merging
    /\ IF Frame.dn = Frame.list /\ Frame.sn # Frame.sour
       THEN TransferAll(heap, nodecount, Frame.list, Frame.sour, Frame.sn)
       ELSE UNCHANGED <<heap, nodecount, seq>>
    /\ maxcount' = [maxcount EXCEPT ![Frame.sour] = IF Frame.sour \in List THEN @ ELSE 0]
    /\ op' = Pop(heap')
    /\ UNCHANGED <<fre, pooled, scan, held>>

-----------------------------------------------------------------------------
ListNext(l) ==
    \/ \E m \in Limits : Create(l, m)
    \/ Destroy(l) \/ ProcessBegin(l) \/ Sort(l)
    \/ \E into \in {"free", "pool"} : EmptyBegin(l, into)
    \/ \E n \in Node : \/ \E i \in 0..Len(seq[l]) : InsAfter(l, n, i)
                      \/ \E i \in 1..(Len(seq[l]) + 1) : InsBefore(l, n, i)
                      \/ Delete(l, n)
    \/ \E s \in List : \/ Merge(l, s)
                      \/ \E i \in DOMAIN seq[s] :
                             \/ Transfer(l, s, i)
                             \/ \E j \in DOMAIN seq[s] : Extract(l, s, i, j)

PoolNext == PoolDestroy \/ Borrow \/ \E junk \in {NULL} \cup Pooled : PoolCreate(junk)

NodeNext(n) == NodeCreate(n) \/ NodeDestroy(n) \/ Return(n)

Loop == \/ EmptyNode \/ EmptyEnd \/ SortSplit \/ SortShort
        \/ MergeMove \/ MergeKeep \/ MergeEnd

Next == \/ \E l \in List : ListNext(l)
        \/ \E n \in Node : NodeNext(n)
        \/ PoolNext \/ ProcessNext \/ ProcessEnd \/ Loop

\* The loops of the library run until they end; the client owes nothing.
Spec == Init /\ [][Next]_vars /\ WF_vars(Loop)

-----------------------------------------------------------------------------
\* Types; a live list has room for what it counts.
TypeOK ==
    /\ heap \in [{"next", "prev"} -> [Cell -> Cell \cup {NULL}]]
    /\ nodecount \in [Header -> Nat] /\ maxcount \in [Header -> Nat]
    /\ fre \in Pooled \cup {NULL} /\ pooled \in BOOLEAN /\ held \subseteq Node
    /\ scan.list \in List \cup {NULL} /\ op.do \in {"idle", "sort", "empty"}

\* The list that is being emptied: its nil node is out of date until the end.
Emptying == IF op.do = "empty" THEN {op.list} ELSE {}

\* l's nodes hang between a and l in the order of s, forwards and backwards.
Ring(h, l, s) ==
    LET ring == <<l>> \o s \o <<l>>
    IN  \A i \in 1..(Len(ring) - 1) : /\ h.next[ring[i]] = ring[i + 1]
                                     /\ h.prev[ring[i + 1]] = ring[i]

\* Insertion, deletion, splicing, merging and sorting rewrite pointers so that
\* every list, between calls and in the loops, is the sequence promised.
RingsIntact ==
    \A l \in Header \ Emptying : maxcount[l] > 0 => Ring(heap, l, seq[l])

\* While a list is emptied the rest of it is still reached from the local
\* variable, although each node is pushed on the free list of the pool.
EmptyingReads ==
    op.do = "empty" => Walk(heap, op.list, op.node) = seq[op.list]

\* list_verify, asserted of both lists after each transfer: the counts follow
\* the nodes through splices of a list into itself, and no list, the extra
\* ones of list_sort included, exceeds its maximum.
CountsExact ==
    \A l \in Header \ Emptying :
        /\ nodecount[l] = IF maxcount[l] = 0 THEN 0 ELSE Len(seq[l])
        /\ nodecount[l] <= maxcount[l]

\* What list_verify asserts, between any two steps of the loops as well.
ListVerify == TypeOK /\ RingsIntact /\ CountsExact

\* lnode_is_in_a_list, asserted before each insertion, destruction and return,
\* tells by the two pointers alone whether the client may use a node.
OnListExact ==
    \A n \in held \cup Pooled :
        pooled \/ n \notin Pooled => (lnode_is_in_a_list(heap, n) <=> n \notin held)

\* The free list holds each node of the pool that is neither with the client
\* nor in a list, once.
FreeChainExact ==
    LET free  == Pooled \ (held \cup UNION {Members(l) : l \in Header})
        chain == Walk(heap, NULL, fre)
    IN  pooled => Range(chain) = free /\ Len(chain) = Cardinality(free)

\* Every node is in one place: a list, the free list of its pool, or the
\* client's hands, and its pointers tell which.
PoolExact == OnListExact /\ FreeChainExact

\* The searches agree with the sequence: list_contains, list_find (the first
\* match), list_is_sorted, list_next and list_prev.
SearchesExact ==
    op = Idle => \A l \in Live :
        /\ \A n \in Node : list_contains(heap, l, n) <=> n \in Members(l)
        /\ \A n \in Node :
               LET same == {i \in DOMAIN seq[l] : KeyOf[seq[l][i]] = KeyOf[n]}
               IN  list_find(heap, l, KeyOf[n]) =
                       IF same = {} THEN NULL ELSE seq[l][CHOOSE i \in same : \A j \in same : i <= j]
        /\ list_is_sorted(heap, l) <=> InOrder(seq[l])
        /\ \A i \in DOMAIN seq[l] :
               /\ NextOf(heap, l, seq[l][i]) = IF i = Len(seq[l]) THEN NULL ELSE seq[l][i + 1]
               /\ PrevOf(heap, l, seq[l][i]) = IF i = 1 THEN NULL ELSE seq[l][i - 1]

\* list_process visits every node that stays in the list, and none twice,
\* whatever its callback inserts and deletes, the next node excepted.
ProcessExact ==
    scan.list # NULL =>
        LET ahead == Range(Walk(heap, scan.list, scan.next))
        IN  scan.todo = ahead /\ scan.seen \cap ahead = {}

\* In the loop of list_merge both lists are in order, and all that stands
\* before dn comes before all that is left in the source.
MergeInvariant ==
    Top("merge") =>
        LET l == Frame.list
            s == Frame.sour
            done == IF Frame.dn = l THEN Members(l)
                    ELSE Range(SubSeq(seq[l], 1, Place(l, Frame.dn) - 1))
        IN  /\ InOrder(seq[l]) /\ InOrder(seq[s])
            /\ \A m \in done, n \in Members(s) : KeyOf[m] <= KeyOf[n]

\* The loops that read a list while it changes, by their own code or by a
\* callback, go on where they should.
LoopsExact == EmptyingReads /\ ProcessExact /\ MergeInvariant

\* list_sort and list_merge end with all their nodes in the first list, in order.
SortSorts ==
    [][op.do = "sort" /\ op' = Idle =>
         /\ Range(seq'[op.frames[1].list]) = op.nodes
         /\ Len(seq'[op.frames[1].list]) = Cardinality(op.nodes)
         /\ InOrder(seq'[op.frames[1].list])]_vars

\* Every call of the library returns.
CallsReturn == op # Idle ~> op = Idle
=============================================================================
