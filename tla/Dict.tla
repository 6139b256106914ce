-------------------------------- MODULE Dict --------------------------------
(***************************************************************************)
(* The red-black tree dictionary of adt/dict.c.                            *)
(*                                                                         *)
(* The sentinel of a dictionary (dict_nil) is the dictionary itself, and   *)
(* the sentinel of a dict_load_t is Load; both have the four fields of a   *)
(* node.  Mirror cases of the code are one case with a side.  An operation *)
(* that loops takes one step per iteration, so that what holds inside the  *)
(* loops can be stated; op says where the code is.                         *)
(***************************************************************************)
EXTENDS Integers, FiniteSets, Sequences, SequencesExt

CONSTANTS Node, Dict, Load, NULL,
          KeyOf,            \* [Node -> Int]
          MaxCount,         \* [Dict -> Nat], maxcount of each dictionary
          Supply,           \* [Dict -> SUBSET Node], what the client puts in each
          SmallMax,         \* bound on the nodes in dictionaries when one is
                            \* traversed or merged, or two are in use
          DICT_DEPTH_MAX

ASSUME DictAssumption ==
    /\ KeyOf \in [Node -> Int]
    /\ MaxCount \in [Dict -> Nat] /\ Supply \in [Dict -> SUBSET Node]
    /\ SmallMax \in Nat /\ DICT_DEPTH_MAX \in Nat \ {0}
    /\ Node \cap Dict = {} /\ Load \notin Node \cup Dict
    /\ NULL \notin Node \cup Dict \cup {Load}

VARIABLES heap,             \* the fields left, right, parent and color
          nodecount,
          dupes,            \* dict_allow_dupes was called
          op,               \* the operation under way, with its locals
          scan,             \* dict_process: its dictionary and next node, and
                            \* (history) the nodes it has still to visit
          members           \* history: the nodes put in and not taken out

vars == <<heap, nodecount, dupes, op, scan, members>>

Vertex == Node \cup Dict \cup {Load}
Color  == {"red", "black"}
Idle   == [do |-> "idle"]
NoScan == [d |-> NULL, next |-> NULL, todo |-> {}]

Opp    == [left |-> "right", right |-> "left"]
Root(h, d) == h.left[d]
Side(h, n) == IF h.left[h.parent[n]] = n THEN "left" ELSE "right"

Link(h, p, side, c) == [h EXCEPT ![side][p] = c, !.parent[c] = p]
Paint(h, n, c)      == [h EXCEPT !.color[n] = c]
PaintRoot(h, d, c)  == Paint(h, Root(h, d), c)
\* A node outside has no links; its color, written before it is read again, is black.
Release(h, n) == [h EXCEPT !.left[n] = NULL, !.right[n] = NULL,
                           !.parent[n] = NULL, !.color[n] = "black"]
NilNode(h, d) == [h EXCEPT !.left[d] = d, !.right[d] = d, !.parent[d] = d]

\* rotate_left and rotate_right.
Rotate(h, u, dir) ==
    LET far   == Opp[dir]
        lower == h[far][u]
    IN  Link(Link(Link(h, u, far, h[dir][lower]),
                  h.parent[u], Side(h, u), lower), lower, dir, u)

-----------------------------------------------------------------------------
\* The end of the path from v towards a side; dict_first and dict_last.
Extreme(h, d, v, side) ==
    LET far[u \in Node] == IF h[side][u] = d THEN u ELSE far[h[side][u]]
    IN  far[v]

First(h, d) == IF Root(h, d) = d THEN NULL ELSE Extreme(h, d, Root(h, d), "left")

\* Faulty variant of the next: the end of a right subtree is taken for the end of the tree.
NeighbourNear(h, d, n, side) ==
    LET p == h.parent[n]
    IN  IF h[side][n] # d THEN Extreme(h, d, h[side][n], Opp[side])
        ELSE IF p = d \/ h[side][p] = n THEN NULL ELSE p

\* dict_next (side = "right") and dict_prev (side = "left").
Neighbour(h, d, n, side) ==
    LET climb[u \in Node] ==
            LET p == h.parent[u]
            IN  IF p = d THEN NULL ELSE IF h[side][p] = u THEN climb[p] ELSE p
    IN  IF h[side][n] # d THEN Extreme(h, d, h[side][n], Opp[side]) ELSE climb[n]

NextNode(h, d, n) == Neighbour(h, d, n, "right")

\* Where the search of dict_insert ends: a vertex and the side of it.
Slot(h, d, k) ==
    LET side(u) == IF k < KeyOf[u] THEN "left" ELSE "right"
        walk[u \in Node] == IF h[side(u)][u] = d THEN [at |-> u, side |-> side(u)]
                            ELSE walk[h[side(u)][u]]
    IN  IF Root(h, d) = d THEN [at |-> d, side |-> "left"] ELSE walk[Root(h, d)]

\* Faulty variant of the next: with duplicates, the first match is returned.
LookupAny(h, d, k, dup) ==
    LET find[u \in Node \cup {d}] ==
            IF u = d THEN NULL
            ELSE IF k < KeyOf[u] THEN find[h.left[u]]
            ELSE IF k > KeyOf[u] THEN find[h.right[u]] ELSE u
    IN  find[Root(h, d)]

\* dict_lookup; with duplicates it goes on to the leftmost match.
Lookup(h, d, k, dup) ==
    LET match[u \in Node \cup {d}] == IF u = d \/ KeyOf[u] = k THEN u
                                      ELSE match[h.right[u]]
        leftmost[u \in Node] == LET m == match[h.left[u]]
                                IN  IF m = d THEN u ELSE leftmost[m]
        find[u \in Node \cup {d}] ==
            IF u = d THEN NULL
            ELSE IF k < KeyOf[u] THEN find[h.left[u]]
            ELSE IF k > KeyOf[u] THEN find[h.right[u]]
            ELSE IF dup THEN leftmost[u] ELSE u
    IN  find[Root(h, d)]

\* The four bounds are one search: side "left" looks for the first node on
\* the right of k, "right" for the last one on its left; equal keys count
\* unless it is strict.  tentative is what the rest of the path improves on.
Bound(h, d, k, side, strict, dup) ==
    LET beyond(u) == \/ side = "left" /\ KeyOf[u] > k
                     \/ side = "right" /\ KeyOf[u] < k
        find[u \in Node \cup {d}] ==
            IF u = d THEN NULL
            ELSE IF beyond(u) \/ (~strict /\ KeyOf[u] = k)
            THEN LET better == find[h[side][u]]
                 IN  IF better = NULL \/ (~strict /\ ~dup /\ KeyOf[u] = k)
                     THEN u ELSE better
            ELSE find[h[Opp[side]][u]]
    IN  find[Root(h, d)]

-----------------------------------------------------------------------------
EmptyHeap == [left   |-> [v \in Vertex |-> IF v \in Node THEN NULL ELSE v],
              right  |-> [v \in Vertex |-> IF v \in Node THEN NULL ELSE v],
              parent |-> [v \in Vertex |-> IF v \in Node THEN NULL ELSE v],
              color  |-> [v \in Vertex |-> "black"]]

\* dict_init, of each dictionary; dict_allow_dupes for all of them or none.
Init == /\ heap = EmptyHeap
        /\ nodecount = [d \in Dict |-> 0]
        /\ dupes \in BOOLEAN
        /\ op = Idle /\ scan = NoScan
        /\ members = [d \in Dict |-> {}]

Quiet == op = Idle /\ scan = NoScan

\* Bounds on what the client does: which nodes it may insert or load, and when it
\* begins what takes many steps.
InUse == UNION {members[d] : d \in Dict}
Small == Cardinality(InUse) <= SmallMax
Offered(d, n) == /\ n \in Supply[d] \ InUse
                 /\ InUse = members[d] \/ Cardinality(InUse) < SmallMax

(***************************************************************************)
(* dict_insert: link the node as a red leaf, then adjust.  Its assertions  *)
(* on fullness and duplicates are guards.                                  *)
(***************************************************************************)
Insert(d, n) ==
    LET slot == Slot(heap, d, KeyOf[n])
    IN  /\ Quiet /\ Offered(d, n)
        /\ nodecount[d] < MaxCount[d]
        /\ dupes \/ \A m \in members[d] : KeyOf[m] # KeyOf[n]
        /\ heap' = Link([heap EXCEPT !.left[n] = d, !.right[n] = d,
                                     !.color[n] = "red"], slot.at, slot.side, n)
        /\ nodecount' = [nodecount EXCEPT ![d] = @ + 1]
        /\ members' = [members EXCEPT ![d] = @ \cup {n}]
        /\ op' = [do |-> "insert", d |-> d, node |-> n]
        /\ UNCHANGED <<dupes, scan>>

Adjusting == UNCHANGED <<nodecount, dupes, scan, members>>

\* The parent, grandparent and uncle of the node being adjusted.
P == heap.parent[op.node]
G == heap.parent[P]
Uncle == heap[Opp[Side(heap, P)]][G]

InsertRecolor ==
    /\ op.do = "insert" /\ heap.color[P] = "red" /\ heap.color[Uncle] = "red"
    /\ heap' = Paint(Paint(Paint(heap, P, "black"), Uncle, "black"), G, "red")
    /\ op' = [op EXCEPT !.node = G]
    /\ Adjusting

\* A node on the inner side is first rotated outwards and becomes the parent.
Outward(h, p, n, side) ==
    IF h[Opp[side]][p] = n THEN [heap |-> Rotate(h, p, side), p |-> n]
                           ELSE [heap |-> h, p |-> p]

InsertRotate ==
    /\ op.do = "insert" /\ heap.color[P] = "red" /\ heap.color[Uncle] = "black"
    /\ LET side == Side(heap, P)
           out  == Outward(heap, P, op.node, side)
           h    == Paint(Paint(out.heap, out.p, "black"), G, "red")
       IN  heap' = PaintRoot(Rotate(h, G, Opp[side]), op.d, "black")
    /\ op' = Idle
    /\ Adjusting

InsertDone == /\ op.do = "insert" /\ heap.color[P] = "black"
              /\ heap' = PaintRoot(heap, op.d, "black")
              /\ op' = Idle
              /\ Adjusting

-----------------------------------------------------------------------------
\* The first half of dict_delete: the heap without n, the child that took a
\* place higher up, and the color that left the tree.
SpliceLeaf(h, d, n) ==
    LET child == IF h.left[n] # d THEN h.left[n] ELSE h.right[n]
    IN  [heap |-> Link(h, h.parent[n], Side(h, n), child),
         child |-> child, color |-> h.color[n]]

\* Faulty variant of the next: the successor keeps its own color.
SpliceKeepColor(h, d, n) ==
    LET next  == NextNode(h, d, n)
        child == h.right[next]
        up    == Link(h, h.parent[next], Side(h, next), child)
        in    == Link(Link(up, next, "left", up.left[n]), next, "right", up.right[n])
    IN  [heap |-> Link(in, h.parent[n], Side(h, n), next),
         child |-> child, color |-> h.color[next]]

\* With two children, the successor is moved into the place of n.
SpliceInner(h, d, n) ==
    LET next  == NextNode(h, d, n)
        child == h.right[next]
        up    == Link(h, h.parent[next], Side(h, next), child)
        in    == Link(Link(up, next, "left", up.left[n]), next, "right", up.right[n])
    IN  [heap |-> Paint(Link(in, h.parent[n], Side(h, n), next),
                        next, h.color[n]),
         child |-> child, color |-> h.color[next]]

Splice(h, d, n) == IF h.left[n] # d /\ h.right[n] # d
                   THEN SpliceInner(h, d, n) ELSE SpliceLeaf(h, d, n)

\* Inside dict_process the callback may delete, but not the next node.
Deletable(d, n) == scan = NoScan \/ (scan.d = d /\ scan.next # n)

(***************************************************************************)
(* dict_delete.  When a black node left the tree, the root is painted red  *)
(* to stop the loop, and child is one black node short.                    *)
(***************************************************************************)
Delete(d, n) ==
    LET cut == Splice(heap, d, n)
        h   == Release(cut.heap, n)
    IN  /\ op = Idle /\ n \in members[d] /\ Deletable(d, n)
        /\ IF cut.color = "black"
           THEN /\ heap' = PaintRoot(h, d, "red")
                /\ op' = [do |-> "delete", d |-> d, child |-> cut.child]
           ELSE heap' = h /\ op' = Idle
        /\ nodecount' = [nodecount EXCEPT ![d] = @ - 1]
        /\ members' = [members EXCEPT ![d] = @ \ {n}]
        /\ scan' = [scan EXCEPT !.todo = @ \ {n}]
        /\ UNCHANGED dupes

\* A red sister is rotated up first, which gives child a black one.
SisterBlack ==
    LET p    == heap.parent[op.child]
        side == Side(heap, op.child)
        s    == heap[Opp[side]][p]
    IN  IF heap.color[s] = "red"
        THEN Rotate(Paint(Paint(heap, s, "black"), p, "red"), p, side)
        ELSE heap

Short  == op.do = "delete" /\ heap.color[op.child] = "black"
Sister == SisterBlack[Opp[Side(heap, op.child)]][heap.parent[op.child]]
BlackNephews == \A side \in DOMAIN Opp :
                   SisterBlack.color[SisterBlack[side][Sister]] = "black"

RedSister(h, s)  == Paint(h, s, "red")

DeleteAscend == /\ Short /\ BlackNephews
                /\ heap' = RedSister(SisterBlack, Sister)
                /\ op' = [op EXCEPT !.child = heap.parent[op.child]]
                /\ Adjusting

\* The last two lines of the adjustment.
Settle(h) == PaintRoot(Paint(h, op.child, "black"), op.d, "black")

\* A far nephew that is black is first replaced by the near one, which is red.
DeleteRotate ==
    /\ Short /\ ~BlackNephews
    /\ LET p    == heap.parent[op.child]
           side == Side(heap, op.child)
           far  == Opp[side]
           h1   == SisterBlack
           near == h1[side][Sister]
           h2   == IF h1.color[h1[far][Sister]] = "black"
                   THEN Rotate(Paint(Paint(h1, near, "black"), Sister, "red"),
                               Sister, far)
                   ELSE h1
           s    == h2[far][p]
           h3   == Paint(Paint(Paint(h2, s, h2.color[p]), h2[far][s], "black"),
                         p, "black")
       IN  heap' = Settle(Rotate(h3, p, side))
    /\ op' = Idle
    /\ Adjusting

DeleteDone == /\ op.do = "delete" /\ heap.color[op.child] = "red"
              /\ heap' = Settle(heap)
              /\ op' = Idle
              /\ Adjusting

-----------------------------------------------------------------------------
\* dict_process: the next node is known before the callback has the current.
ProcessBegin(d) ==
    /\ Quiet /\ Small /\ members[d] # {}
    /\ LET n == First(heap, d)
       IN  scan' = [d |-> d, next |-> NextNode(heap, d, n), todo |-> members[d] \ {n}]
    /\ UNCHANGED <<heap, nodecount, dupes, op, members>>

ProcessNext ==
    /\ op = Idle /\ scan # NoScan /\ scan.next # NULL
    /\ scan' = [scan EXCEPT !.next = NextNode(heap, scan.d, scan.next),
                            !.todo = @ \ {scan.next}]
    /\ UNCHANGED <<heap, nodecount, dupes, op, members>>

ProcessEnd == /\ op = Idle /\ scan # NoScan /\ scan.next = NULL
              /\ scan' = NoScan
              /\ UNCHANGED <<heap, nodecount, dupes, op, members>>

-----------------------------------------------------------------------------
(***************************************************************************)
(* dict_free_nodes: safe_traverse goes bottom-up and frees a node when it  *)
(* has left both its subtrees; a step is an iteration of its loop.         *)
(***************************************************************************)
FreeNodes(d) ==
    /\ Quiet /\ Small
    /\ op' = [do |-> "free", d |-> d, curr |-> Root(heap, d), came |-> "parent"]
    /\ UNCHANGED <<heap, nodecount, dupes, scan, members>>

\* From the parent both sides are tried, from the left the right one.
Untried(side) == \/ op.came = "parent"
                 \/ op.came = "left" /\ side = "right"

Unexplored == {side \in {"left", "right"} :
                  Untried(side) /\ heap[side][op.curr] # op.d}

Descend == /\ op.do = "free" /\ op.curr # op.d /\ Unexplored # {}
           /\ LET side == IF "left" \in Unexplored THEN "left" ELSE "right"
              IN  op' = [op EXCEPT !.curr = heap[side][op.curr], !.came = "parent"]
           /\ UNCHANGED heap /\ Adjusting

FreeNode == /\ op.do = "free" /\ op.curr # op.d /\ Unexplored = {}
            /\ op' = [op EXCEPT !.curr = heap.parent[op.curr],
                                !.came = Side(heap, op.curr)]
            /\ heap' = Release(heap, op.curr)
            /\ members' = [members EXCEPT ![op.d] = @ \ {op.curr}]
            /\ UNCHANGED <<nodecount, dupes, scan>>

\* The sentinel's parent field is not reset.
FreeEnd == /\ op.do = "free" /\ op.curr = op.d
           /\ nodecount' = [nodecount EXCEPT ![op.d] = 0]
           /\ heap' = [heap EXCEPT !.left[op.d] = op.d, !.right[op.d] = op.d]
           /\ op' = Idle
           /\ UNCHANGED <<dupes, scan, members>>

-----------------------------------------------------------------------------
(***************************************************************************)
(* dict_load_begin, dict_load_next and dict_load_end.  The nodes loaded    *)
(* hang from Load by their left fields; Load.right is the last of them.    *)
(* The caller gives keys in order (the assertion only compares with the    *)
(* first key).                                                             *)
(***************************************************************************)
BeginChain(h) == NilNode(h, Load)
Append1(h, n) == LET last == h.right[Load]
                     h1   == [h EXCEPT !.left[last] = n]
                 IN  [h1 EXCEPT !.right[Load] = n, !.left[n] = Load]

LoadBegin(d) == /\ Quiet /\ nodecount[d] = 0
                /\ heap' = BeginChain(heap)
                /\ op' = [do |-> "load", d |-> d]
                /\ Adjusting

InOrderToLoad(n) ==
    LET last == heap.right[Load]
    IN  nodecount[op.d] > 0 => IF dupes THEN KeyOf[last] <= KeyOf[n]
                                        ELSE KeyOf[last] < KeyOf[n]

LoadNext(n) ==
    /\ op.do = "load" /\ Offered(op.d, n)
    /\ nodecount[op.d] < MaxCount[op.d] /\ InOrderToLoad(n)
    /\ heap' = Append1(heap, n)
    /\ nodecount' = [nodecount EXCEPT ![op.d] = @ + 1]
    /\ members' = [members EXCEPT ![op.d] = @ \cup {n}]
    /\ UNCHANGED <<dupes, op, scan>>

\* The largest 2^k - 1 beneath the count: the nodes above the bottom row.
FullCount(count) == LET full == {2^k - 1 : k \in 0 .. count} \cap 0 .. count - 1
                    IN  IF full = {} THEN 0
                        ELSE CHOOSE f \in full : \A g \in full : g <= f

BottomRow(count)   == count - FullCount(count)

\* dict_load_end up to its loop.
Building(d, h, count) ==
    [do |-> "build", d |-> d, curr |-> h.left[Load], complete |-> NULL,
     tree |-> [i \in 0 .. DICT_DEPTH_MAX - 1 |-> NULL],
     level |-> 0, base |-> 0, bottom |-> BottomRow(count)]

LoadEnd == /\ op.do = "load"
           /\ op' = Building(op.d, heap, nodecount[op.d])
           /\ UNCHANGED heap /\ Adjusting

\* The inner loops: the complete subtree becomes the right child of what waits
\* on its level, as long as something does.  s is op, with the heap.
Run(s) == LET free == {i \in s.level .. DICT_DEPTH_MAX - 1 : s.tree[i] = NULL}
          IN  CHOOSE i \in free : \A j \in free : i <= j

Adopt(s, i) == [s EXCEPT !.heap = Link(s.heap, s.tree[i], "right", s.complete),
                         !.complete = s.tree[i], !.tree[i] = NULL, !.level = i + 1]

Carry(s) == FoldLeft(Adopt, s, [i \in 1 .. Run(s) - s.level |-> s.level + i - 1])

\* The bottom row is full: from now on the leaves are one level up.
EndRow(s) ==
    IF s.complete # NULL THEN s
    ELSE IF s.bottom # 0 THEN [s EXCEPT !.bottom = @ - 1]
    ELSE LET t == [s EXCEPT !.bottom = @ - 1, !.base = 1, !.level = 1,
                            !.complete = s.tree[0]]
         IN  IF t.complete = NULL THEN t
             ELSE Carry([t EXCEPT !.tree[0] = NULL, !.heap.right[t.complete] = s.d])

ColorOf(level) == IF level % 2 = 0 THEN "red" ELSE "black"

\* A node becomes a complete leaf, or waits on its level with the complete
\* subtree on its left.
Leaf(s) == Carry([s EXCEPT !.heap.left[s.curr] = s.d, !.heap.right[s.curr] = s.d,
                           !.heap.color[s.curr] = ColorOf(s.level),
                           !.complete = s.curr])
\* Faulty variant of the next: leaves stay on the bottom row.
WaitBottom(s) ==
        [s EXCEPT !.heap = Paint(Link(s.heap, s.curr, "left", s.complete),
                                 s.curr, ColorOf(s.level + 1)),
                  !.tree[s.level] = s.curr, !.complete = NULL, !.level = 0]

Wait(s) == [s EXCEPT !.heap = Paint(Link(s.heap, s.curr, "left", s.complete),
                                    s.curr, ColorOf(s.level + 1)),
                     !.tree[s.level] = s.curr, !.complete = NULL, !.level = s.base]

BuildNode ==
    /\ op.do = "build" /\ op.curr # Load
    /\ LET s == EndRow([heap |-> heap] @@ op)
           t == IF s.complete = NULL THEN Leaf(s) ELSE Wait(s)
       IN  /\ heap' = t.heap
           /\ op' = [f \in DOMAIN op |-> IF f = "curr" THEN heap.left[op.curr] ELSE t[f]]
    /\ Adjusting

\* After the loop, what still waits is joined, bottom-up, and the root is set.
Join(s, i) == IF s.tree[i] = NULL THEN s ELSE Adopt(s, i)

BuildEnd ==
    /\ op.do = "build" /\ op.curr = Load
    /\ LET s == [heap |-> heap] @@
                [op EXCEPT !.complete = IF @ = NULL THEN op.d ELSE @]
           t == FoldLeft(Join, s, [i \in 1 .. DICT_DEPTH_MAX |-> i - 1])
           h == [Paint(t.heap, op.d, "black") EXCEPT !.right[op.d] = op.d]
       IN  heap' = NilNode(Paint(Link(h, op.d, "left", t.complete),
                                 t.complete, "black"), Load)
    /\ op' = Idle
    /\ Adjusting

(***************************************************************************)
(* dict_merge.  The nodes of both trees are loaded in order into dest; a   *)
(* step loads one.  The tree that is left is read by dict_next while its   *)
(* left fields are being overwritten.                                      *)
(***************************************************************************)
Merge(dest, source) ==
    /\ Quiet /\ Small /\ dest # source
    /\ nodecount[dest] + nodecount[source] <= MaxCount[dest]
    /\ dupes \/ \A m \in members[dest], n \in members[source] : KeyOf[m] # KeyOf[n]
    /\ nodecount' = [nodecount EXCEPT ![dest] = 0]
    /\ heap' = BeginChain(heap)
    /\ op' = [do |-> "merge", d |-> dest, from |-> source,
              lnode |-> First(heap, dest), rnode |-> First(heap, source)]
    /\ UNCHANGED <<dupes, scan, members>>

TakeLeft  == /\ op.lnode # NULL
             /\ op.rnode # NULL => KeyOf[op.lnode] < KeyOf[op.rnode]

MergeLeft ==
    /\ op.do = "merge" /\ TakeLeft
    /\ heap' = Append1(heap, op.lnode)
    /\ op' = [op EXCEPT !.lnode = NextNode(heap, op.d, @)]
    /\ nodecount' = [nodecount EXCEPT ![op.d] = @ + 1]
    /\ UNCHANGED <<dupes, scan, members>>

MergeRight ==
    /\ op.do = "merge" /\ ~TakeLeft /\ op.rnode # NULL
    /\ heap' = Append1(heap, op.rnode)
    /\ op' = [op EXCEPT !.rnode = NextNode(heap, op.from, @)]
    /\ nodecount' = [nodecount EXCEPT ![op.d] = @ + 1]
    /\ members' = [members EXCEPT ![op.d] = @ \cup {op.rnode},
                                  ![op.from] = @ \ {op.rnode}]
    /\ UNCHANGED <<dupes, scan>>

\* The source is cleared, and the build follows.
MergeEnd ==
    /\ op.do = "merge" /\ op.lnode = NULL /\ op.rnode = NULL
    /\ heap' = NilNode(heap, op.from)
    /\ nodecount' = [nodecount EXCEPT ![op.from] = 0]
    /\ op' = Building(op.d, heap, nodecount[op.d])
    /\ UNCHANGED <<dupes, scan, members>>

-----------------------------------------------------------------------------
\* The steps of an operation that has begun.
Continue == \/ InsertRecolor \/ InsertRotate \/ InsertDone
            \/ DeleteAscend \/ DeleteRotate \/ DeleteDone
            \/ Descend \/ FreeNode \/ FreeEnd
            \/ BuildNode \/ BuildEnd
            \/ MergeLeft \/ MergeRight \/ MergeEnd

Next == \/ \E d \in Dict, n \in Node : Insert(d, n) \/ Delete(d, n)
        \/ \E d \in Dict : ProcessBegin(d) \/ FreeNodes(d) \/ LoadBegin(d)
        \/ \E d, e \in Dict : Merge(d, e)
        \/ \E n \in Node : LoadNext(n)
        \/ ProcessNext \/ ProcessEnd \/ LoadEnd
        \/ Continue

Spec == Init /\ [][Next]_vars

-----------------------------------------------------------------------------
TypeOK == /\ heap \in [left : [Vertex -> Vertex \cup {NULL}],
                       right : [Vertex -> Vertex \cup {NULL}],
                       parent : [Vertex -> Vertex \cup {NULL}],
                       color : [Vertex -> Color]]
          /\ nodecount \in [Dict -> Nat] /\ \A d \in Dict : nodecount[d] <= MaxCount[d]
          /\ dupes \in BOOLEAN
          /\ op.do \in {"idle", "insert", "delete", "free", "load", "build", "merge"}
          /\ scan \in [d : Dict \cup {NULL}, next : Node \cup {NULL},
                       todo : SUBSET Node]
          /\ members \in [Dict -> SUBSET Node]

\* The nodes below a vertex, in order.
InOrder(h, d, v) ==
    LET walk[u \in Node \cup {d}] ==
            IF u = d THEN <<>> ELSE walk[h.left[u]] \o <<u>> \o walk[h.right[u]]
    IN  walk[v]

\* The nodes dict_next gives from n on.
From(h, d, n) == LET follow[u \in Node \cup {NULL}] ==
                         IF u = NULL THEN <<>>
                         ELSE <<u>> \o follow[NextNode(h, d, u)]
                 IN  follow[n]

Ordered(m, n) == IF dupes THEN KeyOf[m] <= KeyOf[n] ELSE KeyOf[m] < KeyOf[n]

Ascending(s) == \A i \in 1 .. Len(s) - 1 : Ordered(s[i], s[i + 1])

\* verify_redblack, with what insert and delete have yet to repair: node may
\* be red below a red node, and the subtree on a side of one node is one black
\* node short.
Height(h, d, node, gap) ==
    LET ht[u \in Node \cup {d}] ==
        LET below(side) == ht[h[side][u]] + (IF gap = <<u, side>> THEN 1 ELSE 0)
            l == below("left")
            r == below("right")
            redred == \E side \in {"left", "right"} :
                         h[side][u] # node /\ h.color[h[side][u]] = "red"
        IN  IF u = d THEN 1
            ELSE IF l # r \/ l = 0 THEN 0
            ELSE IF h.color[u] = "black" THEN l + 1
            ELSE IF redred THEN 0 ELSE l
    IN  ht[Root(h, d)]

\* The dictionaries whose tree no operation is taking apart.
Standing == {d \in Dict : \/ op.do \in {"idle", "insert", "delete"}
                          \/ d # op.d /\ ~(op.do = "merge" /\ d = op.from)}

(***************************************************************************)
(* verify_bintree and the count, which dict_delete asserts before it       *)
(* adjusts and dict_verify after each operation: the tree holds the nodes  *)
(* put in and not taken out, in key order, its parent fields are right,    *)
(* dict_next and dict_prev follow that order, and nodecount counts them.   *)
(* It holds between any two rotations, and after dict_load_end and         *)
(* dict_merge although these reuse nodes with stale fields.                *)
(***************************************************************************)
SearchTree ==
    \A d \in Standing :
       LET s == InOrder(heap, d, Root(heap, d))
       IN  /\ ToSet(s) = members[d] /\ Ascending(s)
           /\ Len(s) = nodecount[d] /\ nodecount[d] = Cardinality(members[d])
           /\ \A n \in members[d] : heap[Side(heap, n)][heap.parent[n]] = n
           /\ From(heap, d, First(heap, d)) = s
           /\ \A i \in 1 .. Len(s) :
                 Neighbour(heap, d, s[i], "left") = IF i = 1 THEN NULL ELSE s[i - 1]

(***************************************************************************)
(* verify_redblack, dict_verify's other half.  Inside the loops of         *)
(* dict_insert and dict_delete one fault travels upwards: a red node below *)
(* a red one, or a subtree one black node short, which ends at a red node  *)
(* that has only to be painted black.                                      *)
(***************************************************************************)
RedBlack ==
    \A d \in Standing :
       IF op.do = "insert" /\ op.d = d
       THEN Height(heap, d, op.node, <<>>) # 0
       ELSE IF op.do = "delete" /\ op.d = d
       THEN LET c == op.child
                h == PaintRoot(heap, d, "black")
            IN  IF heap.color[c] = "red"
                THEN Height(Paint(h, c, "black"), d, NULL, <<>>) # 0
                ELSE Height(h, d, NULL, <<heap.parent[c], Side(heap, c)>>) # 0
       ELSE /\ Height(heap, d, NULL, <<>>) # 0
            /\ heap.color[Root(heap, d)] = "black" /\ heap.color[d] = "black"
            /\ heap.right[d] = d
            /\ members[d] # {} => heap.parent[Root(heap, d)] = d

\* What dict_verify asserts of every dictionary that is not being taken apart.
DictVerify == TypeOK /\ SearchTree /\ RedBlack

(***************************************************************************)
(* dict_lookup and the four bounds find what their comments promise: the   *)
(* first of equal keys (dict_lookup, dict_lower_bound), the last of them   *)
(* (dict_upper_bound), and the nearest neighbours of an absent key.        *)
(***************************************************************************)
BoundsExact ==
    op = Idle =>
    \A d \in Dict, k \in {KeyOf[n] + e : n \in Node, e \in {-1, 0, 1}} :
       LET s == InOrder(heap, d, Root(heap, d))
           firstOf(S) == IF S = {} THEN NULL ELSE s[CHOOSE i \in S : \A j \in S : i <= j]
           lastOf(S)  == IF S = {} THEN NULL ELSE s[CHOOSE i \in S : \A j \in S : j <= i]
           equal == {i \in DOMAIN s : KeyOf[s[i]] = k}
           above == {i \in DOMAIN s : KeyOf[s[i]] > k}
           under == {i \in DOMAIN s : KeyOf[s[i]] < k}
       IN  /\ Lookup(heap, d, k, dupes) = firstOf(equal)
           /\ Bound(heap, d, k, "left", FALSE, dupes) = firstOf(equal \cup above)
           /\ Bound(heap, d, k, "right", FALSE, dupes) = lastOf(equal \cup under)
           /\ Bound(heap, d, k, "left", TRUE, dupes) = firstOf(above)
           /\ Bound(heap, d, k, "right", TRUE, dupes) = lastOf(under)

(***************************************************************************)
(* dict_process visits each node once, except those deleted before their   *)
(* turn, although the callback deletes nodes, its own among them, and the  *)
(* tree is rebalanced under the traversal.                                 *)
(***************************************************************************)
ProcessExact ==
    op = Idle /\ scan # NoScan =>
       LET ahead == From(heap, scan.d, scan.next)
       IN  ToSet(ahead) = scan.todo /\ scan.todo \subseteq members[scan.d]

(***************************************************************************)
(* safe_traverse ("allows the callback to destroy the node"): what it      *)
(* stands on, and the way back up from every node still to be freed, has   *)
(* not been freed; when it is back at the sentinel nothing is left.        *)
(***************************************************************************)
FreedBottomUp ==
    op.do = "free" =>
       /\ op.curr \in members[op.d] \cup {op.d}
       /\ \A n \in members[op.d] : heap.parent[n] \in members[op.d] \cup {op.d}
       /\ op.curr = op.d => members[op.d] = {}

\* Traversals whose callback destroys nodes reach every node, and none too late.
TraversalsExact == ProcessExact /\ FreedBottomUp

\* The nodes loaded, first to last.
Chain == LET walk[u \in Node \cup {Load}] == IF u = Load THEN <<>>
                                             ELSE <<u>> \o walk[heap.left[u]]
         IN  walk[heap.left[Load]]

(***************************************************************************)
(* While a dictionary is loaded or merged, what is loaded is in order, and *)
(* dict_next still finds, in trees whose left fields are being             *)
(* overwritten, exactly the nodes that are not loaded yet.                 *)
(***************************************************************************)
LoadedInOrder ==
    op.do \in {"load", "merge"} =>
       LET merging == op.do = "merge"
           rest == IF merging THEN From(heap, op.d, op.lnode) ELSE <<>>
       IN  /\ Ascending(Chain) /\ Len(Chain) = nodecount[op.d]
           /\ ToSet(Chain) \cup ToSet(rest) = members[op.d]
           /\ ToSet(Chain) \cap ToSet(rest) = {}
           /\ merging => ToSet(From(heap, op.from, op.rnode)) = members[op.from]

(***************************************************************************)
(* dict_load_end's assertions, on entry to an iteration: a new subtree     *)
(* starts on the base level, and the bottom row ends when no subtree is    *)
(* half built.                                                             *)
(***************************************************************************)
LevelsMatch ==
    op.do = "build" /\ op.complete = NULL /\ op.curr # Load =>
       op.level = op.base /\ (op.bottom = 0 => op.base = 0)

\* Loading and merging lose no node, and dict_load_end can build a tree of what
\* they leave.
LoadExact == LoadedInOrder /\ LevelsMatch
=============================================================================
