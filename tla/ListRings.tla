------------------------------ MODULE ListRings ------------------------------
(***************************************************************************)
(* Lemmas about the operators of List, whatever the state: sequences and   *)
(* the slices taken out of and put into them, the rings of pointers that   *)
(* follow, the walks along a ring, order, and powers of two.               *)
(***************************************************************************)
EXTENDS List, FiniteSetTheorems, SequenceTheorems, WellFoundedInduction, TLAPS

HeapType == [{"next", "prev"} -> [Cell -> Cell \cup {NULL}]]

\* The cell at place i of the ring of l: the nil node is before the first node
\* and behind the last one.
At(l, s, i) == IF i \in 1 .. Len(s) THEN s[i] ELSE l

\* The pointers nx and pv have the nodes s in a ring with l.
Linked(nx, pv, l, s) ==
    \A i \in 0 .. Len(s) : /\ nx[At(l, s, i)] = At(l, s, i + 1)
                           /\ pv[At(l, s, i + 1)] = At(l, s, i)

\* nx leads through the nodes s to z.
Threaded(nx, z, s) == \A i \in 1 .. Len(s) : nx[s[i]] = At(z, s, i + 1)

\* No node is in two lists or twice in one.
Apart(sq) ==
    \A l, m \in Header : \A i \in DOMAIN sq[l], j \in DOMAIN sq[m] :
        sq[l][i] = sq[m][j] => l = m /\ i = j

InUse(sq)     == UNION {Range(sq[l]) : l \in Header}
Spare(sq, hd) == Pooled \ (hd \cup InUse(sq))

\* In order, of any two places.
Sorted(s) == \A i, j \in 1 .. Len(s) : i < j => KeyOf[s[i]] <= KeyOf[s[j]]

Pow(n) == 2^n

-----------------------------------------------------------------------------
(***************************************************************************)
(* Sequences.                                                              *)
(***************************************************************************)
\* Every set of numbers has a least one: the principle behind the proofs that
\* would otherwise be by induction.
LEMMA LeastNumber ==
    ASSUME NEW T \in SUBSET Nat, T # {}
    PROVE  \E n \in T : \A m \in 0 .. n - 1 : m \notin T
<1>1. IsWellFoundedOn(OpToRel(<, Nat), Nat)
  BY NatLessThanWellFounded
<1>2. PICK n \in T : \A y \in T : ~(<<y, n>> \in OpToRel(<, Nat))
  BY <1>1, WFMin
<1>3. \A m \in 0 .. n - 1 : <<m, n>> \in OpToRel(<, Nat)
  BY DEF OpToRel
<1> QED
  BY <1>2, <1>3

LEMMA Slice ==
    ASSUME NEW s \in Seq(Node), NEW i \in 1 .. Len(s) + 1, NEW j \in i - 1 .. Len(s)
    PROVE  /\ SubSeq(s, i, j) \in Seq(Node) /\ Len(SubSeq(s, i, j)) = j - i + 1
           /\ \A x \in 1 .. j - i + 1 : SubSeq(s, i, j)[x] = s[x + i - 1]
<1>1. i \in Int /\ j \in Int /\ \A x \in i .. j : s[x] \in Node
  OBVIOUS
<1>2. /\ SubSeq(s, i, j) \in Seq(Node)
      /\ Len(SubSeq(s, i, j)) = IF i <= j THEN j - i + 1 ELSE 0
      /\ \A x \in 1 .. j - i + 1 : SubSeq(s, i, j)[x] = s[i + x - 1]
  BY <1>1, SubSeqProperties
<1>3. \A x \in 1 .. j - i + 1 : i + x - 1 = x + i - 1
  BY <1>1
<1> QED
  BY <1>1, <1>2, <1>3

\* s without the places i to j.
LEMMA WithoutSlice ==
    ASSUME NEW s \in Seq(Node), NEW i \in 1 .. Len(s), NEW j \in i .. Len(s)
    PROVE  /\ Without(s, i, j) \in Seq(Node)
           /\ Len(Without(s, i, j)) = Len(s) - (j - i + 1)
           /\ \A x \in 1 .. Len(s) - (j - i + 1) :
                 Without(s, i, j)[x] = IF x < i THEN s[x] ELSE s[x + (j - i + 1)]
<1> DEFINE a == SubSeq(s, 1, i - 1)
           b == SubSeq(s, j + 1, Len(s))
           d == j - i + 1
<1>0. Len(s) \in Nat /\ i \in Nat /\ j \in Nat /\ d \in Nat
  OBVIOUS
<1>1. a \in Seq(Node) /\ Len(a) = i - 1 /\ \A x \in 1 .. i - 1 : a[x] = s[x]
  BY Slice, <1>0
<1>2. b \in Seq(Node) /\ Len(b) = Len(s) - j /\ \A x \in 1 .. Len(s) - j : b[x] = s[x + j]
  <2>1. j + 1 \in 1 .. Len(s) + 1 /\ Len(s) \in (j + 1) - 1 .. Len(s)
    BY <1>0
  <2> DEFINE e == j + 1
  <2>2. \A x \in 1 .. Len(s) - e + 1 : b[x] = s[x + e - 1]
    BY <2>1, Slice
  <2>3. b \in Seq(Node) /\ Len(b) = Len(s) - e + 1
    BY <2>1, Slice
  <2>4. Len(s) - e + 1 = Len(s) - j /\ \A x \in 1 .. Len(s) - j : x + e - 1 = x + j
    BY <1>0
  <2> HIDE DEF b, e
  <2> QED
    BY <2>2, <2>3, <2>4
<1> HIDE DEF a, b
<1>3. /\ a \o b \in Seq(Node) /\ Len(a \o b) = Len(a) + Len(b)
      /\ \A x \in 1 .. Len(a) + Len(b) : (a \o b)[x] = IF x <= Len(a) THEN a[x] ELSE b[x - Len(a)]
  BY <1>1, <1>2, ConcatProperties
<1>4. Len(a) + Len(b) = Len(s) - d
  BY <1>0, <1>1, <1>2
<1>5. ASSUME NEW x \in 1 .. Len(s) - d
      PROVE  (a \o b)[x] = IF x < i THEN s[x] ELSE s[x + d]
  <2>1. CASE x < i
    BY <1>0, <1>1, <1>3, <1>4, <2>1
  <2>2. CASE ~(x < i)
    <3>1. x - Len(a) \in 1 .. Len(s) - j /\ (x - Len(a)) + j = x + d /\ ~(x <= Len(a))
      BY <1>0, <1>1, <2>2
    <3> QED
      BY <1>2, <1>3, <1>4, <2>2, <3>1
  <2> QED
    BY <2>1, <2>2
<1> QED
  BY <1>3, <1>4, <1>5 DEF Without, a, b

\* s with m put in before place p.
Spliced(s, p, m) == SubSeq(s, 1, p - 1) \o m \o SubSeq(s, p, Len(s))

LEMMA SplicedSeq ==
    ASSUME NEW s \in Seq(Node), NEW m \in Seq(Node), NEW p \in 1 .. Len(s) + 1
    PROVE  /\ Spliced(s, p, m) \in Seq(Node) /\ Len(Spliced(s, p, m)) = Len(s) + Len(m)
           /\ \A x \in 1 .. Len(s) + Len(m) :
                 Spliced(s, p, m)[x] = IF x < p THEN s[x]
                                       ELSE IF x < p + Len(m) THEN m[x - p + 1]
                                       ELSE s[x - Len(m)]
<1> DEFINE a == SubSeq(s, 1, p - 1)
           b == SubSeq(s, p, Len(s))
           c == a \o m
           k == Len(m)
<1>0. Len(s) \in Nat /\ p \in Nat /\ k \in Nat /\ Len(s) \in p - 1 .. Len(s)
  OBVIOUS
<1>1. a \in Seq(Node) /\ Len(a) = p - 1 /\ \A x \in 1 .. p - 1 : a[x] = s[x]
  BY Slice, <1>0
<1>2. b \in Seq(Node) /\ Len(b) = Len(s) - p + 1
      /\ \A x \in 1 .. Len(s) - p + 1 : b[x] = s[x + p - 1]
  <2> DEFINE n == Len(s)
  <2>1. n \in p - 1 .. Len(s)
    BY <1>0
  <2> HIDE DEF n
  <2>2. /\ SubSeq(s, p, n) \in Seq(Node) /\ Len(SubSeq(s, p, n)) = n - p + 1
        /\ \A x \in 1 .. n - p + 1 : SubSeq(s, p, n)[x] = s[x + p - 1]
    BY <2>1, Slice
  <2> QED
    BY <2>2 DEF n
<1> HIDE DEF a, b
<1>3. /\ c \in Seq(Node) /\ Len(c) = p - 1 + k
      /\ \A x \in 1 .. p - 1 + k : c[x] = IF x <= p - 1 THEN a[x] ELSE m[x - (p - 1)]
  <2>1. /\ c \in Seq(Node) /\ Len(c) = Len(a) + Len(m)
        /\ \A x \in 1 .. Len(a) + Len(m) : c[x] = IF x <= Len(a) THEN a[x] ELSE m[x - Len(a)]
    BY <1>1, ConcatProperties
  <2>2. Len(a) + Len(m) = p - 1 + k
    BY <1>0, <1>1
  <2> QED
    BY <1>1, <2>1, <2>2
<1> HIDE DEF c
<1>4. /\ c \o b \in Seq(Node) /\ Len(c \o b) = Len(c) + Len(b)
      /\ \A x \in 1 .. Len(c) + Len(b) : (c \o b)[x] = IF x <= Len(c) THEN c[x] ELSE b[x - Len(c)]
  BY <1>2, <1>3, ConcatProperties
<1>5. Len(c) + Len(b) = Len(s) + k
  BY <1>0, <1>2, <1>3
<1>6. ASSUME NEW x \in 1 .. Len(s) + k
      PROVE  (c \o b)[x] = IF x < p THEN s[x] ELSE IF x < p + k THEN m[x - p + 1] ELSE s[x - k]
  <2>1. CASE x < p
    <3>1. x <= Len(c) /\ x <= p - 1 /\ x \in 1 .. p - 1 + k /\ x \in 1 .. p - 1
      BY <1>0, <1>3, <2>1
    <3> QED
      BY <1>1, <1>3, <1>4, <1>5, <2>1, <3>1
  <2>2. CASE ~(x < p) /\ x < p + k
    <3>1. x <= Len(c) /\ ~(x <= p - 1) /\ x - (p - 1) = x - p + 1 /\ x \in 1 .. p - 1 + k
      BY <1>0, <1>3, <2>2
    <3> QED
      BY <1>3, <1>4, <1>5, <2>2, <3>1
  <2>3. CASE ~(x < p) /\ ~(x < p + k)
    <3>1. ~(x <= Len(c)) /\ x - Len(c) \in 1 .. Len(s) - p + 1 /\ (x - Len(c)) + p - 1 = x - k
      BY <1>0, <1>3, <2>3
    <3> QED
      BY <1>2, <1>4, <1>5, <2>3, <3>1
  <2> QED
    BY <2>1, <2>2, <2>3
<1>7. Spliced(s, p, m) = c \o b
  BY DEF Spliced, a, b, c
<1> QED
  BY <1>4, <1>5, <1>6, <1>7

\* RemoveAt and InsertAt and \o are special cases.
LEMMA RemoveIsWithout == ASSUME NEW s, NEW i PROVE RemoveAt(s, i) = Without(s, i, i)
BY DEF RemoveAt, Without

LEMMA InsertIsSpliced == ASSUME NEW s, NEW i, NEW n PROVE InsertAt(s, i, n) = Spliced(s, i, <<n>>)
BY DEF InsertAt, Spliced

LEMMA ConcatIsSpliced ==
    ASSUME NEW s \in Seq(Node), NEW m \in Seq(Node)
    PROVE  s \o m = Spliced(s, Len(s) + 1, m)
<1> DEFINE t == Spliced(s, Len(s) + 1, m)
<1>0. Len(s) \in Nat /\ Len(m) \in Nat /\ Len(s) + 1 \in 1 .. Len(s) + 1
  OBVIOUS
<1>1. /\ t \in Seq(Node) /\ Len(t) = Len(s) + Len(m)
      /\ \A x \in 1 .. Len(s) + Len(m) :
            t[x] = IF x < Len(s) + 1 THEN s[x]
                   ELSE IF x < Len(s) + 1 + Len(m) THEN m[x - (Len(s) + 1) + 1]
                   ELSE s[x - Len(m)]
  BY <1>0, SplicedSeq
<1>2. /\ s \o m \in Seq(Node) /\ Len(s \o m) = Len(s) + Len(m)
      /\ \A x \in 1 .. Len(s) + Len(m) :
            (s \o m)[x] = IF x <= Len(s) THEN s[x] ELSE m[x - Len(s)]
  BY ConcatProperties
<1> HIDE DEF t
<1>3. ASSUME NEW x \in 1 .. Len(s) + Len(m) PROVE (s \o m)[x] = t[x]
  <2>1. x < Len(s) + 1 + Len(m) /\ (x < Len(s) + 1 <=> x <= Len(s))
        /\ x - (Len(s) + 1) + 1 = x - Len(s)
    BY <1>0
  <2> QED
    BY <1>1, <1>2, <2>1
<1>4. s \o m = t
  BY <1>1, <1>2, <1>3, SeqEqual
<1> QED
  BY <1>4 DEF t

-----------------------------------------------------------------------------
(***************************************************************************)
(* Rings of pointers.                                                      *)
(***************************************************************************)
\* From f to g only the cell a has been written.
Written(f, g, a, b) == \A c \in Cell : g[c] = IF c = a THEN b ELSE f[c]

\* nx and pv lead through m.
Chained(nx, pv, m) == \A x \in 1 .. Len(m) - 1 : nx[m[x]] = m[x + 1] /\ pv[m[x + 1]] = m[x]

LEMMA LinkUpFields ==
    ASSUME NEW h \in HeapType, NEW a \in Cell, NEW b \in Cell
    PROVE  /\ LinkUp(h, a, b) \in HeapType
           /\ Written(h.next, LinkUp(h, a, b).next, a, b)
           /\ Written(h.prev, LinkUp(h, a, b).prev, b, a)
BY DEF LinkUp, HeapType, Written

LEMMA ClearFields ==
    ASSUME NEW h \in HeapType, NEW c \in Cell
    PROVE  /\ Clear(h, c) \in HeapType
           /\ Written(h.next, Clear(h, c).next, c, NULL)
           /\ Written(h.prev, Clear(h, c).prev, c, NULL)
BY DEF Clear, HeapType, Written

\* What can be a list: a nil node and nodes.
OnRing(l, s) == l \in Header /\ s \in Seq(Node) /\ IsInjective(s)

LEMMA RingPlaces ==
    ASSUME NEW l, NEW s, OnRing(l, s)
    PROVE  /\ Len(s) \in Nat /\ DOMAIN s = 1 .. Len(s) /\ l \in Cell /\ l \notin Node
           /\ \A i \in 1 .. Len(s) : s[i] \in Node /\ s[i] # l /\ At(l, s, i) = s[i]
           /\ At(l, s, 0) = l /\ At(l, s, Len(s) + 1) = l
           /\ \A i \in Int : At(l, s, i) \in Cell
           /\ \A i, j \in 0 .. Len(s) : At(l, s, i) = At(l, s, j) => i = j
           /\ \A i, j \in 1 .. Len(s) + 1 : At(l, s, i) = At(l, s, j) => i = j
<1>1. /\ Len(s) \in Nat /\ DOMAIN s = 1 .. Len(s) /\ l \in Cell /\ l \notin Node
      /\ \A i \in 1 .. Len(s) : s[i] \in Node
      /\ \A i, j \in 1 .. Len(s) : s[i] = s[j] => i = j
  BY ListAssumption DEF OnRing, Cell, IsInjective
<1> QED
  BY <1>1 DEF At, Cell

\* Writing elsewhere.
LEMMA LinkedFrame ==
    ASSUME NEW l, NEW s, OnRing(l, s), NEW nx, NEW pv, NEW nx2, NEW pv2,
           Linked(nx, pv, l, s),
           \A c \in {l} \cup Range(s) : nx2[c] = nx[c] /\ pv2[c] = pv[c]
    PROVE  Linked(nx2, pv2, l, s)
<1>1. \A i \in Int : At(l, s, i) \in {l} \cup Range(s)
  BY RingPlaces DEF At, Range
<1>2. Len(s) \in Nat
  BY DEF OnRing
<1> QED
  BY <1>1, <1>2 DEF Linked

\* Linking a slice out.
LEMMA LinkedOut ==
    ASSUME NEW l, NEW s, OnRing(l, s), NEW nx, NEW pv, Linked(nx, pv, l, s),
           NEW i \in 1 .. Len(s), NEW j \in i .. Len(s), NEW nx2, NEW pv2,
           Written(nx, nx2, At(l, s, i - 1), At(l, s, j + 1)),
           Written(pv, pv2, At(l, s, j + 1), At(l, s, i - 1))
    PROVE  /\ At(l, s, i - 1) = pv[s[i]] /\ At(l, s, j + 1) = nx[s[j]]
           /\ Linked(nx2, pv2, l, Without(s, i, j))
           /\ Chained(nx2, pv2, SubSeq(s, i, j))
<1> DEFINE p == At(l, s, i - 1)
           q == At(l, s, j + 1)
           d == j - i + 1
           r == Without(s, i, j)
           old(x) == IF x < i THEN x ELSE x + d
<1>0. /\ Len(s) \in Nat /\ DOMAIN s = 1 .. Len(s)
      /\ \A x \in 1 .. Len(s) : At(l, s, x) = s[x]
      /\ At(l, s, 0) = l /\ At(l, s, Len(s) + 1) = l
      /\ \A x \in Int : At(l, s, x) \in Cell
      /\ \A x, y \in 0 .. Len(s) : At(l, s, x) = At(l, s, y) => x = y
      /\ \A x, y \in 1 .. Len(s) + 1 : At(l, s, x) = At(l, s, y) => x = y
  BY RingPlaces
<1>1. r \in Seq(Node) /\ Len(r) = Len(s) - d
      /\ \A x \in 1 .. Len(s) - d : r[x] = IF x < i THEN s[x] ELSE s[x + d]
  BY WithoutSlice DEF OnRing
<1>2. /\ \A c \in Cell : nx2[c] = IF c = p THEN q ELSE nx[c]
      /\ \A c \in Cell : pv2[c] = IF c = q THEN p ELSE pv[c]
  BY DEF Written
<1>3. \A x \in 0 .. Len(s) : nx[At(l, s, x)] = At(l, s, x + 1) /\ pv[At(l, s, x + 1)] = At(l, s, x)
  BY DEF Linked
<1>4. p = pv[s[i]] /\ q = nx[s[j]]
  BY <1>0, <1>3
<1> HIDE DEF r
<1>5. \A x \in 0 .. Len(s) - d + 1 : At(l, r, x) = At(l, s, old(x))
  BY <1>0, <1>1 DEF At
<1>6. ASSUME NEW x \in 0 .. Len(r)
      PROVE  nx2[At(l, r, x)] = At(l, r, x + 1) /\ pv2[At(l, r, x + 1)] = At(l, r, x)
  <2>1. At(l, r, x) = At(l, s, old(x)) /\ At(l, r, x + 1) = At(l, s, old(x + 1))
    BY <1>0, <1>1, <1>5
  <2>2. CASE x = i - 1
    <3>1. At(l, r, x) = p /\ At(l, r, x + 1) = q
      BY <1>0, <2>1, <2>2
    <3> QED
      BY <1>0, <1>2, <3>1
  <2>3. CASE x # i - 1
    <3>1. /\ old(x) \in 0 .. Len(s) /\ old(x + 1) = old(x) + 1
          /\ old(x) # i - 1 /\ old(x + 1) # j + 1
          /\ i - 1 \in 0 .. Len(s) /\ j + 1 \in 1 .. Len(s) + 1 /\ old(x + 1) \in 1 .. Len(s) + 1
      BY <1>0, <1>1, <2>3
    <3>2. At(l, s, old(x)) # p /\ At(l, s, old(x + 1)) # q
      BY <1>0, <3>1
    <3>3. nx[At(l, s, old(x))] = At(l, s, old(x + 1)) /\ pv[At(l, s, old(x + 1))] = At(l, s, old(x))
      BY <1>3, <3>1
    <3> QED
      BY <1>0, <1>2, <2>1, <3>1, <3>2, <3>3
  <2> QED
    BY <2>2, <2>3
<1>7. ASSUME NEW x \in i .. j - 1 PROVE nx2[s[x]] = s[x + 1] /\ pv2[s[x + 1]] = s[x]
  <2>1. /\ x \in 0 .. Len(s) /\ x # i - 1 /\ i - 1 \in 0 .. Len(s)
        /\ x + 1 \in 1 .. Len(s) + 1 /\ x + 1 # j + 1 /\ j + 1 \in 1 .. Len(s) + 1
        /\ At(l, s, x) = s[x] /\ At(l, s, x + 1) = s[x + 1]
    BY <1>0
  <2>2. s[x] # p /\ s[x + 1] # q /\ s[x] \in Cell /\ s[x + 1] \in Cell
    BY <1>0, <2>1
  <2> QED
    BY <1>2, <1>3, <2>1, <2>2
<1>8. Chained(nx2, pv2, SubSeq(s, i, j))
  <2> DEFINE m == SubSeq(s, i, j)
  <2>1. /\ i \in Nat /\ j \in Nat /\ 1 <= i /\ i <= j /\ i \in 1 .. Len(s) + 1
        /\ j \in i - 1 .. Len(s) /\ s \in Seq(Node)
    BY <1>0 DEF OnRing
  <2>2. Len(m) = j - i + 1 /\ \A x \in 1 .. j - i + 1 : m[x] = s[x + i - 1]
    BY <2>1, Slice
  <2> HIDE DEF m
  <2>3. ASSUME NEW x \in 1 .. Len(m) - 1 PROVE nx2[m[x]] = m[x + 1] /\ pv2[m[x + 1]] = m[x]
    <3>1. /\ x \in 1 .. j - i + 1 /\ x + 1 \in 1 .. j - i + 1 /\ x + i - 1 \in i .. j - 1
          /\ (x + 1) + i - 1 = (x + i - 1) + 1
      BY <2>1, <2>2
    <3>2. m[x] = s[x + i - 1] /\ m[x + 1] = s[(x + i - 1) + 1]
      BY <2>2, <3>1
    <3> QED
      BY <1>7, <3>1, <3>2
  <2> QED
    BY <2>3 DEF Chained, m
<1> QED
  BY <1>4, <1>6, <1>8 DEF Linked, r

\* Linking the nodes m in before place p.
LEMMA LinkedIn ==
    ASSUME NEW l, NEW s, OnRing(l, s), NEW nx, NEW pv, Linked(nx, pv, l, s), NEW p \in 1 .. Len(s) + 1,
           NEW m \in Seq(Node), IsInjective(m), Len(m) > 0, Range(m) \cap Range(s) = {},
           Chained(nx, pv, m), NEW nx1, Written(nx, nx1, At(l, s, p - 1), m[1]),
           NEW pv1, Written(pv, pv1, m[1], At(l, s, p - 1)),
           NEW nx2, Written(nx1, nx2, m[Len(m)], At(l, s, p)),
           NEW pv2, Written(pv1, pv2, At(l, s, p), m[Len(m)])
    PROVE  Linked(nx2, pv2, l, Spliced(s, p, m))
<1> DEFINE a == At(l, s, p - 1)
           b == At(l, s, p)
           y == m[1]
           z == m[Len(m)]
           k == Len(m)
           r == Spliced(s, p, m)
<1>0. /\ Len(s) \in Nat /\ DOMAIN s = 1 .. Len(s) /\ l \in Cell /\ l \notin Node
      /\ \A x \in 1 .. Len(s) : At(l, s, x) = s[x] /\ s[x] \in Node
      /\ At(l, s, 0) = l /\ At(l, s, Len(s) + 1) = l
      /\ \A x \in Int : At(l, s, x) \in Cell
      /\ \A i, j \in 0 .. Len(s) : At(l, s, i) = At(l, s, j) => i = j
      /\ \A i, j \in 1 .. Len(s) + 1 : At(l, s, i) = At(l, s, j) => i = j
  BY RingPlaces
<1>1. /\ k \in Nat /\ k > 0 /\ DOMAIN m = 1 .. k /\ p \in Nat
      /\ \A x \in 1 .. k : m[x] \in Node /\ m[x] \in Cell
      /\ \A i, j \in 1 .. k : m[i] = m[j] => i = j
  BY DEF IsInjective, Cell
<1>2. ASSUME NEW x \in 1 .. k, NEW i \in 0 .. Len(s) + 1 PROVE m[x] # At(l, s, i)
  <2>1. CASE i \in 1 .. Len(s)
    <3>1. m[x] \in Range(m) /\ s[i] \in Range(s)
      BY <1>0, <1>1, <2>1 DEF Range
    <3> QED
      BY <1>0, <2>1, <3>1
  <2>2. CASE i \notin 1 .. Len(s)
    BY <1>0, <1>1, <2>2 DEF At
  <2> QED
    BY <2>1, <2>2
<1>3. /\ r \in Seq(Node) /\ Len(r) = Len(s) + k
      /\ \A x \in 1 .. Len(s) + k : r[x] = IF x < p THEN s[x]
                                           ELSE IF x < p + k THEN m[x - p + 1] ELSE s[x - k]
  BY SplicedSeq DEF OnRing
<1>4. \A x \in 0 .. Len(s) : nx[At(l, s, x)] = At(l, s, x + 1) /\ pv[At(l, s, x + 1)] = At(l, s, x)
  BY DEF Linked
<1>5. /\ nx[a] = b /\ pv[b] = a /\ a \in Cell /\ b \in Cell /\ y \in Node /\ z \in Node
      /\ y \in Cell /\ z \in Cell /\ a # z /\ b # y
  <2>1. /\ p - 1 \in 0 .. Len(s) /\ (p - 1) + 1 = p /\ p - 1 \in 0 .. Len(s) + 1
        /\ p \in 0 .. Len(s) + 1 /\ 1 \in 1 .. k /\ k \in 1 .. k /\ p - 1 \in Int /\ p \in Int
    BY <1>0, <1>1
  <2> QED
    BY <1>0, <1>1, <1>2, <1>4, <2>1
<1>6. /\ \A c \in Cell : nx2[c] = IF c = z THEN b ELSE IF c = a THEN y ELSE nx[c]
      /\ \A c \in Cell : pv2[c] = IF c = b THEN z ELSE IF c = y THEN a ELSE pv[c]
  BY <1>5 DEF Written
<1> HIDE DEF r
<1>7. \A x \in 0 .. p - 1 : At(l, r, x) = At(l, s, x)
  BY <1>0, <1>1, <1>3 DEF At
<1>8. \A x \in 1 .. k : At(l, r, x + p - 1) = m[x]
  <2>1. ASSUME NEW x \in 1 .. k PROVE At(l, r, x + p - 1) = m[x]
    <3>1. /\ x + p - 1 \in 1 .. Len(s) + k /\ ~(x + p - 1 < p) /\ x + p - 1 < p + k
          /\ (x + p - 1) - p + 1 = x
      BY <1>0, <1>1
    <3> QED
      BY <1>3, <3>1 DEF At
  <2> QED
    BY <2>1
<1>9. \A x \in p .. Len(s) + 1 : At(l, r, x + k) = At(l, s, x)
  <2>1. ASSUME NEW x \in p .. Len(s) + 1 PROVE At(l, r, x + k) = At(l, s, x)
    <3>1. ~(x + k < p) /\ ~(x + k < p + k) /\ (x + k) - k = x /\ x \in 1 .. Len(s) + 1
          /\ x + k \in 1 .. Len(s) + k + 1
          /\ (x + k \in 1 .. Len(s) + k <=> x \in 1 .. Len(s))
      BY <1>0, <1>1
    <3> QED
      BY <1>0, <1>3, <3>1 DEF At
  <2> QED
    BY <2>1
<1>10. ASSUME NEW x \in 0 .. Len(r)
       PROVE  nx2[At(l, r, x)] = At(l, r, x + 1) /\ pv2[At(l, r, x + 1)] = At(l, r, x)
  <2>0. x \in Nat /\ x <= Len(s) + k
    BY <1>0, <1>1, <1>3
  <2>1. CASE x < p - 1
    <3>1. /\ x \in 0 .. p - 1 /\ x + 1 \in 0 .. p - 1 /\ x \in 0 .. Len(s) /\ x \in 0 .. Len(s) + 1
          /\ x + 1 \in 1 .. Len(s) + 1 /\ p \in 1 .. Len(s) + 1 /\ p - 1 \in 0 .. Len(s)
          /\ x # p - 1 /\ x + 1 # p /\ 1 \in 1 .. k /\ k \in 1 .. k
          /\ x + 1 \in 0 .. Len(s) + 1
      BY <1>0, <1>1, <2>1
    <3>2. /\ At(l, s, x) # a /\ At(l, s, x + 1) # b
          /\ At(l, s, x) # z /\ At(l, s, x + 1) # y
          /\ At(l, s, x) \in Cell /\ At(l, s, x + 1) \in Cell
      BY <1>0, <1>2, <3>1
    <3> QED
      BY <1>4, <1>6, <1>7, <3>1, <3>2
  <2>2. CASE x = p - 1
    <3>1. At(l, r, x) = a /\ At(l, r, x + 1) = y
      <4>1. x \in 0 .. p - 1 /\ x + 1 = 1 + p - 1 /\ 1 \in 1 .. k
        BY <1>1, <2>2
      <4> QED
        BY <1>7, <1>8, <4>1, <2>2
    <3> QED
      BY <1>5, <1>6, <3>1
  <2>3. CASE p - 1 < x /\ x < p - 1 + k
    <3> DEFINE i == x - p + 1
    <3>1. i \in 1 .. k - 1 /\ i \in 1 .. k /\ i + 1 \in 1 .. k /\ x = i + p - 1 /\ x + 1 = (i + 1) + p - 1
          /\ i # k /\ i + 1 # 1 /\ 1 \in 1 .. k /\ k \in 1 .. k
          /\ p - 1 \in 0 .. Len(s) + 1 /\ p \in 0 .. Len(s) + 1
      BY <1>0, <1>1, <2>0, <2>3
    <3> HIDE DEF i
    <3>2. /\ At(l, r, x) = m[i] /\ At(l, r, x + 1) = m[i + 1]
          /\ nx[m[i]] = m[i + 1] /\ pv[m[i + 1]] = m[i]
          /\ m[i] \in Cell /\ m[i + 1] \in Cell
      BY <1>1, <1>8, <3>1 DEF Chained
    <3>3. m[i] # z /\ m[i] # a /\ m[i + 1] # b /\ m[i + 1] # y
      BY <1>1, <1>2, <3>1
    <3> QED
      BY <1>6, <3>2, <3>3
  <2>4. CASE x = p - 1 + k
    <3>1. At(l, r, x) = z /\ At(l, r, x + 1) = b
      <4>1. x = k + p - 1 /\ x + 1 = p + k /\ k \in 1 .. k /\ p \in p .. Len(s) + 1
        BY <1>0, <1>1, <2>4
      <4> QED
        BY <1>8, <1>9, <4>1
    <3> QED
      BY <1>5, <1>6, <3>1
  <2>5. CASE x > p - 1 + k
    <3> DEFINE i == x - k
    <3>1. /\ i \in p .. Len(s) /\ i \in p .. Len(s) + 1 /\ i + 1 \in p .. Len(s) + 1
          /\ x = i + k /\ x + 1 = (i + 1) + k
          /\ i \in 0 .. Len(s) /\ i + 1 \in 1 .. Len(s) + 1 /\ i # p - 1 /\ i + 1 # p
          /\ p - 1 \in 0 .. Len(s) /\ p \in 1 .. Len(s) + 1 /\ 1 \in 1 .. k /\ k \in 1 .. k
          /\ i \in 0 .. Len(s) + 1 /\ i + 1 \in 0 .. Len(s) + 1
      BY <1>0, <1>1, <1>3, <2>5
    <3> HIDE DEF i
    <3>2. /\ At(l, s, i) # a /\ At(l, s, i + 1) # b
          /\ At(l, s, i) # z /\ At(l, s, i + 1) # y
          /\ At(l, s, i) \in Cell /\ At(l, s, i + 1) \in Cell
      BY <1>0, <1>2, <3>1
    <3>3. At(l, r, x) = At(l, s, i) /\ At(l, r, x + 1) = At(l, s, i + 1)
      BY <1>9, <3>1
    <3>4. nx[At(l, s, i)] = At(l, s, i + 1) /\ pv[At(l, s, i + 1)] = At(l, s, i)
      BY <1>4, <3>1
    <3>5. nx2[At(l, s, i)] = nx[At(l, s, i)] /\ pv2[At(l, s, i + 1)] = pv[At(l, s, i + 1)]
      BY <1>6, <3>2
    <3> QED
      BY <3>3, <3>4, <3>5
  <2>6. x < p - 1 \/ x = p - 1 \/ (p - 1 < x /\ x < p - 1 + k) \/ x = p - 1 + k \/ x > p - 1 + k
    <3>1. \A u, v, w \in Int :
             u < v - 1 \/ u = v - 1 \/ (v - 1 < u /\ u < v - 1 + w) \/ u = v - 1 + w \/ u > v - 1 + w
      OBVIOUS
    <3>2. x \in Int /\ p \in Int /\ k \in Int
      BY <1>1, <2>0
    <3> QED
      BY <3>1, <3>2
  <2> QED
    BY <2>1, <2>2, <2>3, <2>4, <2>5, <2>6
<1> QED
  BY <1>10 DEF Linked, r

-----------------------------------------------------------------------------
(***************************************************************************)
(* All the lists at once: the rings of the lists A in the heap h.          *)
(***************************************************************************)
Lists(h, sq, A) ==
    /\ h \in HeapType /\ sq \in [Header -> Seq(Node)] /\ Apart(sq) /\ A \subseteq Header
    /\ \A l \in A : Linked(h.next, h.prev, l, sq[l])

\* Between g and h only nodes of M differ.
Elsewhere(h, g, M) ==
    \A n \in Node : n \notin M => g.next[n] = h.next[n] /\ g.prev[n] = h.prev[n]

LEMMA ListsRings ==
    ASSUME NEW h, NEW sq, NEW A, Lists(h, sq, A), NEW l \in Header
    PROVE  OnRing(l, sq[l]) /\ Range(sq[l]) \subseteq InUse(sq) /\ InUse(sq) \subseteq Node
<1>1. sq[l] \in Seq(Node) /\ IsInjective(sq[l])
  BY DEF Lists, Apart, IsInjective
<1>2. \A k \in Header : Range(sq[k]) \subseteq Node
  BY DEF Lists, Range
<1> QED
  BY <1>1, <1>2 DEF OnRing, InUse

LEMMA ListsFrame ==
    ASSUME NEW h, NEW sq, NEW A, Lists(h, sq, A), NEW g \in HeapType,
           \A c \in A \cup InUse(sq) : g.next[c] = h.next[c] /\ g.prev[c] = h.prev[c]
    PROVE  Lists(g, sq, A)
<1>1. ASSUME NEW l \in A PROVE Linked(g.next, g.prev, l, sq[l])
  <2>1. l \in Header /\ OnRing(l, sq[l]) /\ Range(sq[l]) \subseteq InUse(sq)
    BY ListsRings DEF Lists
  <2> QED
    BY <2>1, LinkedFrame DEF Lists
<1> QED
  BY <1>1 DEF Lists

\* Two lists have no cell in common.
LEMMA RingsApart ==
    ASSUME NEW h, NEW sq, NEW A, Lists(h, sq, A), NEW l \in Header, NEW k \in Header, k # l
    PROVE  ({l} \cup Range(sq[l])) \cap ({k} \cup Range(sq[k])) = {}
<1>1. Range(sq[l]) \cap Range(sq[k]) = {}
  BY DEF Lists, Apart, Range
<1>2. Range(sq[l]) \subseteq Node /\ Range(sq[k]) \subseteq Node
  BY ListsRings
<1> QED
  BY <1>1, <1>2, ListAssumption

\* The list l gets the nodes r.
Becomes(sq, new, l, r) == new = [sq EXCEPT ![l] = r]

\* From h to g the list l gets the nodes r, which may have nodes M of no list.
Change(h, g, sq, new, l, r, M) ==
    /\ g \in HeapType /\ r \in Seq(Node) /\ IsInjective(r) /\ Becomes(sq, new, l, r)
    /\ M \subseteq Node /\ M \cap InUse(sq) = {}
    /\ Range(r) \subseteq Range(sq[l]) \cup M /\ Linked(g.next, g.prev, l, r)
    /\ \A c \in Cell : c \notin {l} \cup Range(sq[l]) \cup M
                           => g.next[c] = h.next[c] /\ g.prev[c] = h.prev[c]

\* It leaves the other lists alone.
LEMMA Replaced ==
    ASSUME NEW h, NEW sq, NEW A, Lists(h, sq, A), NEW l \in A, NEW g, NEW r, NEW M, NEW new,
           Change(h, g, sq, new, l, r, M)
    PROVE  /\ Lists(g, new, A)
           /\ \A n \in InUse(sq) : n \in InUse(new) \/ n \in Range(sq[l])
           /\ \A n \in InUse(new) :
                 n \in Range(r) \/ (n \in InUse(sq) /\ n \notin Range(sq[l]))
           /\ Range(r) \subseteq InUse(new)
<1>1. /\ l \in Header /\ A \subseteq Header /\ sq \in [Header -> Seq(Node)]
      /\ \A k \in Header : Range(sq[k]) \subseteq InUse(sq)
  BY ListsRings DEF Lists
<1>2. new \in [Header -> Seq(Node)] /\ new[l] = r /\ \A k \in Header : k # l => new[k] = sq[k]
  BY <1>1 DEF Change, Becomes
<1>3a. /\ g \in HeapType /\ IsInjective(r) /\ M \subseteq Node /\ M \cap InUse(sq) = {}
       /\ Range(r) \subseteq Range(sq[l]) \cup M /\ Linked(g.next, g.prev, l, r)
       /\ \A c \in Cell : c \notin {l} \cup Range(sq[l]) \cup M
                              => g.next[c] = h.next[c] /\ g.prev[c] = h.prev[c]
  BY DEF Change
<1>3. \A k \in Header : k # l => Range(r) \cap Range(sq[k]) = {} /\ Range(sq[l]) \cap Range(sq[k]) = {}
  <2>1. \A k \in Header : k # l => Range(sq[l]) \cap Range(sq[k]) = {}
    BY <1>1, RingsApart
  <2> QED
    BY <1>1, <1>3a, <2>1
<1>4. Apart(new)
  <2> SUFFICES ASSUME NEW k \in Header, NEW n \in Header, NEW x \in DOMAIN new[k],
                      NEW y \in DOMAIN new[n], new[k][x] = new[n][y]
               PROVE  k = n /\ x = y
    BY DEF Apart
  <2>1. new[k][x] \in Range(new[k]) /\ new[n][y] \in Range(new[n])
    BY DEF Range
  <2>2. CASE k = l /\ n = l
    BY <1>2, <1>3a, <2>2 DEF IsInjective
  <2>3. CASE k # l /\ n # l
    BY <1>2, <2>3 DEF Lists, Apart
  <2>4. CASE k # l /\ n = l
    BY <1>2, <1>3, <2>1, <2>4
  <2>5. CASE k = l /\ n # l
    BY <1>2, <1>3, <2>1, <2>5
  <2> QED
    BY <2>2, <2>3, <2>4, <2>5
<1>5. ASSUME NEW k \in A PROVE Linked(g.next, g.prev, k, new[k])
  <2>1. CASE k = l
    BY <1>2, <1>3a, <2>1
  <2>2. CASE k # l
    <3>1. /\ k \in Header /\ OnRing(k, sq[k]) /\ new[k] = sq[k] /\ Linked(h.next, h.prev, k, sq[k])
          /\ Range(sq[k]) \subseteq InUse(sq) /\ InUse(sq) \subseteq Node
      BY <1>1, <1>2, <2>2, ListsRings DEF Lists
    <3>2. ({l} \cup Range(sq[l])) \cap ({k} \cup Range(sq[k])) = {}
      BY <1>1, <2>2, <3>1, RingsApart
    <3>3. \A c \in {k} \cup Range(sq[k]) : c \in Cell /\ c \notin {l} \cup Range(sq[l]) \cup M
      BY <1>3a, <3>1, <3>2, ListAssumption DEF Cell
    <3>4. \A c \in {k} \cup Range(sq[k]) : g.next[c] = h.next[c] /\ g.prev[c] = h.prev[c]
      BY <1>3a, <3>3
    <3> QED
      BY <3>1, <3>4, LinkedFrame
  <2> QED
    BY <2>1, <2>2
<1>6. Lists(g, new, A)
  BY <1>1, <1>2, <1>3a, <1>4, <1>5 DEF Lists
<1>7. \A n \in InUse(sq) : n \in InUse(new) \/ n \in Range(sq[l])
  BY <1>2 DEF InUse
<1>8. \A n \in InUse(new) : n \in Range(r) \/ (n \in InUse(sq) /\ n \notin Range(sq[l]))
  <2>1. ASSUME NEW n \in InUse(new), n \notin Range(r)
        PROVE  n \in InUse(sq) /\ n \notin Range(sq[l])
    <3>1. PICK k \in Header : n \in Range(new[k])
      BY DEF InUse
    <3>2. k # l /\ n \in Range(sq[k])
      BY <1>2, <2>1, <3>1
    <3> QED
      BY <1>1, <1>3, <3>2
  <2> QED
    BY <2>1
<1>9. Range(r) \subseteq InUse(new)
  BY <1>1, <1>2 DEF InUse
<1> QED
  BY <1>6, <1>7, <1>8, <1>9

\* The nodes m of a slice and those that are left, r.
SliceOf(s, i, j, m, r) ==
    /\ m \in Seq(Node) /\ IsInjective(m) /\ Len(m) = j - i + 1 /\ Len(m) > 0
    /\ \A x \in 1 .. Len(m) : m[x] = s[x + i - 1]
    /\ m[1] = s[i] /\ m[Len(m)] = s[j]
    /\ r \in Seq(Node) /\ IsInjective(r)
    /\ Range(r) \cap Range(m) = {} /\ Range(s) = Range(r) \cup Range(m)

LEMMA SliceNodes ==
    ASSUME NEW s \in Seq(Node), IsInjective(s), NEW i \in 1 .. Len(s), NEW j \in i .. Len(s)
    PROVE  SliceOf(s, i, j, SubSeq(s, i, j), Without(s, i, j))
<1> DEFINE m == SubSeq(s, i, j)
           r == Without(s, i, j)
           n == Len(s)
           d == j - i + 1
           old(x) == IF x < i THEN x ELSE x + d
<1>1. /\ n \in Nat /\ i \in Nat /\ j \in Nat /\ 1 <= i /\ i <= j /\ j <= n
      /\ DOMAIN s = 1 .. n /\ s \in Seq(Node) /\ d \in Nat /\ d > 0 /\ d <= n /\ n - d \in Nat
      /\ \A x, y \in 1 .. n : s[x] = s[y] => x = y
  BY DEF IsInjective
<1>2. i \in 1 .. n + 1 /\ j \in i - 1 .. n
  BY <1>1
<1>3. m \in Seq(Node) /\ Len(m) = d /\ \A x \in 1 .. d : m[x] = s[x + i - 1]
  BY <1>2, Slice
<1>4. r \in Seq(Node) /\ Len(r) = n - d /\ \A x \in 1 .. n - d : r[x] = s[old(x)]
  <2>1. /\ r \in Seq(Node) /\ Len(r) = Len(s) - (j - i + 1)
        /\ \A x \in 1 .. Len(s) - (j - i + 1) : r[x] = IF x < i THEN s[x] ELSE s[x + (j - i + 1)]
    BY WithoutSlice
  <2> QED
    BY <2>1
<1>5. DOMAIN m = 1 .. d /\ DOMAIN r = 1 .. n - d
  <2>1. DOMAIN m = 1 .. Len(m) /\ DOMAIN r = 1 .. Len(r)
    BY <1>3, <1>4
  <2> QED
    BY <1>3, <1>4, <2>1
<1> HIDE DEF m, r
<1>6. \A x \in 1 .. d : x + i - 1 \in i .. j /\ x + i - 1 \in 1 .. n
  BY <1>1
<1>7. \A x \in i .. j : x - i + 1 \in 1 .. d /\ (x - i + 1) + i - 1 = x /\ x \in 1 .. n
  BY <1>1
<1>8. \A x \in 1 .. n - d : old(x) \in 1 .. n /\ old(x) \notin i .. j
  BY <1>1
<1>9. \A x, y \in 1 .. n - d : old(x) = old(y) => x = y
  BY <1>1
<1>10. \A x \in 1 .. n : x \notin i .. j => \E y \in 1 .. n - d : old(y) = x
  <2>1. ASSUME NEW x \in 1 .. n, x < i PROVE x \in 1 .. n - d /\ old(x) = x
    BY <1>1, <2>1
  <2>2. ASSUME NEW x \in 1 .. n, x > j PROVE x - d \in 1 .. n - d /\ old(x - d) = x
    BY <1>1, <2>2
  <2>3. \A x \in 1 .. n : x \notin i .. j => x < i \/ x > j
    BY <1>1
  <2> HIDE DEF old
  <2> QED
    BY <2>1, <2>2, <2>3
<1>11. 1 \in 1 .. d /\ 1 + i - 1 = i /\ d \in 1 .. d /\ d + i - 1 = j
  BY <1>1
<1>12. \A x, y \in 1 .. d : x + i - 1 = y + i - 1 => x = y
  BY <1>1
<1> HIDE DEF n, d, old
<1>13. IsInjective(m)
  <2> SUFFICES ASSUME NEW x \in 1 .. d, NEW y \in 1 .. d, m[x] = m[y] PROVE x = y
    BY <1>5 DEF IsInjective
  <2>1. x + i - 1 \in 1 .. n /\ y + i - 1 \in 1 .. n /\ s[x + i - 1] = s[y + i - 1]
    BY <1>3, <1>6
  <2>2. x + i - 1 = y + i - 1
    BY <1>1, <2>1
  <2> QED
    BY <1>12, <2>2
<1>14. IsInjective(r)
  BY <1>1, <1>4, <1>5, <1>8, <1>9 DEF IsInjective
<1>15. Range(m) = {s[x] : x \in i .. j}
  <2>1. ASSUME NEW v \in Range(m) PROVE v \in {s[x] : x \in i .. j}
    BY <1>3, <1>5, <1>6 DEF Range
  <2>2. ASSUME NEW x \in i .. j PROVE s[x] \in Range(m)
    <3>1. m[x - i + 1] = s[x] /\ x - i + 1 \in DOMAIN m
      BY <1>3, <1>5, <1>7
    <3> QED
      BY <3>1 DEF Range
  <2> QED
    BY <2>1, <2>2
<1>16. Range(r) = {s[old(y)] : y \in 1 .. n - d}
  BY <1>4, <1>5 DEF Range
<1>17. Range(s) = {s[x] : x \in 1 .. n}
  BY <1>1 DEF Range
<1>18. Range(r) \cap Range(m) = {}
  BY <1>1, <1>7, <1>8, <1>15, <1>16
<1>19. Range(s) = Range(r) \cup Range(m)
  BY <1>7, <1>8, <1>10, <1>15, <1>16, <1>17
<1> QED
  BY <1>1, <1>3, <1>4, <1>11, <1>13, <1>14, <1>15, <1>18, <1>19 DEF m, r, d, SliceOf

LEMMA SplicedNodes ==
    ASSUME NEW s \in Seq(Node), IsInjective(s), NEW m \in Seq(Node), IsInjective(m),
           Range(m) \cap Range(s) = {}, NEW p \in 1 .. Len(s) + 1
    PROVE  /\ Spliced(s, p, m) \in Seq(Node) /\ IsInjective(Spliced(s, p, m))
           /\ Range(Spliced(s, p, m)) = Range(s) \cup Range(m)
<1> DEFINE r == Spliced(s, p, m)
           n == Len(s)
           k == Len(m)
<1>1. /\ n \in Nat /\ k \in Nat /\ p \in Nat /\ 1 <= p /\ p <= n + 1
      /\ DOMAIN s = 1 .. n /\ DOMAIN m = 1 .. k
      /\ \A x, y \in 1 .. n : s[x] = s[y] => x = y
      /\ \A x, y \in 1 .. k : m[x] = m[y] => x = y
      /\ \A x \in 1 .. n, y \in 1 .. k : s[x] # m[y]
  <2>1. /\ n \in Nat /\ k \in Nat /\ p \in Nat /\ 1 <= p /\ p <= n + 1
        /\ DOMAIN s = 1 .. n /\ DOMAIN m = 1 .. k
    OBVIOUS
  <2>2. \A x \in 1 .. n, y \in 1 .. k : s[x] # m[y]
    <3>1. \A x \in 1 .. n : s[x] \in Range(s)
      BY DEF Range
    <3>2. \A y \in 1 .. k : m[y] \in Range(m)
      BY DEF Range
    <3> QED
      BY <3>1, <3>2
  <2> QED
    BY <2>1, <2>2 DEF IsInjective
<1>2. /\ r \in Seq(Node) /\ Len(r) = n + k
      /\ \A x \in 1 .. n + k :
            r[x] = IF x < p THEN s[x] ELSE IF x < p + k THEN m[x - p + 1] ELSE s[x - k]
  BY SplicedSeq
<1>3. DOMAIN r = 1 .. n + k
  BY <1>2
<1> HIDE DEF r, n, k
<1> DEFINE I == {x \in 1 .. n + k : x < p}
           J == {x \in 1 .. n + k : ~(x < p) /\ x < p + k}
           K == {x \in 1 .. n + k : ~(x < p) /\ ~(x < p + k)}
<1>4. /\ \A x \in I : x \in 1 .. n
      /\ \A x \in J : x - p + 1 \in 1 .. k
      /\ \A x \in K : x - k \in 1 .. n
      /\ \A x \in I, y \in K : x # y - k
      /\ \A x, y \in K : x - k = y - k => x = y
      /\ \A x, y \in J : x - p + 1 = y - p + 1 => x = y
      /\ \A x \in 1 .. n : x < p => x \in I
      /\ \A x \in 1 .. n : ~(x < p) => x + k \in K /\ (x + k) - k = x
      /\ \A x \in 1 .. k : x + p - 1 \in J /\ (x + p - 1) - p + 1 = x
  BY <1>1
<1>5. 1 .. n + k = I \cup J \cup K
  OBVIOUS
<1>6. /\ \A x \in I : r[x] = s[x]
      /\ \A x \in J : r[x] = m[x - p + 1]
      /\ \A x \in K : r[x] = s[x - k]
  BY <1>2
<1> HIDE DEF I, J, K
<1>7. IsInjective(r)
  <2> SUFFICES ASSUME NEW x \in I \cup J \cup K, NEW y \in I \cup J \cup K, r[x] = r[y] PROVE x = y
    BY <1>3, <1>5 DEF IsInjective
  <2> QED
    BY <1>1, <1>4, <1>6
<1>8. Range(r) = Range(s) \cup Range(m)
  <2>1. ASSUME NEW v \in Range(r) PROVE v \in Range(s) \cup Range(m)
    <3>1. PICK x \in I \cup J \cup K : v = r[x]
      BY <1>3, <1>5 DEF Range
    <3> QED
      BY <1>1, <1>4, <1>6, <3>1 DEF Range
  <2>2. ASSUME NEW x \in 1 .. n PROVE s[x] \in Range(r)
    <3>1. CASE x < p
      BY <1>3, <1>4, <1>5, <1>6, <3>1 DEF Range
    <3>2. CASE ~(x < p)
      <4>1. x + k \in K /\ r[x + k] = s[x]
        BY <1>4, <1>6, <3>2
      <4> QED
        BY <1>3, <1>5, <4>1 DEF Range
    <3> QED
      BY <3>1, <3>2
  <2>3. ASSUME NEW x \in 1 .. k PROVE m[x] \in Range(r)
    <3>1. x + p - 1 \in J /\ r[x + p - 1] = m[x]
      BY <1>4, <1>6
    <3> QED
      BY <1>3, <1>5, <3>1 DEF Range
  <2> QED
    BY <1>1, <2>1, <2>2, <2>3 DEF Range
<1> QED
  BY <1>2, <1>7, <1>8 DEF r

\* The nodes m hang together and in no list.
Loose(h, m, sq) ==
    /\ m \in Seq(Node) /\ IsInjective(m) /\ Len(m) > 0 /\ Chained(h.next, h.prev, m)
    /\ Range(m) \cap InUse(sq) = {}

\* The places i to j are linked out of s, m is linked in before place p.
CutPtrs(h, l, s, i, j) == LinkUp(h, At(l, s, i - 1), At(l, s, j + 1))
PutPtrs(h, l, s, p, m) == LinkUp(LinkUp(h, At(l, s, p - 1), m[1]), m[Len(m)], At(l, s, p))

\* What is true then.
CutDone(h, sq, A, l, i, j, m, cut, g) ==
    /\ At(l, sq[l], i - 1) = h.prev[sq[l][i]] /\ At(l, sq[l], j + 1) = h.next[sq[l][j]]
    /\ Lists(g, cut, A) /\ Elsewhere(h, g, InUse(sq))
    /\ Loose(g, m, cut) /\ InUse(sq) = InUse(cut) \cup Range(m)
    /\ Len(m) = j - i + 1 /\ m[1] = sq[l][i] /\ m[Len(m)] = sq[l][j]

PutDone(h, sq, A, l, p, m, put, g) ==
    /\ h.next[At(l, sq[l], p - 1)] = At(l, sq[l], p)
    /\ h.prev[At(l, sq[l], p)] = At(l, sq[l], p - 1)
    /\ Lists(g, put, A) /\ InUse(put) = InUse(sq) \cup Range(m)
    /\ Chained(g.next, g.prev, m) /\ Elsewhere(h, g, InUse(put))

\* Linking a slice out of a list: the first half of each splice.
LEMMA CutOut ==
    ASSUME NEW h, NEW sq, NEW A, Lists(h, sq, A), NEW l \in A,
           NEW i \in 1 .. Len(sq[l]), NEW j \in i .. Len(sq[l]),
           NEW m, m = SubSeq(sq[l], i, j),
           NEW cut, Becomes(sq, cut, l, Without(sq[l], i, j)),
           NEW g, g = CutPtrs(h, l, sq[l], i, j)
    PROVE  CutDone(h, sq, A, l, i, j, m, cut, g)
<1> DEFINE s   == sq[l]
           p   == At(l, s, i - 1)
           q   == At(l, s, j + 1)
           r   == Without(s, i, j)
<1>1. /\ l \in Header /\ OnRing(l, s) /\ h \in HeapType
      /\ Linked(h.next, h.prev, l, s)
      /\ Range(s) \subseteq InUse(sq) /\ InUse(sq) \subseteq Node
  BY ListsRings DEF Lists
<1>2. i \in 1 .. Len(s) /\ j \in i .. Len(s)
  OBVIOUS
<1> HIDE DEF s
<1>3. /\ Len(s) \in Nat /\ s \in Seq(Node) /\ IsInjective(s) /\ i - 1 \in Int /\ j + 1 \in Int
      /\ \A x \in Int : At(l, s, x) \in Cell /\ At(l, s, x) \in {l} \cup Range(s)
  <2>1. \A x \in Int : At(l, s, x) \in {l} \cup Range(s)
    BY <1>1, RingPlaces DEF At, Range
  <2>2. Len(s) \in Nat /\ s \in Seq(Node) /\ IsInjective(s) /\ \A x \in Int : At(l, s, x) \in Cell
    BY <1>1, RingPlaces DEF OnRing
  <2> QED
    BY <1>2, <2>1, <2>2
<1>4. p \in Cell /\ q \in Cell /\ p \in {l} \cup Range(s) /\ q \in {l} \cup Range(s)
  BY <1>3
<1>5. g \in HeapType /\ Written(h.next, g.next, p, q) /\ Written(h.prev, g.prev, q, p)
  <2>1. h \in HeapType /\ p \in Cell /\ q \in Cell /\ g = LinkUp(h, p, q)
    BY <1>1, <1>4 DEF p, q, s, CutPtrs
  <2> HIDE DEF p, q
  <2> QED
    BY <2>1, LinkUpFields
<1>6. /\ p = h.prev[s[i]] /\ q = h.next[s[j]]
      /\ Linked(g.next, g.prev, l, r) /\ Chained(g.next, g.prev, m)
  <2>1. Linked(g.next, g.prev, l, r)
    BY <1>1, <1>2, <1>5, LinkedOut
  <2>m. m = SubSeq(s, i, j)
    BY DEF s
  <2>2. Chained(g.next, g.prev, m)
    BY <1>1, <1>2, <1>5, <2>m, LinkedOut
  <2>3. p = h.prev[s[i]] /\ q = h.next[s[j]]
    <3>1. /\ i - 1 \in 0 .. Len(s) /\ (i - 1) + 1 = i /\ j \in 0 .. Len(s)
          /\ i \in 1 .. Len(s) /\ j \in 1 .. Len(s)
      BY <1>2, <1>3
    <3>2. At(l, s, i) = s[i] /\ At(l, s, j) = s[j]
      BY <3>1 DEF At
    <3> QED
      BY <1>1, <3>1, <3>2 DEF Linked
  <2> QED
    BY <2>1, <2>2, <2>3
<1>7. /\ m \in Seq(Node) /\ IsInjective(m) /\ Len(m) = j - i + 1 /\ Len(m) > 0
      /\ m[1] = s[i] /\ m[Len(m)] = s[j]
      /\ r \in Seq(Node) /\ IsInjective(r)
      /\ Range(r) \cap Range(m) = {} /\ Range(s) = Range(r) \cup Range(m)
  <2>1. m = SubSeq(s, i, j) /\ r = Without(s, i, j)
    BY DEF s
  <2>2. SliceOf(s, i, j, SubSeq(s, i, j), Without(s, i, j))
    BY <1>2, <1>3, SliceNodes
  <2> HIDE DEF r
  <2> QED
    BY <1>2, <1>3, <2>1, <2>2 DEF SliceOf
<1>7a. Becomes(sq, cut, l, r)
  BY DEF r, s
<1> HIDE DEF p, q, r
<1>8. \A c \in Cell : c \notin {l} \cup Range(s) => g.next[c] = h.next[c] /\ g.prev[c] = h.prev[c]
  BY <1>4, <1>5 DEF Written
<1>9. /\ Lists(g, cut, A)
      /\ \A n \in InUse(sq) : n \in InUse(cut) \/ n \in Range(s)
      /\ \A n \in InUse(cut) : n \in Range(r) \/ (n \in InUse(sq) /\ n \notin Range(s))
      /\ Range(r) \subseteq InUse(cut)
  <2>1. Change(h, g, sq, cut, l, r, {})
    BY <1>5, <1>6, <1>7, <1>7a, <1>8 DEF Change, s
  <2> QED
    BY <2>1, Replaced DEF s
<1>10. Elsewhere(h, g, InUse(sq))
  <2>1. \A n \in Node : n \notin InUse(sq) => n \in Cell /\ n \notin {l} \cup Range(s)
    BY <1>1, ListAssumption DEF Cell
  <2> QED
    BY <1>8, <2>1 DEF Elsewhere
<1>11. Range(m) \cap InUse(cut) = {} /\ InUse(sq) = InUse(cut) \cup Range(m)
  BY <1>1, <1>7, <1>9
<1> QED
  BY <1>4, <1>6, <1>7, <1>9, <1>10, <1>11 DEF p, q, s, Loose, CutDone

\* Linking nodes in: the second half of each splice, and each insertion.
LEMMA PutIn ==
    ASSUME NEW h, NEW sq, NEW A, Lists(h, sq, A), NEW l \in A, NEW p \in 1 .. Len(sq[l]) + 1,
           NEW m, Loose(h, m, sq), NEW put, Becomes(sq, put, l, Spliced(sq[l], p, m)),
           NEW g, g = PutPtrs(h, l, sq[l], p, m)
    PROVE  PutDone(h, sq, A, l, p, m, put, g)
<1> DEFINE s   == sq[l]
           a   == At(l, s, p - 1)
           b   == At(l, s, p)
           y   == m[1]
           z   == m[Len(m)]
           g1  == LinkUp(h, a, y)
           r   == Spliced(s, p, m)
<1>0. /\ m \in Seq(Node) /\ IsInjective(m) /\ Len(m) > 0 /\ Range(m) \cap InUse(sq) = {}
      /\ Chained(h.next, h.prev, m)
  BY DEF Loose
<1>1. /\ l \in Header /\ OnRing(l, s) /\ h \in HeapType
      /\ Linked(h.next, h.prev, l, s)
      /\ Range(s) \subseteq InUse(sq) /\ InUse(sq) \subseteq Node /\ p \in 1 .. Len(s) + 1
  BY ListsRings DEF Lists
<1> HIDE DEF s
<1>2. /\ Len(s) \in Nat /\ s \in Seq(Node) /\ IsInjective(s) /\ p - 1 \in Int /\ p \in Int
      /\ \A x \in Int : At(l, s, x) \in {l} \cup Range(s)
  <2>1. \A x \in Int : At(l, s, x) \in {l} \cup Range(s)
    BY <1>1, RingPlaces DEF At, Range
  <2> QED
    BY <1>1, <2>1 DEF OnRing
<1>3. Range(m) \cap Range(s) = {} /\ Range(m) \subseteq Node /\ y \in Range(m) /\ z \in Range(m)
  <2>1. Range(m) \cap Range(s) = {}
    BY <1>0, <1>1
  <2>2. 1 \in DOMAIN m /\ Len(m) \in DOMAIN m /\ \A x \in DOMAIN m : m[x] \in Node
    BY <1>0
  <2>3. Range(m) \subseteq Node
    BY <2>2 DEF Range
  <2>4. y \in Range(m) /\ z \in Range(m)
    BY <2>2 DEF Range
  <2> QED
    BY <2>1, <2>3, <2>4
<1>4. /\ \A x \in Int : At(l, s, x) \in Cell
      /\ \A x \in 0 .. Len(s) : h.next[At(l, s, x)] = At(l, s, x + 1)
                                /\ h.prev[At(l, s, x + 1)] = At(l, s, x)
  BY <1>1, RingPlaces DEF Linked
<1>5. h.next[a] = b /\ h.prev[b] = a /\ a \in Cell /\ b \in Cell /\ y \in Node /\ z \in Node
  <2>1. p - 1 \in 0 .. Len(s) /\ (p - 1) + 1 = p
    BY <1>1, <1>2
  <2> QED
    BY <1>2, <1>3, <1>4, <2>1
<1>6. a \in {l} \cup Range(s) /\ b \in {l} \cup Range(s) /\ y \in Cell /\ z \in Cell
  BY <1>2, <1>5 DEF Cell
<1>7. r \in Seq(Node) /\ IsInjective(r) /\ Range(r) = Range(s) \cup Range(m)
  BY <1>0, <1>1, <1>2, <1>3, SplicedNodes
<1>7a. Becomes(sq, put, l, r)
  BY DEF r, s
<1> HIDE DEF a, b, y, z, r
<1>8. g1 \in HeapType /\ Written(h.next, g1.next, a, y) /\ Written(h.prev, g1.prev, y, a)
  BY <1>1, <1>5, <1>6, LinkUpFields
<1>8a. g = LinkUp(g1, z, b)
  BY DEF g1, a, b, y, z, s, PutPtrs
<1> HIDE DEF g1
<1>9. g \in HeapType /\ Written(g1.next, g.next, z, b) /\ Written(g1.prev, g.prev, b, z)
  <2>1. g1 \in HeapType /\ z \in Cell /\ b \in Cell
    BY <1>5, <1>6, <1>8
  <2> QED
    BY <1>8a, <2>1, LinkUpFields
<1>9a. Linked(g.next, g.prev, l, r)
  BY <1>0, <1>1, <1>3, <1>8, <1>9, LinkedIn DEF a, b, y, z, r
<1>10. \A c \in Cell : c \notin {l} \cup Range(s) \cup Range(m)
                          => g.next[c] = h.next[c] /\ g.prev[c] = h.prev[c]
  BY <1>3, <1>6, <1>8, <1>9 DEF Written
<1>11. /\ Lists(g, put, A)
       /\ \A n \in InUse(sq) : n \in InUse(put) \/ n \in Range(s)
       /\ \A n \in InUse(put) : n \in Range(r) \/ (n \in InUse(sq) /\ n \notin Range(s))
       /\ Range(r) \subseteq InUse(put)
  <2>1. Change(h, g, sq, put, l, r, Range(m))
    BY <1>0, <1>3, <1>7, <1>7a, <1>9, <1>9a, <1>10 DEF Change, s
  <2> QED
    BY <2>1, Replaced DEF s
<1>12. InUse(put) = InUse(sq) \cup Range(m)
  BY <1>1, <1>7, <1>11
<1>13. Elsewhere(h, g, InUse(put))
  <2>1. \A n \in Node : n \notin InUse(put) => n \in Cell /\ n \notin {l} \cup Range(s) \cup Range(m)
    BY <1>1, <1>12, ListAssumption DEF Cell
  <2> QED
    BY <1>10, <2>1 DEF Elsewhere
<1>14. Chained(g.next, g.prev, m)
  <2> SUFFICES ASSUME NEW x \in 1 .. Len(m) - 1 PROVE g.next[m[x]] = m[x + 1] /\ g.prev[m[x + 1]] = m[x]
    BY <1>0 DEF Chained
  <2>1. /\ x \in DOMAIN m /\ x + 1 \in DOMAIN m /\ 1 \in DOMAIN m /\ Len(m) \in DOMAIN m
        /\ x # Len(m) /\ x + 1 # 1
    BY <1>0
  <2>2. m[x] # z /\ m[x + 1] # y
    BY <1>0, <2>1 DEF IsInjective, y, z
  <2>3. m[x] \in Range(m) /\ m[x + 1] \in Range(m)
    BY <2>1 DEF Range
  <2>4. /\ m[x] \in Cell /\ m[x + 1] \in Cell
        /\ m[x] \notin {l} \cup Range(s) /\ m[x + 1] \notin {l} \cup Range(s)
    BY <1>1, <1>3, <2>3, ListAssumption DEF Cell
  <2>5. m[x] # a /\ m[x + 1] # b
    BY <1>6, <2>4
  <2>6. h.next[m[x]] = m[x + 1] /\ h.prev[m[x + 1]] = m[x]
    BY <1>0 DEF Chained
  <2> QED
    BY <1>8, <1>9, <2>2, <2>4, <2>5, <2>6 DEF Written
<1> QED
  BY <1>5, <1>11, <1>12, <1>13, <1>14 DEF a, b, s, PutDone

\* list_delete's pointers.
UnlinkDone(h, sq, A, n, cut, g) ==
    /\ n \in Node /\ Lists(g, cut, A) /\ n \notin InUse(cut) /\ InUse(sq) = InUse(cut) \cup {n}
    /\ Elsewhere(h, g, InUse(sq)) /\ g.next[n] = NULL /\ g.prev[n] = NULL

LEMMA Unlinked ==
    ASSUME NEW h, NEW sq, NEW A, Lists(h, sq, A), NEW l \in A, NEW i \in 1 .. Len(sq[l]),
           NEW cut, Becomes(sq, cut, l, Without(sq[l], i, i))
    PROVE  UnlinkDone(h, sq, A, sq[l][i], cut, DeletePtrs(h, sq[l][i]))
<1> DEFINE n  == sq[l][i]
           g  == DeletePtrs(h, n)
           g1 == CutPtrs(h, l, sq[l], i, i)
           m  == SubSeq(sq[l], i, i)
<1>0. i \in i .. Len(sq[l]) /\ Len(sq[l]) \in Nat /\ sq[l] \in Seq(Node) /\ i - i + 1 = 1
  BY DEF Lists
<1>d. CutDone(h, sq, A, l, i, i, m, cut, g1)
  BY <1>0, CutOut
<1> HIDE DEF m, g1
<1>1. /\ At(l, sq[l], i - 1) = h.prev[sq[l][i]] /\ At(l, sq[l], i + 1) = h.next[sq[l][i]]
      /\ Lists(g1, cut, A) /\ Elsewhere(h, g1, InUse(sq))
      /\ Loose(g1, m, cut) /\ InUse(sq) = InUse(cut) \cup Range(m)
      /\ Len(m) = 1 /\ m[1] = n
  BY <1>0, <1>d DEF CutDone
<1>2. m \in Seq(Node) /\ DOMAIN m = {1} /\ n \in Node
  <2>1. m \in Seq(Node) /\ Len(m) = 1 /\ m[1] = n
    BY <1>1 DEF Loose
  <2>2. DOMAIN m = 1 .. 1 /\ m[1] \in Node
    BY <2>1
  <2> QED
    BY <2>1, <2>2
<1>3. Range(m) = {n} /\ n \in Cell
  BY <1>1, <1>2 DEF Range, Cell
<1>4. g = Clear(g1, n)
  BY <1>1 DEF DeletePtrs, CutPtrs, g1
<1> HIDE DEF g
<1>5. /\ g \in HeapType /\ Written(g1.next, g.next, n, NULL) /\ Written(g1.prev, g.prev, n, NULL)
  BY <1>1, <1>3, <1>4, ClearFields DEF Lists
<1>6. \A c \in Cell : c # n => g.next[c] = g1.next[c] /\ g.prev[c] = g1.prev[c]
  BY <1>5 DEF Written
<1>7. InUse(cut) \subseteq Node /\ A \subseteq Header /\ n \notin InUse(cut)
  <2>1. l \in Header /\ A \subseteq Header
    BY DEF Lists
  <2>2. InUse(cut) \subseteq Node
    BY <1>1, <2>1, ListsRings
  <2> QED
    BY <1>1, <1>3, <2>1, <2>2 DEF Loose
<1>8. \A c \in A \cup InUse(cut) : c \in Cell /\ c # n
  BY <1>2, <1>7, ListAssumption DEF Cell
<1>9. Lists(g, cut, A)
  BY <1>1, <1>5, <1>6, <1>8, ListsFrame
<1>10. Elsewhere(h, g, InUse(sq))
  <2>1. \A c \in Node : c \notin InUse(sq) => c # n /\ c \in Cell
    BY <1>1, <1>3 DEF Cell
  <2> QED
    BY <1>1, <1>6, <2>1 DEF Elsewhere
<1>11. g.next[n] = NULL /\ g.prev[n] = NULL
  BY <1>3, <1>5 DEF Written
<1> QED
  BY <1>1, <1>2, <1>3, <1>7, <1>9, <1>10, <1>11 DEF UnlinkDone, g

\* The pointers of an insertion.
InsertDone(h, sq, A, l, p, n, put, g) ==
    /\ h.next[At(l, sq[l], p - 1)] = At(l, sq[l], p)
    /\ h.prev[At(l, sq[l], p)] = At(l, sq[l], p - 1)
    /\ Lists(g, put, A) /\ InUse(put) = InUse(sq) \cup {n} /\ Elsewhere(h, g, InUse(put))

LEMMA Inserted ==
    ASSUME NEW h, NEW sq, NEW A, Lists(h, sq, A), NEW l \in A, NEW p \in 1 .. Len(sq[l]) + 1,
           NEW n \in Node, n \notin InUse(sq),
           NEW put, Becomes(sq, put, l, Spliced(sq[l], p, <<n>>)),
           NEW g, g = InsertPtrs(h, n, At(l, sq[l], p - 1), At(l, sq[l], p))
    PROVE  InsertDone(h, sq, A, l, p, n, put, g)
<1> DEFINE m == <<n>>
<1>1. m \in Seq(Node) /\ Len(m) = 1 /\ Len(m) > 0 /\ m[1] = n /\ m[Len(m)] = n
  OBVIOUS
<1>2. IsInjective(m) /\ Range(m) = {n} /\ Chained(h.next, h.prev, m)
  BY DEF IsInjective, Range, Chained
<1>3. Loose(h, m, sq)
  BY <1>1, <1>2 DEF Loose
<1> HIDE DEF m
<1>4. g = PutPtrs(h, l, sq[l], p, m)
  BY <1>1 DEF InsertPtrs, PutPtrs
<1>5. Becomes(sq, put, l, Spliced(sq[l], p, m))
  BY DEF m
<1>6. PutDone(h, sq, A, l, p, m, put, g)
  BY <1>3, <1>4, <1>5, PutIn
<1> QED
  BY <1>2, <1>6 DEF PutDone, InsertDone

-----------------------------------------------------------------------------
(***************************************************************************)
(* Walks.  The function that defines Walk exists, because it does up to    *)
(* every number of steps.                                                  *)
(***************************************************************************)
WalkOne(h, z, f, k) ==
    [v \in Cell \cup {NULL} |-> IF v = z \/ v = NULL \/ k = 0 THEN <<>>
                                ELSE <<v>> \o f[k - 1][h.next[v]]]

WalksUpTo(h, z, f, n) == f = [k \in 0 .. n |-> WalkOne(h, z, f, k)]

LEMMA WalksExist ==
    ASSUME NEW h, NEW z, NEW n \in Nat
    PROVE  \E f : WalksUpTo(h, z, f, n)
<1> DEFINE T == {k \in Nat : ~ \E f : WalksUpTo(h, z, f, k)}
<1> SUFFICES ASSUME T # {} PROVE FALSE
  OBVIOUS
<1>1. PICK k \in T : \A l \in 0 .. k - 1 : l \notin T
  BY LeastNumber
<1>2. CASE k = 0
  <2> DEFINE f == [i \in 0 .. 0 |-> [v \in Cell \cup {NULL} |-> <<>>]]
  <2>1. f = [i \in 0 .. 0 |-> WalkOne(h, z, f, i)]
    <3>1. WalkOne(h, z, f, 0) = [v \in Cell \cup {NULL} |-> <<>>]
      BY DEF WalkOne
    <3>2. \A i \in 0 .. 0 : i = 0
      OBVIOUS
    <3> QED
      BY <3>1, <3>2
  <2> QED
    BY <1>2, <2>1 DEF WalksUpTo
<1>3. CASE k # 0
  <2>1. k - 1 \in Nat /\ k - 1 \notin T
    BY <1>1, <1>3
  <2>2. PICK g : WalksUpTo(h, z, g, k - 1)
    BY <2>1
  <2>3. g = [i \in 0 .. k - 1 |-> WalkOne(h, z, g, i)]
    BY <2>2 DEF WalksUpTo
  <2> DEFINE f == [i \in 0 .. k |-> WalkOne(h, z, g, i)]
  <2>4. \A i \in 0 .. k - 1 : f[i] = g[i]
    <3>1. \A i \in 0 .. k - 1 : i \in 0 .. k
      OBVIOUS
    <3> QED
      BY <2>3, <3>1
  <2>5. ASSUME NEW i \in 0 .. k PROVE f[i] = WalkOne(h, z, f, i)
    <3>1. i = 0 \/ f[i - 1] = g[i - 1]
      BY <2>4
    <3>2. f[i] = WalkOne(h, z, g, i)
      OBVIOUS
    <3> HIDE DEF f
    <3>3. CASE i = 0
      BY <3>2, <3>3 DEF WalkOne
    <3>4. CASE i # 0
      BY <3>1, <3>2, <3>4 DEF WalkOne
    <3> QED
      BY <3>3, <3>4
  <2>6. f = [i \in 0 .. k |-> f[i]]
    OBVIOUS
  <2> HIDE DEF f
  <2>7. WalksUpTo(h, z, f, k)
    BY <2>5, <2>6 DEF WalksUpTo
  <2> QED
    BY <2>7
<1> QED
  BY <1>2, <1>3

LEMMA WalkIsWalked ==
    ASSUME NEW h, NEW z, NEW c
    PROVE  \E f : /\ WalksUpTo(h, z, f, Cardinality(Node))
                  /\ Walk(h, z, c) = f[Cardinality(Node)][c]
<1> DEFINE n == Cardinality(Node)
           from[k \in 0 .. n] ==
               [v \in Cell \cup {NULL} |->
                   IF v = z \/ v = NULL \/ k = 0 THEN <<>>
                   ELSE <<v>> \o from[k - 1][h.next[v]]]
<1>0. n \in Nat
  BY FS_CardinalityType, ListAssumption
<1>1. \E f : f = [k \in 0 .. n |-> WalkOne(h, z, f, k)]
  BY <1>0, WalksExist DEF WalksUpTo
<1>2. from = [k \in 0 .. n |-> WalkOne(h, z, from, k)]
  BY <1>1, Zenon DEF WalkOne
<1>3. Walk(h, z, c) = from[n][c]
  BY Zenon DEF Walk
<1> QED
  BY <1>2, <1>3, Zenon DEF WalksUpTo

\* A sequence without repetitions is no longer than the set it is from, and as
\* long as the set of its elements.
LEMMA InjectiveSize ==
    ASSUME NEW s \in Seq(Node), IsInjective(s)
    PROVE  /\ Len(s) \in Nat /\ Len(s) <= Cardinality(Node) /\ Cardinality(Node) \in Nat
           /\ Cardinality(Range(s)) = Len(s)
<1>1. /\ Len(s) \in Nat /\ s \in [1 .. Len(s) -> Node] /\ DOMAIN s = 1 .. Len(s)
      /\ \A i, j \in 1 .. Len(s) : s[i] = s[j] => i = j
  BY LenProperties DEF IsInjective
<1>2. IsFiniteSet(1 .. Len(s)) /\ Cardinality(1 .. Len(s)) = Len(s)
  BY <1>1, FS_Interval
<1>3. IsFiniteSet(Node) /\ Cardinality(Node) \in Nat
  BY ListAssumption, FS_CardinalityType
<1>4. s \in Injection(1 .. Len(s), Node)
  BY <1>1 DEF Injection, IsInjective
<1>5. Len(s) <= Cardinality(Node)
  BY <1>2, <1>3, <1>4, FS_Injection
<1>6. s \in [1 .. Len(s) -> Range(s)] /\ \A n \in Range(s) : \E i \in 1 .. Len(s) : s[i] = n
  BY <1>1 DEF Range
<1>7. s \in Bijection(1 .. Len(s), Range(s))
  BY <1>1, <1>6 DEF Bijection, Injection, Surjection, IsInjective
<1>8. Cardinality(Range(s)) = Len(s)
  BY <1>2, <1>7, FS_Bijection DEF ExistsBijection
<1> QED
  BY <1>1, <1>3, <1>5, <1>8

\* A walk reads the sequence that is threaded up to its end.
LEMMA WalkReads ==
    ASSUME NEW h, NEW z \in Cell \cup {NULL}, NEW s \in Seq(Node), IsInjective(s),
           z \notin Range(s), Threaded(h.next, z, s)
    PROVE  Walk(h, z, At(z, s, 1)) = s
<1> DEFINE N == Cardinality(Node)
           n == Len(s)
<1>1. n \in Nat /\ N \in Nat /\ n <= N
  BY InjectiveSize
<1>2. PICK f : WalksUpTo(h, z, f, N) /\ Walk(h, z, At(z, s, 1)) = f[N][At(z, s, 1)]
  BY WalkIsWalked
<1>3. \A k \in 0 .. N : f[k] = WalkOne(h, z, f, k)
  <2>1. f = [k \in 0 .. N |-> WalkOne(h, z, f, k)]
    BY <1>2 DEF WalksUpTo
  <2> QED
    BY <2>1, Zenon
<1>4. ASSUME NEW k \in 0 .. N, NEW v \in Cell \cup {NULL}
      PROVE  f[k][v] = IF v = z \/ v = NULL \/ k = 0 THEN <<>> ELSE <<v>> \o f[k - 1][h.next[v]]
  BY <1>3 DEF WalkOne
<1> DEFINE Fine(j) == f[N - j][At(z, s, j + 1)] = SubSeq(s, j + 1, n)
           T == {j \in 0 .. n : ~Fine(n - j)}
<1>5. T = {}
  <2> SUFFICES ASSUME T # {} PROVE FALSE
    OBVIOUS
  <2>1. T \in SUBSET Nat
    BY <1>1
  <2>2. PICK j \in T : \A m \in 0 .. j - 1 : m \notin T
    BY <2>1, LeastNumber
  <2>3. j \in Nat /\ j \in 0 .. n /\ ~Fine(n - j)
    BY <1>1, <2>2
  <2>4. CASE j = 0
    <3>1. n - j = n /\ n + 1 \notin 1 .. n /\ N - n \in 0 .. N /\ n + 1 > n /\ n + 1 \in Int
      BY <1>1, <2>4
    <3>2. f[N - n][z] = <<>>
      BY <1>4, <3>1
    <3>3. SubSeq(s, n + 1, n) = <<>>
      BY <1>1, <3>1, SubSeqEmpty
    <3>4. At(z, s, n + 1) = z
      BY <3>1 DEF At
    <3> QED
      BY <2>3, <3>1, <3>2, <3>3, <3>4
  <2>5. CASE j # 0
    <3> DEFINE i == n - j + 1
    <3>1. /\ j - 1 \in 0 .. j - 1 /\ j - 1 \in 0 .. n /\ n - (j - 1) = i /\ n - j = i - 1
          /\ i \in 1 .. n /\ n \in i .. n /\ N - (i - 1) \in 0 .. N /\ N - (i - 1) # 0
          /\ N - (i - 1) - 1 = N - i /\ (i - 1) + 1 = i
      <4>1. j \in Int /\ 1 <= j /\ j <= n
        BY <1>1, <2>3, <2>5
      <4> HIDE DEF n, N
      <4> QED
        BY <1>1, <4>1
    <3> HIDE DEF i
    <3>2. Fine(i)
      BY <2>2, <3>1
    <3>3. /\ At(z, s, i) = s[i] /\ s[i] \in Node /\ s[i] # z /\ s[i] # NULL /\ s[i] \in Cell
          /\ h.next[s[i]] = At(z, s, i + 1)
      <4>1. s[i] \in Node /\ s[i] \in Range(s) /\ At(z, s, i) = s[i]
        BY <3>1 DEF Range, At
      <4>2. s[i] \in Cell /\ s[i] # NULL
        BY <4>1, ListAssumption DEF Cell
      <4> QED
        BY <3>1, <4>1, <4>2 DEF Threaded
    <3>4. f[N - (i - 1)][s[i]] = <<s[i]>> \o f[N - i][At(z, s, i + 1)]
      <4> DEFINE k == N - (i - 1)
      <4>1. k \in 0 .. N /\ k # 0 /\ k - 1 = N - i
        BY <3>1
      <4> HIDE DEF k
      <4>2. f[k][s[i]] = <<s[i]>> \o f[k - 1][h.next[s[i]]]
        BY <1>4, <3>3, <4>1
      <4> QED
        BY <3>3, <4>1, <4>2 DEF k
    <3>5. SubSeq(s, i, n) = <<s[i]>> \o SubSeq(s, i + 1, n)
      BY <3>1, SubSeqRecursiveFirst
    <3>6. Fine(i - 1)
      BY <3>1, <3>2, <3>3, <3>4, <3>5
    <3> QED
      BY <2>3, <3>1, <3>6
  <2> QED
    BY <2>4, <2>5
<1>6. Fine(0)
  <2>1. n \in 0 .. n /\ n - n = 0
    BY <1>1
  <2> QED
    BY <1>5, <2>1
<1>7. N - 0 = N /\ 0 + 1 = 1
  BY <1>1
<1>8. SubSeq(s, 1, n) = s
  BY SubSeqFull
<1> QED
  BY <1>2, <1>6, <1>7, <1>8

\* A walk that starts in the middle reads the rest.
LEMMA WalkFrom ==
    ASSUME NEW h, NEW z \in Cell \cup {NULL}, NEW s \in Seq(Node), IsInjective(s),
           z \notin Range(s), Threaded(h.next, z, s), NEW i \in 1 .. Len(s) + 1
    PROVE  Walk(h, z, At(z, s, i)) = SubSeq(s, i, Len(s))
<1> DEFINE n == Len(s)
           t == SubSeq(s, i, n)
<1>1. n \in Nat /\ n \in i - 1 .. n /\ DOMAIN s = 1 .. n /\ i \in Nat /\ 1 <= i /\ i <= n + 1
  OBVIOUS
<1>2. t \in Seq(Node) /\ Len(t) = n - i + 1 /\ \A x \in 1 .. n - i + 1 : t[x] = s[x + i - 1]
  BY <1>1, Slice
<1> HIDE DEF t, n
<1>3. DOMAIN t = 1 .. n - i + 1
  BY <1>2
<1>4. \A x \in 1 .. n - i + 1 : x + i - 1 \in 1 .. n
  BY <1>1
<1>5. IsInjective(t)
  <2> SUFFICES ASSUME NEW x \in 1 .. n - i + 1, NEW y \in 1 .. n - i + 1, t[x] = t[y] PROVE x = y
    BY <1>3 DEF IsInjective
  <2>1. x + i - 1 = y + i - 1
    BY <1>1, <1>2, <1>4 DEF IsInjective
  <2> QED
    BY <1>1, <2>1
<1>6. z \notin Range(t)
  BY <1>1, <1>2, <1>3, <1>4 DEF Range
<1>7. ASSUME NEW x \in 1 .. n - i + 2 PROVE At(z, t, x) = At(z, s, x + i - 1)
  <2>1. CASE x \in 1 .. n - i + 1
    BY <1>2, <1>4, <2>1 DEF At, n
  <2>2. CASE x \notin 1 .. n - i + 1
    <3>1. x + i - 1 \notin 1 .. n
      BY <1>1, <2>2
    <3> QED
      BY <1>2, <2>2, <3>1 DEF At, n
  <2> QED
    BY <2>1, <2>2
<1>8. Threaded(h.next, z, t)
  <2> SUFFICES ASSUME NEW x \in 1 .. n - i + 1 PROVE h.next[t[x]] = At(z, t, x + 1)
    BY <1>2 DEF Threaded
  <2>1. x + 1 \in 1 .. n - i + 2 /\ (x + 1) + i - 1 = (x + i - 1) + 1
    BY <1>1
  <2>2. t[x] = s[x + i - 1] /\ x + i - 1 \in 1 .. n
    BY <1>2, <1>4
  <2>3. h.next[s[x + i - 1]] = At(z, s, (x + i - 1) + 1)
    BY <2>2 DEF Threaded, n
  <2> QED
    BY <1>7, <2>1, <2>2, <2>3
<1>9. Walk(h, z, At(z, t, 1)) = t
  BY <1>2, <1>5, <1>6, <1>8, WalkReads
<1>10. 1 \in 1 .. n - i + 2 /\ 1 + i - 1 = i
  BY <1>1
<1> QED
  BY <1>7, <1>9, <1>10 DEF t, n

\* The loop behind a splice counts the slice.
LEMMA MovedIsLength ==
    ASSUME NEW h, NEW m \in Seq(Node), IsInjective(m), Len(m) > 0, Chained(h.next, h.prev, m)
    PROVE  Moved(h, m[1], m[Len(m)]) = Len(m)
<1> DEFINE k == Len(m)
           z == m[k]
           t == SubSeq(m, 1, k - 1)
<1>1. /\ k \in Nat /\ k > 0 /\ DOMAIN m = 1 .. k /\ 1 \in 1 .. Len(m) + 1 /\ k - 1 \in 1 - 1 .. Len(m)
      /\ k \in 1 .. k /\ \A x \in 1 .. k : m[x] \in Node
      /\ \A x, y \in 1 .. k : m[x] = m[y] => x = y
  BY DEF IsInjective
<1>2. t \in Seq(Node) /\ Len(t) = k - 1 /\ \A x \in 1 .. k - 1 : t[x] = m[x]
  BY <1>1, Slice
<1> HIDE DEF t, k
<1>3. /\ DOMAIN t = 1 .. k - 1 /\ \A x \in 1 .. k - 1 : x \in 1 .. k /\ x # k
  BY <1>1, <1>2
<1>4. IsInjective(t) /\ z \notin Range(t) /\ z \in Cell
  BY <1>1, <1>2, <1>3 DEF IsInjective, Range, Cell
<1>5. \A x \in 1 .. k : At(z, t, x) = m[x]
  BY <1>1, <1>2 DEF At
<1>6. Threaded(h.next, z, t)
  <2> SUFFICES ASSUME NEW x \in 1 .. k - 1 PROVE h.next[t[x]] = At(z, t, x + 1)
    BY <1>2 DEF Threaded
  <2>1. x + 1 \in 1 .. k
    BY <1>1
  <2>2. h.next[m[x]] = m[x + 1]
    BY DEF Chained, k
  <2> QED
    BY <1>2, <1>5, <2>1, <2>2
<1>7. Walk(h, z, At(z, t, 1)) = t
  BY <1>2, <1>4, <1>6, WalkReads
<1>8. 1 \in 1 .. k /\ (k - 1) + 1 = k
  BY <1>1
<1> QED
  BY <1>2, <1>5, <1>7, <1>8 DEF Moved, k

LEMMA RingIsThreaded ==
    ASSUME NEW h, NEW sq, NEW A, Lists(h, sq, A), NEW l \in A
    PROVE  /\ l \in Cell \cup {NULL} /\ sq[l] \in Seq(Node) /\ IsInjective(sq[l]) /\ l \notin Range(sq[l])
           /\ Threaded(h.next, l, sq[l]) /\ h.next[l] = At(l, sq[l], 1)
           /\ h.prev[l] = At(l, sq[l], Len(sq[l]))
<1>1. OnRing(l, sq[l]) /\ Linked(h.next, h.prev, l, sq[l]) /\ l \in Header
  BY ListsRings DEF Lists
<1> DEFINE s == sq[l]
<1> HIDE DEF s
<1>2. OnRing(l, s) /\ Linked(h.next, h.prev, l, s)
  BY <1>1 DEF s
<1>3. Len(s) \in Nat /\ l \in Cell /\ l \notin Node /\ s \in Seq(Node) /\ IsInjective(s)
      /\ At(l, s, 0) = l /\ At(l, s, Len(s) + 1) = l
      /\ \A x \in 1 .. Len(s) : At(l, s, x) = s[x] /\ s[x] # l /\ x \in 0 .. Len(s)
  <2>1. s \in Seq(Node) /\ IsInjective(s)
    BY <1>2 DEF OnRing
  <2> QED
    BY <1>2, <2>1, RingPlaces
<1>4. 0 \in 0 .. Len(s) /\ 0 + 1 = 1 /\ Len(s) \in 0 .. Len(s)
  BY <1>3
<1>5. h.next[l] = At(l, s, 1) /\ h.prev[l] = At(l, s, Len(s))
  <2>1. h.next[At(l, s, 0)] = At(l, s, 1)
    BY <1>2, <1>4 DEF Linked
  <2>2. h.prev[At(l, s, Len(s) + 1)] = At(l, s, Len(s))
    BY <1>2, <1>4 DEF Linked
  <2> QED
    BY <1>3, <2>1, <2>2
<1>6. Threaded(h.next, l, s)
  BY <1>2, <1>3 DEF Linked, Threaded
<1>7. l \notin Range(s)
  BY <1>3 DEF Range
<1> QED
  BY <1>3, <1>5, <1>6, <1>7 DEF s

LEMMA RingWalk ==
    ASSUME NEW h, NEW sq, NEW A, Lists(h, sq, A), NEW l \in A
    PROVE  Walk(h, l, h.next[l]) = sq[l]
<1>1. /\ l \in Cell \cup {NULL} /\ sq[l] \in Seq(Node) /\ IsInjective(sq[l]) /\ l \notin Range(sq[l])
      /\ Threaded(h.next, l, sq[l]) /\ h.next[l] = At(l, sq[l], 1)
  BY RingIsThreaded
<1>2. Walk(h, l, At(l, sq[l], 1)) = sq[l]
  BY <1>1, WalkReads
<1> QED
  BY <1>1, <1>2

-----------------------------------------------------------------------------
(***************************************************************************)
(* Order.                                                                  *)
(***************************************************************************)
\* What is in order from each place to the next is in order.
LEMMA SortedIsInOrder ==
    ASSUME NEW s \in Seq(Node)
    PROVE  InOrder(s) <=> Sorted(s)
<1> DEFINE n == Len(s)
<1>1. n \in Nat /\ \A i \in 1 .. n : s[i] \in Node
  OBVIOUS
<1>2. \A i \in 1 .. n : KeyOf[s[i]] \in Int
  BY <1>1, ListAssumption
<1> HIDE DEF n
<1>3. ASSUME Sorted(s) PROVE InOrder(s)
  <2>1. \A i \in 1 .. n - 1 : i \in 1 .. n /\ i + 1 \in 1 .. n /\ i < i + 1
    BY <1>1
  <2> QED
    BY <1>3, <2>1 DEF Sorted, InOrder, n
<1>4. ASSUME InOrder(s), NEW i \in 1 .. n
      PROVE  \A j \in 1 .. n : i < j => KeyOf[s[i]] <= KeyOf[s[j]]
  <2> DEFINE T == {j \in 1 .. n : i < j /\ ~(KeyOf[s[i]] <= KeyOf[s[j]])}
  <2> SUFFICES ASSUME T # {} PROVE FALSE
    OBVIOUS
  <2>1. T \in SUBSET Nat
    BY <1>1
  <2>2. PICK j \in T : \A m \in 0 .. j - 1 : m \notin T
    BY <2>1, LeastNumber
  <2>3. /\ j \in 1 .. n /\ i < j /\ ~(KeyOf[s[i]] <= KeyOf[s[j]])
        /\ j - 1 \in 1 .. n - 1 /\ j - 1 \in 1 .. n /\ (j - 1) + 1 = j /\ j - 1 \in 0 .. j - 1
        /\ (i = j - 1 \/ i < j - 1)
    BY <1>1, <2>2
  <2>4. KeyOf[s[j - 1]] <= KeyOf[s[(j - 1) + 1]]
    BY <1>4, <2>3 DEF InOrder, n
  <2>5. i = j - 1 \/ KeyOf[s[i]] <= KeyOf[s[j - 1]]
    BY <2>2, <2>3
  <2>6. KeyOf[s[i]] \in Int /\ KeyOf[s[j]] \in Int /\ KeyOf[s[j - 1]] \in Int
    BY <1>2, <2>3
  <2> QED
    BY <2>3, <2>4, <2>5, <2>6
<1> QED
  BY <1>3, <1>4 DEF Sorted, n

LEMMA IsSortedReads ==
    ASSUME NEW h, NEW sq, NEW A, Lists(h, sq, A), NEW l \in A
    PROVE  list_is_sorted(h, l) <=> Sorted(sq[l])
<1> DEFINE s == sq[l]
           n == Len(s)
<1>1. /\ s \in Seq(Node) /\ l \notin Range(s) /\ Threaded(h.next, l, s)
      /\ Walk(h, l, h.next[l]) = s
  BY RingIsThreaded, RingWalk
<1> HIDE DEF s
<1>2. n \in Nat /\ DOMAIN s = 1 .. n /\ Range(s) = {s[i] : i \in 1 .. n}
  BY <1>1 DEF Range
<1> HIDE DEF n
<1>3. list_is_sorted(h, l) <=>
         \A i \in 1 .. n : h.next[s[i]] # l => KeyOf[s[i]] <= KeyOf[h.next[s[i]]]
  BY <1>1, <1>2 DEF list_is_sorted
<1>4. \A i \in 1 .. n : h.next[s[i]] = IF i = n THEN l ELSE s[i + 1]
  <2> SUFFICES ASSUME NEW i \in 1 .. n PROVE h.next[s[i]] = IF i = n THEN l ELSE s[i + 1]
    OBVIOUS
  <2>1. h.next[s[i]] = At(l, s, i + 1)
    BY <1>1 DEF Threaded, n
  <2>2. i + 1 \in 1 .. n <=> i # n
    BY <1>2
  <2> QED
    BY <2>1, <2>2 DEF At, n
<1>5. \A i \in 1 .. n : i = n \/ (i \in 1 .. n - 1 /\ s[i + 1] # l)
  <2> SUFFICES ASSUME NEW i \in 1 .. n, i # n PROVE i \in 1 .. n - 1 /\ s[i + 1] # l
    OBVIOUS
  <2>1. i \in 1 .. n - 1 /\ i + 1 \in 1 .. n
    BY <1>2
  <2> QED
    BY <1>1, <1>2, <2>1
<1>6. \A i \in 1 .. n - 1 : i \in 1 .. n /\ i # n
  BY <1>2
<1>7. list_is_sorted(h, l) <=> InOrder(s)
  BY <1>3, <1>4, <1>5, <1>6 DEF InOrder, n
<1> QED
  BY <1>1, <1>7, SortedIsInOrder DEF s

-----------------------------------------------------------------------------
(***************************************************************************)
(* Powers of two, known to the provers by the subsets of a set only.       *)
(***************************************************************************)
LEMMA PowerIsNat == ASSUME NEW n \in Nat PROVE Pow(n) \in Nat
<1>1. IsFiniteSet(1 .. n) /\ Cardinality(1 .. n) = n
  BY FS_Interval
<1> QED
  BY <1>1, FS_SUBSET, FS_CardinalityType DEF Pow

LEMMA PowerDoubles == ASSUME NEW n \in Nat PROVE Pow(n + 1) = 2 * Pow(n)
<1> DEFINE A == 1 .. n
           x == n + 1
           B == 1 .. x
           P == SUBSET A
           f == [Z \in P |-> Z \cup {x}]
           Q == {Z \cup {x} : Z \in P}
<1>1. B = A \cup {x} /\ x \notin A
  OBVIOUS
<1>2. /\ IsFiniteSet(A) /\ Cardinality(A) = n
      /\ IsFiniteSet(B) /\ Cardinality(B) = n + 1
  BY FS_Interval
<1>3. IsFiniteSet(P) /\ Cardinality(P) = Pow(n) /\ Cardinality(SUBSET B) = Pow(n + 1)
  BY <1>2, FS_SUBSET DEF Pow
<1> HIDE DEF A, B, x
<1>4. SUBSET B = P \cup Q
  <2>1. ASSUME NEW Z \in SUBSET B, x \in Z PROVE Z \in Q
    <3>1. Z \ {x} \in P /\ Z = (Z \ {x}) \cup {x}
      BY <1>1, <2>1
    <3> QED
      BY <3>1
  <2> QED
    BY <1>1, <2>1
<1>5. P \cap Q = {}
  BY <1>1
<1>6. IsFiniteSet(Q) /\ Cardinality(Q) = Pow(n)
  <2>1. f \in [P -> Q] /\ DOMAIN f = P /\ \A Z \in P : f[Z] = Z \cup {x}
    OBVIOUS
  <2>2. ASSUME NEW Z \in P, NEW T \in P, f[Z] = f[T] PROVE Z = T
    <3>1. Z \cup {x} = T \cup {x} /\ x \notin Z /\ x \notin T
      BY <1>1, <2>1, <2>2
    <3> QED
      BY <3>1
  <2>3. \A T \in Q : \E Z \in P : f[Z] = T
    BY <2>1
  <2> HIDE DEF f, P, Q
  <2>4. f \in Bijection(P, Q)
    BY <2>1, <2>2, <2>3 DEF Bijection, Injection, Surjection, IsInjective
  <2>5. ExistsBijection(P, Q)
    BY <2>4 DEF ExistsBijection
  <2> QED
    BY <1>3, <2>5, FS_Bijection
<1> HIDE DEF P, Q
<1>7. Cardinality(P \cup Q) = Cardinality(P) + Cardinality(Q) - Cardinality(P \cap Q)
  BY <1>3, <1>6, FS_Union
<1>8. Cardinality({}) = 0
  BY FS_EmptySet
<1>9. Pow(n + 1) = Pow(n) + Pow(n) - 0
  BY <1>3, <1>4, <1>5, <1>6, <1>7, <1>8
<1> QED
  BY <1>9, PowerIsNat

-----------------------------------------------------------------------------
(***************************************************************************)
(* list_extract and list_transfer: a slice of l goes to the end of d,      *)
(* which may be the same list.                                             *)
(***************************************************************************)
Resequenced(sq, new, d, l, i, j) ==
    \E cut : /\ Becomes(sq, cut, l, Without(sq[l], i, j))
             /\ Becomes(cut, new, d, cut[d] \o SubSeq(sq[l], i, j))

SpliceDone(h, sq, A, d, l, i, j, new, g) ==
    /\ Lists(g, new, A) /\ InUse(new) = InUse(sq) /\ Elsewhere(h, g, InUse(sq))
    /\ Moved(g, sq[l][i], sq[l][j]) = j - i + 1
    /\ d = l => Len(new[l]) = Len(sq[l])
    /\ d # l => /\ new[d] = sq[d] \o SubSeq(sq[l], i, j) /\ new[l] = Without(sq[l], i, j)
                /\ Len(new[d]) = Len(sq[d]) + (j - i + 1)
                /\ Len(new[l]) = Len(sq[l]) - (j - i + 1)
    /\ \A k \in Header \ {d, l} : new[k] = sq[k]

LEMMA Spliced2 ==
    ASSUME NEW h, NEW sq, NEW A, Lists(h, sq, A), NEW d \in A, NEW l \in A,
           NEW i \in 1 .. Len(sq[l]), NEW j \in i .. Len(sq[l]),
           NEW new, Resequenced(sq, new, d, l, i, j)
    PROVE  SpliceDone(h, sq, A, d, l, i, j, new, Extracted(h, d, sq[l][i], sq[l][j]))
<1> DEFINE g1 == CutPtrs(h, l, sq[l], i, j)
           g  == Extracted(h, d, sq[l][i], sq[l][j])
           m  == SubSeq(sq[l], i, j)
<1>1. PICK cut : /\ Becomes(sq, cut, l, Without(sq[l], i, j))
                 /\ Becomes(cut, new, d, cut[d] \o m)
  BY DEF Resequenced
<1>2. CutDone(h, sq, A, l, i, j, m, cut, g1)
  BY <1>1, CutOut
<1>3. /\ At(l, sq[l], i - 1) = h.prev[sq[l][i]] /\ At(l, sq[l], j + 1) = h.next[sq[l][j]]
      /\ Lists(g1, cut, A) /\ Elsewhere(h, g1, InUse(sq))
      /\ Loose(g1, m, cut) /\ InUse(sq) = InUse(cut) \cup Range(m)
      /\ Len(m) = j - i + 1 /\ m[1] = sq[l][i] /\ m[Len(m)] = sq[l][j]
  BY <1>2 DEF CutDone
<1>4. g1 = LinkUp(h, h.prev[sq[l][i]], h.next[sq[l][j]])
  BY <1>3 DEF CutPtrs
<1>5. m \in Seq(Node) /\ IsInjective(m) /\ Len(m) > 0
  BY <1>3 DEF Loose
<1>6. /\ l \in Header /\ d \in Header /\ sq \in [Header -> Seq(Node)] /\ cut \in [Header -> Seq(Node)]
      /\ d \in Cell /\ cut[d] \in Seq(Node) /\ Len(cut[d]) \in Nat
      /\ sq[l] \in Seq(Node) /\ Len(sq[l]) \in Nat /\ sq[d] \in Seq(Node) /\ Len(sq[d]) \in Nat
  <2>1. l \in Header /\ d \in Header /\ sq \in [Header -> Seq(Node)] /\ cut \in [Header -> Seq(Node)]
    BY <1>3 DEF Lists
  <2>2. d \in Cell
    BY <2>1 DEF Cell
  <2>3. cut[d] \in Seq(Node) /\ sq[l] \in Seq(Node) /\ sq[d] \in Seq(Node)
    BY <2>1
  <2> QED
    BY <2>1, <2>2, <2>3
<1> HIDE DEF m, g1
<1> DEFINE p == Len(cut[d]) + 1
<1>7. p \in 1 .. Len(cut[d]) + 1 /\ p - 1 = Len(cut[d]) /\ At(d, cut[d], p) = d
  BY <1>6 DEF At
<1>8. g1.prev[d] = At(d, cut[d], Len(cut[d]))
  BY <1>3, RingIsThreaded
<1>9. g = LinkUp(LinkUp(g1, g1.prev[d], m[1]), m[Len(m)], d)
  BY <1>3, <1>4 DEF Extracted, Graft
<1>10. g = PutPtrs(g1, d, cut[d], p, m)
  BY <1>7, <1>8, <1>9 DEF PutPtrs
<1>11. Becomes(cut, new, d, Spliced(cut[d], p, m))
  BY <1>1, <1>5, <1>6, ConcatIsSpliced DEF m
<1> HIDE DEF p, g
<1>12. PutDone(g1, cut, A, d, p, m, new, g)
  BY <1>3, <1>7, <1>10, <1>11, PutIn DEF p
<1>13. /\ Lists(g, new, A) /\ InUse(new) = InUse(cut) \cup Range(m)
       /\ Chained(g.next, g.prev, m) /\ Elsewhere(g1, g, InUse(new))
  BY <1>12 DEF PutDone
<1>14. Moved(g, m[1], m[Len(m)]) = Len(m)
  BY <1>5, <1>13, MovedIsLength
<1>15. InUse(new) = InUse(sq)
  BY <1>3, <1>13
<1>16. Elsewhere(h, g, InUse(sq))
  BY <1>3, <1>13, <1>15 DEF Elsewhere
<1>17. /\ cut[l] = Without(sq[l], i, j) /\ \A k \in Header \ {l} : cut[k] = sq[k]
       /\ new[d] = cut[d] \o m /\ \A k \in Header \ {d} : new[k] = cut[k]
  BY <1>1, <1>6 DEF Becomes, m
<1>18. Len(cut[l]) = Len(sq[l]) - (j - i + 1)
  <2>1. Len(Without(sq[l], i, j)) = Len(sq[l]) - (j - i + 1)
    BY <1>6, WithoutSlice
  <2> QED
    BY <1>17, <2>1
<1>19. Len(cut[d] \o m) = Len(cut[d]) + (j - i + 1)
  <2>1. Len(cut[d] \o m) = Len(cut[d]) + Len(m)
    BY <1>5, <1>6
  <2>2. Len(m) = j - i + 1
    BY <1>3
  <2> QED
    BY <2>1, <2>2
<1>20. ASSUME d # l
       PROVE  /\ new[d] = sq[d] \o m /\ new[l] = Without(sq[l], i, j)
              /\ Len(new[d]) = Len(sq[d]) + (j - i + 1)
              /\ Len(new[l]) = Len(sq[l]) - (j - i + 1)
  BY <1>6, <1>17, <1>18, <1>19, <1>20
<1>21. ASSUME d = l PROVE Len(new[l]) = Len(sq[l])
  BY <1>6, <1>17, <1>18, <1>19, <1>21
<1>22. \A k \in Header \ {d, l} : new[k] = sq[k]
  BY <1>17
<1> QED
  BY <1>3, <1>13, <1>14, <1>15, <1>16, <1>20, <1>21, <1>22 DEF SpliceDone, g, m
=============================================================================
