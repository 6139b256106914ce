----------------------------- MODULE HashProofs -----------------------------
(***************************************************************************)
(* Proofs about Hash, for any set of keys, any hash function and any       *)
(* initial size that is a power of two: the table verifies at every step,  *)
(* its load stays bounded, and it implements NodeSet, so a scan returns    *)
(* each node once whatever the client deletes meanwhile.                   *)
(*                                                                         *)
(* The chains are sequences.  The proofs first translate what the code     *)
(* does to a chain into sets of nodes (what is on it, and what is behind a *)
(* node on it) and then reason about sets only.                            *)
(***************************************************************************)
EXTENDS Hash, FiniteSetTheorems, WellFoundedInduction, SequenceTheorems, TLAPS

\* Every set of numbers has a least one: the principle behind the proofs that
\* would otherwise be by induction.
LEMMA LeastNumber ==
    ASSUME NEW T \in SUBSET Nat, T # {}
    PROVE  \E n \in T : \A m \in 0 .. n - 1 : m \notin T
<1>1. IsWellFoundedOn(OpToRel(<, Nat), Nat)
  BY NatLessThanWellFounded
<1>2. PICK n \in T : \A y \in T : ~(<<y, n>> \in OpToRel(<, Nat))
  BY <1>1, WFMin
<1>3. \A m \in 0 .. n - 1 : <<m, n>> \in OpToRel(<, Nat)
  BY DEF OpToRel
<1> QED
  BY <1>2, <1>3

-----------------------------------------------------------------------------
(***************************************************************************)
(* Powers of two.  The provers know nothing of exponentiation but that a   *)
(* set of n elements has 2^n subsets.                                      *)
(***************************************************************************)
Pow(n) == 2^n

LEMMA PowerIsNat == ASSUME NEW n \in Nat PROVE Pow(n) \in Nat
<1>1. IsFiniteSet(1 .. n) /\ Cardinality(1 .. n) = n
  BY FS_Interval
<1> QED
  BY <1>1, FS_SUBSET, FS_CardinalityType DEF Pow

LEMMA PowerDoubles == ASSUME NEW n \in Nat PROVE Pow(n + 1) = 2 * Pow(n)
<1> DEFINE A == 1 .. n
           x == n + 1
           B == 1 .. x
           P == SUBSET A
           f == [Z \in P |-> Z \cup {x}]
           Q == {Z \cup {x} : Z \in P}
<1>1. B = A \cup {x} /\ x \notin A
  OBVIOUS
<1>2. /\ IsFiniteSet(A) /\ Cardinality(A) = n
      /\ IsFiniteSet(B) /\ Cardinality(B) = n + 1
  BY FS_Interval
<1>3. IsFiniteSet(P) /\ Cardinality(P) = Pow(n) /\ Cardinality(SUBSET B) = Pow(n + 1)
  BY <1>2, FS_SUBSET DEF Pow
<1> HIDE DEF A, B, x
<1>4. SUBSET B = P \cup Q
  <2>1. ASSUME NEW Z \in SUBSET B, x \in Z PROVE Z \in Q
    <3>1. Z \ {x} \in P /\ Z = (Z \ {x}) \cup {x}
      BY <1>1, <2>1
    <3> QED
      BY <3>1
  <2> QED
    BY <1>1, <2>1
<1>5. P \cap Q = {}
  BY <1>1
<1>6. IsFiniteSet(Q) /\ Cardinality(Q) = Pow(n)
  <2>1. f \in [P -> Q] /\ DOMAIN f = P /\ \A Z \in P : f[Z] = Z \cup {x}
    OBVIOUS
  <2>2. ASSUME NEW Z \in P, NEW T \in P, f[Z] = f[T] PROVE Z = T
    <3>1. Z \cup {x} = T \cup {x} /\ x \notin Z /\ x \notin T
      BY <1>1, <2>1, <2>2
    <3> QED
      BY <3>1
  <2>3. \A T \in Q : \E Z \in P : f[Z] = T
    BY <2>1
  <2> HIDE DEF f, P, Q
  <2>4. f \in Bijection(P, Q)
    BY <2>1, <2>2, <2>3 DEF Bijection, Injection, Surjection, IsInjective
  <2>5. ExistsBijection(P, Q)
    BY <2>4 DEF ExistsBijection
  <2> QED
    BY <1>3, <2>5, FS_Bijection
<1> HIDE DEF P, Q
<1>7. Cardinality(P \cup Q) = Cardinality(P) + Cardinality(Q) - Cardinality(P \cap Q)
  BY <1>3, <1>6, FS_Union
<1>8. Cardinality({}) = 0
  BY FS_EmptySet
<1>9. Pow(n + 1) = Pow(n) + Pow(n) - 0
  BY <1>3, <1>4, <1>5, <1>6, <1>7, <1>8
<1> QED
  BY <1>9, PowerIsNat

\* A power of two is a number above its exponent.
LEMMA PowerBounds == ASSUME NEW n \in Nat PROVE Pow(n) >= 1 /\ n <= Pow(n)
<1> DEFINE T == {k \in Nat : ~(Pow(k) >= 1 /\ k <= Pow(k))}
<1> SUFFICES ASSUME T # {} PROVE FALSE
  OBVIOUS
<1>1. PICK k \in T : \A m \in 0 .. k - 1 : m \notin T
  BY LeastNumber
<1>2. CASE k = 0
  <2>1. Pow(0) = 1
    BY DEF Pow
  <2> QED
    BY <1>2, <2>1
<1>3. CASE k # 0
  <2>1. k - 1 \in Nat /\ k - 1 \in 0 .. k - 1 /\ (k - 1) + 1 = k
    BY <1>3
  <2>2. Pow(k - 1) >= 1 /\ k - 1 <= Pow(k - 1)
    BY <1>1, <2>1
  <2>3. Pow(k) = 2 * Pow(k - 1) /\ Pow(k - 1) \in Nat
    BY <2>1, PowerDoubles, PowerIsNat
  <2>4. Pow(k) >= 1 /\ k <= Pow(k)
    BY <2>1, <2>2, <2>3
  <2> QED
    BY <2>4
<1> QED
  BY <1>2, <1>3

\* What the two marks always are.
Mark(x) == \E n \in Nat : x = Pow(n)

LEMMA Marks ==
    ASSUME NEW x, Mark(x)
    PROVE  /\ x \in Nat /\ x >= 1 /\ PowerOfTwo(x) /\ Mark(2 * x)
           /\ x > 1 => x % 2 = 0 /\ Mark(x \div 2)
<1>1. PICK n \in Nat : x = Pow(n)
  BY DEF Mark
<1>2. x \in Nat /\ x >= 1 /\ n <= x
  BY <1>1, PowerIsNat, PowerBounds
<1>3. PowerOfTwo(x)
  BY <1>1, <1>2 DEF PowerOfTwo, Pow
<1>4. Mark(2 * x)
  BY <1>1, PowerDoubles DEF Mark
<1>5. ASSUME x > 1 PROVE x % 2 = 0 /\ Mark(x \div 2)
  <2>1. Pow(0) = 1
    BY DEF Pow
  <2>2. n - 1 \in Nat /\ (n - 1) + 1 = n
    BY <1>1, <1>5, <2>1
  <2>3. x = 2 * Pow(n - 1) /\ Pow(n - 1) \in Nat
    BY <1>1, <2>2, PowerDoubles, PowerIsNat
  <2>4. x % 2 = 0 /\ x \div 2 = Pow(n - 1)
    BY <2>3
  <2> QED
    BY <2>2, <2>4 DEF Mark
<1> QED
  BY <1>2, <1>3, <1>4, <1>5

-----------------------------------------------------------------------------
(***************************************************************************)
(* Chains.                                                                 *)
(***************************************************************************)
\* The nodes behind k on the chain s.
Behind(s, k) == {x \in ToSet(s) : \E i, j \in DOMAIN s : i < j /\ s[i] = k /\ s[j] = x}

IsChain(s) == s \in Seq(Key) /\ IsInjective(s)

LEMMA MinOfOne == ASSUME NEW p \in Int PROVE Min({p}) = p
BY DEF Min

LEMMA RestOfChain ==
    ASSUME NEW s, IsChain(s), NEW p \in 1 .. Len(s)
    PROVE  /\ SubSeq(s, p + 1, Len(s)) \in Seq(Key)
           /\ Len(SubSeq(s, p + 1, Len(s))) = Len(s) - p
           /\ \A i \in 1 .. Len(s) - p : SubSeq(s, p + 1, Len(s))[i] = s[p + i]
<1> DEFINE l == Len(s)
           f == p + 1
<1>0. p \in Nat /\ l \in Nat /\ f \in Int /\ f <= l + 1 /\ l - f + 1 = l - p
  BY DEF IsChain
<1>1. \A i \in f .. l : s[i] \in Key
  BY DEF IsChain
<1> HIDE DEF f, l
<1>2. /\ SubSeq(s, f, l) \in Seq(Key)
      /\ Len(SubSeq(s, f, l)) = IF f <= l THEN l - f + 1 ELSE 0
      /\ \A i \in 1 .. l - f + 1 : SubSeq(s, f, l)[i] = s[f + i - 1]
  BY <1>0, <1>1, SubSeqProperties
<1>3. \A i \in 1 .. l - p : f + i - 1 = p + i
  BY <1>0 DEF f
<1>4. l - f + 1 = l - p /\ (IF f <= l THEN l - f + 1 ELSE 0) = l - p
  BY <1>0 DEF f
<1>5. /\ SubSeq(s, f, l) \in Seq(Key) /\ Len(SubSeq(s, f, l)) = l - p
      /\ \A i \in 1 .. l - p : SubSeq(s, f, l)[i] = s[p + i]
  BY <1>2, <1>3, <1>4
<1> QED
  BY <1>5 DEF f, l

LEMMA RemoveAtPlace ==
    ASSUME NEW s, IsChain(s), NEW p \in 1 .. Len(s)
    PROVE  /\ RemoveFirst(s, s[p]) \in Seq(Key)
           /\ Len(RemoveFirst(s, s[p])) = Len(s) - 1
           /\ \A i \in 1 .. Len(s) - 1 :
                 RemoveFirst(s, s[p])[i] = IF i < p THEN s[i] ELSE s[i + 1]
<1>0. s \in Seq(Key) /\ Len(s) \in Nat /\ DOMAIN s = 1 .. Len(s) /\ \A i \in 1 .. Len(s) : s[i] \in Key
  BY DEF IsChain
<1>1. SelectInSeq(s, LAMBDA v : v = s[p]) = p
  <2>1. {i \in 1 .. Len(s) : s[i] = s[p]} = {p}
    BY <1>0 DEF IsInjective, IsChain
  <2> QED
    BY <2>1, MinOfOne DEF SelectInSeq
<1>2. RemoveFirst(s, s[p]) = SubSeq(s, 1, p - 1) \o SubSeq(s, p + 1, Len(s))
  BY <1>1 DEF RemoveFirst, RemoveAt
<1> DEFINE a == SubSeq(s, 1, p - 1)
           b == SubSeq(s, p + 1, Len(s))
<1>3. a \in Seq(Key) /\ Len(a) = p - 1 /\ \A i \in 1 .. p - 1 : a[i] = s[i]
  BY <1>0
<1>4. b \in Seq(Key) /\ Len(b) = Len(s) - p /\ \A i \in 1 .. Len(s) - p : b[i] = s[p + i]
  BY RestOfChain
<1> HIDE DEF a, b
<1>5. /\ a \o b \in Seq(Key) /\ Len(a \o b) = Len(s) - 1
      /\ \A i \in 1 .. Len(s) - 1 : (a \o b)[i] = IF i < p THEN s[i] ELSE s[i + 1]
  <2>1. /\ a \o b \in Seq(Key) /\ Len(a \o b) = Len(a) + Len(b)
        /\ \A i \in 1 .. Len(a) + Len(b) :
              (a \o b)[i] = IF i <= Len(a) THEN a[i] ELSE b[i - Len(a)]
    BY <1>3, <1>4, ConcatProperties
  <2>2. Len(a) + Len(b) = Len(s) - 1
    BY <1>0, <1>3, <1>4
  <2>3. ASSUME NEW i \in 1 .. Len(s) - 1
        PROVE  (a \o b)[i] = IF i < p THEN s[i] ELSE s[i + 1]
    <3>1. CASE i < p
      BY <1>3, <2>1, <2>2, <3>1
    <3>2. CASE i >= p
      <4>1. i - Len(a) \in 1 .. Len(s) - p /\ p + (i - Len(a)) = i + 1 /\ ~(i <= Len(a))
        BY <1>0, <1>3, <3>2
      <4>2. b[i - Len(a)] = s[i + 1]
        BY <1>4, <4>1
      <4> QED
        BY <2>1, <2>2, <3>2, <4>1, <4>2
    <3>3. i < p \/ i >= p
      BY <1>0
    <3> QED
      BY <3>1, <3>2, <3>3
  <2> QED
    BY <2>1, <2>2, <2>3
<1> QED
  BY <1>2, <1>5 DEF a, b

\* hash_delete takes one node out and leaves the order of the others.
LEMMA RemovedChain ==
    ASSUME NEW s, IsChain(s), NEW k \in ToSet(s)
    PROVE  /\ IsChain(RemoveFirst(s, k))
           /\ ToSet(RemoveFirst(s, k)) = ToSet(s) \ {k}
           /\ \A x \in ToSet(s) \ {k} : Behind(RemoveFirst(s, k), x) = Behind(s, x) \ {k}
<1> DEFINE r == RemoveFirst(s, k)
<1>0. s \in Seq(Key) /\ Len(s) \in Nat /\ DOMAIN s = 1 .. Len(s)
      /\ \A i, j \in 1 .. Len(s) : s[i] = s[j] => i = j
  BY DEF IsChain, IsInjective
<1>1. PICK p \in 1 .. Len(s) : s[p] = k
  BY <1>0 DEF ToSet
<1>2. /\ r \in Seq(Key) /\ Len(r) = Len(s) - 1
      /\ \A i \in 1 .. Len(s) - 1 : r[i] = IF i < p THEN s[i] ELSE s[i + 1]
  BY <1>1, RemoveAtPlace
<1> HIDE DEF r
<1>3. DOMAIN r = 1 .. Len(s) - 1
  BY <1>2
\* The places of r, and where they come from.
<1> DEFINE old(i) == IF i < p THEN i ELSE i + 1
           new(i) == IF i < p THEN i ELSE i - 1
<1>4. ASSUME NEW i \in DOMAIN r
      PROVE  old(i) \in DOMAIN s /\ old(i) # p /\ r[i] = s[old(i)]
  BY <1>0, <1>2, <1>3, <1>4
<1>5. ASSUME NEW i \in DOMAIN s, i # p
      PROVE  new(i) \in DOMAIN r /\ r[new(i)] = s[i] /\ old(new(i)) = i
  BY <1>0, <1>2, <1>3, <1>5
<1>6. \A i, j \in DOMAIN r : i < j <=> old(i) < old(j)
  BY <1>0, <1>3
<1>7. \A i, j \in DOMAIN s : i # p /\ j # p => (i < j <=> new(i) < new(j))
  BY <1>0
<1> HIDE DEF old, new
<1>8. ToSet(r) = ToSet(s) \ {k}
  BY <1>0, <1>1, <1>4, <1>5 DEF ToSet
<1>9. IsInjective(r)
  <2> SUFFICES ASSUME NEW i \in DOMAIN r, NEW j \in DOMAIN r, r[i] = r[j] PROVE i = j
    BY DEF IsInjective
  <2>1. old(i) = old(j)
    BY <1>0, <1>4
  <2>2. i \in Int /\ j \in Int /\ ~(i < j) /\ ~(j < i)
    BY <1>0, <1>3, <1>4, <1>6, <2>1
  <2> QED
    BY <2>2
<1>10. ASSUME NEW x \in ToSet(s) \ {k} PROVE Behind(r, x) = Behind(s, x) \ {k}
  <2>1. ASSUME NEW y \in Behind(r, x) PROVE y \in Behind(s, x) \ {k}
    <3>1. PICK i, j \in DOMAIN r : i < j /\ r[i] = x /\ r[j] = y
      BY DEF Behind
    <3> QED
      BY <3>1, <1>4, <1>6, <1>8 DEF Behind
  <2>2. ASSUME NEW y \in Behind(s, x) \ {k} PROVE y \in Behind(r, x)
    <3>1. PICK i, j \in DOMAIN s : i < j /\ s[i] = x /\ s[j] = y
      BY DEF Behind
    <3>2. i # p /\ j # p
      BY <1>1, <3>1
    <3> QED
      BY <3>1, <3>2, <1>5, <1>7, <1>8 DEF Behind
  <2> QED
    BY <2>1, <2>2
<1> QED
  BY <1>2, <1>8, <1>9, <1>10 DEF IsChain, r

\* What hscan_t reads: the node after k, the first node.
LEMMA AfterChain ==
    ASSUME NEW s, IsChain(s), NEW k \in ToSet(s)
    PROVE  /\ ToSet(After(k, s)) = Behind(s, k) /\ k \notin Behind(s, k)
           /\ After(k, s) = <<>> => Behind(s, k) = {}
           /\ After(k, s) # <<>> =>
                 LET x == Head(After(k, s))
                 IN  /\ x \in ToSet(s) /\ x \notin Behind(s, x)
                     /\ Behind(s, k) = {x} \cup Behind(s, x)
<1>0. s \in Seq(Key) /\ Len(s) \in Nat /\ DOMAIN s = 1 .. Len(s)
      /\ \A i, j \in 1 .. Len(s) : s[i] = s[j] => i = j
  BY DEF IsChain, IsInjective
<1>1. PICK p \in 1 .. Len(s) : s[p] = k
  BY <1>0 DEF ToSet
<1>2. Position(k, s) = p
  BY <1>0, <1>1 DEF Position
<1> DEFINE a == SubSeq(s, p + 1, Len(s))
<1>3. After(k, s) = a
  BY <1>2 DEF After
<1>4. a \in Seq(Key) /\ Len(a) = Len(s) - p /\ \A i \in 1 .. Len(s) - p : a[i] = s[p + i]
  BY <1>0, RestOfChain
<1> HIDE DEF a
<1>5. \A x : x \in Behind(s, k) <=> \E j \in p + 1 .. Len(s) : s[j] = x
  BY <1>0, <1>1 DEF Behind, ToSet
<1>6. ToSet(a) = Behind(s, k) /\ k \notin Behind(s, k)
  <2>1. \A j \in p + 1 .. Len(s) : j - p \in 1 .. Len(s) - p /\ p + (j - p) = j
    BY <1>0
  <2>2. \A i \in 1 .. Len(s) - p : p + i \in p + 1 .. Len(s)
    BY <1>0
  <2>3. DOMAIN a = 1 .. Len(s) - p
    BY <1>4
  <2>4. ASSUME NEW x PROVE x \in Behind(s, k) <=> \E i \in 1 .. Len(s) - p : a[i] = x
    <3>1. ASSUME NEW j \in p + 1 .. Len(s), s[j] = x
          PROVE  \E i \in 1 .. Len(s) - p : a[i] = x
      <4>1. j - p \in 1 .. Len(s) - p /\ a[j - p] = s[j]
        BY <1>4, <2>1
      <4> QED
        BY <3>1, <4>1
    <3>2. ASSUME NEW i \in 1 .. Len(s) - p, a[i] = x
          PROVE  \E j \in p + 1 .. Len(s) : s[j] = x
      BY <1>4, <2>2, <3>2
    <3> QED
      BY <1>5, <3>1, <3>2
  <2>5. k \notin Behind(s, k)
    BY <1>0, <1>1, <1>5
  <2> QED
    BY <2>3, <2>4, <2>5 DEF ToSet
<1>7. ASSUME a = <<>> PROVE Behind(s, k) = {}
  BY <1>6, <1>7 DEF ToSet
<1>8. ASSUME a # <<>>
      PROVE  /\ Head(a) \in ToSet(s) /\ Head(a) \notin Behind(s, Head(a))
             /\ Behind(s, k) = {Head(a)} \cup Behind(s, Head(a))
  <2>1. Head(a) = s[p + 1] /\ p + 1 \in 1 .. Len(s)
    BY <1>0, <1>4, <1>8
  <2>2. \A x : x \in Behind(s, s[p + 1]) <=> \E j \in p + 2 .. Len(s) : s[j] = x
    BY <1>0, <2>1 DEF Behind, ToSet
  <2>3. s[p + 1] \notin Behind(s, s[p + 1])
    BY <1>0, <2>1, <2>2
  <2>4. \A j \in p + 1 .. Len(s) : j = p + 1 \/ j \in p + 2 .. Len(s)
    BY <1>0
  <2>5. \A j \in p + 2 .. Len(s) : j \in p + 1 .. Len(s)
    BY <1>0
  <2>6. p + 1 \in p + 1 .. Len(s)
    BY <2>1
  <2>7. Behind(s, k) = {s[p + 1]} \cup Behind(s, s[p + 1])
    BY <1>5, <2>2, <2>4, <2>5, <2>6
  <2> QED
    BY <1>0, <2>1, <2>3, <2>7 DEF ToSet
<1> QED
  BY <1>3, <1>6, <1>7, <1>8

LEMMA HeadOfChain ==
    ASSUME NEW s, IsChain(s), s # <<>>
    PROVE  /\ Head(s) \in ToSet(s) /\ Head(s) \notin Behind(s, Head(s))
           /\ ToSet(s) = {Head(s)} \cup Behind(s, Head(s))
<1>0. s \in Seq(Key) /\ Len(s) \in Nat /\ DOMAIN s = 1 .. Len(s)
      /\ \A i, j \in 1 .. Len(s) : s[i] = s[j] => i = j
  BY DEF IsChain, IsInjective
<1>1. Head(s) = s[1] /\ 1 \in 1 .. Len(s)
  BY <1>0
<1>2. \A x : x \in Behind(s, s[1]) <=> \E j \in 2 .. Len(s) : s[j] = x
  BY <1>0, <1>1 DEF Behind, ToSet
<1>3. \A j \in 1 .. Len(s) : j = 1 \/ j \in 2 .. Len(s)
  BY <1>0
<1>4. \A j \in 2 .. Len(s) : j \in 1 .. Len(s) /\ j # 1
  BY <1>0
<1> QED
  BY <1>0, <1>1, <1>2, <1>3, <1>4 DEF ToSet

\* The chains that pushing and tacking on make.
LEMMA JoinedChain ==
    ASSUME NEW s, IsChain(s), NEW t, IsChain(t), ToSet(s) \cap ToSet(t) = {}
    PROVE  IsChain(s \o t) /\ ToSet(s \o t) = ToSet(s) \cup ToSet(t)
<1>0. /\ s \in Seq(Key) /\ Len(s) \in Nat /\ DOMAIN s = 1 .. Len(s)
      /\ t \in Seq(Key) /\ Len(t) \in Nat /\ DOMAIN t = 1 .. Len(t)
      /\ \A i, j \in 1 .. Len(s) : s[i] = s[j] => i = j
      /\ \A i, j \in 1 .. Len(t) : t[i] = t[j] => i = j
  BY DEF IsChain, IsInjective
<1> DEFINE u == s \o t
<1>1. /\ u \in Seq(Key) /\ DOMAIN u = 1 .. Len(s) + Len(t)
      /\ \A i \in 1 .. Len(s) + Len(t) : u[i] = IF i <= Len(s) THEN s[i] ELSE t[i - Len(s)]
  BY <1>0, ConcatProperties
<1> HIDE DEF u
<1>2. ASSUME NEW i \in DOMAIN u
      PROVE  \/ i \in 1 .. Len(s) /\ u[i] = s[i] /\ u[i] \in ToSet(s)
             \/ i - Len(s) \in 1 .. Len(t) /\ u[i] = t[i - Len(s)] /\ u[i] \in ToSet(t)
  BY <1>0, <1>1 DEF ToSet
<1>3. \A i \in 1 .. Len(s) : i \in DOMAIN u /\ u[i] = s[i]
  BY <1>0, <1>1
<1>4. ASSUME NEW i \in 1 .. Len(t)
      PROVE  i + Len(s) \in DOMAIN u /\ u[i + Len(s)] = t[i]
  <2>1. i + Len(s) \in 1 .. Len(s) + Len(t) /\ ~(i + Len(s) <= Len(s)) /\ i + Len(s) - Len(s) = i
    BY <1>0
  <2> QED
    BY <1>1, <2>1
<1>5. ToSet(u) = ToSet(s) \cup ToSet(t)
  BY <1>0, <1>2, <1>3, <1>4 DEF ToSet
<1>6. IsInjective(u)
  <2> SUFFICES ASSUME NEW i \in DOMAIN u, NEW j \in DOMAIN u, u[i] = u[j] PROVE i = j
    BY DEF IsInjective
  <2>1. CASE i \in 1 .. Len(s) /\ u[i] = s[i] /\ u[i] \in ToSet(s)
    BY <1>0, <1>2, <2>1
  <2>2. CASE i - Len(s) \in 1 .. Len(t) /\ u[i] = t[i - Len(s)] /\ u[i] \in ToSet(t)
    <3>1. j - Len(s) \in 1 .. Len(t) /\ u[j] = t[j - Len(s)]
      BY <1>2, <2>2
    <3>2. i - Len(s) = j - Len(s)
      BY <1>0, <2>2, <3>1
    <3>3. i \in Int /\ j \in Int
      BY <1>0, <1>1
    <3> QED
      BY <1>0, <3>2, <3>3
  <2> QED
    BY <1>2, <2>1, <2>2
<1> QED
  BY <1>1, <1>5, <1>6 DEF IsChain, u

LEMMA OneChain ==
    ASSUME NEW k \in Key
    PROVE  IsChain(<<k>>) /\ ToSet(<<k>>) = {k}
BY DEF IsChain, IsInjective, ToSet

LEMMA EmptyChain == IsChain(<<>>) /\ ToSet(<<>>) = {}
BY DEF IsChain, IsInjective, ToSet

(***************************************************************************)
(* grow_table's loop over one chain.  The function that defines Half       *)
(* exists, because it does for every bound below the length of the chain.  *)
(***************************************************************************)
PushOne(s, n, side, f, i) ==
    IF i = 0 THEN <<>>
    ELSE IF Exposed(s[i], n) = side THEN <<s[i]>> \o f[i - 1]
    ELSE f[i - 1]

PushesUpTo(s, n, side, f, m) == f = [i \in 0 .. m |-> PushOne(s, n, side, f, i)]

LEMMA PushesExist ==
    ASSUME NEW s, NEW n, NEW side, NEW m \in Nat
    PROVE  \E f : PushesUpTo(s, n, side, f, m)
<1> DEFINE T == {k \in Nat : ~ \E f : PushesUpTo(s, n, side, f, k)}
<1> SUFFICES ASSUME T # {} PROVE FALSE
  OBVIOUS
<1>1. PICK k \in T : \A l \in 0 .. k - 1 : l \notin T
  BY LeastNumber
<1>2. CASE k = 0
  <2> DEFINE f == [i \in 0 .. 0 |-> <<>>]
  <2>1. f = [i \in 0 .. 0 |-> PushOne(s, n, side, f, i)]
    BY DEF PushOne
  <2> QED
    BY <1>2, <2>1 DEF PushesUpTo
<1>3. CASE k # 0
  <2>1. k - 1 \in Nat /\ k - 1 \notin T
    BY <1>1, <1>3
  <2>2. PICK g : PushesUpTo(s, n, side, g, k - 1)
    BY <2>1
  <2>3. g = [i \in 0 .. k - 1 |-> PushOne(s, n, side, g, i)]
    BY <2>2 DEF PushesUpTo
  <2> DEFINE f == [i \in 0 .. k |-> PushOne(s, n, side, g, i)]
  <2>4. \A i \in 0 .. k - 1 : f[i] = g[i]
    <3>1. \A i \in 0 .. k - 1 : i \in 0 .. k
      OBVIOUS
    <3> QED
      BY <2>3, <3>1
  <2>5. ASSUME NEW i \in 0 .. k PROVE f[i] = PushOne(s, n, side, f, i)
    <3>1. i = 0 \/ i - 1 \in 0 .. k - 1
      OBVIOUS
    <3>2. f[i] = PushOne(s, n, side, g, i)
      OBVIOUS
    <3> HIDE DEF f
    <3> QED
      BY <2>4, <3>1, <3>2 DEF PushOne
  <2>6. f = [i \in 0 .. k |-> f[i]]
    OBVIOUS
  <2> HIDE DEF f
  <2>7. PushesUpTo(s, n, side, f, k)
    BY <2>5, <2>6 DEF PushesUpTo
  <2> QED
    BY <2>7
<1> QED
  BY <1>2, <1>3

LEMMA HalfIsPushed ==
    ASSUME NEW s, Len(s) \in Nat, NEW n, NEW side
    PROVE  \E f : PushesUpTo(s, n, side, f, Len(s)) /\ Half(s, n, side) = f[Len(s)]
<1> DEFINE pushed[i \in 0 .. Len(s)] ==
               IF i = 0 THEN <<>>
               ELSE IF Exposed(s[i], n) = side THEN <<s[i]>> \o pushed[i - 1]
               ELSE pushed[i - 1]
<1>1. \E f : f = [i \in 0 .. Len(s) |-> PushOne(s, n, side, f, i)]
  BY PushesExist DEF PushesUpTo
<1>2. pushed = [i \in 0 .. Len(s) |-> PushOne(s, n, side, pushed, i)]
  BY <1>1, Zenon DEF PushOne
<1>3. Half(s, n, side) = pushed[Len(s)]
  BY Zenon DEF Half
<1> QED
  BY <1>2, <1>3, Zenon DEF PushesUpTo

\* A half has exactly the nodes with that bit, each once.
LEMMA HalfChain ==
    ASSUME NEW s, IsChain(s), NEW n, NEW side
    PROVE  /\ IsChain(Half(s, n, side))
           /\ ToSet(Half(s, n, side)) = {k \in ToSet(s) : Exposed(k, n) = side}
<1>0. s \in Seq(Key) /\ Len(s) \in Nat /\ DOMAIN s = 1 .. Len(s)
      /\ \A i, j \in 1 .. Len(s) : s[i] = s[j] => i = j
  BY DEF IsChain, IsInjective
<1>1. PICK f : PushesUpTo(s, n, side, f, Len(s)) /\ Half(s, n, side) = f[Len(s)]
  BY <1>0, HalfIsPushed
<1>2. \A i \in 0 .. Len(s) : f[i] = PushOne(s, n, side, f, i)
  <2>1. f = [i \in 0 .. Len(s) |-> PushOne(s, n, side, f, i)]
    BY <1>1 DEF PushesUpTo
  <2> QED
    BY <2>1, Zenon
<1> DEFINE Seen(i) == {j \in 1 .. i : Exposed(s[j], n) = side}
           Fine(i) == IsChain(f[i]) /\ ToSet(f[i]) = {s[j] : j \in Seen(i)}
           T == {i \in 0 .. Len(s) : ~Fine(i)}
<1>3. T = {}
  <2> SUFFICES ASSUME T # {} PROVE FALSE
    OBVIOUS
  <2>1. T \in SUBSET Nat
    BY <1>0
  <2>2. PICK i \in T : \A l \in 0 .. i - 1 : l \notin T
    BY <2>1, LeastNumber
  <2>3. i \in Nat /\ i \in 0 .. Len(s) /\ ~Fine(i)
    BY <1>0, <2>2
  <2>4. CASE i = 0
    <3>1. f[0] = <<>>
      BY <1>2, <2>3, <2>4 DEF PushOne
    <3>2. {s[j] : j \in Seen(0)} = {}
      OBVIOUS
    <3> QED
      BY <2>3, <2>4, <3>1, <3>2, EmptyChain
  <2>5. CASE i # 0
    <3>1. i - 1 \in 0 .. i - 1 /\ i - 1 \in 0 .. Len(s) /\ i \in 1 .. Len(s)
      BY <1>0, <2>3, <2>5
    <3>2. Fine(i - 1)
      BY <2>2, <3>1
    <3>3. Seen(i) = Seen(i - 1) \cup (IF Exposed(s[i], n) = side THEN {i} ELSE {})
      BY <1>0, <2>3, <3>1
    <3>4. s[i] \in Key
      BY <1>0, <3>1
    <3>5. s[i] \notin ToSet(f[i - 1])
      <4>1. \A j \in Seen(i - 1) : s[j] # s[i]
        BY <1>0, <3>1
      <4> QED
        BY <3>2, <4>1
    <3>6. CASE Exposed(s[i], n) = side
      <4>1. f[i] = <<s[i]>> \o f[i - 1]
        BY <1>2, <2>3, <2>5, <3>6 DEF PushOne
      <4>2. IsChain(f[i]) /\ ToSet(f[i]) = {s[i]} \cup ToSet(f[i - 1])
        <5> DEFINE a == <<s[i]>>
                   b == f[i - 1]
        <5>1. IsChain(a) /\ ToSet(a) = {s[i]}
          BY <3>4, OneChain
        <5>2. IsChain(b) /\ ToSet(a) \cap ToSet(b) = {}
          BY <3>2, <3>5, <5>1
        <5>3. f[i] = a \o b
          BY <4>1
        <5> HIDE DEF a, b
        <5>4. IsChain(a \o b) /\ ToSet(a \o b) = ToSet(a) \cup ToSet(b)
          BY <5>1, <5>2, JoinedChain
        <5> QED
          BY <5>1, <5>3, <5>4 DEF b
      <4>3. {s[j] : j \in Seen(i)} = {s[i]} \cup {s[j] : j \in Seen(i - 1)}
        BY <3>3, <3>6
      <4> QED
        BY <2>3, <3>2, <4>2, <4>3
    <3>7. CASE Exposed(s[i], n) # side
      <4>1. f[i] = f[i - 1]
        BY <1>2, <2>3, <2>5, <3>7 DEF PushOne
      <4>2. Seen(i) = Seen(i - 1)
        BY <3>3, <3>7
      <4> QED
        BY <2>3, <3>2, <4>1, <4>2
    <3> QED
      BY <3>6, <3>7
  <2> QED
    BY <2>4, <2>5
<1>4. Fine(Len(s))
  <2>1. Len(s) \in 0 .. Len(s)
    BY <1>0
  <2> QED
    BY <1>3, <2>1
<1>5. {s[j] : j \in Seen(Len(s))} = {k \in ToSet(s) : Exposed(k, n) = side}
  BY <1>0 DEF ToSet
<1> QED
  BY <1>1, <1>4, <1>5

-----------------------------------------------------------------------------
(***************************************************************************)
(* Hash values: what the newly exposed bit means.                          *)
(***************************************************************************)
LEMMA Division ==
    ASSUME NEW h \in Nat, NEW n \in Nat, n > 0
    PROVE  h \div n \in Nat /\ h % n \in 0 .. n - 1 /\ h = n * (h \div n) + (h % n)
OBVIOUS

LEMMA Remainder ==
    ASSUME NEW h \in Nat, NEW n \in Nat, NEW q \in Nat, NEW r \in Nat, r < n, h = n * q + r
    PROVE  h % n = r
OBVIOUS

LEMMA Regroup ==
    ASSUME NEW n \in Nat, NEW q \in Nat, NEW b \in Nat, NEW r \in Nat
    PROVE  n * (2 * q + b) + r = (2 * n) * q + (n * b + r)
OBVIOUS

LEMMA SplitIndex ==
    ASSUME NEW h \in Nat, NEW n \in Nat, n > 0
    PROVE  h % (2 * n) = IF (h \div n) % 2 = 1 THEN (h % n) + n ELSE h % n
<1> DEFINE q == h \div n
           r == h % n
           d == q \div 2
           b == q % 2
<1>1. q \in Nat /\ r \in 0 .. n - 1 /\ h = n * q + r
  BY Division
<1> HIDE DEF q, r
<1>2. d \in Nat /\ b \in 0 .. 1 /\ q = 2 * d + b
  BY <1>1, Division
<1> HIDE DEF d
<1>3. CASE b = 1
  <2>1. h = (2 * n) * d + (n + r)
    BY <1>1, <1>2, <1>3, Regroup
  <2>2. n + r \in Nat /\ 2 * n \in Nat /\ n + r < 2 * n
    BY <1>1
  <2>3. h % (2 * n) = n + r
    BY <1>2, <2>1, <2>2, Remainder
  <2> QED
    BY <1>1, <1>3, <2>3 DEF q, r
<1>4. CASE b = 0
  <2>1. h = (2 * n) * d + r
    BY <1>1, <1>2, <1>4, Regroup
  <2>2. r \in Nat /\ 2 * n \in Nat /\ r < 2 * n
    BY <1>1
  <2>3. h % (2 * n) = r
    BY <1>2, <2>1, <2>2, Remainder
  <2> QED
    BY <1>1, <1>4, <2>3 DEF q, r
<1> QED
  BY <1>2, <1>3, <1>4

LEMMA FoldIndex ==
    ASSUME NEW h \in Nat, NEW m \in Nat, m > 0
    PROVE  h % m = IF h % (2 * m) < m THEN h % (2 * m) ELSE (h % (2 * m)) - m
<1> DEFINE r == h % m
           x == h % (2 * m)
<1>1. x = (IF (h \div m) % 2 = 1 THEN r + m ELSE r)
  BY SplitIndex
<1>2. r \in 0 .. m - 1
  BY Division
<1> HIDE DEF r, x
<1>3. r = (IF x < m THEN x ELSE x - m)
  BY <1>1, <1>2
<1> QED
  BY <1>3 DEF r, x

-----------------------------------------------------------------------------
(***************************************************************************)
(* Tables.                                                                 *)
(***************************************************************************)
Good(tab, n) ==
    /\ n \in Nat /\ n > 0
    /\ tab \in [0 .. n - 1 -> Seq(Key)]
    /\ \A c \in 0 .. n - 1 : IsChain(tab[c]) /\ \A k \in ToSet(tab[c]) : Chain(k, n) = c

LEMMA HashValues ==
    ASSUME NEW k \in Key, NEW n \in Nat, n > 0
    PROVE  HashOf[k] \in Nat /\ Chain(k, n) \in 0 .. n - 1
BY HashAssumption, Division DEF Chain

LEMMA GoodNodes ==
    ASSUME NEW n, NEW tab, Good(tab, n)
    PROVE  /\ Nodes(tab) \subseteq Key
           /\ \A c \in 0 .. n - 1 : ToSet(tab[c]) \subseteq Nodes(tab)
           /\ \A k \in Nodes(tab) : /\ k \in Key /\ Chain(k, n) \in 0 .. n - 1
                                    /\ k \in ToSet(tab[Chain(k, n)])
           /\ \A k \in Key : Lookup(tab, n, k) <=> k \in Nodes(tab)
<1>1. DOMAIN tab = 0 .. n - 1 /\ n \in Nat /\ n > 0
  BY DEF Good
<1>2. \A c \in 0 .. n - 1 : ToSet(tab[c]) \subseteq Key
  BY DEF Good, IsChain, ToSet
<1>3. \A k : k \in Nodes(tab) <=> \E c \in 0 .. n - 1 : k \in ToSet(tab[c])
  BY <1>1 DEF Nodes
<1>4. \A c \in 0 .. n - 1 : \A k \in ToSet(tab[c]) : Chain(k, n) = c
  BY DEF Good
<1> QED
  BY <1>1, <1>2, <1>3, <1>4, HashValues DEF Lookup

LEMMA GrownTable ==
    ASSUME NEW n, NEW tab, Good(tab, n)
    PROVE  Good(Split(tab, n), 2 * n) /\ Nodes(Split(tab, n)) = Nodes(tab)
<1> DEFINE t == Split(tab, n)
<1>1. n \in Nat /\ n > 0 /\ \A c \in 0 .. n - 1 : IsChain(tab[c])
  BY DEF Good
<1>2. \A c \in 0 .. n - 1 : \A k \in ToSet(tab[c]) : k \in Key /\ HashOf[k] \in Nat /\ Chain(k, n) = c
  BY GoodNodes, HashValues DEF Good
<1>3. /\ DOMAIN t = 0 .. 2 * n - 1
      /\ \A c \in 0 .. 2 * n - 1 : t[c] = IF c < n THEN Half(tab[c], n, FALSE)
                                        ELSE Half(tab[c - n], n, TRUE)
      /\ t = [c \in 0 .. 2 * n - 1 |-> t[c]]
  BY DEF Split
<1> HIDE DEF t
<1>4. ASSUME NEW c \in 0 .. n - 1
      PROVE  /\ c \in 0 .. 2 * n - 1 /\ IsChain(t[c])
             /\ ToSet(t[c]) = {k \in ToSet(tab[c]) : Exposed(k, n) = FALSE}
  <2>1. c \in 0 .. 2 * n - 1 /\ c < n
    BY <1>1
  <2>2. t[c] = Half(tab[c], n, FALSE)
    BY <1>3, <2>1
  <2>3. /\ IsChain(Half(tab[c], n, FALSE))
        /\ ToSet(Half(tab[c], n, FALSE)) = {k \in ToSet(tab[c]) : Exposed(k, n) = FALSE}
    <3> DEFINE a == tab[c]
               side == FALSE
    <3>1. IsChain(a)
      BY <1>1
    <3> HIDE DEF a, side
    <3>2. /\ IsChain(Half(a, n, side))
          /\ ToSet(Half(a, n, side)) = {k \in ToSet(a) : Exposed(k, n) = side}
      BY <3>1, HalfChain
    <3> QED
      BY <3>2 DEF a, side
  <2> QED
    BY <2>1, <2>2, <2>3
<1>5. ASSUME NEW c \in 0 .. n - 1
      PROVE  /\ c + n \in 0 .. 2 * n - 1 /\ IsChain(t[c + n])
             /\ ToSet(t[c + n]) = {k \in ToSet(tab[c]) : Exposed(k, n) = TRUE}
  <2> DEFINE d == c + n
  <2>1. d \in 0 .. 2 * n - 1 /\ ~(d < n) /\ d - n = c
    BY <1>1
  <2> HIDE DEF d
  <2>2. t[d] = Half(tab[d - n], n, TRUE)
    BY <1>3, <2>1
  <2>3. t[d] = Half(tab[c], n, TRUE)
    BY <2>1, <2>2
  <2>4. /\ IsChain(Half(tab[c], n, TRUE))
        /\ ToSet(Half(tab[c], n, TRUE)) = {k \in ToSet(tab[c]) : Exposed(k, n) = TRUE}
    <3> DEFINE a == tab[c]
               side == TRUE
    <3>1. IsChain(a)
      BY <1>1
    <3> HIDE DEF a, side
    <3>2. /\ IsChain(Half(a, n, side))
          /\ ToSet(Half(a, n, side)) = {k \in ToSet(a) : Exposed(k, n) = side}
      BY <3>1, HalfChain
    <3> QED
      BY <3>2 DEF a, side
  <2>5. d \in 0 .. 2 * n - 1 /\ IsChain(t[d])
        /\ ToSet(t[d]) = {k \in ToSet(tab[c]) : Exposed(k, n) = TRUE}
    BY <2>1, <2>3, <2>4
  <2> QED
    BY <2>5 DEF d
<1>6. \A c \in 0 .. 2 * n - 1 : c \in 0 .. n - 1 \/ (c - n \in 0 .. n - 1 /\ (c - n) + n = c)
  BY <1>1
<1>7. \A c \in 0 .. 2 * n - 1 : IsChain(t[c]) /\ t[c] \in Seq(Key)
  BY <1>4, <1>5, <1>6 DEF IsChain
<1>8. ASSUME NEW c \in 0 .. n - 1, NEW k \in ToSet(tab[c])
      PROVE  Chain(k, 2 * n) = IF Exposed(k, n) THEN c + n ELSE c
  BY <1>1, <1>2, SplitIndex DEF Chain, Exposed
<1>9. ASSUME NEW c \in 0 .. 2 * n - 1, NEW k \in ToSet(t[c])
      PROVE  Chain(k, 2 * n) = c
  <2>1. CASE c \in 0 .. n - 1
    BY <1>4, <1>8, <1>9, <2>1
  <2>2. CASE c - n \in 0 .. n - 1 /\ (c - n) + n = c
    <3>1. k \in ToSet(tab[c - n]) /\ Exposed(k, n) = TRUE
      BY <1>5, <1>9, <2>2
    <3> QED
      BY <1>8, <2>2, <3>1
  <2> QED
    BY <1>6, <2>1, <2>2
<1>10. Good(t, 2 * n)
  BY <1>1, <1>3, <1>7, <1>9 DEF Good
<1>11. Nodes(t) = Nodes(tab)
  <2>1. \A k : k \in Nodes(t) <=> \E c \in 0 .. 2 * n - 1 : k \in ToSet(t[c])
    BY <1>3 DEF Nodes
  <2>2. \A k : k \in Nodes(tab) <=> \E c \in 0 .. n - 1 : k \in ToSet(tab[c])
    BY DEF Nodes, Good
  <2>3. \A k : Exposed(k, n) = TRUE \/ Exposed(k, n) = FALSE
    BY DEF Exposed
  <2>4. ASSUME NEW c \in 0 .. n - 1, NEW k \in ToSet(tab[c]) PROVE k \in Nodes(t)
    BY <1>4, <1>5, <2>1, <2>3
  <2>5. ASSUME NEW c \in 0 .. 2 * n - 1, NEW k \in ToSet(t[c]) PROVE k \in Nodes(tab)
    BY <1>4, <1>5, <1>6, <2>2
  <2> QED
    BY <2>1, <2>2, <2>4, <2>5
<1> QED
  BY <1>10, <1>11 DEF t

LEMMA ShrunkTable ==
    ASSUME NEW m \in Nat, m > 0, NEW tab, Good(tab, 2 * m)
    PROVE  Good(Fold(tab, 2 * m), m) /\ Nodes(Fold(tab, 2 * m)) = Nodes(tab)
<1> DEFINE t == Fold(tab, 2 * m)
<1>1. \A c \in 0 .. 2 * m - 1 : IsChain(tab[c])
  BY DEF Good
<1>2. \A c \in 0 .. 2 * m - 1 :
         \A k \in ToSet(tab[c]) : k \in Key /\ HashOf[k] \in Nat /\ Chain(k, 2 * m) = c
  BY GoodNodes, HashValues DEF Good
<1>3. (2 * m) \div 2 = m
  OBVIOUS
<1>4. t = [c \in 0 .. m - 1 |-> tab[c] \o tab[c + m]]
  BY <1>3 DEF Fold
<1> HIDE DEF t
<1>5. ASSUME NEW c \in 0 .. m - 1
      PROVE  /\ c \in 0 .. 2 * m - 1 /\ c + m \in 0 .. 2 * m - 1 /\ c # c + m
             /\ IsChain(t[c]) /\ ToSet(t[c]) = ToSet(tab[c]) \cup ToSet(tab[c + m])
  <2>1. c \in 0 .. 2 * m - 1 /\ c + m \in 0 .. 2 * m - 1 /\ c # c + m
    OBVIOUS
  <2>2. ToSet(tab[c]) \cap ToSet(tab[c + m]) = {}
    BY <1>2, <2>1
  <2>3. t[c] = tab[c] \o tab[c + m]
    BY <1>4
  <2> QED
    BY <1>1, <2>1, <2>2, <2>3, JoinedChain
<1>6. ASSUME NEW c \in 0 .. m - 1, NEW k \in ToSet(t[c])
      PROVE  Chain(k, m) = c
  <2>1. c \in 0 .. 2 * m - 1 /\ c + m \in 0 .. 2 * m - 1 /\ c < m /\ ~(c + m < m) /\ (c + m) - m = c
    OBVIOUS
  <2>2. k \in Key /\ HashOf[k] \in Nat /\ (Chain(k, 2 * m) = c \/ Chain(k, 2 * m) = c + m)
    BY <1>2, <1>5, <1>6, <2>1
  <2>3. Chain(k, m) = IF Chain(k, 2 * m) < m THEN Chain(k, 2 * m) ELSE Chain(k, 2 * m) - m
    BY <2>2, FoldIndex DEF Chain
  <2> QED
    BY <2>1, <2>2, <2>3
<1>7. Good(t, m)
  BY <1>4, <1>5, <1>6 DEF Good, IsChain
<1>8. Nodes(t) = Nodes(tab)
  <2>1. \A k : k \in Nodes(tab) <=> \E c \in 0 .. 2 * m - 1 : k \in ToSet(tab[c])
    BY DEF Nodes, Good
  <2>2. \A k : k \in Nodes(t) <=> \E c \in 0 .. m - 1 : k \in ToSet(t[c])
    BY <1>4 DEF Nodes
  <2>3. \A c \in 0 .. 2 * m - 1 : c \in 0 .. m - 1 \/ (c - m \in 0 .. m - 1 /\ (c - m) + m = c)
    OBVIOUS
  <2>4. ASSUME NEW c \in 0 .. 2 * m - 1, NEW k \in ToSet(tab[c]) PROVE k \in Nodes(t)
    <3>1. CASE c \in 0 .. m - 1
      BY <1>5, <2>2, <3>1
    <3>2. CASE c - m \in 0 .. m - 1 /\ (c - m) + m = c
      <4>1. k \in ToSet(tab[(c - m) + m])
        BY <3>2
      <4>2. k \in ToSet(t[c - m])
        BY <1>5, <3>2, <4>1
      <4> QED
        BY <2>2, <3>2, <4>2
    <3> QED
      BY <2>3, <3>1, <3>2
  <2>5. ASSUME NEW c \in 0 .. m - 1, NEW k \in ToSet(t[c]) PROVE k \in Nodes(tab)
    BY <1>5, <2>1
  <2> QED
    BY <2>1, <2>2, <2>4, <2>5
<1> QED
  BY <1>7, <1>8 DEF t

LEMMA PushedTable ==
    ASSUME NEW n, NEW tab, Good(tab, n), NEW k \in Key, k \notin Nodes(tab)
    PROVE  Good(Push(tab, n, k), n) /\ Nodes(Push(tab, n, k)) = Nodes(tab) \cup {k}
<1> DEFINE t == Push(tab, n, k)
           d == Chain(k, n)
<1>1. n \in Nat /\ n > 0 /\ d \in 0 .. n - 1 /\ DOMAIN tab = 0 .. n - 1
  BY HashValues DEF Good
<1>2. \A c \in 0 .. n - 1 : IsChain(tab[c]) /\ \A x \in ToSet(tab[c]) : Chain(x, n) = c
  BY DEF Good
<1>3. t = [c \in 0 .. n - 1 |-> IF c = d THEN <<k>> \o tab[c] ELSE tab[c]]
  BY <1>1 DEF Push
<1> HIDE DEF t
<1>4. k \notin ToSet(tab[d])
  BY <1>1, GoodNodes
<1>5. IsChain(t[d]) /\ ToSet(t[d]) = {k} \cup ToSet(tab[d])
  <2>1. t[d] = <<k>> \o tab[d]
    BY <1>1, <1>3
  <2> DEFINE a == <<k>>
  <2>2. IsChain(a) /\ ToSet(a) = {k}
    BY OneChain
  <2> HIDE DEF a
  <2>3. IsChain(a \o tab[d]) /\ ToSet(a \o tab[d]) = ToSet(a) \cup ToSet(tab[d])
    BY <1>1, <1>2, <1>4, <2>2, JoinedChain
  <2> QED
    BY <2>1, <2>2, <2>3 DEF a
<1>6. \A c \in 0 .. n - 1 : c # d => t[c] = tab[c]
  BY <1>3
<1>7. Good(t, n)
  <2>1. \A c \in 0 .. n - 1 : IsChain(t[c]) /\ \A x \in ToSet(t[c]) : Chain(x, n) = c
    BY <1>1, <1>2, <1>5, <1>6
  <2> QED
    BY <1>1, <1>3, <2>1 DEF Good, IsChain
<1>8. Nodes(t) = Nodes(tab) \cup {k}
  <2>1. \A x : x \in Nodes(tab) <=> \E c \in 0 .. n - 1 : x \in ToSet(tab[c])
    BY <1>1 DEF Nodes
  <2>2. \A x : x \in Nodes(t) <=> \E c \in 0 .. n - 1 : x \in ToSet(t[c])
    BY <1>3 DEF Nodes
  <2> QED
    BY <1>1, <1>5, <1>6, <2>1, <2>2
<1> QED
  BY <1>7, <1>8 DEF t

LEMMA UnlinkedTable ==
    ASSUME NEW n, NEW tab, Good(tab, n), NEW k \in Nodes(tab)
    PROVE  /\ Good(Unlink(tab, n, k), n) /\ Nodes(Unlink(tab, n, k)) = Nodes(tab) \ {k}
           /\ \A c \in 0 .. n - 1 :
                 /\ ToSet(Unlink(tab, n, k)[c]) = ToSet(tab[c]) \ {k}
                 /\ \A x \in ToSet(tab[c]) \ {k} :
                       Behind(Unlink(tab, n, k)[c], x) = Behind(tab[c], x) \ {k}
<1> DEFINE t == Unlink(tab, n, k)
           d == Chain(k, n)
<1>1. n \in Nat /\ n > 0 /\ d \in 0 .. n - 1 /\ DOMAIN tab = 0 .. n - 1 /\ k \in ToSet(tab[d])
  BY GoodNodes DEF Good
<1>2. \A c \in 0 .. n - 1 : IsChain(tab[c]) /\ \A x \in ToSet(tab[c]) : Chain(x, n) = c
  BY DEF Good
<1>3. t = [c \in 0 .. n - 1 |-> IF c = d THEN RemoveFirst(tab[c], k) ELSE tab[c]]
  BY <1>1 DEF Unlink
<1> HIDE DEF t
<1>4. /\ IsChain(t[d]) /\ ToSet(t[d]) = ToSet(tab[d]) \ {k}
      /\ \A x \in ToSet(tab[d]) \ {k} : Behind(t[d], x) = Behind(tab[d], x) \ {k}
  BY <1>1, <1>2, <1>3, RemovedChain
<1>5. ASSUME NEW c \in 0 .. n - 1, c # d
      PROVE  t[c] = tab[c] /\ k \notin ToSet(tab[c]) /\ \A x : k \notin Behind(tab[c], x)
  BY <1>1, <1>2, <1>3, <1>5 DEF Behind
<1>6. Good(t, n)
  <2>1. \A c \in 0 .. n - 1 : IsChain(t[c]) /\ \A x \in ToSet(t[c]) : Chain(x, n) = c
    BY <1>1, <1>2, <1>4, <1>5
  <2> QED
    BY <1>1, <1>3, <2>1 DEF Good, IsChain
<1>7. \A c \in 0 .. n - 1 :
         /\ ToSet(t[c]) = ToSet(tab[c]) \ {k}
         /\ \A x \in ToSet(tab[c]) \ {k} : Behind(t[c], x) = Behind(tab[c], x) \ {k}
  BY <1>4, <1>5
<1>8. Nodes(t) = Nodes(tab) \ {k}
  <2>1. \A x : x \in Nodes(tab) <=> \E c \in 0 .. n - 1 : x \in ToSet(tab[c])
    BY <1>1 DEF Nodes
  <2>2. \A x : x \in Nodes(t) <=> \E c \in 0 .. n - 1 : x \in ToSet(t[c])
    BY <1>3 DEF Nodes
  <2> QED
    BY <1>7, <2>1, <2>2
<1> QED
  BY <1>6, <1>7, <1>8 DEF t

-----------------------------------------------------------------------------
(***************************************************************************)
(* Scans, as sets: the nodes from chain c on, the nodes a scan has still   *)
(* to return, and what the scan holds about its place.                     *)
(***************************************************************************)
Rest(tab, n, c) == UNION {ToSet(tab[e]) : e \in c .. n - 1}

AheadOf(tab, n, sc) ==
    IF sc.next = None THEN {}
    ELSE {sc.next} \cup Behind(tab[Chain(sc.next, n)], sc.next) \cup Rest(tab, n, sc.chain + 1)

Scanning(tab, n, sc) == sc.next # None => sc.next \in Nodes(tab) /\ sc.chain = Chain(sc.next, n)

\* Ahead of the model, at any table and any scan.
AheadIn(tab, n, sc) ==
    IF sc.next = None THEN {}
    ELSE {sc.next} \cup ToSet(After(sc.next, tab[Chain(sc.next, n)]))
                   \cup UNION {ToSet(tab[c]) : c \in sc.chain + 1 .. n - 1}

LEMMA AheadIsSet ==
    ASSUME NEW n, NEW tab, Good(tab, n), NEW sc, Scanning(tab, n, sc)
    PROVE  AheadIn(tab, n, sc) = AheadOf(tab, n, sc) /\ AheadOf(tab, n, sc) \subseteq Nodes(tab)
<1>1. CASE sc.next = None
  BY <1>1 DEF AheadIn, AheadOf
<1>2. CASE sc.next # None
  <2> DEFINE k == sc.next
             c == Chain(k, n)
  <2>1. k \in Nodes(tab) /\ sc.chain = c
    BY <1>2 DEF Scanning
  <2>2. c \in 0 .. n - 1 /\ k \in ToSet(tab[c]) /\ IsChain(tab[c]) /\ n \in Nat
    BY <2>1, GoodNodes DEF Good
  <2>3. ToSet(After(k, tab[c])) = Behind(tab[c], k)
    BY <2>2, AfterChain
  <2>4. Behind(tab[c], k) \subseteq ToSet(tab[c])
    BY DEF Behind
  <2>5. Rest(tab, n, c + 1) \subseteq Nodes(tab)
    BY <2>2, GoodNodes DEF Rest
  <2>6. ToSet(tab[c]) \subseteq Nodes(tab)
    BY <2>2, GoodNodes
  <2> QED
    BY <1>2, <2>1, <2>3, <2>4, <2>5, <2>6 DEF AheadIn, AheadOf, Rest
<1> QED
  BY <1>1, <1>2

\* Deleting a node the scan has passed does not disturb the scan.
LEMMA UnlinkBehindScan ==
    ASSUME NEW n, NEW tab, Good(tab, n), NEW sc, Scanning(tab, n, sc), sc.chain \in Nat,
           NEW k \in Nodes(tab), k \notin AheadOf(tab, n, sc)
    PROVE  /\ AheadOf(Unlink(tab, n, k), n, sc) = AheadOf(tab, n, sc)
           /\ Scanning(Unlink(tab, n, k), n, sc)
<1> DEFINE t == Unlink(tab, n, k)
<1>1. /\ Good(t, n) /\ Nodes(t) = Nodes(tab) \ {k}
      /\ \A c \in 0 .. n - 1 :
            /\ ToSet(t[c]) = ToSet(tab[c]) \ {k}
            /\ \A x \in ToSet(tab[c]) \ {k} : Behind(t[c], x) = Behind(tab[c], x) \ {k}
  <2>1. Good(t, n) /\ Nodes(t) = Nodes(tab) \ {k}
    BY UnlinkedTable
  <2>2. ASSUME NEW c \in 0 .. n - 1
        PROVE  ToSet(t[c]) = ToSet(tab[c]) \ {k}
    BY UnlinkedTable
  <2>3. ASSUME NEW c \in 0 .. n - 1, NEW x \in ToSet(tab[c]) \ {k}
        PROVE  Behind(t[c], x) = Behind(tab[c], x) \ {k}
    BY UnlinkedTable
  <2> QED
    BY <2>1, <2>2, <2>3
<1> HIDE DEF t
<1>2. CASE sc.next = None
  BY <1>2 DEF AheadOf, Scanning
<1>3. CASE sc.next # None
  <2> DEFINE x == sc.next
             d == Chain(x, n)
  <2>1. x \in Nodes(tab) /\ sc.chain = d /\ n \in Nat
    BY <1>3 DEF Scanning, Good
  <2>2. d \in 0 .. n - 1 /\ x \in ToSet(tab[d])
    BY <2>1, GoodNodes
  <2>3. AheadOf(tab, n, sc) = {x} \cup Behind(tab[d], x) \cup Rest(tab, n, sc.chain + 1)
    BY <1>3 DEF AheadOf
  <2>4. x # k /\ k \notin Behind(tab[d], x) /\ k \notin Rest(tab, n, sc.chain + 1)
    BY <2>3
  <2>5. Behind(t[d], x) = Behind(tab[d], x)
    <3> HIDE DEF d, x
    <3>1. x \in ToSet(tab[d]) \ {k}
      BY <2>2, <2>4
    <3>2. Behind(t[d], x) = Behind(tab[d], x) \ {k}
      BY <1>1, <2>2, <3>1
    <3> QED
      BY <2>4, <3>2
  <2>6. Rest(t, n, sc.chain + 1) = Rest(tab, n, sc.chain + 1)
    <3>1. \A e \in sc.chain + 1 .. n - 1 : e \in 0 .. n - 1
      BY <2>1
    <3>2. \A e \in sc.chain + 1 .. n - 1 : k \notin ToSet(tab[e])
      BY <2>4 DEF Rest
    <3>3. \A e \in sc.chain + 1 .. n - 1 : ToSet(t[e]) = ToSet(tab[e])
      BY <1>1, <3>1, <3>2
    <3> QED
      BY <3>3 DEF Rest
  <2>7. AheadOf(t, n, sc) = {x} \cup Behind(t[d], x) \cup Rest(t, n, sc.chain + 1)
    BY <1>3 DEF AheadOf
  <2>8. Scanning(t, n, sc)
    BY <1>1, <2>1, <2>4 DEF Scanning
  <2> QED
    BY <2>3, <2>5, <2>6, <2>7, <2>8 DEF t
<1> QED
  BY <1>2, <1>3 DEF t

LEMMA FirstChainFound ==
    ASSUME Good(table, nchains), NEW c \in 0 .. nchains
    PROVE  /\ FirstChain(c) \in c .. nchains
           /\ FirstChain(c) = nchains \/ table[FirstChain(c)] # <<>>
           /\ \A e \in c .. FirstChain(c) - 1 : table[e] = <<>>
<1> DEFINE Used == {d \in c .. nchains : d = nchains \/ table[d] # <<>>}
<1>1. nchains \in Nat /\ c \in Nat
  BY DEF Good
<1>2. Used \in SUBSET Nat /\ nchains \in Used
  BY <1>1
<1>3. PICK d \in Used : \A e \in 0 .. d - 1 : e \notin Used
  BY <1>2, LeastNumber
<1>4. d \in c .. nchains /\ (d = nchains \/ table[d] # <<>>)
  BY <1>3
<1>5. \A e \in c .. d - 1 : table[e] = <<>>
  <2>1. \A e \in c .. d - 1 : e \in 0 .. d - 1 /\ e \in c .. nchains
    BY <1>1, <1>4
  <2> QED
    BY <1>3, <2>1
<1> QED
  BY <1>4, <1>5 DEF FirstChain

\* hash_scan_begin, and hash_scan_next when it leaves a chain.
LEMMA ScanFromAhead ==
    ASSUME Good(table, nchains), NEW c \in 0 .. nchains, NEW who, scan.chain \in Nat
    PROVE  /\ AheadOf(table, nchains, ScanFrom(c, who)) = Rest(table, nchains, c)
           /\ Scanning(table, nchains, ScanFrom(c, who))
           /\ ScanFrom(c, who).by = who
           /\ ScanFrom(c, who) \in [by : {who}, chain : Nat, next : Key \cup {None}]
<1> DEFINE d == FirstChain(c)
           sc == ScanFrom(c, who)
<1>1. /\ d \in c .. nchains
      /\ d = nchains \/ table[d] # <<>>
      /\ \A e \in c .. d - 1 : table[e] = <<>>
  BY FirstChainFound
<1>2. nchains \in Nat /\ c \in Nat
  BY DEF Good
<1>3. sc = IF d < nchains THEN [by |-> who, chain |-> d, next |-> Head(table[d])]
           ELSE [by |-> who, chain |-> scan.chain, next |-> None]
  BY DEF ScanFrom
<1> HIDE DEF d, sc
<1>4. \A e \in c .. d - 1 : ToSet(table[e]) = {}
  BY <1>1, EmptyChain
<1>5. CASE d < nchains
  <2> DEFINE k == Head(table[d])
  <2>1. d \in 0 .. nchains - 1 /\ d \in Nat /\ table[d] # <<>>
    BY <1>1, <1>2, <1>5
  <2>2. IsChain(table[d]) /\ \A x \in ToSet(table[d]) : Chain(x, nchains) = d
    BY <2>1 DEF Good
  <2>3. k \in ToSet(table[d]) /\ ToSet(table[d]) = {k} \cup Behind(table[d], k)
    BY <2>1, <2>2, HeadOfChain
  <2>4. k \in Nodes(table) /\ k \in Key /\ Chain(k, nchains) = d
    BY <2>1, <2>2, <2>3, GoodNodes
  <2> HIDE DEF k
  <2>5. sc = [by |-> who, chain |-> d, next |-> k]
    BY <1>3, <1>5 DEF k
  <2>6. sc.next = k /\ sc.chain = d /\ k # None /\ sc.by = who
    BY <2>4, <2>5, HashAssumption
  <2>7. AheadOf(table, nchains, sc) = ToSet(table[d]) \cup Rest(table, nchains, d + 1)
    BY <2>3, <2>4, <2>6 DEF AheadOf
  <2>8. Rest(table, nchains, c) = ToSet(table[d]) \cup Rest(table, nchains, d + 1)
    <3>1. \A e \in c .. nchains - 1 : e \in c .. d - 1 \/ e = d \/ e \in d + 1 .. nchains - 1
      BY <1>1, <1>2
    <3>2. d \in c .. nchains - 1 /\ \A e \in d + 1 .. nchains - 1 : e \in c .. nchains - 1
      BY <1>1, <1>2, <1>5
    <3> QED
      BY <1>4, <3>1, <3>2 DEF Rest
  <2>9. Scanning(table, nchains, sc)
    BY <2>4, <2>6 DEF Scanning
  <2> QED
    BY <2>1, <2>4, <2>5, <2>6, <2>7, <2>8, <2>9 DEF sc
<1>6. CASE ~(d < nchains)
  <2>1. d = nchains
    BY <1>1, <1>2, <1>6
  <2>2. sc = [by |-> who, chain |-> scan.chain, next |-> None]
    BY <1>3, <1>6
  <2>3. Rest(table, nchains, c) = {}
    BY <1>4, <2>1 DEF Rest
  <2>4. sc.next = None /\ sc.by = who
    BY <2>2
  <2> QED
    BY <2>2, <2>3, <2>4 DEF AheadOf, Scanning, sc
<1> QED
  BY <1>5, <1>6

\* hash_scan_next returns one of the nodes that were ahead, and no other is lost.
LEMMA AdvancedAhead ==
    ASSUME Good(table, nchains), Scanning(table, nchains, scan), scan.next # None,
           NEW By, scan \in [by : By, chain : Nat, next : Key \cup {None}]
    PROVE  /\ AheadOf(table, nchains, Advanced) = AheadOf(table, nchains, scan) \ {scan.next}
           /\ scan.next \in AheadOf(table, nchains, scan)
           /\ Scanning(table, nchains, Advanced)
           /\ Advanced \in [by : {scan.by}, chain : Nat, next : Key \cup {None}]
<1> DEFINE k == scan.next
           d == Chain(k, nchains)
           a == After(k, table[d])
<1>1. k \in Nodes(table) /\ scan.chain = d /\ nchains \in Nat /\ scan.chain \in Nat
  BY DEF Scanning, Good
<1>2. d \in 0 .. nchains - 1 /\ k \in ToSet(table[d]) /\ IsChain(table[d])
  BY <1>1, GoodNodes DEF Good
<1>3. \A e \in 0 .. nchains - 1 : \A x \in ToSet(table[e]) : Chain(x, nchains) = e
  BY DEF Good
<1>4. AheadOf(table, nchains, scan) = {k} \cup Behind(table[d], k) \cup Rest(table, nchains, d + 1)
  BY <1>1 DEF AheadOf
<1>5. k \notin Rest(table, nchains, d + 1)
  <2>1. \A e \in d + 1 .. nchains - 1 : e \in 0 .. nchains - 1 /\ e # d
    BY <1>1, <1>2
  <2> QED
    BY <1>3, <2>1 DEF Rest
<1>6. /\ k \notin Behind(table[d], k)
      /\ a = <<>> => Behind(table[d], k) = {}
      /\ a # <<>> => /\ Head(a) \in ToSet(table[d]) /\ Head(a) \notin Behind(table[d], Head(a))
                     /\ Behind(table[d], k) = {Head(a)} \cup Behind(table[d], Head(a))
  BY <1>2, AfterChain
<1>7. Advanced = IF a # <<>> THEN [scan EXCEPT !.next = Head(a)]
                 ELSE ScanFrom(scan.chain + 1, scan.by)
  BY DEF Advanced
<1> HIDE DEF a, d, k
<1>8. CASE a # <<>>
  <2> DEFINE x == Head(a)
  <2>1. x \in ToSet(table[d]) /\ Chain(x, nchains) = d /\ x \in Key /\ x \in Nodes(table)
    BY <1>2, <1>3, <1>6, <1>8, GoodNodes
  <2>2. Behind(table[d], k) = {x} \cup Behind(table[d], x)
    BY <1>6, <1>8
  <2>3. Advanced = [scan EXCEPT !.next = x]
    BY <1>7, <1>8
  <2> HIDE DEF x
  <2>4. /\ Advanced.next = x /\ Advanced.chain = d /\ Advanced.by = scan.by /\ x # None
        /\ Advanced \in [by : {scan.by}, chain : Nat, next : Key \cup {None}]
    BY <1>1, <2>1, <2>3, HashAssumption
  <2>5. AheadOf(table, nchains, Advanced) = Behind(table[d], k) \cup Rest(table, nchains, d + 1)
    BY <2>1, <2>2, <2>4 DEF AheadOf
  <2>6. Scanning(table, nchains, Advanced)
    BY <2>1, <2>4 DEF Scanning
  <2> QED
    BY <1>4, <1>5, <1>6, <2>4, <2>5, <2>6 DEF k
<1>9. CASE a = <<>>
  <2> DEFINE c == scan.chain + 1
  <2>1. Advanced = ScanFrom(c, scan.by) /\ c = d + 1
    BY <1>1, <1>7, <1>9
  <2>2. c \in 0 .. nchains
    BY <1>1, <1>2
  <2> HIDE DEF c
  <2>3. /\ AheadOf(table, nchains, Advanced) = Rest(table, nchains, d + 1)
        /\ Scanning(table, nchains, Advanced)
        /\ Advanced \in [by : {scan.by}, chain : Nat, next : Key \cup {None}]
    BY <1>1, <2>1, <2>2, ScanFromAhead
  <2> QED
    BY <1>4, <1>5, <1>6, <1>9, <2>3 DEF k
<1> QED
  BY <1>8, <1>9

-----------------------------------------------------------------------------
(***************************************************************************)
(* The inductive invariant.  To what hash_verify asserts it adds that a    *)
(* scan's next node is in the table, on the chain the scan holds, and that *)
(* hash_free_nodes has still to return every node that is left.            *)
(***************************************************************************)
TableInv ==
    /\ Good(table, nchains)
    /\ IsFiniteSet(Nodes(table)) /\ nodecount = Cardinality(Nodes(table))
    /\ Mark(lowmark) /\ nchains = 2 * lowmark /\ highmark = 2 * nchains
    /\ nchains >= INIT_SIZE
    /\ refused \in BOOLEAN /\ LoadBounded

ScanInv ==
    /\ scan \in [by : {"nobody", "client", "free_nodes"}, chain : Nat, next : Key \cup {None}]
    /\ Scanning(table, nchains, scan)
    /\ scan.by = "nobody" => scan = NoScan
    /\ scan.by = "free_nodes" => AheadOf(table, nchains, scan) = Nodes(table)

HashInv == TableInv /\ ScanInv

LEMMA Sizes ==
    /\ INIT_SIZE \in Nat /\ INIT_SIZE >= 2
    /\ Mark(INIT_SIZE \div 2) /\ INIT_SIZE = 2 * (INIT_SIZE \div 2)
<1>1. PICK n \in 1 .. 10 : INIT_SIZE = Pow(n)
  BY HashAssumption DEF Pow
<1>2. n \in Nat /\ n - 1 \in Nat /\ (n - 1) + 1 = n
  OBVIOUS
<1>3. Pow(n) = 2 * Pow(n - 1) /\ Pow(n - 1) \in Nat /\ Pow(n - 1) >= 1
  BY <1>2, PowerDoubles, PowerBounds, PowerIsNat
<1>4. INIT_SIZE \div 2 = Pow(n - 1)
  BY <1>1, <1>3
<1> QED
  BY <1>1, <1>2, <1>3, <1>4 DEF Mark

LEMMA AheadNow ==
    ASSUME HashInv
    PROVE  Ahead = AheadOf(table, nchains, scan) /\ Ahead \subseteq Nodes(table)
<1>1. Ahead = AheadIn(table, nchains, scan)
  BY DEF Ahead, AheadIn
<1> QED
  BY <1>1, AheadIsSet DEF HashInv, TableInv, ScanInv

LEMMA AheadThen ==
    ASSUME HashInv'
    PROVE  Ahead' = AheadOf(table', nchains', scan')
<1>1. Ahead' = AheadIn(table', nchains', scan')
  BY DEF Ahead, AheadIn
<1>2. Good(table', nchains') /\ Scanning(table', nchains', scan')
  BY DEF HashInv, TableInv, ScanInv
<1> QED
  BY <1>1, <1>2, AheadIsSet

\* NodeSet has its own copy of the definition.
LEMMA SameCardinality == ASSUME NEW T PROVE S!Cardinality(T) = Cardinality(T)
BY Zenon DEF S!Cardinality, Cardinality

LEMMA NoScanAhead ==
    ASSUME NEW tab, NEW n
    PROVE  /\ AheadOf(tab, n, NoScan) = {} /\ Scanning(tab, n, NoScan)
           /\ NoScan \in [by : {"nobody"}, chain : Nat, next : Key \cup {None}]
           /\ NoScan.by = "nobody"
BY DEF AheadOf, Scanning, NoScan

LEMMA NodesCounted ==
    ASSUME HashInv
    PROVE  /\ nodecount \in Nat /\ nchains \in Nat /\ lowmark \in Nat /\ highmark \in Nat
           /\ lowmark >= 1 /\ nchains > 0
           /\ \A k : k \notin Nodes(table) =>
                 /\ IsFiniteSet(Nodes(table) \cup {k})
                 /\ Cardinality(Nodes(table) \cup {k}) = nodecount + 1
           /\ \A k \in Nodes(table) : /\ IsFiniteSet(Nodes(table) \ {k})
                                      /\ Cardinality(Nodes(table) \ {k}) = nodecount - 1
<1>1. IsFiniteSet(Nodes(table)) /\ nodecount = Cardinality(Nodes(table))
  BY DEF HashInv, TableInv
<1>2. lowmark \in Nat /\ lowmark >= 1
  BY Marks DEF HashInv, TableInv
<1>3. nchains = 2 * lowmark /\ highmark = 2 * nchains
  BY DEF HashInv, TableInv
<1>4. nodecount \in Nat
  BY <1>1, FS_CardinalityType
<1>5. ASSUME NEW k, k \notin Nodes(table)
      PROVE  /\ IsFiniteSet(Nodes(table) \cup {k})
             /\ Cardinality(Nodes(table) \cup {k}) = nodecount + 1
  BY <1>1, <1>5, FS_AddElement
<1>6. ASSUME NEW k \in Nodes(table)
      PROVE  /\ IsFiniteSet(Nodes(table) \ {k})
             /\ Cardinality(Nodes(table) \ {k}) = nodecount - 1
  BY <1>1, FS_RemoveElement
<1> QED
  BY <1>2, <1>3, <1>4, <1>5, <1>6

LEMMA HashInit == Init => HashInv /\ S!Init
<1> SUFFICES ASSUME Init PROVE HashInv /\ S!Init
  OBVIOUS
<1>1. /\ nchains = INIT_SIZE /\ nchains \in Nat /\ nchains >= 2
      /\ Mark(lowmark) /\ nchains = 2 * lowmark /\ highmark = 2 * nchains
  BY Sizes DEF Init
<1>2. table = [c \in 0 .. nchains - 1 |-> <<>>]
  BY DEF Init
<1>3. \A c \in 0 .. nchains - 1 : IsChain(table[c]) /\ ToSet(table[c]) = {}
  BY <1>2, EmptyChain
<1>4. Good(table, nchains)
  BY <1>1, <1>2, <1>3 DEF Good, IsChain
<1>5. Nodes(table) = {}
  BY <1>2, <1>3 DEF Nodes
<1>6. IsFiniteSet(Nodes(table)) /\ nodecount = Cardinality(Nodes(table)) /\ nodecount = 0
  BY <1>5, FS_EmptySet DEF Init
<1>7. scan = NoScan /\ refused = FALSE
  BY DEF Init
<1>8. TableInv
  <2>1. nodecount <= highmark /\ nchains >= INIT_SIZE
    BY <1>1, <1>6
  <2> QED
    BY <1>1, <1>4, <1>6, <1>7, <2>1 DEF TableInv, LoadBounded
<1>9. ScanInv
  BY <1>7, NoScanAhead DEF ScanInv
<1>10. Ahead = {}
  BY <1>7, <1>8, <1>9, AheadNow, NoScanAhead DEF HashInv
<1> QED
  BY <1>5, <1>7, <1>8, <1>9, <1>10 DEF HashInv, S!Init

\* hash_insert.
LEMMA InsertStep ==
    ASSUME HashInv, NEW k \in Key, Insert(k)
    PROVE  HashInv' /\ S!Insert(k)
<1>1. /\ scan = NoScan /\ scan' = scan /\ nodecount < MaxCount
      /\ ~Lookup(table, nchains, k) /\ nodecount' = nodecount + 1
  BY DEF Insert
<1>2. Good(table, nchains) /\ k \notin Nodes(table)
  BY <1>1, GoodNodes DEF HashInv, TableInv
<1>3. /\ nodecount \in Nat /\ nchains \in Nat /\ lowmark \in Nat /\ highmark \in Nat
      /\ lowmark >= 1 /\ nchains > 0
      /\ IsFiniteSet(Nodes(table) \cup {k})
      /\ Cardinality(Nodes(table) \cup {k}) = nodecount + 1
  BY <1>2, NodesCounted
<1>4. PICK grow \in BOOLEAN :
         /\ grow => Full
         /\ refused' = (refused \/ (Full /\ ~grow))
         /\ IF grow
            THEN /\ table' = Push(Split(table, nchains), 2 * nchains, k)
                 /\ nchains' = 2 * nchains
                 /\ lowmark' = 2 * lowmark /\ highmark' = 2 * highmark
            ELSE /\ table' = Push(table, nchains, k)
                 /\ UNCHANGED sizes
  BY DEF Insert
<1>5. Good(table', nchains') /\ Nodes(table') = Nodes(table) \cup {k}
  <2>1. CASE grow
    <3> DEFINE t == Split(table, nchains)
               n == 2 * nchains
    <3>1. Good(t, n) /\ Nodes(t) = Nodes(table)
      BY <1>2, GrownTable
    <3>2. table' = Push(t, n, k) /\ nchains' = n
      BY <1>4, <2>1
    <3> HIDE DEF t, n
    <3>3. Good(Push(t, n, k), n) /\ Nodes(Push(t, n, k)) = Nodes(t) \cup {k}
      BY <1>2, <3>1, PushedTable
    <3> QED
      BY <3>1, <3>2, <3>3
  <2>2. CASE ~grow
    <3>1. table' = Push(table, nchains, k) /\ nchains' = nchains
      BY <1>4, <2>2 DEF sizes
    <3> QED
      BY <1>2, <3>1, PushedTable
  <2> QED
    BY <2>1, <2>2
<1>6. /\ Mark(lowmark') /\ nchains' = 2 * lowmark' /\ highmark' = 2 * nchains'
      /\ nchains' >= INIT_SIZE
  <2>1. /\ Mark(lowmark) /\ nchains = 2 * lowmark /\ highmark = 2 * nchains
        /\ nchains >= INIT_SIZE /\ INIT_SIZE \in Nat /\ Mark(2 * lowmark)
    BY Marks, Sizes DEF HashInv, TableInv
  <2>2. CASE grow
    BY <1>3, <1>4, <2>1, <2>2
  <2>3. CASE ~grow
    BY <1>4, <2>1, <2>3 DEF sizes
  <2> QED
    BY <2>2, <2>3
<1>7. refused' \in BOOLEAN /\ (refused' \/ nodecount' <= highmark')
  <2>1. refused \in BOOLEAN /\ (refused \/ nodecount <= highmark) /\ highmark = 2 * (2 * lowmark)
    BY DEF HashInv, TableInv, LoadBounded
  <2>2. CASE grow
    <3>1. highmark' = 2 * highmark /\ (refused => refused') /\ refused' \in BOOLEAN
      BY <1>4, <2>1, <2>2
    <3> QED
      BY <1>1, <1>3, <2>1, <3>1
  <2>3. CASE ~grow
    <3>1. highmark' = highmark /\ refused' = (refused \/ Full)
      BY <1>4, <2>3 DEF sizes
    <3>2. refused' \in BOOLEAN
      BY <3>1
    <3>3. CASE nodecount >= highmark
      <4>1. refused'
        BY <3>1, <3>3 DEF Full
      <4> QED
        BY <3>2, <4>1
    <3>4. CASE nodecount < highmark
      <4>1. nodecount' <= highmark'
        BY <1>1, <1>3, <3>1, <3>4
      <4> QED
        BY <3>2, <4>1
    <3> QED
      BY <1>3, <3>3, <3>4
  <2> QED
    BY <2>2, <2>3
<1>8. TableInv'
  BY <1>1, <1>3, <1>5, <1>6, <1>7 DEF TableInv, LoadBounded
<1>9. ScanInv'
  BY <1>1, NoScanAhead DEF ScanInv
<1>10. Ahead = {} /\ Ahead' = {}
  BY <1>1, <1>8, <1>9, AheadNow, AheadThen, NoScanAhead DEF HashInv
<1>11. Cardinality(Nodes(table)) < MaxCount
  BY <1>1 DEF HashInv, TableInv
<1>12. S!Insert(k)
  <2>1. ~(scan # NoScan) /\ ~(scan # NoScan)'
    BY <1>1 DEF NoScan
  <2>2. Nodes(table)' = Nodes(table) \cup {k}
    BY <1>5
  <2>3. Ahead' = Ahead
    BY <1>10
  <2>4. UNCHANGED <<scan # NoScan, Ahead>>
    BY <2>1, <2>3
  <2> QED
    BY <1>2, <1>11, <2>1, <2>2, <2>4, SameCardinality DEF S!Insert
<1> QED
  BY <1>8, <1>9, <1>12 DEF HashInv

\* What is left to show of a step that deletes a node outside a scan.
LEMMA DeletedStep ==
    ASSUME HashInv, NEW k \in Nodes(table), scan = NoScan, scan' = scan, refused' = refused,
           nodecount' = nodecount - 1,
           Good(table', nchains'), Nodes(table') = Nodes(table) \ {k},
           Mark(lowmark'), nchains' = 2 * lowmark', highmark' = 2 * nchains',
           nchains' >= INIT_SIZE, refused \/ nodecount' <= highmark'
    PROVE  HashInv' /\ S!Delete(k)
<1>1. TableInv'
  <2>1. IsFiniteSet(Nodes(table')) /\ nodecount' = Cardinality(Nodes(table'))
    BY NodesCounted
  <2>2. refused' \in BOOLEAN
    BY DEF HashInv, TableInv
  <2> QED
    BY <2>1, <2>2 DEF TableInv, LoadBounded
<1>2. ScanInv'
  BY NoScanAhead DEF ScanInv
<1>3. Ahead = {} /\ Ahead' = {}
  BY <1>1, <1>2, AheadNow, AheadThen, NoScanAhead DEF HashInv
<1>4. S!Delete(k)
  <2>1. (scan # NoScan)' = (scan # NoScan) /\ Nodes(table)' = Nodes(table) \ {k} /\ Ahead' = Ahead
    BY <1>3
  <2> QED
    BY <1>3, <2>1 DEF S!Delete
<1> QED
  BY <1>1, <1>2, <1>4 DEF HashInv

\* hash_delete.  When it halves the table, lowmark is above INIT_SIZE, so the
\* marks are even and the table stays at least that large.
LEMMA DeleteStep ==
    ASSUME HashInv, NEW k \in Key, Delete(k)
    PROVE  HashInv' /\ S!Delete(k)
<1>1. /\ scan = NoScan /\ scan' = scan /\ refused' = refused
      /\ Lookup(table, nchains, k) /\ nodecount' = nodecount - 1
  BY DEF Delete
<1>2. Good(table, nchains) /\ k \in Nodes(table)
  BY <1>1, GoodNodes DEF HashInv, TableInv
<1>3. /\ nodecount \in Nat /\ nchains \in Nat /\ lowmark \in Nat /\ highmark \in Nat
      /\ lowmark >= 1 /\ nchains > 0
      /\ IsFiniteSet(Nodes(table) \ {k})
      /\ Cardinality(Nodes(table) \ {k}) = nodecount - 1
  BY <1>2, NodesCounted
<1>4. /\ Mark(lowmark) /\ nchains = 2 * lowmark /\ highmark = 2 * nchains
      /\ nchains >= INIT_SIZE /\ INIT_SIZE \in Nat /\ INIT_SIZE >= 2
      /\ refused \in BOOLEAN /\ (refused \/ nodecount <= highmark)
  BY Sizes DEF HashInv, TableInv, LoadBounded
<1>5. CASE Sparse
  <2> DEFINE m == nchains \div 2
             t == Fold(table, nchains)
  <2>1. nodecount <= lowmark /\ lowmark > INIT_SIZE /\ lowmark > 1
    BY <1>3, <1>4, <1>5 DEF Sparse
  <2>2. m = lowmark /\ m \in Nat /\ m > 0 /\ 2 * m = nchains
    BY <1>3, <1>4
  <2>3. /\ table' = Unlink(t, m, k) /\ nchains' = m
        /\ lowmark' = lowmark \div 2 /\ highmark' = highmark \div 2
    BY <1>5 DEF Delete
  <2>4. Good(t, m) /\ Nodes(t) = Nodes(table)
    BY <1>2, <2>2, ShrunkTable
  <2> HIDE DEF m, t
  <2>5. Good(table', nchains') /\ Nodes(table') = Nodes(table) \ {k}
    BY <1>2, <2>3, <2>4, UnlinkedTable
  <2>6. lowmark % 2 = 0 /\ Mark(lowmark \div 2)
    BY <1>4, <2>1, Marks
  <2>7. /\ Mark(lowmark') /\ nchains' = 2 * lowmark' /\ highmark' = 2 * nchains'
        /\ nchains' >= INIT_SIZE /\ nodecount' <= highmark'
    BY <1>1, <1>3, <1>4, <2>1, <2>2, <2>3, <2>6
  <2> QED
    BY <1>1, <1>2, <2>5, <2>7, DeletedStep
<1>6. CASE ~Sparse
  <2>1. table' = Unlink(table, nchains, k) /\ UNCHANGED sizes
    BY <1>6 DEF Delete
  <2>2. Good(table', nchains') /\ Nodes(table') = Nodes(table) \ {k}
    BY <1>2, <2>1, UnlinkedTable DEF sizes
  <2>3. /\ Mark(lowmark') /\ nchains' = 2 * lowmark' /\ highmark' = 2 * nchains'
        /\ nchains' >= INIT_SIZE
    BY <1>4, <2>1 DEF sizes
  <2>4. refused \/ nodecount' <= highmark'
    BY <1>1, <1>3, <1>4, <2>1 DEF sizes
  <2> QED
    BY <1>1, <1>2, <2>2, <2>3, <2>4, DeletedStep
<1> QED
  BY <1>5, <1>6

\* The steps that only move the scan.
Moved(sc) == scan' = sc /\ UNCHANGED <<table, nodecount, sizes, refused>>

LEMMA ScanBeginStep ==
    ASSUME HashInv, scan = NoScan, NEW who \in {"client", "free_nodes"}, Moved(ScanFrom(0, who))
    PROVE  HashInv' /\ S!ScanBegin
<1>1. Good(table, nchains) /\ 0 \in 0 .. nchains /\ scan.chain \in Nat
  BY DEF HashInv, TableInv, ScanInv, Good
<1>2. /\ AheadOf(table, nchains, ScanFrom(0, who)) = Rest(table, nchains, 0)
      /\ Scanning(table, nchains, ScanFrom(0, who))
      /\ ScanFrom(0, who).by = who
      /\ ScanFrom(0, who) \in [by : {who}, chain : Nat, next : Key \cup {None}]
  BY <1>1, ScanFromAhead
<1>3. Rest(table, nchains, 0) = Nodes(table)
  BY DEF Rest, Nodes, HashInv, TableInv, Good
<1>4. table' = table /\ nchains' = nchains /\ scan' = ScanFrom(0, who)
  BY DEF Moved, sizes
<1>5. TableInv'
  BY DEF Moved, sizes, HashInv, TableInv, LoadBounded
<1>6. AheadOf(table', nchains', scan') = Nodes(table)
  BY <1>2, <1>3, <1>4
<1>7. ScanInv'
  <2>1. scan' \in [by : {"nobody", "client", "free_nodes"}, chain : Nat, next : Key \cup {None}]
    BY <1>2, <1>4
  <2>2. scan'.by = who /\ scan'.by # "nobody"
    BY <1>2, <1>4
  <2> QED
    BY <1>2, <1>4, <1>6, <2>1, <2>2 DEF ScanInv
<1>8. Ahead' = Nodes(table)
  BY <1>5, <1>6, <1>7, AheadThen DEF HashInv
<1>9. scan' # NoScan
  BY <1>2, <1>4 DEF NoScan
<1>10. S!ScanBegin
  <2>1. ~(scan # NoScan) /\ (scan # NoScan)' /\ Ahead' = Nodes(table) /\ Nodes(table)' = Nodes(table)
    BY <1>4, <1>8, <1>9
  <2> QED
    BY <2>1 DEF S!ScanBegin
<1> QED
  BY <1>5, <1>7, <1>10 DEF HashInv

LEMMA ScanNextStep ==
    ASSUME HashInv, ScanNext
    PROVE  HashInv' /\ S!ScanNext(scan.next) /\ scan.next \in Key
<1>1. /\ scan.by = "client" /\ scan.next # None /\ scan' = Advanced
      /\ table' = table /\ nchains' = nchains
  BY DEF ScanNext, sizes
<1>2. /\ Good(table, nchains) /\ Scanning(table, nchains, scan)
      /\ scan \in [by : {"nobody", "client", "free_nodes"}, chain : Nat, next : Key \cup {None}]
  BY DEF HashInv, TableInv, ScanInv
<1>3. /\ AheadOf(table, nchains, Advanced) = AheadOf(table, nchains, scan) \ {scan.next}
      /\ scan.next \in AheadOf(table, nchains, scan)
      /\ Scanning(table, nchains, Advanced)
      /\ Advanced \in [by : {scan.by}, chain : Nat, next : Key \cup {None}]
  BY <1>1, <1>2, AdvancedAhead
<1>4. TableInv'
  BY DEF ScanNext, sizes, HashInv, TableInv, LoadBounded
<1>5. scan'.by = "client"
  BY <1>1, <1>3
<1>6. scan' \in [by : {"nobody", "client", "free_nodes"}, chain : Nat, next : Key \cup {None}]
  BY <1>1, <1>3
<1>7. ScanInv'
  BY <1>1, <1>3, <1>5, <1>6 DEF ScanInv
<1>8. Ahead' = Ahead \ {scan.next} /\ scan.next \in Ahead
  BY <1>1, <1>3, <1>4, <1>7, AheadNow, AheadThen DEF HashInv
<1>9. (scan # NoScan)' = (scan # NoScan)
  BY <1>1, <1>5 DEF NoScan
<1>10. S!ScanNext(scan.next)
  <2>1. Nodes(table)' = Nodes(table)
    BY <1>1
  <2> QED
    BY <1>8, <1>9, <2>1 DEF S!ScanNext
<1> QED
  BY <1>1, <1>2, <1>4, <1>7, <1>10 DEF HashInv

LEMMA ScanEndStep ==
    ASSUME HashInv, ScanEnd
    PROVE  HashInv' /\ S!ScanEnd
<1>1. /\ scan.by = "client" /\ scan.next = None /\ scan' = NoScan
      /\ table' = table /\ nchains' = nchains
  BY DEF ScanEnd, sizes
<1>2. TableInv'
  BY DEF ScanEnd, sizes, HashInv, TableInv, LoadBounded
<1>3. ScanInv'
  BY <1>1, NoScanAhead DEF ScanInv
<1>4. Ahead = {} /\ Ahead' = {}
  BY <1>1, <1>2, <1>3, AheadNow, AheadThen, NoScanAhead DEF HashInv, AheadOf
<1>5. S!ScanEnd
  <2>1. (scan # NoScan) /\ ~(scan # NoScan)' /\ Nodes(table)' = Nodes(table) /\ Ahead' = Ahead
    BY <1>1, <1>4 DEF NoScan
  <2> QED
    BY <1>4, <2>1 DEF S!ScanEnd
<1> QED
  BY <1>2, <1>3, <1>5 DEF HashInv

\* Deleting a node without shrinking keeps what the table's sizes obey.
LEMMA FewerNodes ==
    ASSUME HashInv, NEW k \in Nodes(table),
           Good(table', nchains'), Nodes(table') = Nodes(table) \ {k},
           nodecount' = nodecount - 1, nchains' = nchains,
           lowmark' = lowmark, highmark' = highmark, refused' = refused
    PROVE  TableInv'
<1>1. IsFiniteSet(Nodes(table')) /\ nodecount' = Cardinality(Nodes(table'))
  BY NodesCounted
<1>2. /\ Mark(lowmark') /\ nchains' = 2 * lowmark' /\ highmark' = 2 * nchains'
      /\ nchains' >= INIT_SIZE /\ refused' \in BOOLEAN
  BY DEF HashInv, TableInv
<1>3. refused' \/ nodecount' <= highmark'
  <2>1. nodecount \in Nat /\ highmark \in Nat /\ (refused \/ nodecount <= highmark)
    BY NodesCounted DEF HashInv, TableInv, LoadBounded
  <2> QED
    BY <2>1
<1> QED
  BY <1>1, <1>2, <1>3 DEF TableInv, LoadBounded

\* hash_scan_delete.
LEMMA ScanDeleteStep ==
    ASSUME HashInv, NEW k \in Key, ScanDelete(k)
    PROVE  HashInv' /\ S!Delete(k)
<1>1. /\ scan.by = "client" /\ scan' = scan /\ nchains' = nchains /\ refused' = refused
      /\ lowmark' = lowmark /\ highmark' = highmark
      /\ k \notin Ahead /\ Lookup(table, nchains, k)
      /\ table' = Unlink(table, nchains, k) /\ nodecount' = nodecount - 1
  BY DEF ScanDelete, sizes
<1>2. /\ Good(table, nchains) /\ Scanning(table, nchains, scan) /\ scan.chain \in Nat
      /\ scan \in [by : {"nobody", "client", "free_nodes"}, chain : Nat, next : Key \cup {None}]
      /\ Ahead = AheadOf(table, nchains, scan)
  BY AheadNow DEF HashInv, TableInv, ScanInv
<1>3. k \in Nodes(table)
  BY <1>1, <1>2, GoodNodes
<1>4. Good(table', nchains') /\ Nodes(table') = Nodes(table) \ {k}
  BY <1>1, <1>2, <1>3, UnlinkedTable
<1>5. AheadOf(table', nchains', scan') = Ahead /\ Scanning(table', nchains', scan')
  BY <1>1, <1>2, <1>3, UnlinkBehindScan
<1>6. TableInv'
  BY <1>1, <1>3, <1>4, FewerNodes
<1>7. ScanInv'
  BY <1>1, <1>2, <1>5 DEF ScanInv
<1>8. Ahead' = Ahead
  BY <1>5, <1>6, <1>7, AheadThen DEF HashInv
<1>9. S!Delete(k)
  <2>1. (scan # NoScan)' = (scan # NoScan) /\ Nodes(table)' = Nodes(table) \ {k}
    BY <1>1, <1>4
  <2> QED
    BY <1>1, <1>3, <1>8, <2>1 DEF S!Delete
<1> QED
  BY <1>6, <1>7, <1>9 DEF HashInv

\* hash_free_nodes deletes the node the scan has just returned.
LEMMA FreeNextStep ==
    ASSUME HashInv, FreeNext
    PROVE  HashInv' /\ S!Take(scan.next) /\ scan.next \in Key
<1> DEFINE k == scan.next
<1>1. /\ scan.by = "free_nodes" /\ k # None /\ scan' = Advanced /\ nchains' = nchains
      /\ lowmark' = lowmark /\ highmark' = highmark /\ refused' = refused
      /\ table' = Unlink(table, nchains, k) /\ nodecount' = nodecount - 1
  BY DEF FreeNext, sizes
<1>2. /\ Good(table, nchains) /\ Scanning(table, nchains, scan)
      /\ scan \in [by : {"nobody", "client", "free_nodes"}, chain : Nat, next : Key \cup {None}]
      /\ Ahead = AheadOf(table, nchains, scan) /\ AheadOf(table, nchains, scan) = Nodes(table)
  BY <1>1, AheadNow DEF HashInv, TableInv, ScanInv
<1>3. /\ AheadOf(table, nchains, Advanced) = AheadOf(table, nchains, scan) \ {k}
      /\ k \in AheadOf(table, nchains, scan)
      /\ Scanning(table, nchains, Advanced)
      /\ Advanced \in [by : {scan.by}, chain : Nat, next : Key \cup {None}]
  BY <1>1, <1>2, AdvancedAhead
<1>4. k \in Nodes(table) /\ k \in Key
  BY <1>1, <1>2, <1>3
<1>5. Good(table', nchains') /\ Nodes(table') = Nodes(table) \ {k}
  BY <1>1, <1>2, <1>4, UnlinkedTable
<1>6. /\ AheadOf(table', nchains', scan') = AheadOf(table, nchains, Advanced)
      /\ Scanning(table', nchains', scan')
  <2> DEFINE sc == Advanced
  <2>1. sc.chain \in Nat /\ k \notin AheadOf(table, nchains, sc) /\ Scanning(table, nchains, sc)
    BY <1>3
  <2> HIDE DEF sc, k
  <2>2. /\ AheadOf(Unlink(table, nchains, k), nchains, sc) = AheadOf(table, nchains, sc)
        /\ Scanning(Unlink(table, nchains, k), nchains, sc)
    BY <1>2, <1>4, <2>1, UnlinkBehindScan
  <2> QED
    BY <1>1, <2>2 DEF sc
<1>7. AheadOf(table', nchains', scan') = Nodes(table')
  BY <1>2, <1>3, <1>5, <1>6
<1>8. TableInv'
  BY <1>1, <1>4, <1>5, FewerNodes
<1>9. ScanInv'
  <2>1. scan' \in [by : {"nobody", "client", "free_nodes"}, chain : Nat, next : Key \cup {None}]
    BY <1>1, <1>3
  <2>2. scan'.by = "free_nodes"
    BY <1>1, <1>3
  <2> QED
    BY <1>6, <1>7, <2>1, <2>2 DEF ScanInv
<1>10. Ahead' = Ahead \ {k} /\ k \in Ahead
  BY <1>2, <1>3, <1>6, <1>8, <1>9, AheadThen DEF HashInv
<1>11. (scan # NoScan)' = (scan # NoScan)
  BY <1>1, <1>3 DEF NoScan
<1>12. S!Take(k)
  <2>1. Nodes(table)' = Nodes(table) \ {k}
    BY <1>5
  <2> QED
    BY <1>10, <1>11, <2>1 DEF S!Take
<1> QED
  BY <1>4, <1>8, <1>9, <1>12 DEF HashInv

\* Nothing is left when hash_free_nodes resets the table.
LEMMA FreeEndStep ==
    ASSUME HashInv, FreeEnd
    PROVE  HashInv' /\ S!ScanEnd
<1>1. /\ scan.by = "free_nodes" /\ scan.next = None /\ scan' = NoScan /\ nchains' = nchains
      /\ lowmark' = lowmark /\ highmark' = highmark /\ refused' = refused
      /\ nodecount' = 0 /\ table' = [c \in DOMAIN table |-> <<>>]
  BY DEF FreeEnd, sizes
<1>2. /\ Good(table, nchains) /\ Ahead = AheadOf(table, nchains, scan)
      /\ AheadOf(table, nchains, scan) = Nodes(table)
  BY <1>1, AheadNow DEF HashInv, TableInv, ScanInv
<1>3. Ahead = {} /\ Nodes(table) = {}
  BY <1>1, <1>2 DEF AheadOf
<1>4. table' = [c \in 0 .. nchains' - 1 |-> <<>>]
  BY <1>1, <1>2 DEF Good
<1>5. \A c \in 0 .. nchains' - 1 : IsChain(table'[c]) /\ ToSet(table'[c]) = {}
  BY <1>4, EmptyChain
<1>6. Good(table', nchains') /\ Nodes(table') = {}
  <2>1. nchains' \in Nat /\ nchains' > 0
    BY <1>1, <1>2 DEF Good
  <2>2. Good(table', nchains')
    BY <1>4, <1>5, <2>1 DEF Good, IsChain
  <2> QED
    BY <1>4, <1>5, <2>2 DEF Nodes
<1>7. TableInv'
  <2>1. IsFiniteSet(Nodes(table')) /\ nodecount' = Cardinality(Nodes(table'))
    BY <1>1, <1>6, FS_EmptySet
  <2>2. /\ Mark(lowmark') /\ nchains' = 2 * lowmark' /\ highmark' = 2 * nchains'
        /\ nchains' >= INIT_SIZE /\ refused' \in BOOLEAN
    BY <1>1 DEF HashInv, TableInv
  <2>3. nodecount' <= highmark'
    BY <1>1, NodesCounted
  <2> QED
    BY <1>6, <2>1, <2>2, <2>3 DEF TableInv, LoadBounded
<1>8. ScanInv'
  BY <1>1, NoScanAhead DEF ScanInv
<1>9. Ahead' = {}
  BY <1>1, <1>7, <1>8, AheadThen, NoScanAhead DEF HashInv
<1>10. S!ScanEnd
  <2>1. /\ scan # NoScan /\ ~(scan # NoScan)' /\ Nodes(table)' = Nodes(table)
        /\ Ahead = {} /\ Ahead' = Ahead
    BY <1>1, <1>3, <1>6, <1>9 DEF NoScan
  <2> QED
    BY <2>1 DEF S!ScanEnd
<1> QED
  BY <1>7, <1>8, <1>10 DEF HashInv

LEMMA HashStep ==
    ASSUME HashInv, [Next]_vars
    PROVE  HashInv' /\ [S!Next]_<<Nodes(table), scan # NoScan, Ahead>>
<1> DEFINE Promised == HashInv' /\ S!Next
<1>1. ASSUME NEW k \in Key, Insert(k) PROVE Promised
  BY <1>1, InsertStep DEF S!Next
<1>2. ASSUME NEW k \in Key, Delete(k) PROVE Promised
  BY <1>2, DeleteStep DEF S!Next
<1>3. ASSUME NEW k \in Key, ScanDelete(k) PROVE Promised
  BY <1>3, ScanDeleteStep DEF S!Next
<1>4. ASSUME ScanBegin PROVE Promised
  BY <1>4, ScanBeginStep DEF ScanBegin, Moved, S!Next
<1>5. ASSUME ScanNext PROVE Promised
  BY <1>5, ScanNextStep DEF S!Next
<1>6. ASSUME ScanEnd PROVE Promised
  BY <1>6, ScanEndStep DEF S!Next
<1>7. ASSUME FreeNodes PROVE Promised
  BY <1>7, ScanBeginStep DEF FreeNodes, Moved, S!Next
<1>8. ASSUME FreeNext PROVE Promised
  BY <1>8, FreeNextStep DEF S!Next
<1>9. ASSUME FreeEnd PROVE Promised
  BY <1>9, FreeEndStep DEF S!Next
<1>10. ASSUME UNCHANGED vars
       PROVE  HashInv' /\ UNCHANGED <<Nodes(table), scan # NoScan, Ahead>>
  <2>1. HashInv'
    BY <1>10 DEF vars, HashInv, TableInv, ScanInv, LoadBounded
  <2>2. UNCHANGED <<table, nchains, scan>>
    BY <1>10 DEF vars
  <2>3. Ahead' = Ahead
    BY <2>1, <2>2, AheadNow, AheadThen
  <2> QED
    BY <2>1, <2>2, <2>3
<1> QED
  BY <1>1, <1>2, <1>3, <1>4, <1>5, <1>6, <1>7, <1>8, <1>9, <1>10 DEF Next

LEMMA HashInvariant == Spec => []HashInv
<1>1. HashInv /\ [Next]_vars => HashInv'
  BY HashStep
<1> QED
  BY <1>1, HashInit, PTL DEF Spec

-----------------------------------------------------------------------------
\* hash_verify holds at every step: each node is on the one chain its hash
\* value selects, once, and the count is right, through any mix of growing,
\* shrinking, failing to grow, scans and deletions during them.
THEOREM HashTableIntact == Spec => []TableIntact
<1>1. HashInv => TableIntact
  <2> SUFFICES ASSUME HashInv PROVE TypeOK /\ HashVerify
    BY DEF TableIntact
  <2>1. /\ nodecount \in Nat /\ nchains \in Nat /\ lowmark \in Nat /\ highmark \in Nat
        /\ lowmark >= 1 /\ nchains > 0
    BY NodesCounted
  <2>2. Good(table, nchains) /\ DOMAIN table = 0 .. nchains - 1
    BY DEF HashInv, TableInv, Good
  <2>3. TypeOK
    BY <2>1, <2>2 DEF HashInv, TableInv, ScanInv, Good, TypeOK
  <2>4. lowmark < highmark /\ Mark(lowmark) /\ Mark(highmark)
    <3>1. Mark(lowmark) /\ nchains = 2 * lowmark /\ highmark = 2 * nchains
      BY DEF HashInv, TableInv
    <3>2. Mark(nchains)
      BY <3>1, Marks
    <3>3. Mark(highmark)
      BY <3>1, <3>2, Marks
    <3> QED
      BY <2>1, <3>1, <3>3
  <2>5. PowerOfTwo(lowmark) /\ PowerOfTwo(highmark)
    BY <2>4, Marks
  <2>6. \A c \in DOMAIN table : /\ \A k \in ToSet(table[c]) : Chain(k, nchains) = c
                               /\ IsInjective(table[c])
    BY <2>2 DEF Good, IsChain
  <2> QED
    BY <2>3, <2>4, <2>5, <2>6 DEF HashInv, TableInv, HashVerify
<1> QED
  BY <1>1, HashInvariant, PTL

\* The marks follow the size of the table, which never shrinks beneath
\* INIT_SIZE; and until a realloc fails, the load stays within 2.
THEOREM HashLoadKept == Spec => []LoadKept
<1>1. HashInv => LoadKept
  <2> SUFFICES ASSUME HashInv PROVE MarksFollowSize /\ LoadBounded
    BY DEF LoadKept
  <2> QED
    BY DEF HashInv, TableInv, MarksFollowSize
<1> QED
  BY <1>1, HashInvariant, PTL

\* The table is the set of nodes adt/hash.h promises: growing, shrinking and
\* deleting neither lose nor invent a node, and a scan, hash_free_nodes with
\* it, returns each node exactly once.
THEOREM HashNodeSetRefined == Spec => NodeSetRefined
<1>1. HashInv /\ [Next]_vars => [S!Next]_<<Nodes(table), scan # NoScan, Ahead>>
  BY HashStep
<1> QED
  BY <1>1, HashInit, HashInvariant, PTL DEF Spec, NodeSetRefined, S!Spec
=============================================================================
