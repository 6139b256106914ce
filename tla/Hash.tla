-------------------------------- MODULE Hash --------------------------------
(***************************************************************************)
(* The extendible hash table of adt/hash.c, which holds the items of a     *)
(* dict variant.                                                           *)
(*                                                                         *)
(* A node is named by its key.  Each chain is a sequence of keys; chain    *)
(* indices are hash values modulo the number of chains, which is what the  *)
(* mask selects because that number is a power of two.  A scan (hscan_t)   *)
(* remembers a chain and the node to return next.  hash_free_nodes is a    *)
(* scan that deletes each node it gets.                                    *)
(***************************************************************************)
EXTENDS Naturals, FiniteSets, Sequences, SequencesExt

CONSTANTS Key,
          HashOf,       \* [Key -> Nat], the hash function
          INIT_SIZE,
          MaxCount,
          None

ASSUME HashAssumption ==
    /\ HashOf \in [Key -> Nat]
    /\ \E n \in 1..10 : INIT_SIZE = 2^n
    /\ MaxCount \in Nat /\ None \notin Key

VARIABLES table,             \* [0..nchains-1 -> Seq(Key)]
          nchains, nodecount,
          lowmark, highmark,
          scan,              \* the scan under way: its chain, its next node,
                             \* and who asked for it
          refused            \* history: has realloc ever failed to grow the table?

vars  == <<table, nchains, nodecount, lowmark, highmark, scan, refused>>
sizes == <<nchains, lowmark, highmark>>

NoScan == [by |-> "nobody", chain |-> 0, next |-> None]

Nodes(tab) == UNION {ToSet(tab[c]) : c \in DOMAIN tab}

TypeOK == /\ nchains \in Nat /\ nodecount \in Nat
          /\ lowmark \in Nat /\ highmark \in Nat
          /\ DOMAIN table = 0 .. nchains - 1
          /\ \A c \in DOMAIN table : table[c] \in Seq(Key)
          /\ scan \in [by : {"nobody", "client", "free_nodes"},
                       chain : Nat, next : Key \cup {None}]
          /\ refused \in BOOLEAN

\* hash_create.
Init == /\ nchains = INIT_SIZE
        /\ highmark = INIT_SIZE * 2 /\ lowmark = INIT_SIZE \div 2
        /\ nodecount = 0
        /\ table = [c \in 0 .. INIT_SIZE - 1 |-> <<>>]
        /\ scan = NoScan
        /\ refused = FALSE

-----------------------------------------------------------------------------
Chain(k, n) == HashOf[k] % n

\* hash_lookup: walk the one chain the key can be on.
Lookup(tab, n, k) == k \in ToSet(tab[Chain(k, n)])

\* Faulty variant of the next: the bit above the exposed one.
NextBit(k, n) == (HashOf[k] \div (2 * n)) % 2 = 1

\* grow_table: each chain splits on the newly exposed bit of its hash values;
\* its nodes are pushed one by one on the two halves, which reverses them.
Exposed(k, n) == (HashOf[k] \div n) % 2 = 1

Half(s, n, side) ==
    LET pushed[i \in 0 .. Len(s)] ==
            IF i = 0 THEN <<>>
            ELSE IF Exposed(s[i], n) = side THEN <<s[i]>> \o pushed[i - 1]
            ELSE pushed[i - 1]
    IN  pushed[Len(s)]

Split(tab, n) == [c \in 0 .. 2 * n - 1 |->
                     IF c < n THEN Half(tab[c], n, FALSE) ELSE Half(tab[c - n], n, TRUE)]

\* Faulty variant of the next: the high chain is lost when the low one has nodes.
LoseHigh(tab, n) == [c \in 0 .. n \div 2 - 1 |->
                       IF tab[c] # <<>> THEN tab[c] ELSE tab[c + n \div 2]]

\* shrink_table: the high chain of each pair is tacked on to the low one.
Fold(tab, n) == [c \in 0 .. n \div 2 - 1 |-> tab[c] \o tab[c + n \div 2]]

Push(tab, n, k) == [tab EXCEPT ![Chain(k, n)] = <<k>> \o @]
Unlink(tab, n, k) == [tab EXCEPT ![Chain(k, n)] = RemoveFirst(@, k)]

-----------------------------------------------------------------------------
\* When hash_insert doubles the table, and when hash_delete halves it; faulty
\* variant: no lower bound on the size.
Full   == nodecount >= highmark
Light  == nodecount <= lowmark
Sparse == nodecount <= lowmark /\ nodecount > INIT_SIZE

(***************************************************************************)
(* hash_insert.  A table whose load has reached 2 is doubled first, unless *)
(* realloc fails.  The assertions on the count and on the key are guards.  *)
(***************************************************************************)
Insert(k) ==
    /\ scan = NoScan
    /\ nodecount < MaxCount
    /\ ~Lookup(table, nchains, k)
    /\ \E grow \in BOOLEAN :
          /\ grow => Full
          /\ refused' = (refused \/ (Full /\ ~grow))
          /\ IF grow
             THEN /\ table' = Push(Split(table, nchains), 2 * nchains, k)
                  /\ nchains' = 2 * nchains
                  /\ lowmark' = 2 * lowmark /\ highmark' = 2 * highmark
             ELSE /\ table' = Push(table, nchains, k)
                  /\ UNCHANGED sizes
    /\ nodecount' = nodecount + 1
    /\ UNCHANGED scan

\* hash_delete.  A sparse table is halved first; when realloc fails the
\* smaller table simply keeps its old room.
Delete(k) ==
    /\ scan = NoScan
    /\ Lookup(table, nchains, k)
    /\ IF Sparse
       THEN /\ table' = Unlink(Fold(table, nchains), nchains \div 2, k)
            /\ nchains' = nchains \div 2
            /\ lowmark' = lowmark \div 2 /\ highmark' = highmark \div 2
       ELSE /\ table' = Unlink(table, nchains, k)
            /\ UNCHANGED sizes
    /\ nodecount' = nodecount - 1
    /\ UNCHANGED <<scan, refused>>

-----------------------------------------------------------------------------
\* The first chain from c on that is not empty, nchains when there is none.
FirstChain(c) ==
    CHOOSE d \in c .. nchains :
       /\ d = nchains \/ table[d] # <<>>
       /\ \A e \in c .. d - 1 : table[e] = <<>>

ScanFrom(c, who) == IF FirstChain(c) < nchains
                    THEN [by |-> who, chain |-> FirstChain(c),
                          next |-> Head(table[FirstChain(c)])]
                    ELSE [by |-> who, chain |-> scan.chain, next |-> None]

Position(k, s) == CHOOSE p \in DOMAIN s : s[p] = k
After(k, s)    == SubSeq(s, Position(k, s) + 1, Len(s))

\* hash_scan_next returns scan.next and moves on, within the chain of that
\* node or to the next chain in use.
Advanced == LET rest == After(scan.next, table[Chain(scan.next, nchains)])
            IN  IF rest # <<>> THEN [scan EXCEPT !.next = Head(rest)]
                ELSE ScanFrom(scan.chain + 1, scan.by)

\* The nodes the scan has still to return.
Ahead == IF scan.next = None THEN {}
         ELSE {scan.next}
              \cup ToSet(After(scan.next, table[Chain(scan.next, nchains)]))
              \cup UNION {ToSet(table[c]) : c \in scan.chain + 1 .. nchains - 1}

ScanBegin == /\ scan = NoScan
             /\ scan' = ScanFrom(0, "client")
             /\ UNCHANGED <<table, nodecount, sizes, refused>>

ScanNext == /\ scan.by = "client" /\ scan.next # None
            /\ scan' = Advanced
            /\ UNCHANGED <<table, nodecount, sizes, refused>>

ScanEnd == /\ scan.by = "client" /\ scan.next = None
           /\ scan' = NoScan
           /\ UNCHANGED <<table, nodecount, sizes, refused>>

\* hash_scan_delete, of a node the scan has returned: no shrinking.
ScanDelete(k) == /\ scan.by = "client"
                 /\ Lookup(table, nchains, k) /\ k \notin Ahead
                 /\ table' = Unlink(table, nchains, k)
                 /\ nodecount' = nodecount - 1
                 /\ UNCHANGED <<sizes, scan, refused>>

(***************************************************************************)
(* hash_free_nodes: begin a scan, delete and free each node it returns,    *)
(* then reset the count and the chains.                                    *)
(***************************************************************************)
FreeNodes == /\ scan = NoScan
             /\ scan' = ScanFrom(0, "free_nodes")
             /\ UNCHANGED <<table, nodecount, sizes, refused>>

FreeNext == /\ scan.by = "free_nodes" /\ scan.next # None
            /\ scan' = Advanced
            /\ table' = Unlink(table, nchains, scan.next)
            /\ nodecount' = nodecount - 1
            /\ UNCHANGED <<sizes, refused>>

FreeEnd == /\ scan.by = "free_nodes" /\ scan.next = None
           /\ scan' = NoScan
           /\ nodecount' = 0
           /\ table' = [c \in DOMAIN table |-> <<>>]
           /\ UNCHANGED <<sizes, refused>>

Next == \/ \E k \in Key : Insert(k) \/ Delete(k) \/ ScanDelete(k)
        \/ ScanBegin \/ ScanNext \/ ScanEnd
        \/ FreeNodes \/ FreeNext \/ FreeEnd

Spec == Init /\ [][Next]_vars

-----------------------------------------------------------------------------
(***************************************************************************)
(* hash_verify, which the code asserts after every change: each node is on *)
(* the chain its hash value selects and the count is right; and no node is *)
(* on a chain twice, which would make hash_free_nodes free it twice.       *)
(***************************************************************************)
PowerOfTwo(x) == \E n \in 0 .. x : x = 2^n

HashVerify ==
    /\ lowmark < highmark /\ PowerOfTwo(lowmark) /\ PowerOfTwo(highmark)
    /\ \A c \in DOMAIN table : /\ \A k \in ToSet(table[c]) : Chain(k, nchains) = c
                               /\ IsInjective(table[c])
    /\ nodecount = Cardinality(Nodes(table))

(***************************************************************************)
(* The marks stay twice and half the size through any mix of growing,      *)
(* failing to grow and shrinking, and the table never shrinks beneath      *)
(* INIT_SIZE (the note above hash_create).                                 *)
(***************************************************************************)
MarksFollowSize == /\ highmark = 2 * nchains /\ 2 * lowmark = nchains
                   /\ nchains >= INIT_SIZE

\* As long as realloc has succeeded, the load stays within 2, through any mix of
\* growing, shrinking and scans that delete.
LoadBounded == refused \/ nodecount <= highmark

\* What hash_verify asserts of the table, at every step of a scan as well.
TableIntact == TypeOK /\ HashVerify

\* The limits between which the table grows and shrinks follow its size, and so
\* the load is bounded.
LoadKept == MarksFollowSize /\ LoadBounded

(***************************************************************************)
(* Growing, shrinking and deleting neither lose nor invent a node, and a   *)
(* scan returns each node exactly once though the client deletes the ones  *)
(* it was given; hash_free_nodes, being such a scan, frees each node once. *)
(***************************************************************************)
S == INSTANCE NodeSet WITH nodes <- Nodes(table), scanning <- scan # NoScan,
                           pending <- Ahead
NodeSetRefined == S!Spec
=============================================================================
