------------------------------- MODULE NodeSet -------------------------------
(***************************************************************************)
(* What adt/hash.h promises: a set of nodes with distinct keys, at most    *)
(* MaxCount of them, and a scan that returns every node that was there     *)
(* when it began once.  During a scan the client deletes only nodes the    *)
(* scan has returned.                                                      *)
(***************************************************************************)
EXTENDS FiniteSets, Naturals

CONSTANTS Key, MaxCount

VARIABLES nodes,    \* the keys in the table
          scanning, \* is a scan under way?
          pending   \* the nodes it has still to return

Init == nodes = {} /\ ~scanning /\ pending = {}

Insert(k) == /\ ~scanning
             /\ k \notin nodes /\ Cardinality(nodes) < MaxCount
             /\ nodes' = nodes \cup {k}
             /\ UNCHANGED <<scanning, pending>>

Delete(k) == /\ k \in nodes \ pending
             /\ nodes' = nodes \ {k}
             /\ UNCHANGED <<scanning, pending>>

ScanBegin == ~scanning /\ scanning' /\ pending' = nodes /\ UNCHANGED nodes

ScanNext(k) == /\ k \in pending
               /\ pending' = pending \ {k}
               /\ UNCHANGED <<nodes, scanning>>

\* hash_free_nodes deletes each node as the scan returns it.
Take(k) == /\ k \in pending
           /\ pending' = pending \ {k} /\ nodes' = nodes \ {k}
           /\ UNCHANGED scanning

ScanEnd == scanning /\ pending = {} /\ ~scanning' /\ UNCHANGED <<nodes, pending>>

Next == \/ \E k \in Key : Insert(k) \/ Delete(k) \/ ScanNext(k) \/ Take(k)
        \/ ScanBegin \/ ScanEnd

Spec == Init /\ [][Next]_<<nodes, scanning, pending>>
=============================================================================
