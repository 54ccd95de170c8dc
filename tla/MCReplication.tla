--------------------------- MODULE MCReplication ---------------------------
(* Instances of Replication for TLC. *)
EXTENDS ReplicationMirror

CONSTANTS n1, n2, w1

MCNodes == {n1, n2}
MCWays == {w1}
MCRefs == [w \in MCWays |-> {n1}]

\* A node that moves before and after its way changes, and a node that is
\* created without tags and tagged by a later diff.
MCEnt == <<n1, w1, n1, n2, n2>>
MCUntagged == {4}

\* Diff 1: n1 and its way.  Diff 2: n1 moves, n2 appears.  Diff 3: n2 tagged.
MCEnd == [s \in 0..3 |-> <<0, 2, 4, 5>>[s + 1]]
=============================================================================
