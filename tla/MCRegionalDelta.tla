-------------------------- MODULE MCRegionalDelta --------------------------
(* A region with one way that crosses its border, and a node id not yet used. *)
EXTENDS RegionalDelta

CONSTANTS a, b, c, w1, r1, p, q, x

MCNodes == {a, b, c}
MCShapes == {<<a, b>>, <<b, c>>, <<a, b, c, a>>}
MCMembers == [rel \in {r1} |-> <<w1>>]

Town == [pos |-> [n \in MCNodes |-> IF n = a THEN p ELSE IF n = b THEN x ELSE None],
         tags |-> [n \in MCNodes |-> n = a],
         refs |-> [wy \in {w1} |-> <<a, b>>],
         rels |-> [rl \in {r1} |-> None]]

MCWorlds == {Town}
=============================================================================
