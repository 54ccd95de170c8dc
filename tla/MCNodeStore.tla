---------------------------- MODULE MCNodeStore ----------------------------
(* Instances of NodeStore for TLC. *)
EXTENDS NodeStore

\* 7 is the last bit of the first bitmap byte and 9 is in the second one; 16
\* and 17 are past the sanity ceiling, 16 within the capacity of -n 16.
MCIds == {7, 9, 16, 17}

\* Two points with different longitudes and latitudes.
MCPoints == {<<1, 2>>, <<3, 4>>}

MCMaxIds == {6, 16}
=============================================================================
