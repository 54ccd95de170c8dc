-------------------------- MODULE MCImportPipeline --------------------------
(* Small files for ImportPipeline. *)
EXTENDS ImportPipeline, TLC

CONSTANTS w1, w2, w3

None == [kind |-> "node", tagged |-> FALSE, refs |-> <<>>, areaTag |-> FALSE,
         polygon |-> FALSE, road |-> FALSE, inner |-> {}, blob |-> 1]

node(tagged, blob) == [None EXCEPT !.tagged = tagged, !.blob = blob]
way(tagged, areaTag, refs, blob) ==
    [None EXCEPT !.kind = "way", !.tagged = tagged, !.areaTag = areaTag, !.refs = refs,
                 !.blob = blob]
multipolygon(refs, inner, blob) ==
    [None EXCEPT !.kind = "rel", !.tagged = TRUE, !.polygon = TRUE, !.refs = refs,
                 !.inner = inner, !.blob = blob]
road(refs, blob) ==
    [None EXCEPT !.kind = "rel", !.tagged = TRUE, !.road = TRUE, !.refs = refs, !.blob = blob]

\* A line, a building with an untagged courtyard, a road and a polygon; blobs
\* mix nodes with ways and ways with relations.
Town == <<
    node(FALSE, 1), node(TRUE, 1), node(TRUE, 3),
    way(TRUE, FALSE, <<1, 2>>, 3),
    way(TRUE, TRUE, <<1, 2, 3, 1>>, 5),
    way(FALSE, FALSE, <<1, 3, 2, 1>>, 5),
    multipolygon(<<5, 6>>, {6}, 5),
    road(<<4, 5>>, 8) >>

\* Every node tagged, a roundabout in a road, no polygon.
Circle == <<
    node(TRUE, 1), node(TRUE, 1), node(TRUE, 1), node(TRUE, 1),
    way(TRUE, FALSE, <<1, 2, 3, 1>>, 5), way(TRUE, FALSE, <<3, 4>>, 5),
    way(TRUE, FALSE, <<2, 3>>, 7),
    road(<<5, 6>>, 8) >>

\* Nodes only, and an extract that ends with the ways.
NodesOnly == <<node(TRUE, 1), node(FALSE, 1)>>
NoRelations == <<node(TRUE, 1), node(FALSE, 1), way(TRUE, FALSE, <<1, 2>>, 1)>>

MCFiles == {Town, Circle, NodesOnly, NoRelations}
MCBuffers == (w1 :> 1) @@ (w2 :> 2) @@ (w3 :> 2)
=============================================================================
