----------------------- MODULE ImportPipelineProofs -----------------------
(***************************************************************************)
(* Proofs about the bulk importer: for every file, every number of node    *)
(* and way threads, every queue, chunk and buffer size, and every phase    *)
(* the import is resumed from.                                             *)
(***************************************************************************)
EXTENDS ImportPipeline, FiniteSetTheorems, InductionLemmas, TLAPS

----------------------------------------------------------------------------
(* The inductive invariant, first half: the reader, the node threads and   *)
(* the merge                                                               *)

NodeTypes ==
    /\ file \in Files /\ mode \in Modes
    /\ ppc \in {"read", "spin", "joinNodes", "joinWays", "done"}
    /\ pos \in 1..(Len(file) + 1) /\ nodePhase \in BOOLEAN /\ rr \in Nat
    /\ nodeOff \in {0} \cup Entries /\ relOff \in {0} \cup Entries
    /\ nodeQ \in [NodeTids -> Seq(OfKind("node"))] /\ nodeStop \in BOOLEAN
    /\ wayStop \in BOOLEAN
    /\ npc \in [NodeTids -> {"loop", "barrier", "done"}]
    /\ nodeBuf \in [NodeTids -> SUBSET RefNodes]
    /\ inbuf \in [NodeTids -> SUBSET OfKind("node")]
    /\ shard \in [NodeTids -> SUBSET OfKind("node")]
    /\ mergeNext \in 0..NodeThreads /\ merged \subseteq OfKind("node")
    /\ mergeDone \in BOOLEAN
    /\ nodes \subseteq RefNodes

\* Queues and chunks stay within their limits.
NodeBounds ==
    \A t \in NodeTids :
        /\ Len(nodeQ[t]) <= QueueSize
        /\ IsFiniteSet(inbuf[t]) /\ Cardinality(inbuf[t]) < ChunkRecords

\* Where the reader is: in the node phase it has seen nodes only, after it, in
\* a run that reads the nodes, none is left; ways flow only after the merge.
Reader ==
    /\ SkipNodes => ~nodePhase
    /\ ~nodePhase => nodeStop
    /\ nodePhase /\ nodeStop => ppc # "read"
    /\ ppc = "spin" => ~nodePhase
    /\ ~nodePhase /\ ppc # "spin" => mergeDone
    /\ nodePhase => \A i \in 1..(pos - 1) : i \in OfKind("node")
    /\ ~nodePhase /\ ~SkipNodes => \A i \in OfKind("node") : i < pos
    /\ ppc \in {"joinNodes", "joinWays", "done"} => pos = Len(file) + 1 /\ nodeStop
    /\ wayStop => ppc \in {"joinWays", "done"}
    /\ ppc \in {"joinWays", "done"} => \A t \in NodeTids : npc[t] = "done"

\* A node thread past its loop has an empty queue and an empty buffer, and the
\* merge waits for all of them.
NodeBarrier ==
    /\ \A t \in NodeTids : npc[t] # "loop" => nodeStop /\ nodeQ[t] = <<>> /\ nodeBuf[t] = {}
    /\ \A t \in NodeTids : npc[t] = "done" => mergeDone
    /\ mergeNext > 0 \/ mergeDone => \A t \in NodeTids : npc[t] # "loop"
    /\ SkipNodes => mergeDone

\* A node on its way to the node threads.
Waiting(i) ==
    /\ mode = "nodes"
    /\ i >= pos \/ \E t \in NodeTids : \E k \in 1..Len(nodeQ[t]) : nodeQ[t][k] = i

\* No node is lost between the file and nodes.dat ...
NodesKept ==
    \A i \in OfKind("node") :
        \/ i \in merged \/ Waiting(i)
        \/ \E t \in NodeTids : t >= mergeNext /\ i \in shard[t] \cup inbuf[t]

\* ... nor between the file and the table ...
NodeRowsKept ==
    \A i \in RefNodes : i \in nodes \/ Waiting(i) \/ \E t \in NodeTids : i \in nodeBuf[t]

\* ... so the merge has them all.
MergedWhole == mergeDone => merged = OfKind("node")

NodeInv ==
    /\ NodeTypes /\ NodeBounds /\ Reader /\ NodeBarrier /\ NodesKept /\ NodeRowsKept
    /\ MergedWhole /\ OffsetsSkipNothing

----------------------------------------------------------------------------
(* Second half: way_q and the way threads *)

\* What is buffered or stored is a row of the complete import.
WayTypes ==
    /\ wayQ \in Seq(Entries) /\ Len(wayQ) <= QueueSize
    /\ wpc \in [WayThreads -> {"pop", "item", "barrier", "final", "done"}]
    /\ hand \in [WayThreads -> {0} \cup Entries]
    /\ phaseDone \in [WayThreads -> BOOLEAN] /\ arrived \subseteq WayThreads
    /\ wayBuf \in [WayThreads -> SUBSET RefWays]
    /\ areaBuf \in [WayThreads -> SUBSET (RefAreas \cup RefPolygons)]
    /\ relBuf \in [WayThreads -> SUBSET RefRelations]
    /\ ways \subseteq RefWays /\ areas \subseteq RefAreas \cup RefPolygons
    /\ relations \subseteq RefRelations /\ roads \subseteq RefRoads

\* The buffers stay within their limits.
WayBounds ==
    \A w \in WayThreads :
        /\ IsFiniteSet(wayBuf[w]) /\ Cardinality(wayBuf[w]) < way_buffer_size_[w]
        /\ IsFiniteSet(areaBuf[w]) /\ Cardinality(areaBuf[w]) <= way_buffer_size_[w]
        /\ IsFiniteSet(relBuf[w]) /\ Cardinality(relBuf[w]) <= way_buffer_size_[w]

Queued(i) == \E k \in 1..Len(wayQ) : wayQ[k] = i

\* way_q has the entries in the order of the file, after those already popped,
\* and nothing before the merge.
WayOrder ==
    /\ \A k \in 1..Len(wayQ) : wayQ[k] < pos
    /\ \A k \in 1..Len(wayQ), l \in 1..Len(wayQ) : k < l => wayQ[k] < wayQ[l]
    /\ \A w \in WayThreads : hand[w] < pos
    /\ \A w \in WayThreads : \A k \in 1..Len(wayQ) : hand[w] < wayQ[k]
    /\ wayQ # <<>> => mergeDone
    /\ \A w \in WayThreads : hand[w] # 0 => mergeDone
    /\ mode = "relations" =>
          /\ \A i \in OfKind("way") : ~Queued(i)
          /\ \A w \in WayThreads : hand[w] \notin OfKind("way")

QueueShut == wayQ = <<>> /\ wayStop

\* Where a way thread is, and what it holds there.
WayStages ==
    \A w \in WayThreads :
        /\ wpc[w] = "item" => hand[w] # 0
        /\ wpc[w] \in {"pop", "final", "done"} => hand[w] = 0
        /\ wpc[w] = "barrier" => w \in arrived /\ (hand[w] = 0 => QueueShut)
        /\ w \in arrived => /\ hand[w] \notin OfKind("way")
                            /\ wayBuf[w] = {} /\ areaBuf[w] \cap RefAreas = {}
        /\ wpc[w] \in {"final", "done"} => QueueShut
        /\ wpc[w] \in {"final", "done"} \/ phaseDone[w] => mode = "relations" \/ arrived = WayThreads
        /\ wpc[w] = "done" => wayBuf[w] = {} /\ areaBuf[w] = {} /\ relBuf[w] = {}
        /\ mode = "relations" => phaseDone[w] /\ wpc[w] # "barrier"
        /\ ppc = "done" => wpc[w] = "done"

\* A thread arrives at the barrier only after the merge and when every way has
\* been popped.
WaysRead == arrived # {} => mergeDone /\ \A i \in OfKind("way") : i < pos /\ ~Queued(i)

\* An entry on its way to the way threads.
Flowing(i) == i >= pos \/ Queued(i) \/ \E w \in WayThreads : hand[w] = i

wayRows == ways \cup UNION {wayBuf[w] : w \in WayThreads}
areaRows == areas \cup UNION {areaBuf[w] : w \in WayThreads}
relRows == relations \cup UNION {relBuf[w] : w \in WayThreads}

\* The rows of a way, and of a relation, are buffered or stored.
WayHandled(i) ==
    LET row == WayRow(i, OfKind("node"))
    IN  (row \in RefWays => row \in wayRows) /\ (row \in RefAreas => row \in areaRows)
RelHandled(i) ==
    LET polygon == PolygonRow(i, RefWays, RefAreas)
        row == RelationRow(i, RefWays, RefAreas)
    IN  /\ polygon \in RefPolygons => polygon \in areaRows
        /\ row \in RefRelations => row \in relRows
        /\ row \in RefRoads => row \in roads

\* No way and no relation is lost between the file and the tables.
WaysKept == mode # "relations" => \A i \in OfKind("way") : Flowing(i) \/ WayHandled(i)
RelsKept == \A i \in OfKind("rel") : Flowing(i) \/ RelHandled(i)

\* Behind the barrier the ways are in the tables.
WaysStored ==
    mode = "relations" \/ arrived = WayThreads => ways = RefWays /\ RefAreas \subseteq areas

WayInv ==
    /\ WayTypes /\ WayBounds /\ WayOrder /\ WayStages /\ WaysRead /\ WaysKept /\ RelsKept
    /\ WaysStored

IInv == NodeInv /\ WayInv

----------------------------------------------------------------------------
(* Files *)

\* A file is sorted, and a blob begins at or before each of its entries.
LEMMA FileFacts ==
    ASSUME file \in Files
    PROVE  /\ Len(file) \in Nat /\ Entries = 1..Len(file)
           /\ \A i \in Entries :
                 /\ file[i].kind \in {"node", "way", "rel"} /\ file[i].blob \in Entries
                 /\ file[i].blob <= i
                 /\ file[i].tagged \in BOOLEAN /\ file[i].polygon \in BOOLEAN
                 /\ file[i].road \in BOOLEAN
           /\ \A i \in Entries, j \in Entries : i < j =>
                 /\ file[j].kind = "node" => file[i].kind = "node"
                 /\ file[i].kind = "rel" => file[j].kind = "rel"
  <1>1. /\ file \in Seq(FileEntries)
        /\ \A i \in 1..Len(file) : file[i].blob <= i
        /\ \A i \in 1..Len(file), j \in 1..Len(file) : i < j =>
              /\ file[j].kind = "node" => file[i].kind = "node"
              /\ file[i].kind = "rel" => file[j].kind = "rel"
        BY FilesAssumption
  <1>2. Len(file) \in Nat /\ \A i \in 1..Len(file) : file[i] \in FileEntries
        BY <1>1
  <1>3. ASSUME NEW e \in FileEntries
        PROVE  /\ e.kind \in {"node", "way", "rel"} /\ e.blob \in Nat \ {0}
               /\ e.tagged \in BOOLEAN /\ e.polygon \in BOOLEAN /\ e.road \in BOOLEAN
        BY <1>3 DEF FileEntries
  <1> QED
      BY <1>1, <1>2, <1>3 DEF Entries

\* The kinds are distinct, and their entries lie in the file.
LEMMA Kinds ==
    ASSUME file \in Files
    PROVE  /\ \A k : OfKind(k) \subseteq Entries
           /\ Entries \subseteq Nat \ {0}
           /\ RefNodes \subseteq OfKind("node")
           /\ \A i \in Entries : i \in OfKind("node") \/ i \in OfKind("way") \/ i \in OfKind("rel")
           /\ \A i \in OfKind("way") : i \notin OfKind("node") /\ i \notin OfKind("rel")
           /\ \A i \in OfKind("rel") : i \notin OfKind("node")
           /\ \A i \in OfKind("node"), j \in Entries : j < i => j \in OfKind("node")
           /\ \A i \in OfKind("rel"), j \in Entries : i < j => j \in OfKind("rel")
  BY FileFacts DEF OfKind, RefNodes

\* What a complete import stores depends on the file alone.
LEMMA FileKept ==
    ASSUME file' = file
    PROVE  /\ Entries' = Entries /\ \A k : OfKind(k)' = OfKind(k)
           /\ RefNodes' = RefNodes /\ AllWayRows' = AllWayRows
           /\ RefWays' = RefWays /\ RefAreas' = RefAreas
           /\ RefPolygons' = RefPolygons /\ RefRelations' = RefRelations /\ RefRoads' = RefRoads
           /\ \A i, S : WayRow(i, S)' = WayRow(i, S)
           /\ \A i, S, T : PolygonRow(i, S, T)' = PolygonRow(i, S, T)
           /\ \A i, S, T : RelationRow(i, S, T)' = RelationRow(i, S, T)
  <1>1. Entries' = Entries /\ \A k : OfKind(k)' = OfKind(k)
        BY DEF Entries, OfKind
  <1>2. \A i, S : WayRow(i, S)' = WayRow(i, S)
        BY DEF WayRow
  <1>3. RefNodes' = RefNodes
        BY <1>1 DEF RefNodes
  <1>4. AllWayRows' = AllWayRows
        BY <1>1, <1>2 DEF AllWayRows
  <1>5. RefAreas' = RefAreas
        BY <1>4 DEF RefAreas, isArea
  <1>6. RefWays' = RefWays
        BY <1>4, <1>5 DEF RefWays
  <1>7. \A i, S, T : PolygonRow(i, S, T)' = PolygonRow(i, S, T)
        BY <1>1 DEF PolygonRow, Stored
  <1>8. \A i, S, T : RelationRow(i, S, T)' = RelationRow(i, S, T)
        BY <1>1 DEF RelationRow, Linear
  <1>9. RefPolygons' = RefPolygons
        BY <1>1, <1>5, <1>6, <1>7 DEF RefPolygons, HasOuter
  <1>10. RefRelations' = RefRelations
        BY <1>1, <1>5, <1>6, <1>8 DEF RefRelations
  <1>11. RefRoads' = RefRoads
        BY <1>10 DEF RefRoads
  <1> QED
      BY <1>1, <1>2, <1>3, <1>4, <1>5, <1>6, <1>7, <1>8, <1>9, <1>10, <1>11

\* The blob of the first entry of another kind begins at or before all of them.
LEMMA FirstBlobFacts ==
    ASSUME file \in Files, NEW kinds
    PROVE  /\ FirstBlob(kinds) \in {0} \cup Entries
           /\ FirstBlob(kinds) # 0 =>
                 \A i \in Entries : file[i].kind \notin kinds => FirstBlob(kinds) <= i
  <1> DEFINE rest == {i \in Entries : file[i].kind \notin kinds}
             first == CHOOSE i \in rest : \A j \in rest : i <= j
  <1>1. FirstBlob(kinds) = IF rest = {} THEN 0 ELSE file[first].blob
        BY DEF FirstBlob
  <1>2. rest \in SUBSET Nat /\ rest \subseteq Entries
        BY FileFacts
  <1>3. CASE rest = {}
        BY <1>1, <1>3
  <1>4. CASE rest # {}
    <2>1. \E x \in rest : \A y \in rest : x <= y
          BY <1>2, <1>4, LeastElement
    <2>2. first \in rest /\ \A j \in rest : first <= j
          BY <2>1
    <2>3. FirstBlob(kinds) = file[first].blob
          BY <1>1, <1>4
    <2> HIDE DEF first
    <2>4. file[first].blob \in Entries /\ file[first].blob <= first /\ first \in Entries
          BY <1>2, <2>2, FileFacts
    <2>5. \A i \in Entries : file[i].kind \notin kinds => file[first].blob <= i
          BY <2>2, <2>4, FileFacts
    <2> QED
        BY <2>3, <2>4, <2>5
  <1> QED
      BY <1>3, <1>4

----------------------------------------------------------------------------
(* The steps of the reader keep the first half *)

\* Reading on loses no node, as long as none is passed over in a fresh import.
LEMMA ReaderKeeps ==
    ASSUME NodeInv, UNCHANGED <<input, nodeQ, nodeSide>>,
           mode = "nodes" => \A i \in OfKind("node") : i >= pos => i >= pos'
    PROVE  NodeBounds' /\ NodesKept' /\ NodeRowsKept' /\ MergedWhole'
  <1> USE DEF NodeInv
  <1>1. /\ UNCHANGED <<file, mode, nodeQ, npc, nodeBuf, inbuf, shard, mergeNext, merged, mergeDone,
                       nodes>>
        BY DEF input, nodeSide
  <1>2. OfKind("node")' = OfKind("node") /\ RefNodes' = RefNodes /\ RefNodes \subseteq OfKind("node")
        BY <1>1, FileKept, Kinds DEF NodeTypes
  <1>3. \A i \in OfKind("node") : Waiting(i) => Waiting(i)'
        BY <1>1 DEF Waiting
  <1>4. NodeBounds' /\ MergedWhole'
        BY <1>1, <1>2 DEF NodeBounds, MergedWhole
  <1>5. NodesKept'
        BY <1>1, <1>2, <1>3 DEF NodesKept
  <1>6. NodeRowsKept'
        BY <1>1, <1>2, <1>3 DEF NodeRowsKept
  <1> QED
      BY <1>4, <1>5, <1>6

\* Steps that touch nothing of the first half keep it.
LEMMA NodeFrame ==
    ASSUME NodeInv, UNCHANGED <<input, producer, nodeQ, nodeStop, wayStop, nodeSide>>
    PROVE  NodeInv'
  <1> USE DEF NodeInv
  <1>1. /\ UNCHANGED <<file, mode, ppc, pos, nodePhase, rr, nodeOff, relOff, nodeQ, nodeStop, wayStop>>
        /\ UNCHANGED <<npc, nodeBuf, inbuf, shard, mergeNext, merged, mergeDone, nodes>>
        BY DEF input, producer, nodeSide
  <1>2. /\ Entries' = Entries /\ OfKind("node")' = OfKind("node") /\ OfKind("rel")' = OfKind("rel")
        /\ RefNodes' = RefNodes
        BY <1>1, FileKept
  <1>3. NodeBounds' /\ NodesKept' /\ NodeRowsKept' /\ MergedWhole'
        BY <1>1, ReaderKeeps
  <1>4. NodeTypes' /\ OffsetsSkipNothing'
        BY <1>1, <1>2 DEF NodeTypes, OffsetsSkipNothing
  <1>5. Reader' /\ NodeBarrier'
        BY <1>1, <1>2 DEF Reader, NodeBarrier, SkipNodes
  <1> QED
      BY <1>3, <1>4, <1>5

\* Steps of the reader that leave the queues alone keep the first half when
\* they keep its types, its offsets and its place.
LEMMA ReaderFrame ==
    ASSUME NodeInv, UNCHANGED <<input, nodeQ, nodeSide>>,
           mode = "nodes" => \A i \in OfKind("node") : i >= pos => i >= pos',
           nodeStop => nodeStop', NodeTypes', Reader', OffsetsSkipNothing'
    PROVE  NodeInv'
  <1>1. NodeBarrier'
        BY DEF NodeInv, NodeBarrier, SkipNodes, input, nodeSide
  <1> QED
      BY <1>1, ReaderKeeps DEF NodeInv

\* The entry the reader is at.
LEMMA AtPos ==
    ASSUME NodeInv, Reading
    PROVE  /\ pos \in Entries /\ pos + 1 \in 1..(Len(file) + 1) /\ pos \in OfKind(Kind)
           /\ Kind \in {"node", "way", "rel"} /\ Len(file) \in Nat
           /\ file[pos].blob \in Entries /\ file[pos].blob <= pos
  <1>1. pos \in Entries /\ pos + 1 \in 1..(Len(file) + 1) /\ Len(file) \in Nat
        BY FileFacts DEF NodeInv, NodeTypes, Reading
  <1> QED
      BY <1>1, FileFacts DEF NodeInv, NodeTypes, OfKind, Kind

\* Dropping a node in -R merge keeps the first half.
LEMMA DropNodeKeeps == ASSUME NodeInv, DropNode PROVE NodeInv'
  <1> USE DEF NodeInv
  <1>1. /\ UNCHANGED <<input, queues, nodeSide>> /\ pos' = pos + 1 /\ mode = "merge"
        /\ UNCHANGED <<file, mode, ppc, nodePhase, rr, nodeOff, relOff, nodeQ, nodeStop, wayStop>>
        /\ UNCHANGED <<npc, nodeBuf, inbuf, shard, mergeNext, merged, mergeDone, nodes>>
        /\ Reading /\ Kind = "node" /\ nodePhase /\ ppc = "read"
        BY DEF DropNode, input, queues, nodeSide, Reading
  <1>2. /\ Entries' = Entries /\ OfKind("node")' = OfKind("node") /\ OfKind("rel")' = OfKind("rel")
        /\ RefNodes' = RefNodes
        BY <1>1, FileKept
  <1>3. /\ pos \in Entries /\ pos + 1 \in 1..(Len(file) + 1) /\ pos \in OfKind("node")
        BY <1>1, AtPos
  <1>4. NodeTypes' /\ OffsetsSkipNothing'
        BY <1>1, <1>2, <1>3 DEF NodeTypes, OffsetsSkipNothing
  <1>5. Reader'
        BY <1>1, <1>2, <1>3 DEF Reader, SkipNodes, NodeTypes
  <1> QED
      BY <1>1, <1>4, <1>5, ReaderFrame

\* Pushing a node keeps the first half: it waits in its queue.
LEMMA PushNodeKeeps == ASSUME NodeInv, PushNode PROVE NodeInv'
  <1> DEFINE t == rr % NodeThreads
  <1> USE DEF NodeInv
  <1>1. /\ UNCHANGED <<input, nodeSide>> /\ pos' = pos + 1 /\ mode # "merge" /\ rr' = rr + 1
        /\ UNCHANGED <<file, mode, ppc, nodePhase, nodeOff, relOff, nodeStop, wayStop>>
        /\ UNCHANGED <<npc, nodeBuf, inbuf, shard, mergeNext, merged, mergeDone, nodes>>
        /\ Reading /\ Kind = "node" /\ nodePhase /\ ppc = "read"
        /\ nodeQ' = [nodeQ EXCEPT ![t] = Append(nodeQ[t], pos)] /\ Len(nodeQ[t]) < QueueSize
        BY DEF PushNode, input, nodeSide, Reading
  <1>2. t \in NodeTids
        BY ImportAssumption DEF NodeTids, NodeTypes
  <1> HIDE DEF t
  <1>3. /\ Entries' = Entries /\ OfKind("node")' = OfKind("node") /\ OfKind("rel")' = OfKind("rel")
        /\ RefNodes' = RefNodes /\ RefNodes \subseteq OfKind("node")
        BY <1>1, FileKept, Kinds DEF NodeTypes
  <1>4. /\ pos \in Entries /\ pos + 1 \in 1..(Len(file) + 1) /\ pos \in OfKind("node")
        BY <1>1, AtPos
  <1>5. nodeQ' \in [NodeTids -> Seq(OfKind("node"))] /\ \A u \in NodeTids : Len(nodeQ'[u]) <= QueueSize
        BY <1>1, <1>2, <1>4, ImportAssumption DEF NodeTypes, NodeBounds
  <1>6. NodeTypes'
    <2>1. rr' \in Nat /\ pos' \in 1..(Len(file') + 1)
          BY <1>1, <1>4 DEF NodeTypes
    <2> QED
        BY <1>1, <1>3, <1>5, <2>1 DEF NodeTypes
  <1>7. Reader'
        BY <1>1, <1>3, <1>4 DEF Reader, SkipNodes, NodeTypes
  <1>8. ~nodeStop /\ \A u \in NodeTids : npc[u] = "loop"
        BY <1>1 DEF Reader, NodeBarrier
  <1>9. NodeBarrier' /\ NodeBounds' /\ MergedWhole'
        BY <1>1, <1>3, <1>5, <1>8 DEF NodeBarrier, NodeBounds, MergedWhole, SkipNodes
  <1>10. ASSUME NEW i \in OfKind("node"), Waiting(i) PROVE Waiting(i)'
    <2>1. mode = "nodes"
          BY <1>10 DEF Waiting
    <2>2. CASE i >= pos
      <3>1. i = pos \/ i >= pos'
            BY <1>1, <1>4, <2>2, Kinds DEF NodeTypes
      <3>2. CASE i = pos
        <4>1. nodeQ'[t][Len(nodeQ[t]) + 1] = i /\ Len(nodeQ[t]) + 1 \in 1..Len(nodeQ'[t])
              BY <1>1, <1>2, <1>4, <3>2 DEF NodeTypes
        <4> QED
            BY <1>1, <1>2, <2>1, <4>1 DEF Waiting
      <3> QED
          BY <1>1, <2>1, <3>1, <3>2 DEF Waiting
    <2>3. CASE \E u \in NodeTids : \E k \in 1..Len(nodeQ[u]) : nodeQ[u][k] = i
      <3>1. PICK u \in NodeTids : \E k \in 1..Len(nodeQ[u]) : nodeQ[u][k] = i
            BY <2>3
      <3>2. PICK k \in 1..Len(nodeQ[u]) : nodeQ[u][k] = i
            BY <3>1
      <3>3. k \in 1..Len(nodeQ'[u]) /\ nodeQ'[u][k] = i
            BY <1>1, <1>2, <1>4, <3>2 DEF NodeTypes
      <3> QED
          BY <1>1, <2>1, <3>3 DEF Waiting
    <2> QED
        BY <1>10, <2>2, <2>3 DEF Waiting
  <1>11. NodesKept'
        BY <1>1, <1>3, <1>10 DEF NodesKept
  <1>12. NodeRowsKept'
        BY <1>1, <1>3, <1>10 DEF NodeRowsKept
  <1>13. OffsetsSkipNothing'
        BY <1>1, <1>3 DEF OffsetsSkipNothing
  <1> QED
      BY <1>6, <1>7, <1>9, <1>11, <1>12, <1>13

\* The first non-node ends the node phase: the file is sorted, so no node is
\* left, and the blob begins at or before everything the later phases need.
LEMMA EndNodePhaseKeeps == ASSUME NodeInv, EndNodePhase PROVE NodeInv'
  <1> USE DEF NodeInv
  <1>1. /\ UNCHANGED <<input, nodeQ, nodeSide>>
        /\ UNCHANGED <<file, mode, pos, rr, relOff, nodeQ, wayStop>>
        /\ UNCHANGED <<npc, nodeBuf, inbuf, shard, mergeNext, merged, mergeDone, nodes>>
        /\ Reading /\ Kind # "node" /\ nodePhase /\ ppc = "read"
        /\ nodePhase' = FALSE /\ nodeStop' = TRUE /\ nodeOff' = file[pos].blob /\ ppc' = "spin"
        BY DEF EndNodePhase, input, nodeSide, Reading
  <1>2. /\ Entries' = Entries /\ OfKind("node")' = OfKind("node") /\ OfKind("rel")' = OfKind("rel")
        /\ RefNodes' = RefNodes
        BY <1>1, FileKept
  <1>3. /\ pos \in Entries /\ pos \notin OfKind("node") /\ file[pos].blob \in Entries
        /\ file[pos].blob <= pos
        BY <1>1, AtPos, Kinds DEF NodeTypes, Kind, OfKind
  <1>4. NodeTypes'
        BY <1>1, <1>2, <1>3 DEF NodeTypes
  <1>5. \A i \in OfKind("node") : i < pos
        BY <1>3, Kinds, FileFacts DEF NodeTypes
  <1>6. \A i \in Entries \ OfKind("node") : i >= pos
        BY <1>1, <1>3, FileFacts DEF NodeTypes, Reader
  <1>7. OffsetsSkipNothing'
        BY <1>1, <1>2, <1>3, <1>6, FileFacts DEF OffsetsSkipNothing, NodeTypes
  <1>8. Reader'
        BY <1>1, <1>2, <1>5 DEF Reader, SkipNodes, NodeTypes
  <1> QED
      BY <1>1, <1>4, <1>7, <1>8, ReaderFrame

\* Going on after the merge keeps the first half.
LEMMA SpinOnMergeKeeps == ASSUME NodeInv, SpinOnMerge PROVE NodeInv'
  <1> USE DEF NodeInv
  <1>1. /\ UNCHANGED <<input, nodeQ, nodeSide>>
        /\ UNCHANGED <<file, mode, pos, nodePhase, rr, nodeOff, relOff, nodeQ, nodeStop, wayStop>>
        /\ UNCHANGED <<npc, nodeBuf, inbuf, shard, mergeNext, merged, mergeDone, nodes>>
        /\ ppc = "spin" /\ mergeDone /\ ppc' = "read"
        BY DEF SpinOnMerge, input, queues, nodeSide
  <1>2. /\ Entries' = Entries /\ OfKind("node")' = OfKind("node") /\ OfKind("rel")' = OfKind("rel")
        /\ RefNodes' = RefNodes
        BY <1>1, FileKept
  <1>3. NodeTypes' /\ OffsetsSkipNothing'
        BY <1>1, <1>2 DEF NodeTypes, OffsetsSkipNothing
  <1>4. Reader'
        BY <1>1, <1>2 DEF Reader, SkipNodes, NodeTypes
  <1> QED
      BY <1>1, <1>3, <1>4, ReaderFrame

\* Passing a way or a relation, to way_q or over it, keeps the first half; the
\* first relation's blob begins at or before every relation.
LEMMA PassWayKeeps == ASSUME NodeInv, DropWay \/ PushWay PROVE NodeInv'
  <1> USE DEF NodeInv
  <1>1. /\ UNCHANGED <<input, nodeQ, nodeSide>>
        /\ UNCHANGED <<file, mode, ppc, nodePhase, rr, nodeOff, nodeQ, nodeStop, wayStop>>
        /\ UNCHANGED <<npc, nodeBuf, inbuf, shard, mergeNext, merged, mergeDone, nodes>>
        /\ Reading /\ ~nodePhase /\ ppc = "read" /\ pos' = pos + 1
        /\ \/ relOff' = relOff
           \/ /\ Kind = "rel" /\ relOff' = file[pos].blob
              /\ \A i \in 1..(pos - 1) : file[i].kind # "rel"
        BY DEF DropWay, PushWay, input, queues, nodeSide, Reading
  <1>2. /\ Entries' = Entries /\ OfKind("node")' = OfKind("node") /\ OfKind("rel")' = OfKind("rel")
        /\ RefNodes' = RefNodes
        BY <1>1, FileKept
  <1>3. /\ pos \in Entries /\ pos + 1 \in 1..(Len(file) + 1) /\ file[pos].blob \in Entries
        /\ file[pos].blob <= pos
        BY <1>1, AtPos
  <1>4. NodeTypes'
        BY <1>1, <1>2, <1>3 DEF NodeTypes
  <1>5. (relOff' # 0 => \A i \in OfKind("rel") : i >= relOff')
    <2>1. CASE relOff' = relOff
          BY <2>1 DEF OffsetsSkipNothing
    <2>2. CASE relOff' = file[pos].blob /\ \A i \in 1..(pos - 1) : file[i].kind # "rel"
      <3>1. \A i \in OfKind("rel") : i >= pos
            BY <1>3, <2>2, FileFacts DEF OfKind, NodeTypes
      <3> QED
          BY <1>3, <2>2, <3>1, Kinds, FileFacts DEF NodeTypes
    <2> QED
        BY <1>1, <2>1, <2>2
  <1>6. OffsetsSkipNothing'
        BY <1>1, <1>2, <1>5 DEF OffsetsSkipNothing
  <1>7. Reader'
        BY <1>1, <1>2, <1>3, FileFacts, Kinds DEF Reader, SkipNodes, NodeTypes
  <1>8. mode = "nodes" => \A i \in OfKind("node") : i >= pos => i >= pos'
    <2>1. mode = "nodes" => \A i \in OfKind("node") : i < pos
          BY <1>1 DEF Reader, SkipNodes
    <2> QED
        BY <1>3, <2>1, Kinds, FileFacts DEF NodeTypes
  <1> QED
      BY <1>1, <1>4, <1>6, <1>7, <1>8, ReaderFrame

\* The end of the file, and the two joins, keep the first half.
LEMMA JoinsKeep == ASSUME NodeInv, EndOfFile \/ JoinNodes \/ JoinWays PROVE NodeInv'
  <1> USE DEF NodeInv
  <1>1. /\ UNCHANGED <<input, nodeQ, nodeSide>>
        /\ UNCHANGED <<file, mode, pos, nodePhase, rr, nodeOff, relOff, nodeQ>>
        /\ UNCHANGED <<npc, nodeBuf, inbuf, shard, mergeNext, merged, mergeDone, nodes>>
        /\ \/ /\ ppc = "read" /\ pos > Len(file) /\ ppc' = "joinNodes" /\ nodeStop' = TRUE
              /\ UNCHANGED wayStop
           \/ /\ ppc = "joinNodes" /\ ppc' = "joinWays" /\ wayStop' = TRUE /\ UNCHANGED nodeStop
              /\ \A t \in NodeTids : npc[t] = "done"
           \/ ppc = "joinWays" /\ ppc' = "done" /\ UNCHANGED <<nodeStop, wayStop>>
        BY DEF EndOfFile, JoinNodes, JoinWays, input, queues, nodeSide
  <1>2. /\ Entries' = Entries /\ OfKind("node")' = OfKind("node") /\ OfKind("rel")' = OfKind("rel")
        /\ RefNodes' = RefNodes
        BY <1>1, FileKept
  <1>3. NodeTypes' /\ OffsetsSkipNothing'
        BY <1>1, <1>2 DEF NodeTypes, OffsetsSkipNothing
  <1>4. Reader'
        BY <1>1, <1>2, FileFacts DEF Reader, SkipNodes, NodeTypes
  <1>5. nodeStop => nodeStop'
        BY <1>1 DEF NodeTypes
  <1> QED
      BY <1>1, <1>3, <1>4, <1>5, ReaderFrame

----------------------------------------------------------------------------
(* The node threads and the merge keep the first half *)

\* The reader's place does not depend on the node threads, except for the
\* joins and the merge, which only move on.
LEMMA NodeThreadFrame ==
    ASSUME NodeInv, UNCHANGED <<input, producer, nodeStop, wayStop>>,
           mergeDone => mergeDone', \A t \in NodeTids : npc[t] = "done" => npc'[t] = "done"
    PROVE  Reader' /\ OffsetsSkipNothing'
  <1> USE DEF NodeInv
  <1>1. UNCHANGED <<file, mode, ppc, pos, nodePhase, rr, nodeOff, relOff, nodeStop, wayStop>>
        BY DEF input, producer
  <1>2. /\ Entries' = Entries /\ OfKind("node")' = OfKind("node") /\ OfKind("rel")' = OfKind("rel")
        /\ RefNodes' = RefNodes
        BY <1>1, FileKept
  <1>3. OffsetsSkipNothing'
        BY <1>1, <1>2 DEF OffsetsSkipNothing
  <1>4. Reader'
        BY <1>1, <1>2 DEF Reader, SkipNodes
  <1> QED
      BY <1>3, <1>4

\* A node leaves the queue for the shard and, tagged, for the row buffer.
LEMMA HandleNodeKeeps ==
    ASSUME NEW t \in NodeTids, NodeInv, HandleNode(t)
    PROVE  NodeInv'
  <1> DEFINE i == Head(nodeQ[t])
             chunk == inbuf[t] \cup {i}
             buf == IF file[i].tagged THEN nodeBuf[t] \cup {i} ELSE nodeBuf[t]
  <1> USE DEF NodeInv
  <1>1. /\ UNCHANGED <<input, producer, nodeStop, wayStop>>
        /\ UNCHANGED <<file, mode, ppc, pos, nodePhase, rr, nodeOff, relOff, nodeStop, wayStop>>
        /\ UNCHANGED <<npc, mergeNext, merged, mergeDone>>
        /\ npc[t] = "loop" /\ nodeQ[t] # <<>>
        /\ nodeQ' = [nodeQ EXCEPT ![t] = Tail(nodeQ[t])]
        BY DEF HandleNode, input, producer
  <1>2. \/ /\ inbuf' = [inbuf EXCEPT ![t] = {}] /\ shard' = [shard EXCEPT ![t] = shard[t] \cup chunk]
        \/ /\ inbuf' = [inbuf EXCEPT ![t] = chunk] /\ shard' = [shard EXCEPT ![t] = shard[t]]
           /\ ~(Cardinality(chunk) >= ChunkRecords)
        BY DEF HandleNode, insert
  <1>3. \/ nodeBuf' = [nodeBuf EXCEPT ![t] = {}] /\ nodes' = nodes \cup buf
        \/ nodeBuf' = [nodeBuf EXCEPT ![t] = buf] /\ nodes' = nodes
        BY DEF HandleNode, insertNode
  <1>4. /\ Entries' = Entries /\ OfKind("node")' = OfKind("node") /\ OfKind("rel")' = OfKind("rel")
        /\ RefNodes' = RefNodes /\ RefNodes \subseteq OfKind("node")
        BY <1>1, FileKept, Kinds DEF NodeTypes
  <1>5. nodeQ[t] \in Seq(OfKind("node")) /\ i \in OfKind("node") /\ Tail(nodeQ[t]) \in Seq(OfKind("node"))
        /\ Len(Tail(nodeQ[t])) <= Len(nodeQ[t])
        BY <1>1 DEF NodeTypes
  <1>6. chunk \subseteq OfKind("node") /\ buf \subseteq RefNodes
        BY <1>5 DEF NodeTypes, RefNodes
  <1>7. i \in chunk /\ inbuf[t] \subseteq chunk /\ nodeBuf[t] \subseteq buf /\ (i \in RefNodes => i \in buf)
        BY DEF RefNodes
  <1>8. IsFiniteSet(chunk)
        BY FS_AddElement DEF NodeBounds
  <1> HIDE DEF buf, chunk
  <1>9. nodeQ' \in [NodeTids -> Seq(OfKind("node"))] /\ \A u \in NodeTids : Len(nodeQ'[u]) <= QueueSize
    <2>1. \A u \in NodeTids : Len(nodeQ[u]) \in Nat /\ Len(nodeQ[u]) <= QueueSize
          BY DEF NodeTypes, NodeBounds
    <2>2. Len(Tail(nodeQ[t])) <= QueueSize
          BY <1>5, <2>1, ImportAssumption
    <2> QED
        BY <1>1, <1>5, <2>1, <2>2 DEF NodeTypes
  <1>10. /\ inbuf' \in [NodeTids -> SUBSET OfKind("node")] /\ shard' \in [NodeTids -> SUBSET OfKind("node")]
         /\ \A u \in NodeTids : inbuf[u] \cup shard[u] \subseteq inbuf'[u] \cup shard'[u]
         /\ i \in inbuf'[t] \cup shard'[t]
         /\ \A u \in NodeTids : IsFiniteSet(inbuf'[u]) /\ Cardinality(inbuf'[u]) < ChunkRecords
    <2>1. Cardinality(chunk) \in Nat /\ Cardinality({}) = 0 /\ IsFiniteSet({})
          BY <1>8, FS_CardinalityType, FS_EmptySet
    <2>2. CASE inbuf' = [inbuf EXCEPT ![t] = {}] /\ shard' = [shard EXCEPT ![t] = shard[t] \cup chunk]
          BY <1>6, <1>7, <2>1, <2>2, ImportAssumption DEF NodeTypes, NodeBounds
    <2>3. CASE /\ inbuf' = [inbuf EXCEPT ![t] = chunk] /\ shard' = [shard EXCEPT ![t] = shard[t]]
               /\ ~(Cardinality(chunk) >= ChunkRecords)
          BY <1>6, <1>7, <1>8, <2>1, <2>3, ImportAssumption DEF NodeTypes, NodeBounds
    <2> QED
        BY <1>2, <2>2, <2>3
  <1>11. /\ nodeBuf' \in [NodeTids -> SUBSET RefNodes] /\ nodes' \subseteq RefNodes
         /\ nodes \subseteq nodes'
         /\ \A u \in NodeTids : u # t => nodeBuf'[u] = nodeBuf[u]
         /\ buf \subseteq nodes' \cup nodeBuf'[t]
         BY <1>3, <1>6 DEF NodeTypes
  <1>12. NodeTypes' /\ NodeBounds'
         BY <1>1, <1>4, <1>9, <1>10, <1>11 DEF NodeTypes, NodeBounds
  <1>13. Reader' /\ OffsetsSkipNothing' /\ MergedWhole'
         BY <1>1, <1>4, NodeThreadFrame DEF MergedWhole
  <1>14. NodeBarrier' /\ mergeNext = 0
    <2>1. mergeNext = 0 /\ ~mergeDone
          BY <1>1 DEF NodeBarrier, NodeTypes
    <2> QED
        BY <1>1, <1>11, <2>1 DEF NodeBarrier, NodeTypes, SkipNodes
  <1>15. ASSUME NEW j \in OfKind("node"), Waiting(j) PROVE j = i \/ Waiting(j)'
    <2>1. CASE j >= pos
          BY <1>1, <1>15, <2>1 DEF Waiting
    <2>2. CASE \E u \in NodeTids : \E k \in 1..Len(nodeQ[u]) : nodeQ[u][k] = j
      <3>1. PICK u \in NodeTids : \E k \in 1..Len(nodeQ[u]) : nodeQ[u][k] = j
            BY <2>2
      <3>2. PICK k \in 1..Len(nodeQ[u]) : nodeQ[u][k] = j
            BY <3>1
      <3>3. CASE u = t
        <4>1. CASE k = 1
              BY <1>5, <3>2, <3>3, <4>1
        <4>2. CASE k # 1
          <5>1. k - 1 \in 1..Len(Tail(nodeQ[t])) /\ Tail(nodeQ[t])[k - 1] = j
                BY <1>1, <1>5, <3>2, <3>3, <4>2
          <5>2. k - 1 \in 1..Len(nodeQ'[t]) /\ nodeQ'[t][k - 1] = j
                BY <1>1, <5>1 DEF NodeTypes
          <5> QED
              BY <1>1, <1>15, <5>2 DEF Waiting
        <4> QED
            BY <4>1, <4>2
      <3>4. CASE u # t
        <4>1. nodeQ'[u] = nodeQ[u]
              BY <1>1, <3>4 DEF NodeTypes
        <4> QED
            BY <1>1, <1>15, <3>2, <4>1 DEF Waiting
      <3> QED
          BY <3>3, <3>4
    <2> QED
        BY <1>15, <2>1, <2>2 DEF Waiting
  <1>16. NodesKept'
    <2>1. t >= mergeNext'
          BY <1>1, <1>14 DEF NodeTids
    <2> SUFFICES ASSUME NEW j \in OfKind("node")
                 PROVE  \/ j \in merged' \/ Waiting(j)'
                        \/ \E u \in NodeTids : u >= mergeNext' /\ j \in shard'[u] \cup inbuf'[u]
        BY <1>4 DEF NodesKept
    <2> QED
        BY <1>1, <1>10, <1>15, <2>1 DEF NodesKept
  <1>17. NodeRowsKept'
    <2> SUFFICES ASSUME NEW j \in RefNodes
                 PROVE  j \in nodes' \/ Waiting(j)' \/ \E u \in NodeTids : j \in nodeBuf'[u]
        BY <1>4 DEF NodeRowsKept
    <2>1. CASE j = i
          BY <1>7, <1>11, <2>1
    <2>2. CASE j # i
          BY <1>4, <1>7, <1>11, <1>15, <2>2 DEF NodeRowsKept
    <2> QED
        BY <2>1, <2>2
  <1> QED
      BY <1>12, <1>13, <1>14, <1>16, <1>17

\* A node thread at the end of its queue flushes its rows.
LEMMA FinishNodesKeeps ==
    ASSUME NEW t \in NodeTids, NodeInv, FinishNodes(t)
    PROVE  NodeInv'
  <1> USE DEF NodeInv
  <1>1. /\ UNCHANGED <<input, producer, nodeStop, wayStop>>
        /\ UNCHANGED <<file, mode, ppc, pos, nodePhase, rr, nodeOff, relOff, nodeQ, nodeStop, wayStop>>
        /\ UNCHANGED <<inbuf, shard, mergeNext, merged, mergeDone>>
        /\ npc[t] = "loop" /\ nodeQ[t] = <<>> /\ nodeStop
        /\ npc' = [npc EXCEPT ![t] = "barrier"]
        /\ nodes' = nodes \cup nodeBuf[t] /\ nodeBuf' = [nodeBuf EXCEPT ![t] = {}]
        BY DEF FinishNodes, finalize_nodes, input, producer, queues
  <1>2. /\ Entries' = Entries /\ OfKind("node")' = OfKind("node") /\ OfKind("rel")' = OfKind("rel")
        /\ RefNodes' = RefNodes /\ RefNodes \subseteq OfKind("node")
        BY <1>1, FileKept, Kinds DEF NodeTypes
  <1>3. NodeTypes' /\ NodeBounds' /\ MergedWhole'
        BY <1>1, <1>2 DEF NodeTypes, NodeBounds, MergedWhole
  <1>4. Reader' /\ OffsetsSkipNothing'
        BY <1>1, NodeThreadFrame DEF NodeTypes
  <1>5. NodeBarrier'
        BY <1>1 DEF NodeTypes, NodeBarrier, SkipNodes
  <1>6. \A i : Waiting(i)' = Waiting(i)
        BY <1>1 DEF Waiting
  <1>7. NodesKept'
        BY <1>1, <1>2, <1>6 DEF NodesKept
  <1>8. NodeRowsKept'
        BY <1>1, <1>2, <1>6 DEF NodeRowsKept, NodeTypes
  <1> QED
      BY <1>3, <1>4, <1>5, <1>7, <1>8

\* Leaving the barrier keeps the first half.
LEMMA LeaveNodeBarrierKeeps ==
    ASSUME NEW t \in NodeTids, NodeInv, LeaveNodeBarrier(t)
    PROVE  NodeInv'
  <1> USE DEF NodeInv
  <1>1. /\ UNCHANGED <<input, producer, nodeStop, wayStop>>
        /\ UNCHANGED <<file, mode, ppc, pos, nodePhase, rr, nodeOff, relOff, nodeQ, nodeStop, wayStop>>
        /\ UNCHANGED <<nodeBuf, inbuf, shard, mergeNext, merged, mergeDone, nodes>>
        /\ npc[t] = "barrier" /\ mergeDone /\ npc' = [npc EXCEPT ![t] = "done"]
        BY DEF LeaveNodeBarrier, input, producer, queues
  <1>2. /\ Entries' = Entries /\ OfKind("node")' = OfKind("node") /\ OfKind("rel")' = OfKind("rel")
        /\ RefNodes' = RefNodes
        BY <1>1, FileKept
  <1>3. NodeTypes' /\ NodeBounds' /\ MergedWhole'
        BY <1>1, <1>2 DEF NodeTypes, NodeBounds, MergedWhole
  <1>4. Reader' /\ OffsetsSkipNothing'
        BY <1>1, NodeThreadFrame DEF NodeTypes
  <1>5. NodeBarrier'
        BY <1>1 DEF NodeTypes, NodeBarrier, SkipNodes
  <1>6. \A i : Waiting(i)' = Waiting(i)
        BY <1>1 DEF Waiting
  <1>7. NodesKept' /\ NodeRowsKept'
        BY <1>1, <1>2, <1>6 DEF NodesKept, NodeRowsKept
  <1> QED
      BY <1>3, <1>4, <1>5, <1>7

\* Once every node thread has left its loop, no node is on its way any more.
LEMMA NoneWaiting ==
    ASSUME NodeInv, \A t \in NodeTids : npc[t] # "loop"
    PROVE  \A i \in OfKind("node") : ~Waiting(i)
  <1> USE DEF NodeInv
  <1>1. nodeStop /\ \A t \in NodeTids : nodeQ[t] = <<>>
    <2>1. 0 \in NodeTids
          BY ImportAssumption DEF NodeTids
    <2> QED
        BY <2>1 DEF NodeBarrier
  <1>2. mode = "nodes" => \A i \in OfKind("node") : i < pos
    <2>1. CASE nodePhase
          BY <1>1, <2>1, FileFacts, Kinds DEF Reader, NodeTypes
    <2>2. CASE ~nodePhase
          BY <2>2 DEF Reader, SkipNodes
    <2> QED
        BY <2>1, <2>2
  <1> QED
      BY <1>1, <1>2, Kinds, FileFacts DEF Waiting, NodeTypes

\* Merging a shard keeps the first half: its nodes are in nodes.dat before the
\* shard is gone.
LEMMA MergeShardKeeps == ASSUME NodeInv, MergeShard PROVE NodeInv'
  <1> USE DEF NodeInv
  <1>1. /\ UNCHANGED <<input, producer, nodeStop, wayStop>>
        /\ UNCHANGED <<file, mode, ppc, pos, nodePhase, rr, nodeOff, relOff, nodeQ, nodeStop, wayStop>>
        /\ UNCHANGED <<npc, nodeBuf, mergeDone, nodes>>
        /\ \A t \in NodeTids : npc[t] = "barrier"
        /\ mergeNext < NodeThreads /\ mergeNext' = mergeNext + 1
        /\ merged' = merged \cup shard[mergeNext] \cup inbuf[mergeNext]
        /\ inbuf' = [inbuf EXCEPT ![mergeNext] = {}]
        /\ shard' = [shard EXCEPT ![mergeNext] = {}]
        BY DEF MergeShard, input, producer, queues
  <1>2. /\ Entries' = Entries /\ OfKind("node")' = OfKind("node") /\ OfKind("rel")' = OfKind("rel")
        /\ RefNodes' = RefNodes
        BY <1>1, FileKept
  <1>3. mergeNext \in NodeTids /\ mergeNext + 1 \in 0..NodeThreads
        BY <1>1, ImportAssumption DEF NodeTypes, NodeTids
  <1>4. NodeTypes'
        BY <1>1, <1>2, <1>3 DEF NodeTypes
  <1>5. NodeBounds'
    <2>1. Cardinality({}) = 0 /\ IsFiniteSet({}) /\ 0 < ChunkRecords
          BY FS_EmptySet, ImportAssumption
    <2> QED
        BY <1>1, <1>3, <2>1 DEF NodeTypes, NodeBounds
  <1>6. Reader' /\ OffsetsSkipNothing'
        BY <1>1, NodeThreadFrame
  <1>7. NodeBarrier' /\ MergedWhole'
        BY <1>1, <1>2, <1>3 DEF NodeBarrier, NodeTypes, MergedWhole, SkipNodes
  <1>8. \A i : Waiting(i)' = Waiting(i)
        BY <1>1 DEF Waiting
  <1>9. NodesKept'
    <2> SUFFICES ASSUME NEW i \in OfKind("node")
                 PROVE  \/ i \in merged' \/ Waiting(i)'
                        \/ \E u \in NodeTids : u >= mergeNext' /\ i \in shard'[u] \cup inbuf'[u]
        BY <1>2 DEF NodesKept
    <2>1. CASE i \in merged \/ Waiting(i)
          BY <1>1, <1>8, <2>1
    <2>2. CASE \E u \in NodeTids : u >= mergeNext /\ i \in shard[u] \cup inbuf[u]
      <3>1. PICK u \in NodeTids : u >= mergeNext /\ i \in shard[u] \cup inbuf[u]
            BY <2>2
      <3>2. CASE u = mergeNext
            BY <1>1, <3>1, <3>2
      <3>3. CASE u # mergeNext
        <4>1. u >= mergeNext' /\ i \in shard'[u] \cup inbuf'[u]
              BY <1>1, <1>3, <3>1, <3>3, ImportAssumption DEF NodeTids, NodeTypes
        <4> QED
            BY <4>1
      <3> QED
          BY <3>2, <3>3
    <2> QED
        BY <2>1, <2>2 DEF NodesKept
  <1>10. NodeRowsKept'
        BY <1>1, <1>2, <1>8 DEF NodeRowsKept
  <1> QED
      BY <1>4, <1>5, <1>6, <1>7, <1>9, <1>10

\* After the last shard nodes.dat has every node.
LEMMA FinishMergeKeeps == ASSUME NodeInv, FinishMerge PROVE NodeInv'
  <1> USE DEF NodeInv
  <1>1. /\ UNCHANGED <<input, producer, nodeStop, wayStop>>
        /\ UNCHANGED <<file, mode, ppc, pos, nodePhase, rr, nodeOff, relOff, nodeQ, nodeStop, wayStop>>
        /\ UNCHANGED <<npc, nodeBuf, inbuf, shard, mergeNext, merged, nodes>>
        /\ mergeNext = NodeThreads /\ mergeDone' = TRUE
        BY DEF FinishMerge, input, producer, queues
  <1>2. /\ Entries' = Entries /\ OfKind("node")' = OfKind("node") /\ OfKind("rel")' = OfKind("rel")
        /\ RefNodes' = RefNodes
        BY <1>1, FileKept
  <1>3. NodeTypes' /\ NodeBounds'
        BY <1>1, <1>2 DEF NodeTypes, NodeBounds
  <1>4. Reader' /\ OffsetsSkipNothing'
        BY <1>1, NodeThreadFrame
  <1>5. \A t \in NodeTids : npc[t] # "loop"
        BY <1>1, ImportAssumption DEF NodeBarrier
  <1>6. NodeBarrier'
        BY <1>1, <1>5 DEF NodeBarrier, SkipNodes
  <1>7. \A i : Waiting(i)' = Waiting(i)
        BY <1>1 DEF Waiting
  <1>8. NodesKept' /\ NodeRowsKept'
        BY <1>1, <1>2, <1>7 DEF NodesKept, NodeRowsKept
  <1>9. MergedWhole'
    <2>1. \A t \in NodeTids : ~(t >= mergeNext)
          BY <1>1, ImportAssumption DEF NodeTids
    <2>2. OfKind("node") \subseteq merged
          BY <1>5, <2>1, NoneWaiting DEF NodesKept
    <2> QED
        BY <1>1, <1>2, <2>2 DEF MergedWhole, NodeTypes
  <1> QED
      BY <1>3, <1>4, <1>6, <1>8, <1>9

\* Every initial state, fresh or resumed, satisfies the first half.
LEMMA NodeInit == Init => NodeInv
  <1> SUFFICES ASSUME Init PROVE NodeInv
      OBVIOUS
  <1>1. file \in Files /\ mode \in Modes /\ Len(file) \in Nat
        BY FileFacts DEF Init
  <1>2. /\ nodeOff \in {0} \cup Entries /\ relOff \in {0} \cup Entries
        /\ nodeOff # 0 => nodeOff = FirstBlob({"node"}) /\ mode # "nodes"
        /\ relOff # 0 => relOff = FirstBlob({"node", "way"}) /\ mode = "relations"
        BY <1>1, FirstBlobFacts DEF Init
  <1>3. OffsetsSkipNothing
    <2>1. nodeOff # 0 => \A i \in Entries \ OfKind("node") : i >= nodeOff
          BY <1>1, <1>2, FirstBlobFacts, FileFacts DEF OfKind
    <2>2. relOff # 0 => \A i \in OfKind("rel") : i >= relOff
          BY <1>1, <1>2, FirstBlobFacts, FileFacts DEF OfKind
    <2> QED
        BY <2>1, <2>2 DEF OffsetsSkipNothing
  <1>4. pos \in 1..(Len(file) + 1) /\ pos = StartPos
        BY <1>1, <1>2, FileFacts DEF Init, StartPos
  <1>5. PICK k \in (IF mode = "merge" THEN NodeTids ELSE {0}) :
           /\ shard = [t \in NodeTids |-> IF mode = "merge" /\ t >= k THEN ShardNodes(t) ELSE {}]
           /\ merged = IF SkipNodes THEN OfKind("node")
                       ELSE UNION {ShardNodes(t) : t \in 0..(k - 1)}
        BY DEF Init
  <1>6. \A t : ShardNodes(t) \subseteq OfKind("node")
        BY DEF ShardNodes
  <1>7. NodeTypes
    <2>1. /\ nodePhase \in BOOLEAN /\ nodeStop \in BOOLEAN /\ wayStop \in BOOLEAN
          /\ mergeDone \in BOOLEAN
      <3>1. SkipNodes \in BOOLEAN
            BY DEF SkipNodes
      <3> QED
          BY <3>1 DEF Init
    <2>4. /\ ppc = "read" /\ rr = 0 /\ mergeNext = 0 /\ nodes \subseteq RefNodes
          /\ npc \in [NodeTids -> {"loop", "barrier", "done"}]
          BY DEF Init
    <2>2. /\ nodeQ \in [NodeTids -> Seq(OfKind("node"))]
          /\ nodeBuf \in [NodeTids -> SUBSET RefNodes]
          /\ inbuf \in [NodeTids -> SUBSET OfKind("node")]
          BY DEF Init
    <2>3. shard \in [NodeTids -> SUBSET OfKind("node")] /\ merged \subseteq OfKind("node")
          BY <1>5, <1>6
    <2> QED
        BY <1>1, <1>2, <1>4, <2>1, <2>2, <2>3, <2>4, ImportAssumption DEF NodeTypes
  <1>8. NodeBounds
        BY FS_EmptySet, ImportAssumption DEF NodeBounds, Init
  <1>9. Reader
    <2>1. /\ ppc = "read" /\ nodePhase = ~SkipNodes /\ nodeStop = SkipNodes /\ mergeDone = SkipNodes
          /\ wayStop = FALSE
          BY DEF Init
    <2>2. nodePhase => \A i \in 1..(pos - 1) : i \in OfKind("node")
      <3>1. CASE pos = 1
            BY <3>1
      <3>2. CASE nodePhase /\ pos # 1
        <4>1. mode # "relations"
              BY <2>1, <3>2, Zenon DEF SkipNodes
        <4>2. pos = nodeOff /\ nodeOff # 0
              BY <1>1, <1>2, <1>4, <3>2, <4>1, FileFacts DEF StartPos
        <4> QED
            BY <1>1, <1>3, <1>4, <4>2, FileFacts DEF OffsetsSkipNothing
      <3> QED
          BY <3>1, <3>2
    <2> QED
        BY <2>1, <2>2 DEF Reader, SkipNodes
  <1>10. NodeBarrier
    <2>1. /\ mergeDone = SkipNodes /\ nodeStop = SkipNodes
          /\ \A t \in NodeTids : npc[t] # "loop" => SkipNodes
          /\ SkipNodes => \A t \in NodeTids : npc[t] # "loop"
          BY DEF Init
    <2>2. mergeNext = 0 /\ \A t \in NodeTids : nodeQ[t] = <<>> /\ nodeBuf[t] = {}
          BY DEF Init
    <2>3. CASE SkipNodes
          BY <2>1, <2>2, <2>3 DEF NodeBarrier
    <2>4. CASE ~SkipNodes
          BY <2>1, <2>2, <2>4 DEF NodeBarrier
    <2> QED
        BY <2>3, <2>4
  <1>11. NodesKept
    <2> SUFFICES ASSUME NEW i \in OfKind("node")
                 PROVE  \/ i \in merged \/ Waiting(i)
                        \/ \E t \in NodeTids : t >= mergeNext /\ i \in shard[t] \cup inbuf[t]
        BY DEF NodesKept
    <2>1. CASE SkipNodes
          BY <1>5, <2>1
    <2>2. CASE mode = "nodes"
          BY <1>1, <1>4, <2>2, Kinds DEF Waiting, StartPos
    <2>3. CASE mode = "merge"
      <3> DEFINE t == (i - 1) % NodeThreads
      <3>1. i - 1 \in Nat
            BY <1>1, Kinds
      <3>2. t \in NodeTids /\ t \in Nat
            BY <3>1, ImportAssumption DEF NodeTids
      <3>3. i \in ShardNodes(t)
            BY DEF ShardNodes
      <3> HIDE DEF t
      <3>4. CASE t >= k
            BY <1>5, <2>3, <3>2, <3>3, <3>4 DEF Init
      <3>5. CASE ~(t >= k)
        <4>1. t \in 0..(k - 1) /\ ~SkipNodes
              BY <1>5, <2>3, <3>2, <3>5, ImportAssumption DEF NodeTids, SkipNodes
        <4> QED
            BY <1>5, <3>3, <4>1
      <3> QED
          BY <3>4, <3>5
    <2> QED
        BY <1>1, <2>1, <2>2, <2>3, ImportAssumption DEF SkipNodes, AllModes
  <1>12. NodeRowsKept
    <2>1. CASE mode = "nodes"
          BY <1>1, <1>4, <2>1, Kinds DEF NodeRowsKept, Waiting, StartPos
    <2>2. CASE mode # "nodes"
          BY <2>2 DEF NodeRowsKept, Init
    <2> QED
        BY <2>1, <2>2
  <1>13. MergedWhole
        BY <1>5 DEF MergedWhole, Init
  <1> QED
      BY <1>3, <1>7, <1>8, <1>9, <1>10, <1>11, <1>12, <1>13 DEF NodeInv

----------------------------------------------------------------------------
(* Rows *)

\* Rows of ways have the way's positive id, rows of polygons a negative one; a
\* row tells which entry it was made from.
LEMMA RowFacts ==
    ASSUME file \in Files
    PROVE  /\ \A row \in AllWayRows : row[1] \in OfKind("way") /\ row[1] > 0
           /\ RefWays \subseteq AllWayRows /\ RefAreas \subseteq AllWayRows
           /\ AllWayRows = RefWays \cup RefAreas /\ RefWays \cap RefAreas = {}
           /\ \A row \in RefPolygons : row[1] < 0
           /\ RefAreas \cap RefPolygons = {}
  <1>1. \A row \in AllWayRows : row[1] \in OfKind("way") /\ row[1] > 0
        BY Kinds DEF AllWayRows, WayRow
  <1>2. /\ RefWays \subseteq AllWayRows /\ RefAreas \subseteq AllWayRows
        /\ AllWayRows = RefWays \cup RefAreas /\ RefWays \cap RefAreas = {}
        BY DEF RefWays, RefAreas
  <1>3. ASSUME NEW row \in RefPolygons PROVE row[1] < 0
    <2>1. PICK i \in OfKind("rel") : row = PolygonRow(i, RefWays, RefAreas)
          BY <1>3 DEF RefPolygons
    <2>2. i \in Nat \ {0}
          BY Kinds
    <2>3. row[1] = -i
          BY <2>1 DEF PolygonRow
    <2> QED
        BY <2>2, <2>3
  <1>4. RefAreas \cap RefPolygons = {}
    <2> SUFFICES ASSUME NEW row, row \in RefAreas, row \in RefPolygons PROVE FALSE
        OBVIOUS
    <2>1. row[1] > 0 /\ row[1] < 0 /\ row[1] \in OfKind("way") /\ row[1] \in Nat
          BY <1>1, <1>2, <1>3, Kinds
    <2> QED
        BY <2>1
  <1> QED
      BY <1>1, <1>2, <1>3, <1>4

\* A relation is a polygon or not.
LEMMA RelRowFacts ==
    ASSUME file \in Files, NEW i \in OfKind("rel")
    PROVE  /\ PolygonRow(i, RefWays, RefAreas) \in RefPolygons <=>
                 /\ file[i].polygon /\ file[i].tagged
                 /\ HasOuter(PolygonRow(i, RefWays, RefAreas))
           /\ RelationRow(i, RefWays, RefAreas) \in RefRelations <=> ~file[i].polygon
           /\ RelationRow(i, RefWays, RefAreas) \in RefRoads <=>
                 /\ ~file[i].polygon /\ file[i].road
                 /\ RelationRow(i, RefWays, RefAreas)[2] # <<>>
  <1>1. \A j : PolygonRow(j, RefWays, RefAreas)[1] = -j /\ RelationRow(j, RefWays, RefAreas)[1] = j
        BY DEF PolygonRow, RelationRow
  <1>2. \A j \in OfKind("rel") : j \in Nat \ {0}
        BY Kinds
  <1>3. \A j \in OfKind("rel") :
            PolygonRow(j, RefWays, RefAreas) = PolygonRow(i, RefWays, RefAreas) => j = i
        BY <1>1, <1>2
  <1>4. \A j \in OfKind("rel") :
            RelationRow(j, RefWays, RefAreas) = RelationRow(i, RefWays, RefAreas) => j = i
        BY <1>1
  <1>5. PolygonRow(i, RefWays, RefAreas) \in RefPolygons <=>
                 /\ file[i].polygon /\ file[i].tagged
                 /\ HasOuter(PolygonRow(i, RefWays, RefAreas))
        BY <1>3 DEF RefPolygons
  <1>6. RelationRow(i, RefWays, RefAreas) \in RefRelations <=> ~file[i].polygon
        BY <1>4 DEF RefRelations
  <1>7. RelationRow(i, RefWays, RefAreas) \in RefRoads <=>
                 /\ ~file[i].polygon /\ file[i].road
                 /\ RelationRow(i, RefWays, RefAreas)[2] # <<>>
        BY <1>1, <1>6 DEF RefRoads
  <1> QED
      BY <1>5, <1>6, <1>7

\* Polygons stored beside the areas do not change what a relation finds: their
\* ids are negative.
LEMMA MembersFound ==
    ASSUME file \in Files, ways = RefWays, RefAreas \subseteq areas,
           areas \subseteq RefAreas \cup RefPolygons, NEW i
    PROVE  /\ PolygonRow(i, ways, areas) = PolygonRow(i, RefWays, RefAreas)
           /\ RelationRow(i, ways, areas) = RelationRow(i, RefWays, RefAreas)
  <1>1. \A row \in RefPolygons : row[1] \notin Entries
        BY RowFacts, FileFacts
  <1>2. Stored(ways, areas) = Stored(RefWays, RefAreas)
        BY <1>1 DEF Stored, Ids
  <1>3. Linear(ways, areas) = Linear(RefWays, RefAreas)
        BY <1>1 DEF Linear, Ids
  <1> QED
      BY <1>2, <1>3 DEF PolygonRow, RelationRow

----------------------------------------------------------------------------
(* The steps of the reader, the node threads and the merge keep the second *)
(* half                                                                    *)

\* They do so when they pass over no way and no relation.
LEMMA WayFrame ==
    ASSUME NodeInv, WayInv, UNCHANGED <<input, wayQ, waySide>>,
           pos' \in Nat, pos' >= pos, wayStop => wayStop', mergeDone => mergeDone',
           ppc' = "done" => \A w \in WayThreads : wpc[w] = "done",
           \A i \in OfKind("rel") : i >= pos => i >= pos',
           mode # "relations" => \A i \in OfKind("way") : i >= pos => i >= pos'
    PROVE  WayInv'
  <1> USE DEF WayInv
  <1>1. /\ UNCHANGED <<file, mode, wayQ, wpc, hand, phaseDone, arrived, wayBuf, areaBuf, relBuf>>
        /\ UNCHANGED <<ways, areas, relations, roads>>
        BY DEF input, waySide
  <1>2. /\ Entries' = Entries /\ OfKind("way")' = OfKind("way") /\ OfKind("rel")' = OfKind("rel")
        /\ OfKind("node")' = OfKind("node")
        /\ RefWays' = RefWays /\ RefAreas' = RefAreas /\ RefPolygons' = RefPolygons
        /\ RefRelations' = RefRelations /\ RefRoads' = RefRoads
        BY <1>1, FileKept
  <1>3. WayTypes' /\ WayBounds' /\ WaysStored'
        BY <1>1, <1>2 DEF WayTypes, WayBounds, WaysStored
  <1>4. /\ \A i : Queued(i)' = Queued(i)
        /\ QueueShut => QueueShut'
        BY <1>1 DEF Queued, QueueShut
  <1>5. pos \in Nat /\ file \in Files
        BY FileFacts DEF NodeInv, NodeTypes
  <1>6. WayOrder'
    <2>1. \A k \in 1..Len(wayQ) : wayQ[k] \in Nat /\ wayQ[k] < pos'
          BY <1>5, Kinds DEF WayTypes, WayOrder
    <2>2. \A w \in WayThreads : hand[w] \in Nat /\ hand[w] < pos'
          BY <1>5, Kinds DEF WayTypes, WayOrder
    <2> QED
        BY <1>1, <1>2, <1>4, <2>1, <2>2 DEF WayOrder
  <1>7. WayStages'
        BY <1>1, <1>2, <1>4 DEF WayStages
  <1>8. WaysRead'
        BY <1>1, <1>2, <1>4, <1>5, Kinds DEF WaysRead
  <1>9. /\ \A i \in OfKind("rel") : Flowing(i) => Flowing(i)'
        /\ mode # "relations" => \A i \in OfKind("way") : Flowing(i) => Flowing(i)'
        BY <1>1, <1>4 DEF Flowing
  <1>10. /\ \A i : WayHandled(i)' = WayHandled(i)
         /\ \A i : RelHandled(i)' = RelHandled(i)
    <2>1. wayRows' = wayRows /\ areaRows' = areaRows /\ relRows' = relRows
          BY <1>1 DEF wayRows, areaRows, relRows
    <2>2. \A i : WayHandled(i)' = WayHandled(i)
          BY <1>1, <1>2, <2>1, FileKept DEF WayHandled
    <2>3. \A i : RelHandled(i)' = RelHandled(i)
          BY <1>1, <1>2, <2>1, FileKept DEF RelHandled
    <2> QED
        BY <2>2, <2>3
  <1>11. WaysKept' /\ RelsKept'
        BY <1>1, <1>2, <1>9, <1>10 DEF WaysKept, RelsKept
  <1> QED
      BY <1>3, <1>6, <1>7, <1>8, <1>11

\* Every step of the reader but PushWay, every step of a node thread and of
\* the merge keeps the second half.
LEMMA NodeSideKeepsWays ==
    ASSUME NodeInv, WayInv,
           \/ PushNode \/ DropNode \/ EndNodePhase \/ SpinOnMerge \/ DropWay \/ EndOfFile
           \/ JoinNodes \/ JoinWays \/ Merge \/ \E t \in NodeTids : NodeThread(t)
    PROVE  WayInv'
  <1> USE DEF NodeInv
  <1>1. pos \in Nat /\ file \in Files /\ Len(file) \in Nat /\ Entries \subseteq Nat
        /\ \A k : OfKind(k) \subseteq Nat
        BY FileFacts, Kinds DEF NodeTypes
  <1>2. CASE \/ EndNodePhase \/ SpinOnMerge \/ EndOfFile \/ JoinNodes \/ JoinWays \/ Merge
             \/ \E t \in NodeTids : NodeThread(t)
    <2>1. UNCHANGED <<input, wayQ, waySide>> /\ pos' = pos
          BY <1>2 DEF EndNodePhase, SpinOnMerge, EndOfFile, JoinNodes, JoinWays, Merge, MergeShard,
                      FinishMerge, NodeThread, HandleNode, FinishNodes, LeaveNodeBarrier, producer, queues
    <2>2. wayStop => wayStop'
          BY <1>2 DEF EndNodePhase, SpinOnMerge, EndOfFile, JoinNodes, JoinWays, Merge, MergeShard,
                      FinishMerge, NodeThread, HandleNode, FinishNodes, LeaveNodeBarrier, queues
    <2>3. mergeDone => mergeDone'
          BY <1>2 DEF EndNodePhase, SpinOnMerge, EndOfFile, JoinNodes, JoinWays, Merge, MergeShard,
                      FinishMerge, NodeThread, HandleNode, FinishNodes, LeaveNodeBarrier, nodeSide
    <2>4. ppc' = "done" => ppc = "done" \/ \A w \in WayThreads : wpc[w] = "done"
          BY <1>2 DEF EndNodePhase, SpinOnMerge, EndOfFile, JoinNodes, JoinWays, Merge, MergeShard,
                      FinishMerge, NodeThread, HandleNode, FinishNodes, LeaveNodeBarrier, producer
    <2>5. ppc' = "done" => \A w \in WayThreads : wpc[w] = "done"
          BY <2>4 DEF WayInv, WayStages
    <2> QED
        BY <1>1, <2>1, <2>2, <2>3, <2>5, WayFrame
  <1>3. CASE PushNode \/ DropNode \/ DropWay
    <2>1. /\ UNCHANGED <<input, wayQ, waySide, wayStop, nodeSide, mergeDone>> /\ pos' = pos + 1
          /\ Reading /\ ppc' = "read"
          /\ Kind = "node" \/ (Kind = "way" /\ mode = "relations")
          BY <1>3 DEF PushNode, DropNode, DropWay, queues, Reading, nodeSide
    <2>2. pos \in OfKind("node") \/ (pos \in OfKind("way") /\ mode = "relations")
          BY <2>1, AtPos
    <2>3. /\ \A i \in OfKind("rel") : i >= pos => i >= pos'
          /\ mode # "relations" => \A i \in OfKind("way") : i >= pos => i >= pos'
      <3>1. \A i \in Nat : i >= pos /\ i # pos => i >= pos'
            BY <1>1, <2>1
      <3>2. pos \notin OfKind("rel") /\ (mode # "relations" => pos \notin OfKind("way"))
            BY <1>1, <2>2, Kinds
      <3> QED
          BY <1>1, <3>1, <3>2
    <2> QED
        BY <1>1, <2>1, <2>3, WayFrame
  <1> QED
      BY <1>2, <1>3

----------------------------------------------------------------------------
(* way_q and the way threads keep the second half *)

\* Entries enter the queue at its end and leave it at its head.
LEMMA QueuedAppend ==
    ASSUME wayQ \in Seq(Entries), NEW e, wayQ' = Append(wayQ, e)
    PROVE  \A i : Queued(i)' <=> Queued(i) \/ i = e
  <1>1. Len(wayQ) \in Nat /\ Len(wayQ') = Len(wayQ) + 1 /\ wayQ'[Len(wayQ) + 1] = e
        /\ \A k \in 1..Len(wayQ) : wayQ'[k] = wayQ[k]
        OBVIOUS
  <1> QED
      BY <1>1 DEF Queued

LEMMA QueuedTail ==
    ASSUME wayQ \in Seq(Entries), wayQ # <<>>, wayQ' = Tail(wayQ)
    PROVE  /\ \A i : Queued(i) <=> Queued(i)' \/ i = Head(wayQ)
           /\ Head(wayQ) \in Entries /\ Head(wayQ) = wayQ[1] /\ Len(wayQ) \in Nat \ {0}
           /\ wayQ' \in Seq(Entries) /\ Len(wayQ') = Len(wayQ) - 1
           /\ \A k \in 1..Len(wayQ') : wayQ'[k] = wayQ[k + 1]
  <1>1. /\ Head(wayQ) \in Entries /\ Head(wayQ) = wayQ[1] /\ Len(wayQ) \in Nat \ {0}
        /\ wayQ' \in Seq(Entries) /\ Len(wayQ') = Len(wayQ) - 1
        /\ \A k \in 1..Len(wayQ') : wayQ'[k] = wayQ[k + 1]
        OBVIOUS
  <1>2. ASSUME NEW i, Queued(i) PROVE Queued(i)' \/ i = Head(wayQ)
    <2>1. PICK k \in 1..Len(wayQ) : wayQ[k] = i
          BY <1>2 DEF Queued
    <2>2. CASE k = 1
          BY <1>1, <2>1, <2>2
    <2>3. CASE k # 1
      <3>1. k - 1 \in 1..Len(wayQ') /\ wayQ'[k - 1] = i
            BY <1>1, <2>1, <2>3
      <3> QED
          BY <3>1 DEF Queued
    <2> QED
        BY <2>2, <2>3
  <1>3. ASSUME NEW i, Queued(i)' PROVE Queued(i)
    <2>1. PICK k \in 1..Len(wayQ') : wayQ'[k] = i
          BY <1>3 DEF Queued
    <2>2. k + 1 \in 1..Len(wayQ) /\ wayQ[k + 1] = i
          BY <1>1, <2>1
    <2> QED
        BY <2>2 DEF Queued
  <1>4. Queued(Head(wayQ))
        BY <1>1 DEF Queued
  <1> QED
      BY <1>1, <1>2, <1>3, <1>4

\* Pushing an entry keeps the second half: the merge is done, and behind the
\* barrier no way is pushed.
LEMMA PushWayKeeps == ASSUME NodeInv, WayInv, PushWay PROVE WayInv'
  <1> USE DEF WayInv
  <1>1. /\ UNCHANGED <<file, mode, wpc, hand, phaseDone, arrived, wayBuf, areaBuf, relBuf>>
        /\ UNCHANGED <<ways, areas, relations, roads, wayStop, mergeDone, ppc>>
        /\ Reading /\ ~nodePhase /\ ppc = "read" /\ pos' = pos + 1
        /\ wayQ' = Append(wayQ, pos) /\ Len(wayQ) < QueueSize
        /\ ~(Kind = "way" /\ mode = "relations")
        BY DEF PushWay, input, waySide, nodeSide, Reading
  <1>2. /\ Entries' = Entries /\ OfKind("way")' = OfKind("way") /\ OfKind("rel")' = OfKind("rel")
        /\ OfKind("node")' = OfKind("node")
        /\ RefWays' = RefWays /\ RefAreas' = RefAreas /\ RefPolygons' = RefPolygons
        /\ RefRelations' = RefRelations /\ RefRoads' = RefRoads
        BY <1>1, FileKept
  <1>3. mergeDone /\ ~wayStop
        BY <1>1 DEF NodeInv, Reader
  <1>4. /\ pos \in Entries /\ pos \in Nat /\ file \in Files
        /\ Entries \subseteq Nat /\ OfKind("way") \subseteq Nat /\ OfKind("rel") \subseteq Nat
        BY <1>1, AtPos, Kinds, FileFacts DEF NodeInv, NodeTypes
  <1>5. wayQ \in Seq(Entries) /\ Len(wayQ) \in Nat
        BY DEF WayTypes
  <1>6. /\ Len(wayQ') = Len(wayQ) + 1 /\ wayQ'[Len(wayQ) + 1] = pos /\ wayQ' \in Seq(Entries)
        /\ \A k \in 1..Len(wayQ) : wayQ'[k] = wayQ[k]
        BY <1>1, <1>4, <1>5
  <1>7. \A i : Queued(i)' <=> Queued(i) \/ i = pos
        BY <1>1, <1>5, QueuedAppend
  <1>8. WayTypes'
    <2>1. Len(wayQ') <= QueueSize
          BY <1>1, <1>5, <1>6, ImportAssumption
    <2> QED
        BY <1>1, <1>2, <1>6, <2>1 DEF WayTypes
  <1>9. WayBounds' /\ WaysStored'
        BY <1>1, <1>2 DEF WayBounds, WaysStored
  <1>10. WayOrder'
    <2>1. \A k \in 1..Len(wayQ) : wayQ[k] \in Nat /\ wayQ[k] < pos
      <3>1. \A k \in 1..Len(wayQ) : wayQ[k] \in Entries
            BY <1>5
      <3> QED
          BY <1>4, <3>1, Zenon DEF WayOrder
    <2>2. \A w \in WayThreads : hand[w] \in Nat /\ hand[w] < pos
      <3>1. \A w \in WayThreads : hand[w] \in {0} \cup Entries
            BY DEF WayTypes
      <3>2. Entries \subseteq Nat /\ 0 \in Nat
            BY <1>4
      <3>3. \A w \in WayThreads : hand[w] \in Nat
            BY <3>1, <3>2, Zenon
      <3> QED
          BY <3>3 DEF WayOrder
    <2>3. \A k \in 1..Len(wayQ') : wayQ'[k] < pos'
          BY <1>1, <1>4, <1>5, <1>6, <2>1
    <2>4. \A k \in 1..Len(wayQ'), l \in 1..Len(wayQ') : k < l => wayQ'[k] < wayQ'[l]
          BY <1>5, <1>6, <2>1 DEF WayOrder
    <2>5. \A w \in WayThreads : hand[w] < pos' /\ \A k \in 1..Len(wayQ') : hand[w] < wayQ'[k]
          BY <1>1, <1>4, <1>5, <1>6, <2>2 DEF WayOrder
    <2>6. mode = "relations" => pos \notin OfKind("way")
          BY <1>1 DEF Kind, OfKind
    <2> QED
        BY <1>1, <1>2, <1>3, <1>7, <2>3, <2>4, <2>5, <2>6 DEF WayOrder
  <1>11. WayStages'
        BY <1>1, <1>2, <1>3 DEF WayStages, QueueShut
  <1>12. WaysRead'
    <2>1. arrived # {} => pos \notin OfKind("way")
          BY <1>4 DEF WaysRead
    <2> QED
        BY <1>1, <1>2, <1>4, <1>7, <2>1 DEF WaysRead
  <1>13. \A i \in Nat : Flowing(i) => Flowing(i)'
        BY <1>1, <1>4, <1>7 DEF Flowing
  <1>14. /\ \A i : WayHandled(i)' = WayHandled(i)
         /\ \A i : RelHandled(i)' = RelHandled(i)
    <2>1. wayRows' = wayRows /\ areaRows' = areaRows /\ relRows' = relRows
          BY <1>1 DEF wayRows, areaRows, relRows
    <2>2. \A i : WayHandled(i)' = WayHandled(i)
          BY <1>1, <1>2, <2>1, FileKept DEF WayHandled
    <2>3. \A i : RelHandled(i)' = RelHandled(i)
          BY <1>1, <1>2, <2>1, FileKept DEF RelHandled
    <2> QED
        BY <2>2, <2>3
  <1>15. WaysKept' /\ RelsKept'
        BY <1>1, <1>2, <1>4, <1>13, <1>14 DEF WaysKept, RelsKept
  <1> QED
      BY <1>8, <1>9, <1>10, <1>11, <1>12, <1>15

\* Popping an entry keeps the second half.
LEMMA PopWayKeeps ==
    ASSUME NEW w \in WayThreads, NodeInv, WayInv, PopWay(w)
    PROVE  WayInv'
  <1> DEFINE e == Head(wayQ)
  <1> USE DEF WayInv
  <1>1. /\ UNCHANGED <<file, mode, phaseDone, arrived, wayBuf, areaBuf, relBuf>>
        /\ UNCHANGED <<ways, areas, relations, roads, wayStop, mergeDone, ppc, pos>>
        /\ wpc[w] = "pop" /\ wayQ # <<>> /\ wayQ' = Tail(wayQ)
        /\ hand' = [hand EXCEPT ![w] = e] /\ wpc' = [wpc EXCEPT ![w] = "item"]
        BY DEF PopWay, input, producer, nodeSide
  <1>2. /\ Entries' = Entries /\ OfKind("way")' = OfKind("way") /\ OfKind("rel")' = OfKind("rel")
        /\ OfKind("node")' = OfKind("node")
        /\ RefWays' = RefWays /\ RefAreas' = RefAreas /\ RefPolygons' = RefPolygons
        /\ RefRelations' = RefRelations /\ RefRoads' = RefRoads
        BY <1>1, FileKept
  <1>3. /\ \A i : Queued(i) <=> Queued(i)' \/ i = e
        /\ e \in Entries /\ e = wayQ[1] /\ Len(wayQ) \in Nat \ {0}
        /\ wayQ' \in Seq(Entries) /\ Len(wayQ') = Len(wayQ) - 1
        /\ \A k \in 1..Len(wayQ') : wayQ'[k] = wayQ[k + 1]
        BY <1>1, QueuedTail DEF WayTypes
  <1> HIDE DEF e
  <1>4. /\ pos \in Nat /\ file \in Files /\ e \in Nat \ {0}
        BY <1>3, Kinds, FileFacts DEF NodeInv, NodeTypes
  <1>5. /\ hand'[w] = e /\ wpc'[w] = "item" /\ hand[w] = 0
        /\ \A v \in WayThreads : v # w => hand'[v] = hand[v] /\ wpc'[v] = wpc[v]
        BY <1>1 DEF WayTypes, WayStages
  <1>6. WayTypes'
    <2>1. Len(wayQ') <= QueueSize
          BY <1>3, ImportAssumption DEF WayTypes
    <2> QED
        BY <1>1, <1>2, <1>3, <2>1 DEF WayTypes
  <1>7. WayBounds' /\ WaysStored'
        BY <1>1, <1>2 DEF WayBounds, WaysStored
  <1>8. Queued(e)
        BY <1>3
  <1>9. WayOrder'
    <2>1. \A k \in 1..Len(wayQ') : /\ k + 1 \in 1..Len(wayQ) /\ 1 \in 1..Len(wayQ) /\ 1 < k + 1
                                   /\ wayQ'[k] = wayQ[k + 1]
          BY <1>3
    <2>2. \A k \in 1..Len(wayQ') : wayQ'[k] < pos'
          BY <1>1, <2>1 DEF WayOrder
    <2>3. \A k \in 1..Len(wayQ'), l \in 1..Len(wayQ') : k < l => wayQ'[k] < wayQ'[l]
          BY <2>1 DEF WayOrder
    <2>4. \A k \in 1..Len(wayQ') : e < wayQ'[k]
          BY <1>3, <2>1 DEF WayOrder
    <2>5. \A v \in WayThreads : hand'[v] < pos' /\ \A k \in 1..Len(wayQ') : hand'[v] < wayQ'[k]
      <3>1. e < pos
            BY <1>3 DEF WayOrder
      <3>2. ASSUME NEW v \in WayThreads, v # w
            PROVE  hand[v] < pos /\ \A k \in 1..Len(wayQ') : hand[v] < wayQ'[k]
            BY <2>1 DEF WayOrder
      <3>3. hand'[w] < pos' /\ \A k \in 1..Len(wayQ') : hand'[w] < wayQ'[k]
            BY <1>1, <1>5, <2>4, <3>1
      <3>4. ASSUME NEW v \in WayThreads, v # w
            PROVE  hand'[v] < pos' /\ \A k \in 1..Len(wayQ') : hand'[v] < wayQ'[k]
        <4>1. hand'[v] = hand[v] /\ pos' = pos
              BY <1>1, <1>5, <3>4
        <4> QED
            BY <3>2, <3>4, <4>1
      <3> QED
          BY <3>3, <3>4
    <2>6. mergeDone
          BY <1>1 DEF WayOrder
    <2>7. mode = "relations" => e \notin OfKind("way")
          BY <1>8 DEF WayOrder
    <2> QED
        BY <1>1, <1>2, <1>3, <1>5, <2>2, <2>3, <2>5, <2>6, <2>7 DEF WayOrder
  <1>10. WaysRead'
        BY <1>1, <1>2, <1>3 DEF WaysRead
  <1>11. w \in arrived => e \notin OfKind("way")
        BY <1>8 DEF WaysRead
  <1>12. WayStages'
    <2>1. ~QueueShut
          BY <1>1 DEF QueueShut
    <2> QED
        BY <1>1, <1>2, <1>4, <1>5, <1>11, <2>1 DEF WayStages
  <1>13. \A i : Flowing(i) => i = 0 \/ Flowing(i)'
        BY <1>1, <1>3, <1>5 DEF Flowing
  <1>14. /\ \A i : WayHandled(i)' = WayHandled(i)
         /\ \A i : RelHandled(i)' = RelHandled(i)
    <2>1. wayRows' = wayRows /\ areaRows' = areaRows /\ relRows' = relRows
          BY <1>1 DEF wayRows, areaRows, relRows
    <2>2. \A i : WayHandled(i)' = WayHandled(i)
          BY <1>1, <1>2, <2>1, FileKept DEF WayHandled
    <2>3. \A i : RelHandled(i)' = RelHandled(i)
          BY <1>1, <1>2, <2>1, FileKept DEF RelHandled
    <2> QED
        BY <2>2, <2>3
  <1>15. WaysKept' /\ RelsKept'
    <2>1. 0 \notin OfKind("way") /\ 0 \notin OfKind("rel")
          BY <1>4, Kinds
    <2> QED
        BY <1>1, <1>2, <1>13, <1>14, <2>1 DEF WaysKept, RelsKept
  <1> QED
      BY <1>6, <1>7, <1>9, <1>10, <1>12, <1>15

\* A way thread is done with its entry: the second half is kept when the tables
\* and buffers only grow and have the rows of the entry.
LEMMA ItemKeeps ==
    ASSUME NEW w \in WayThreads, NEW e, NodeInv, WayInv, wpc[w] = "item", hand[w] = e, NextItem(w),
           UNCHANGED <<input, producer, queues, nodeSide, phaseDone, arrived>>,
           WayTypes', WayBounds',
           wayRows \subseteq wayRows', areaRows \subseteq areaRows', relRows \subseteq relRows',
           ways \subseteq ways', areas \subseteq areas', roads \subseteq roads',
           \A v \in WayThreads : v # w =>
              wayBuf'[v] = wayBuf[v] /\ areaBuf'[v] = areaBuf[v] /\ relBuf'[v] = relBuf[v],
           w \in arrived => wayBuf'[w] = {} /\ areaBuf'[w] \cap RefAreas = {},
           e \in OfKind("way") => WayHandled(e)',
           e \in OfKind("rel") => RelHandled(e)'
    PROVE  WayInv'
  <1> USE DEF WayInv
  <1>1. /\ UNCHANGED <<file, mode, phaseDone, arrived, wayQ, wayStop, mergeDone, ppc, pos>>
        /\ hand' = [hand EXCEPT ![w] = 0] /\ wpc' = [wpc EXCEPT ![w] = "pop"]
        BY DEF NextItem, input, producer, queues, nodeSide
  <1>2. /\ Entries' = Entries /\ OfKind("way")' = OfKind("way") /\ OfKind("rel")' = OfKind("rel")
        /\ OfKind("node")' = OfKind("node")
        /\ RefWays' = RefWays /\ RefAreas' = RefAreas /\ RefPolygons' = RefPolygons
        /\ RefRelations' = RefRelations /\ RefRoads' = RefRoads
        BY <1>1, FileKept
  <1>3. /\ hand'[w] = 0 /\ wpc'[w] = "pop"
        /\ \A v \in WayThreads : v # w => hand'[v] = hand[v] /\ wpc'[v] = wpc[v]
        BY <1>1 DEF WayTypes
  <1>4. /\ \A i : Queued(i)' = Queued(i)
        /\ QueueShut' = QueueShut
        BY <1>1 DEF Queued, QueueShut
  <1>5. file \in Files /\ hand[w] # 0
        BY DEF NodeInv, NodeTypes, WayStages
  <1>6. 0 \notin OfKind("way") /\ 0 \notin OfKind("rel")
        BY <1>5, Kinds
  <1>7. WaysStored'
        BY <1>1, <1>2 DEF WaysStored, WayTypes
  <1>8. WaysRead'
        BY <1>1, <1>2, <1>4 DEF WaysRead
  <1>9. WayOrder'
    <2>1. 0 < pos /\ \A k \in 1..Len(wayQ) : 0 < wayQ[k]
      <3>1. pos \in Nat \ {0} /\ Entries \subseteq Nat \ {0}
            BY <1>5, Kinds, FileFacts DEF NodeInv, NodeTypes
      <3>2. \A k \in 1..Len(wayQ) : wayQ[k] \in Entries
            BY DEF WayTypes
      <3>3. \A x \in Entries : 0 < x
            BY <3>1
      <3>4. 0 < pos
            BY <3>1
      <3> QED
          BY <3>2, <3>3, <3>4, Zenon
    <2>2. \A v \in WayThreads : hand'[v] < pos /\ \A k \in 1..Len(wayQ) : hand'[v] < wayQ[k]
          BY <1>3, <2>1 DEF WayOrder
    <2>3. \A v \in WayThreads : hand'[v] # 0 => mergeDone
          BY <1>3 DEF WayOrder
    <2>4. mode = "relations" => \A v \in WayThreads : hand'[v] \notin OfKind("way")
          BY <1>3, <1>6 DEF WayOrder
    <2> QED
        BY <1>1, <1>2, <1>4, <2>2, <2>3, <2>4 DEF WayOrder
  <1>10. WayStages'
    <2>1. ASSUME NEW v \in WayThreads, v # w PROVE WayStages!(v)'
      <3>1. WayStages!(v)
            BY DEF WayStages
      <3> QED
          BY <1>1, <1>2, <1>3, <1>4, <2>1, <3>1
    <2>2. WayStages!(w)'
      <3>1. WayStages!(w)
            BY DEF WayStages
      <3> QED
          BY <1>1, <1>2, <1>3, <1>4, <1>6, <3>1
    <2> QED
        BY <2>1, <2>2 DEF WayStages
  <1>11. \A i : Flowing(i) => i = e \/ Flowing(i)'
        BY <1>1, <1>3, <1>4 DEF Flowing
  <1>12. ASSUME NEW i \in OfKind("way"), WayHandled(i) PROVE WayHandled(i)'
        BY <1>1, <1>2, <1>12, FileKept DEF WayHandled
  <1>13. ASSUME NEW i \in OfKind("rel"), RelHandled(i) PROVE RelHandled(i)'
        BY <1>1, <1>2, <1>13, FileKept DEF RelHandled
  <1>14. WaysKept'
        BY <1>1, <1>2, <1>11, <1>12 DEF WaysKept
  <1>15. RelsKept'
        BY <1>1, <1>2, <1>11, <1>13 DEF RelsKept
  <1> QED
      BY <1>7, <1>8, <1>9, <1>10, <1>14, <1>15

\* A node after the node phase is ignored.
LEMMA IgnoreNodeKeeps ==
    ASSUME NEW w \in WayThreads, NodeInv, WayInv, IgnoreNode(w)
    PROVE  WayInv'
  <1>1. /\ wpc[w] = "item" /\ NextItem(w)
        /\ UNCHANGED <<input, producer, queues, nodeSide, phaseDone, arrived>>
        /\ UNCHANGED <<wayBuf, areaBuf, relBuf, ways, areas, relations, roads>>
        BY DEF IgnoreNode, HandOf
  <1>2. hand[w] \notin OfKind("way") /\ hand[w] \notin OfKind("rel")
        BY DEF IgnoreNode, HandOf, OfKind
  <1>3. wayRows' = wayRows /\ areaRows' = areaRows /\ relRows' = relRows
        BY <1>1 DEF wayRows, areaRows, relRows
  <1>4. WayTypes' /\ WayBounds'
    <2>1. /\ Entries' = Entries /\ RefWays' = RefWays /\ RefAreas' = RefAreas
          /\ RefPolygons' = RefPolygons /\ RefRelations' = RefRelations /\ RefRoads' = RefRoads
          BY <1>1, FileKept DEF input
    <2>2. /\ UNCHANGED wayQ /\ hand' \in [WayThreads -> {0} \cup Entries]
          /\ wpc' \in [WayThreads -> {"pop", "item", "barrier", "final", "done"}]
          BY <1>1 DEF WayInv, WayTypes, NextItem, queues
    <2> QED
        BY <1>1, <2>1, <2>2 DEF WayInv, WayTypes, WayBounds
  <1>5. w \in arrived => wayBuf'[w] = {} /\ areaBuf'[w] \cap RefAreas = {}
        BY <1>1 DEF WayInv, WayStages
  <1> QED
      BY <1>1, <1>2, <1>3, <1>4, <1>5, ItemKeeps DEF IgnoreNode, HandOf

\* A step that is done with an entry changes the thread's place and hand only.
LEMMA NextItemTypes ==
    ASSUME NEW w \in WayThreads, WayInv, NextItem(w), UNCHANGED <<input, queues, phaseDone, arrived>>
    PROVE  /\ Entries' = Entries /\ RefWays' = RefWays /\ RefAreas' = RefAreas
           /\ RefPolygons' = RefPolygons /\ RefRelations' = RefRelations /\ RefRoads' = RefRoads
           /\ wayQ' \in Seq(Entries) /\ Len(wayQ') <= QueueSize
           /\ hand' \in [WayThreads -> {0} \cup Entries]
           /\ wpc' \in [WayThreads -> {"pop", "item", "barrier", "final", "done"}]
           /\ phaseDone' \in [WayThreads -> BOOLEAN] /\ arrived' \subseteq WayThreads
  <1>1. /\ Entries' = Entries /\ RefWays' = RefWays /\ RefAreas' = RefAreas
        /\ RefPolygons' = RefPolygons /\ RefRelations' = RefRelations /\ RefRoads' = RefRoads
        BY FileKept DEF input
  <1>2. /\ wayQ' \in Seq(Entries) /\ Len(wayQ') <= QueueSize
        /\ phaseDone' \in [WayThreads -> BOOLEAN] /\ arrived' \subseteq WayThreads
        BY DEF WayInv, WayTypes, queues
  <1>3. /\ hand' \in [WayThreads -> {0} \cup Entries]
        /\ wpc' \in [WayThreads -> {"pop", "item", "barrier", "final", "done"}]
        BY DEF WayInv, WayTypes, NextItem
  <1> QED
      BY <1>1, <1>2, <1>3

\* insertArea keeps the buffers' bounds and loses nothing.
LEMMA InsertAreaFacts ==
    ASSUME NEW w \in WayThreads, NEW row, WayTypes, WayBounds, insertArea(w, row),
           file[hand[w]].tagged => row \in RefAreas \cup RefPolygons
    PROVE  /\ areaBuf' \in [WayThreads -> SUBSET (RefAreas \cup RefPolygons)]
           /\ areas' \subseteq RefAreas \cup RefPolygons /\ areas \subseteq areas'
           /\ \A v \in WayThreads : v # w => areaBuf'[v] = areaBuf[v]
           /\ areaBuf'[w] \subseteq areaBuf[w] \cup {row}
           /\ areaRows \subseteq areaRows'
           /\ file[hand[w]].tagged => row \in areaRows'
           /\ \A v \in WayThreads :
                 IsFiniteSet(areaBuf'[v]) /\ Cardinality(areaBuf'[v]) <= way_buffer_size_[v]
  <1> DEFINE S == RefAreas \cup RefPolygons
             buf == IF file[hand[w]].tagged THEN areaBuf[w] \cup {row} ELSE areaBuf[w]
  <1>1. /\ areaBuf \in [WayThreads -> SUBSET S] /\ areas \in SUBSET S /\ buf \in SUBSET S
        /\ areaBuf[w] \subseteq buf /\ buf \subseteq areaBuf[w] \cup {row}
        /\ file[hand[w]].tagged => row \in buf
        /\ buf = areaBuf[w] \/ buf = areaBuf[w] \cup {row}
        BY DEF WayTypes
  <1>2. \/ areaBuf' = [areaBuf EXCEPT ![w] = {}] /\ areas' = areas \cup buf
        \/ /\ areaBuf' = [areaBuf EXCEPT ![w] = buf] /\ areas' = areas
           /\ ~(Cardinality(buf) > way_buffer_size_[w])
        BY DEF insertArea
  <1> HIDE DEF S, buf
  <1>3. /\ areaBuf' \in [WayThreads -> SUBSET S] /\ areas' \subseteq S /\ areas \subseteq areas'
        /\ \A v \in WayThreads : v # w => areaBuf'[v] = areaBuf[v]
        /\ areaBuf'[w] \subseteq buf /\ buf \subseteq areas' \cup areaBuf'[w]
        BY <1>1, <1>2
  <1>4. IsFiniteSet(buf) /\ Cardinality(buf) \in Nat /\ way_buffer_size_[w] \in Nat \ {0}
    <2>1. IsFiniteSet(areaBuf[w])
          BY DEF WayBounds
    <2>2. IsFiniteSet(buf)
          BY <1>1, <2>1, FS_AddElement
    <2> QED
        BY <2>2, FS_CardinalityType, ImportAssumption
  <1>5. IsFiniteSet(areaBuf'[w]) /\ Cardinality(areaBuf'[w]) <= way_buffer_size_[w]
    <2>1. CASE areaBuf' = [areaBuf EXCEPT ![w] = {}]
      <3>1. areaBuf'[w] = {}
            BY <1>1, <2>1
      <3> QED
          BY <1>4, <3>1, FS_EmptySet
    <2>2. CASE areaBuf' = [areaBuf EXCEPT ![w] = buf] /\ ~(Cardinality(buf) > way_buffer_size_[w])
      <3>1. areaBuf'[w] = buf
            BY <1>1, <2>2
      <3> QED
          BY <1>4, <2>2, <3>1
    <2> QED
        BY <1>2, <2>1, <2>2
  <1>6. areaRows \subseteq areaRows' /\ (file[hand[w]].tagged => row \in areaRows')
    <2>1. ASSUME NEW x \in areaRows PROVE x \in areaRows'
      <3>1. CASE x \in areas
            BY <1>3, <3>1 DEF areaRows
      <3>2. CASE \E v \in WayThreads : x \in areaBuf[v]
        <4>1. PICK v \in WayThreads : x \in areaBuf[v]
              BY <3>2
        <4>2. x \in areas' \/ x \in areaBuf'[v]
              BY <1>1, <1>3, <4>1
        <4> QED
            BY <4>2 DEF areaRows
      <3> QED
          BY <2>1, <3>1, <3>2 DEF areaRows
    <2>2. buf \subseteq areaRows'
          BY <1>3 DEF areaRows
    <2> QED
        BY <1>1, <2>1, <2>2
  <1> QED
      BY <1>1, <1>3, <1>5, <1>6 DEF WayBounds, S

\* insertWay keeps the buffers' bounds and loses nothing.
LEMMA InsertWayFacts ==
    ASSUME NEW w \in WayThreads, NEW row, WayTypes, WayBounds, insertWay(w, row),
           file[hand[w]].tagged => row \in RefWays
    PROVE  /\ wayBuf' \in [WayThreads -> SUBSET RefWays]
           /\ ways' \subseteq RefWays /\ ways \subseteq ways'
           /\ \A v \in WayThreads : v # w => wayBuf'[v] = wayBuf[v]
           /\ wayRows \subseteq wayRows'
           /\ file[hand[w]].tagged => row \in wayRows'
           /\ \A v \in WayThreads :
                 IsFiniteSet(wayBuf'[v]) /\ Cardinality(wayBuf'[v]) < way_buffer_size_[v]
  <1> DEFINE buf == IF file[hand[w]].tagged THEN wayBuf[w] \cup {row} ELSE wayBuf[w]
  <1>1. /\ wayBuf \in [WayThreads -> SUBSET RefWays] /\ ways \in SUBSET RefWays
        /\ buf \in SUBSET RefWays
        /\ wayBuf[w] \subseteq buf /\ (file[hand[w]].tagged => row \in buf)
        /\ buf = wayBuf[w] \/ buf = wayBuf[w] \cup {row}
        BY DEF WayTypes
  <1>2. \/ wayBuf' = [wayBuf EXCEPT ![w] = {}] /\ ways' = ways \cup buf
        \/ /\ wayBuf' = [wayBuf EXCEPT ![w] = buf] /\ ways' = ways
           /\ ~(Cardinality(buf) >= way_buffer_size_[w])
        BY DEF insertWay
  <1> HIDE DEF buf
  <1>3. /\ wayBuf' \in [WayThreads -> SUBSET RefWays] /\ ways' \subseteq RefWays /\ ways \subseteq ways'
        /\ \A v \in WayThreads : v # w => wayBuf'[v] = wayBuf[v]
        /\ buf \subseteq ways' \cup wayBuf'[w] /\ ways \subseteq ways'
        BY <1>1, <1>2
  <1>4. IsFiniteSet(buf) /\ Cardinality(buf) \in Nat /\ way_buffer_size_[w] \in Nat \ {0}
    <2>1. IsFiniteSet(wayBuf[w])
          BY DEF WayBounds
    <2>2. IsFiniteSet(buf)
          BY <1>1, <2>1, FS_AddElement
    <2> QED
        BY <2>2, FS_CardinalityType, ImportAssumption
  <1>5. IsFiniteSet(wayBuf'[w]) /\ Cardinality(wayBuf'[w]) < way_buffer_size_[w]
    <2>1. CASE wayBuf' = [wayBuf EXCEPT ![w] = {}]
      <3>1. wayBuf'[w] = {}
            BY <1>1, <2>1
      <3> QED
          BY <1>4, <3>1, FS_EmptySet
    <2>2. CASE wayBuf' = [wayBuf EXCEPT ![w] = buf] /\ ~(Cardinality(buf) >= way_buffer_size_[w])
      <3>1. wayBuf'[w] = buf
            BY <1>1, <2>2
      <3> QED
          BY <1>4, <2>2, <3>1
    <2> QED
        BY <1>2, <2>1, <2>2
  <1>6. wayRows \subseteq wayRows' /\ (file[hand[w]].tagged => row \in wayRows')
    <2>1. ASSUME NEW x \in wayRows PROVE x \in wayRows'
      <3>1. CASE x \in ways
            BY <1>3, <3>1 DEF wayRows
      <3>2. CASE \E v \in WayThreads : x \in wayBuf[v]
        <4>1. PICK v \in WayThreads : x \in wayBuf[v]
              BY <3>2
        <4>2. x \in ways' \/ x \in wayBuf'[v]
              BY <1>1, <1>3, <4>1
        <4> QED
            BY <4>2 DEF wayRows
      <3> QED
          BY <2>1, <3>1, <3>2 DEF wayRows
    <2>2. buf \subseteq wayRows'
          BY <1>3 DEF wayRows
    <2> QED
        BY <1>1, <2>1, <2>2
  <1> QED
      BY <1>3, <1>5, <1>6 DEF WayBounds

\* insertRelation keeps the buffers' bounds and loses nothing.
LEMMA InsertRelationFacts ==
    ASSUME NEW w \in WayThreads, NEW row \in RefRelations, WayTypes, WayBounds, insertRelation(w, row)
    PROVE  /\ relBuf' \in [WayThreads -> SUBSET RefRelations]
           /\ relations' \subseteq RefRelations
           /\ \A v \in WayThreads : v # w => relBuf'[v] = relBuf[v]
           /\ relRows \subseteq relRows' /\ row \in relRows'
           /\ \A v \in WayThreads :
                 IsFiniteSet(relBuf'[v]) /\ Cardinality(relBuf'[v]) <= way_buffer_size_[v]
  <1> DEFINE buf == relBuf[w] \cup {row}
  <1>1. /\ relBuf \in [WayThreads -> SUBSET RefRelations] /\ relations \in SUBSET RefRelations
        /\ buf \in SUBSET RefRelations
        /\ relBuf[w] \subseteq buf /\ row \in buf
        BY DEF WayTypes
  <1>2. \/ relBuf' = [relBuf EXCEPT ![w] = {}] /\ relations' = relations \cup buf
        \/ /\ relBuf' = [relBuf EXCEPT ![w] = buf] /\ relations' = relations
           /\ ~(Cardinality(buf) > way_buffer_size_[w])
        BY DEF insertRelation
  <1>3. IsFiniteSet(buf) /\ Cardinality(buf) \in Nat /\ way_buffer_size_[w] \in Nat \ {0}
    <2>1. IsFiniteSet(buf)
          BY FS_AddElement DEF WayBounds
    <2> QED
        BY <2>1, FS_CardinalityType, ImportAssumption
  <1> HIDE DEF buf
  <1>4. /\ relBuf' \in [WayThreads -> SUBSET RefRelations] /\ relations' \subseteq RefRelations
        /\ \A v \in WayThreads : v # w => relBuf'[v] = relBuf[v]
        /\ buf \subseteq relations' \cup relBuf'[w] /\ relations \subseteq relations'
        BY <1>1, <1>2
  <1>5. IsFiniteSet(relBuf'[w]) /\ Cardinality(relBuf'[w]) <= way_buffer_size_[w]
    <2>1. CASE relBuf' = [relBuf EXCEPT ![w] = {}]
      <3>1. relBuf'[w] = {}
            BY <1>1, <2>1
      <3> QED
          BY <1>3, <3>1, FS_EmptySet
    <2>2. CASE relBuf' = [relBuf EXCEPT ![w] = buf] /\ ~(Cardinality(buf) > way_buffer_size_[w])
      <3>1. relBuf'[w] = buf
            BY <1>1, <2>2
      <3> QED
          BY <1>3, <2>2, <3>1
    <2> QED
        BY <1>2, <2>1, <2>2
  <1>6. relRows \subseteq relRows' /\ row \in relRows'
    <2>1. ASSUME NEW x \in relRows PROVE x \in relRows'
      <3>1. CASE x \in relations
            BY <1>4, <3>1 DEF relRows
      <3>2. CASE \E v \in WayThreads : x \in relBuf[v]
        <4>1. PICK v \in WayThreads : x \in relBuf[v]
              BY <3>2
        <4>2. x \in relations' \/ x \in relBuf'[v]
              BY <1>1, <1>4, <4>1
        <4> QED
            BY <4>2 DEF relRows
      <3> QED
          BY <2>1, <3>1, <3>2 DEF relRows
    <2>2. buf \subseteq relRows'
          BY <1>4 DEF relRows
    <2> QED
        BY <1>1, <2>1, <2>2
  <1> QED
      BY <1>4, <1>5, <1>6 DEF WayBounds

\* A way is built from every node: it is read after the merge.
LEMMA HandleWayKeeps ==
    ASSUME NEW w \in WayThreads, NodeInv, WayInv, HandleWay(w)
    PROVE  WayInv'
  <1> DEFINE row == WayRow(hand[w], merged)
  <1>1. PICK e : e = hand[w]
        OBVIOUS
  <1>2. /\ wpc[w] = "item" /\ file[e].kind = "way" /\ NextItem(w)
        /\ UNCHANGED <<input, producer, queues, nodeSide, phaseDone, arrived>>
        /\ UNCHANGED <<relBuf, relations, roads>>
        BY <1>1 DEF HandleWay, HandOf
  <1>3. \/ ~(Len(row[2]) >= 2) /\ UNCHANGED <<wayBuf, areaBuf, ways, areas>>
        \/ /\ Len(row[2]) >= 2 /\ isArea(row[1], row[2])
           /\ insertArea(w, row) /\ UNCHANGED <<wayBuf, ways>>
        \/ /\ Len(row[2]) >= 2 /\ ~isArea(row[1], row[2])
           /\ insertWay(w, row) /\ UNCHANGED <<areaBuf, areas>>
        BY DEF HandleWay
  <1>4. file \in Files /\ e # 0 /\ e \in Entries /\ e \in OfKind("way") /\ e \notin OfKind("rel")
    <2>1. file \in Files /\ e \in {0} \cup Entries /\ e # 0
          BY <1>1, <1>2 DEF NodeInv, NodeTypes, WayInv, WayTypes, WayStages
    <2> QED
        BY <1>2, <2>1 DEF OfKind
  <1>5. merged = OfKind("node") /\ mode # "relations" /\ w \notin arrived
        BY <1>1, <1>4 DEF NodeInv, MergedWhole, WayInv, WayOrder, WayStages
  <1>6. row = WayRow(e, OfKind("node")) /\ row[1] = e
        BY <1>1, <1>5 DEF WayRow
  <1> HIDE DEF row
  <1>7. row \in AllWayRows <=> file[e].tagged /\ Len(row[2]) >= 2
    <2>1. \A i \in OfKind("way") : WayRow(i, OfKind("node")) = row => i = e
          BY <1>6 DEF WayRow
    <2> QED
        BY <1>4, <1>6, <2>1 DEF AllWayRows
  <1>8. /\ row \in RefAreas <=> row \in AllWayRows /\ isArea(row[1], row[2])
        /\ row \in RefWays <=> row \in AllWayRows /\ ~isArea(row[1], row[2])
        BY DEF RefAreas, RefWays
  <1>9. WayTypes /\ WayBounds /\ WayRow(e, OfKind("node"))' = row /\ RefWays' = RefWays /\ RefAreas' = RefAreas
    <2>1. file' = file
          BY <1>2 DEF input
    <2>2. OfKind("node")' = OfKind("node") /\ RefWays' = RefWays /\ RefAreas' = RefAreas
          BY <2>1, FileKept
    <2>3. WayRow(e, OfKind("node"))' = WayRow(e, OfKind("node"))
          BY <2>1, <2>2 DEF WayRow
    <2> QED
        BY <1>6, <2>2, <2>3 DEF WayInv
  <1>10. relRows' = relRows
        BY <1>2 DEF relRows
  <1>11. /\ WayTypes' /\ WayBounds'
         /\ wayRows \subseteq wayRows' /\ areaRows \subseteq areaRows'
         /\ ways \subseteq ways' /\ areas \subseteq areas'
         /\ \A v \in WayThreads : v # w => wayBuf'[v] = wayBuf[v] /\ areaBuf'[v] = areaBuf[v]
         /\ row \in RefWays => row \in wayRows'
         /\ row \in RefAreas => row \in areaRows'
    <2>1. CASE ~(Len(row[2]) >= 2) /\ UNCHANGED <<wayBuf, areaBuf, ways, areas>>
      <3>1. wayRows' = wayRows /\ areaRows' = areaRows
            BY <2>1 DEF wayRows, areaRows
      <3>2. WayTypes' /\ WayBounds'
            BY <1>2, <1>9, <2>1, NextItemTypes DEF WayTypes, WayBounds
      <3> QED
          BY <1>7, <1>8, <2>1, <3>1, <3>2
    <2>2. CASE /\ Len(row[2]) >= 2 /\ isArea(row[1], row[2])
               /\ insertArea(w, row) /\ UNCHANGED <<wayBuf, ways>>
      <3>1. file[hand[w]].tagged => row \in RefAreas \cup RefPolygons
            BY <1>1, <1>7, <1>8, <2>2
      <3>2. /\ areaBuf' \in [WayThreads -> SUBSET (RefAreas \cup RefPolygons)]
            /\ areas' \subseteq RefAreas \cup RefPolygons /\ areas \subseteq areas'
            /\ \A v \in WayThreads : v # w => areaBuf'[v] = areaBuf[v]
            /\ areaRows \subseteq areaRows'
            /\ file[hand[w]].tagged => row \in areaRows'
            /\ \A v \in WayThreads :
                  IsFiniteSet(areaBuf'[v]) /\ Cardinality(areaBuf'[v]) <= way_buffer_size_[v]
            BY <1>9, <2>2, <3>1, InsertAreaFacts
      <3>3. wayRows' = wayRows
            BY <2>2 DEF wayRows
      <3>4. WayTypes' /\ WayBounds'
            BY <1>2, <1>9, <2>2, <3>2, NextItemTypes DEF WayTypes, WayBounds
      <3> QED
          BY <1>1, <1>7, <1>8, <2>2, <3>2, <3>3, <3>4
    <2>3. CASE /\ Len(row[2]) >= 2 /\ ~isArea(row[1], row[2])
               /\ insertWay(w, row) /\ UNCHANGED <<areaBuf, areas>>
      <3>1. file[hand[w]].tagged => row \in RefWays
            BY <1>1, <1>7, <1>8, <2>3
      <3>2. /\ wayBuf' \in [WayThreads -> SUBSET RefWays]
            /\ ways' \subseteq RefWays /\ ways \subseteq ways'
            /\ \A v \in WayThreads : v # w => wayBuf'[v] = wayBuf[v]
            /\ wayRows \subseteq wayRows'
            /\ file[hand[w]].tagged => row \in wayRows'
            /\ \A v \in WayThreads :
                  IsFiniteSet(wayBuf'[v]) /\ Cardinality(wayBuf'[v]) < way_buffer_size_[v]
            BY <1>9, <2>3, <3>1, InsertWayFacts
      <3>3. areaRows' = areaRows
            BY <2>3 DEF areaRows
      <3>4. WayTypes' /\ WayBounds'
            BY <1>2, <1>9, <2>3, <3>2, NextItemTypes DEF WayTypes, WayBounds
      <3> QED
          BY <1>1, <1>7, <1>8, <2>3, <3>2, <3>3, <3>4
    <2> QED
        BY <1>3, <2>1, <2>2, <2>3
  <1>12. WayHandled(e)'
        BY <1>9, <1>11 DEF WayHandled
  <1> QED
      BY <1>1, <1>2, <1>4, <1>5, <1>10, <1>11, <1>12, ItemKeeps

\* A thread behind the barrier finds every way in the tables.
LEMMA BehindBarrier ==
    ASSUME NEW w \in WayThreads, NodeInv, WayInv, phaseDone[w], NEW i
    PROVE  /\ PolygonRow(i, ways, areas) = PolygonRow(i, RefWays, RefAreas)
           /\ RelationRow(i, ways, areas) = RelationRow(i, RefWays, RefAreas)
  <1>1. ways = RefWays /\ RefAreas \subseteq areas
        BY DEF WayInv, WayStages, WaysStored
  <1>2. areas \subseteq RefAreas \cup RefPolygons /\ file \in Files
        BY DEF WayInv, WayTypes, NodeInv, NodeTypes
  <1> QED
      BY <1>1, <1>2, MembersFound

\* A polygon is built from every stored member.
LEMMA HandlePolygonKeeps ==
    ASSUME NEW w \in WayThreads, NodeInv, WayInv, HandlePolygon(w)
    PROVE  WayInv'
  <1> DEFINE row == PolygonRow(hand[w], ways, areas)
  <1>1. PICK e : e = hand[w]
        OBVIOUS
  <1>2. /\ wpc[w] = "item" /\ file[e].kind = "rel" /\ phaseDone[w] /\ file[e].polygon /\ NextItem(w)
        /\ UNCHANGED <<input, producer, queues, nodeSide, phaseDone, arrived>>
        /\ UNCHANGED <<wayBuf, relBuf, ways, relations, roads>>
        BY <1>1 DEF HandlePolygon, HandOf
  <1>3. \/ HasOuter(row) /\ insertArea(w, row)
        \/ ~HasOuter(row) /\ UNCHANGED <<areaBuf, areas>>
        BY DEF HandlePolygon
  <1>4. file \in Files /\ e \in OfKind("rel") /\ e \notin OfKind("way")
    <2>1. file \in Files /\ e \in {0} \cup Entries /\ e # 0
          BY <1>1, <1>2 DEF NodeInv, NodeTypes, WayInv, WayTypes, WayStages
    <2> QED
        BY <1>2, <2>1 DEF OfKind
  <1>5. row = PolygonRow(e, RefWays, RefAreas)
        BY <1>1, <1>2, BehindBarrier
  <1> HIDE DEF row
  <1>6. /\ row \in RefPolygons <=> file[e].tagged /\ HasOuter(row)
        /\ RelationRow(e, RefWays, RefAreas) \notin RefRelations
        /\ RelationRow(e, RefWays, RefAreas) \notin RefRoads
        BY <1>2, <1>4, <1>5, RelRowFacts
  <1>7. WayTypes /\ WayBounds
        BY DEF WayInv
  <1>8. wayRows' = wayRows /\ relRows' = relRows
        BY <1>2 DEF wayRows, relRows
  <1>9. /\ WayTypes' /\ WayBounds' /\ areaRows \subseteq areaRows' /\ areas \subseteq areas'
        /\ \A v \in WayThreads : v # w => areaBuf'[v] = areaBuf[v]
        /\ areaBuf'[w] \subseteq areaBuf[w] \cup RefPolygons
        /\ row \in RefPolygons => row \in areaRows'
    <2>1. CASE ~HasOuter(row) /\ UNCHANGED <<areaBuf, areas>>
      <3>1. areaRows' = areaRows
            BY <2>1 DEF areaRows
      <3>2. WayTypes' /\ WayBounds'
            BY <1>2, <1>7, <2>1, NextItemTypes DEF WayTypes, WayBounds
      <3> QED
          BY <1>6, <2>1, <3>1, <3>2
    <2>2. CASE HasOuter(row) /\ insertArea(w, row)
      <3>1. file[hand[w]].tagged => row \in RefAreas \cup RefPolygons
            BY <1>1, <1>6, <2>2
      <3>2. /\ areaBuf' \in [WayThreads -> SUBSET (RefAreas \cup RefPolygons)]
            /\ areas' \subseteq RefAreas \cup RefPolygons /\ areas \subseteq areas'
            /\ \A v \in WayThreads : v # w => areaBuf'[v] = areaBuf[v]
            /\ areaBuf'[w] \subseteq areaBuf[w] \cup {row}
            /\ areaRows \subseteq areaRows'
            /\ file[hand[w]].tagged => row \in areaRows'
            /\ \A v \in WayThreads :
                  IsFiniteSet(areaBuf'[v]) /\ Cardinality(areaBuf'[v]) <= way_buffer_size_[v]
            BY <1>7, <2>2, <3>1, InsertAreaFacts
      <3>3. WayTypes' /\ WayBounds'
            BY <1>2, <1>7, <3>2, NextItemTypes DEF WayTypes, WayBounds
      <3>4. areaBuf'[w] \subseteq areaBuf[w] \cup RefPolygons
        <4>1. CASE file[e].tagged
              BY <1>6, <2>2, <3>2, <4>1
        <4>2. CASE ~file[e].tagged
          <5>1. areaBuf'[w] \subseteq areaBuf[w]
                BY <1>1, <1>7, <2>2, <4>2 DEF insertArea, WayTypes
          <5> QED
              BY <5>1
        <4> QED
            BY <4>1, <4>2
      <3> QED
          BY <1>1, <1>6, <3>2, <3>3, <3>4
    <2> QED
        BY <1>3, <2>1, <2>2
  <1>10. w \in arrived => wayBuf'[w] = {} /\ areaBuf'[w] \cap RefAreas = {}
    <2>1. w \in arrived => wayBuf[w] = {} /\ areaBuf[w] \cap RefAreas = {}
          BY DEF WayInv, WayStages
    <2>2. RefAreas \cap RefPolygons = {}
          BY <1>4, RowFacts
    <2> QED
        BY <1>2, <1>9, <2>1, <2>2
  <1>11. RelHandled(e)'
    <2>1. file' = file
          BY <1>2 DEF input
    <2>2. /\ RefWays' = RefWays /\ RefAreas' = RefAreas
          /\ RefPolygons' = RefPolygons /\ RefRelations' = RefRelations /\ RefRoads' = RefRoads
          /\ PolygonRow(e, RefWays, RefAreas)' = PolygonRow(e, RefWays, RefAreas)
          /\ RelationRow(e, RefWays, RefAreas)' = RelationRow(e, RefWays, RefAreas)
          BY <2>1, FileKept
    <2> QED
        BY <1>5, <1>6, <1>9, <2>2 DEF RelHandled
  <1> QED
      BY <1>1, <1>2, <1>4, <1>8, <1>9, <1>10, <1>11, ItemKeeps

\* Another relation is built from every stored member.
LEMMA HandleRelationKeeps ==
    ASSUME NEW w \in WayThreads, NodeInv, WayInv, HandleRelation(w)
    PROVE  WayInv'
  <1> DEFINE row == RelationRow(hand[w], ways, areas)
  <1>1. PICK e : e = hand[w]
        OBVIOUS
  <1>2. /\ wpc[w] = "item" /\ file[e].kind = "rel" /\ phaseDone[w] /\ ~file[e].polygon /\ NextItem(w)
        /\ UNCHANGED <<input, producer, queues, nodeSide, phaseDone, arrived>>
        /\ UNCHANGED <<wayBuf, areaBuf, ways, areas>>
        BY <1>1 DEF HandleRelation, HandOf
  <1>3. /\ insertRelation(w, row)
        /\ roads' = IF file[e].road /\ row[2] # <<>> THEN roads \cup {row} ELSE roads
        BY <1>1 DEF HandleRelation
  <1>4. file \in Files /\ e \in OfKind("rel") /\ e \notin OfKind("way")
    <2>1. file \in Files /\ e \in {0} \cup Entries /\ e # 0
          BY <1>1, <1>2 DEF NodeInv, NodeTypes, WayInv, WayTypes, WayStages
    <2> QED
        BY <1>2, <2>1 DEF OfKind
  <1>5. row = RelationRow(e, RefWays, RefAreas)
        BY <1>1, <1>2, BehindBarrier
  <1> HIDE DEF row
  <1>6. /\ row \in RefRelations
        /\ row \in RefRoads <=> file[e].road /\ row[2] # <<>>
        /\ PolygonRow(e, RefWays, RefAreas) \notin RefPolygons
        BY <1>2, <1>4, <1>5, RelRowFacts
  <1>7. WayTypes /\ WayBounds
        BY DEF WayInv
  <1>8. wayRows' = wayRows /\ areaRows' = areaRows
        BY <1>2 DEF wayRows, areaRows
  <1>9. /\ relBuf' \in [WayThreads -> SUBSET RefRelations]
        /\ relations' \subseteq RefRelations
        /\ \A v \in WayThreads : v # w => relBuf'[v] = relBuf[v]
        /\ relRows \subseteq relRows' /\ row \in relRows'
        /\ \A v \in WayThreads :
              IsFiniteSet(relBuf'[v]) /\ Cardinality(relBuf'[v]) <= way_buffer_size_[v]
        BY <1>3, <1>6, <1>7, InsertRelationFacts
  <1>10. roads' \subseteq RefRoads /\ roads \subseteq roads' /\ (row \in RefRoads => row \in roads')
        BY <1>3, <1>6, <1>7 DEF WayTypes
  <1>11. WayTypes' /\ WayBounds'
        BY <1>2, <1>7, <1>9, <1>10, NextItemTypes DEF WayTypes, WayBounds
  <1>12. w \in arrived => wayBuf'[w] = {} /\ areaBuf'[w] \cap RefAreas = {}
        BY <1>2 DEF WayInv, WayStages
  <1>13. RelHandled(e)'
    <2>1. file' = file
          BY <1>2 DEF input
    <2>2. /\ RefWays' = RefWays /\ RefAreas' = RefAreas
          /\ RefPolygons' = RefPolygons /\ RefRelations' = RefRelations /\ RefRoads' = RefRoads
          /\ PolygonRow(e, RefWays, RefAreas)' = PolygonRow(e, RefWays, RefAreas)
          /\ RelationRow(e, RefWays, RefAreas)' = RelationRow(e, RefWays, RefAreas)
          BY <2>1, FileKept
    <2> QED
        BY <1>5, <1>6, <1>9, <1>10, <2>2 DEF RelHandled
  <1> QED
      BY <1>1, <1>2, <1>4, <1>8, <1>9, <1>10, <1>11, <1>12, <1>13, ItemKeeps

\* Flushing the way and area buffers moves rows to the tables.
LEMMA FinalizeFacts ==
    ASSUME NEW w \in WayThreads, WayTypes, WayBounds, finalize_ways(w)
    PROVE  /\ wayBuf' \in [WayThreads -> SUBSET RefWays] /\ wayBuf'[w] = {}
           /\ areaBuf' \in [WayThreads -> SUBSET (RefAreas \cup RefPolygons)] /\ areaBuf'[w] = {}
           /\ \A v \in WayThreads : v # w => wayBuf'[v] = wayBuf[v] /\ areaBuf'[v] = areaBuf[v]
           /\ ways' \subseteq RefWays /\ areas' \subseteq RefAreas \cup RefPolygons
           /\ ways \cup wayBuf[w] \subseteq ways' /\ areas \cup areaBuf[w] \subseteq areas'
           /\ wayRows \subseteq wayRows' /\ areaRows \subseteq areaRows'
           /\ \A v \in WayThreads :
                 /\ IsFiniteSet(wayBuf'[v]) /\ Cardinality(wayBuf'[v]) < way_buffer_size_[v]
                 /\ IsFiniteSet(areaBuf'[v]) /\ Cardinality(areaBuf'[v]) <= way_buffer_size_[v]
  <1>1. /\ wayBuf' \in [WayThreads -> SUBSET RefWays] /\ wayBuf'[w] = {}
        /\ areaBuf' \in [WayThreads -> SUBSET (RefAreas \cup RefPolygons)] /\ areaBuf'[w] = {}
        /\ \A v \in WayThreads : v # w => wayBuf'[v] = wayBuf[v] /\ areaBuf'[v] = areaBuf[v]
        /\ ways' \subseteq RefWays /\ areas' \subseteq RefAreas \cup RefPolygons
        /\ ways \cup wayBuf[w] \subseteq ways' /\ areas \cup areaBuf[w] \subseteq areas'
        BY DEF finalize_ways, WayTypes
  <1>2. ASSUME NEW x \in wayRows PROVE x \in wayRows'
    <2>1. x \in ways \/ \E v \in WayThreads : x \in wayBuf[v]
          BY <1>2 DEF wayRows
    <2>2. x \in ways' \/ \E v \in WayThreads : x \in wayBuf'[v]
          BY <1>1, <2>1
    <2> QED
        BY <2>2 DEF wayRows
  <1>3. ASSUME NEW x \in areaRows PROVE x \in areaRows'
    <2>1. x \in areas \/ \E v \in WayThreads : x \in areaBuf[v]
          BY <1>3 DEF areaRows
    <2>2. x \in areas' \/ \E v \in WayThreads : x \in areaBuf'[v]
          BY <1>1, <2>1
    <2> QED
        BY <2>2 DEF areaRows
  <1>4. IsFiniteSet({}) /\ Cardinality({}) = 0 /\ way_buffer_size_[w] \in Nat \ {0}
        BY FS_EmptySet, ImportAssumption
  <1>5. ASSUME NEW v \in WayThreads
        PROVE  /\ IsFiniteSet(wayBuf'[v]) /\ Cardinality(wayBuf'[v]) < way_buffer_size_[v]
               /\ IsFiniteSet(areaBuf'[v]) /\ Cardinality(areaBuf'[v]) <= way_buffer_size_[v]
    <2>1. CASE v = w
      <3>1. wayBuf'[v] = {} /\ areaBuf'[v] = {} /\ 0 < way_buffer_size_[v]
            BY <1>1, <1>4, <2>1
      <3> QED
          BY <1>4, <2>1, <3>1
    <2>2. CASE v # w
      <3>1. wayBuf'[v] = wayBuf[v] /\ areaBuf'[v] = areaBuf[v]
            BY <1>1, <2>2
      <3> QED
          BY <3>1 DEF WayBounds
    <2> QED
        BY <2>1, <2>2
  <1>6. wayRows \subseteq wayRows' /\ areaRows \subseteq areaRows'
        BY <1>2, <1>3, Zenon
  <1> QED
      BY <1>1, <1>5, <1>6, Zenon

\* What is handled stays handled while tables and buffers grow.
LEMMA HandledGrows ==
    ASSUME file' = file, wayRows \subseteq wayRows', areaRows \subseteq areaRows',
           relRows \subseteq relRows', roads \subseteq roads', NEW i
    PROVE  (WayHandled(i) => WayHandled(i)') /\ (RelHandled(i) => RelHandled(i)')
  <1>1. /\ OfKind("node")' = OfKind("node") /\ RefWays' = RefWays /\ RefAreas' = RefAreas
        /\ RefPolygons' = RefPolygons /\ RefRelations' = RefRelations /\ RefRoads' = RefRoads
        BY FileKept
  <1>2. WayHandled(i) => WayHandled(i)'
        BY <1>1, FileKept DEF WayHandled
  <1>3. RelHandled(i) => RelHandled(i)'
        BY <1>1, FileKept DEF RelHandled
  <1> QED
      BY <1>2, <1>3

\* The last thread to arrive finds every way flushed.
LEMMA ArriveKeeps ==
    ASSUME NEW w \in WayThreads, NodeInv, WayInv, ArriveAtWayBarrier(w)
    PROVE  WayInv'
  <1> USE DEF WayInv
  <1>1. /\ UNCHANGED <<file, mode, phaseDone, wayQ, wayStop, mergeDone, ppc, pos, hand>>
        /\ UNCHANGED <<relBuf, relations, roads>>
        /\ ~phaseDone[w] /\ finalize_ways(w) /\ arrived' = arrived \cup {w}
        /\ wpc' = [wpc EXCEPT ![w] = "barrier"]
        /\ \/ wpc[w] = "item" /\ file[hand[w]].kind = "rel"
           \/ wpc[w] = "pop" /\ QueueShut
        BY DEF ArriveAtWayBarrier, HandOf, QueueShut, input, producer, queues, nodeSide
  <1>2. /\ Entries' = Entries /\ OfKind("way")' = OfKind("way") /\ OfKind("rel")' = OfKind("rel")
        /\ OfKind("node")' = OfKind("node")
        /\ RefWays' = RefWays /\ RefAreas' = RefAreas /\ RefPolygons' = RefPolygons
        /\ RefRelations' = RefRelations /\ RefRoads' = RefRoads
        BY <1>1, FileKept
  <1>3. /\ wayBuf' \in [WayThreads -> SUBSET RefWays] /\ wayBuf'[w] = {}
        /\ areaBuf' \in [WayThreads -> SUBSET (RefAreas \cup RefPolygons)] /\ areaBuf'[w] = {}
        /\ \A v \in WayThreads : v # w => wayBuf'[v] = wayBuf[v] /\ areaBuf'[v] = areaBuf[v]
        /\ ways' \subseteq RefWays /\ areas' \subseteq RefAreas \cup RefPolygons
        /\ ways \cup wayBuf[w] \subseteq ways' /\ areas \cup areaBuf[w] \subseteq areas'
        /\ wayRows \subseteq wayRows' /\ areaRows \subseteq areaRows'
        /\ \A v \in WayThreads :
              /\ IsFiniteSet(wayBuf'[v]) /\ Cardinality(wayBuf'[v]) < way_buffer_size_[v]
              /\ IsFiniteSet(areaBuf'[v]) /\ Cardinality(areaBuf'[v]) <= way_buffer_size_[v]
        BY <1>1, FinalizeFacts
  <1>4. /\ wpc' \in [WayThreads -> {"pop", "item", "barrier", "final", "done"}]
        /\ wpc'[w] = "barrier" /\ \A v \in WayThreads : v # w => wpc'[v] = wpc[v]
        BY <1>1 DEF WayTypes
  <1>5. WayTypes' /\ WayBounds'
        BY <1>1, <1>2, <1>3, <1>4 DEF WayTypes, WayBounds
  <1>6. /\ \A i : Queued(i)' = Queued(i)
        /\ QueueShut' = QueueShut
        /\ \A i : Flowing(i)' = Flowing(i)
        BY <1>1 DEF Queued, QueueShut, Flowing
  <1>7. WayOrder'
        BY <1>1, <1>2, <1>6 DEF WayOrder
  <1>8. /\ file \in Files /\ pos \in Nat /\ OfKind("way") \subseteq Entries /\ OfKind("rel") \subseteq Entries
        /\ Entries \subseteq Nat \ {0} /\ \A i \in Entries : i \in Nat
        BY Kinds, FileFacts DEF NodeInv, NodeTypes
  <1>9. hand[w] = 0 \/ hand[w] \in OfKind("rel")
        BY <1>1, <1>8 DEF WayTypes, WayStages, OfKind
  <1>10. \A i \in OfKind("way") : i < pos /\ ~Queued(i)
    <2>1. CASE wpc[w] = "item" /\ file[hand[w]].kind = "rel"
      <3>1. hand[w] \in OfKind("rel") /\ hand[w] \in Nat /\ hand[w] < pos
            BY <1>8, <1>9, <2>1 DEF WayStages, WayOrder
      <3>2. \A j \in Entries : hand[w] < j => j \notin OfKind("way")
            BY <1>8, <3>1, Kinds
      <3>3. ASSUME NEW i \in OfKind("way") PROVE i < pos
        <4>1. i \in Nat /\ ~(hand[w] < i)
              BY <1>8, <3>2
        <4> QED
            BY <1>8, <3>1, <4>1
      <3>4. ASSUME NEW i \in OfKind("way"), Queued(i) PROVE FALSE
        <4>1. hand[w] < i
              BY <3>4 DEF Queued, WayOrder
        <4> QED
            BY <1>8, <3>2, <4>1
      <3> QED
          BY <3>3, <3>4
    <2>2. CASE QueueShut
      <3>1. pos = Len(file) + 1 /\ wayQ = <<>>
            BY <2>2 DEF QueueShut, NodeInv, Reader
      <3> QED
          BY <1>8, <3>1, FileFacts DEF Queued
    <2> QED
        BY <1>1, <2>1, <2>2
  <1>11. WaysRead'
    <2>1. mergeDone
      <3>1. CASE hand[w] # 0
            BY <3>1 DEF WayOrder
      <3>2. CASE QueueShut
        <4>1. 0 \in NodeTids
              BY ImportAssumption DEF NodeTids
        <4>2. npc[0] = "done"
              BY <3>2, <4>1 DEF QueueShut, NodeInv, Reader
        <4> QED
            BY <4>1, <4>2 DEF NodeInv, NodeBarrier
      <3> QED
          BY <1>1, <3>1, <3>2 DEF WayStages
    <2> QED
        BY <1>1, <1>2, <1>6, <1>10, <2>1 DEF WaysRead
  <1>12. hand[w] \notin OfKind("way")
        BY <1>8, <1>9, Kinds
  <1>13. WayStages'
    <2>1. ASSUME NEW v \in WayThreads, v # w PROVE WayStages!(v)'
      <3>1. WayStages!(v) /\ (arrived = WayThreads => arrived' = WayThreads)
            BY <1>1 DEF WayStages
      <3>2. ppc # "done"
            BY <1>1 DEF WayStages
      <3> QED
          BY <1>1, <1>2, <1>3, <1>4, <1>6, <2>1, <3>1, <3>2
    <2>2. WayStages!(w)'
      <3>1. WayStages!(w) /\ ppc # "done"
            BY <1>1 DEF WayStages
      <3> QED
          BY <1>1, <1>2, <1>3, <1>4, <1>6, <1>12, <3>1
    <2> QED
        BY <2>1, <2>2 DEF WayStages
  <1>14. \A i : (WayHandled(i) => WayHandled(i)') /\ (RelHandled(i) => RelHandled(i)')
    <2>1. relRows' = relRows
          BY <1>1 DEF relRows
    <2> QED
        BY <1>1, <1>3, <2>1, HandledGrows
  <1>15. WaysKept' /\ RelsKept'
        BY <1>1, <1>2, <1>6, <1>14 DEF WaysKept, RelsKept
  <1>16. ASSUME arrived' = WayThreads PROVE RefWays \subseteq ways' /\ RefAreas \subseteq areas'
    <2>1. mode # "relations"
          BY <1>1 DEF WayStages
    <2>2. \A v \in WayThreads : v # w => v \in arrived
          BY <1>1, <1>16
    <2>3. ASSUME NEW i \in OfKind("way") PROVE WayHandled(i)
      <3>1. \A v \in WayThreads : hand[v] # i
            BY <1>12, <2>2, <2>3 DEF WayStages
      <3>2. i < pos /\ ~Queued(i)
            BY <1>10, <2>3, Zenon
      <3>3. i \in Nat /\ pos \in Nat
            BY <1>8, <2>3, Zenon
      <3>4. ~(i >= pos)
            BY <3>2, <3>3
      <3> QED
          BY <2>1, <2>3, <3>1, <3>2, <3>4 DEF WaysKept, Flowing
    <2>4. ASSUME NEW row \in AllWayRows PROVE /\ row \in RefWays => row \in wayRows
                                              /\ row \in RefAreas => row \in areaRows
      <3>1. PICK i \in OfKind("way") : row = WayRow(i, OfKind("node"))
            BY <2>4 DEF AllWayRows
      <3> QED
          BY <2>3, <3>1 DEF WayHandled
    <2>5. RefWays \subseteq ways'
      <3> SUFFICES ASSUME NEW row \in RefWays PROVE row \in ways'
          OBVIOUS
      <3>1. row \in wayRows
            BY <1>8, <2>4, RowFacts
      <3>2. \A v \in WayThreads : v # w => wayBuf[v] = {}
            BY <2>2 DEF WayStages
      <3> QED
          BY <1>3, <3>1, <3>2 DEF wayRows
    <2>6. RefAreas \subseteq areas'
      <3> SUFFICES ASSUME NEW row \in RefAreas PROVE row \in areas'
          OBVIOUS
      <3>1. row \in areaRows
            BY <1>8, <2>4, RowFacts
      <3>2. \A v \in WayThreads : v # w => areaBuf[v] \cap RefAreas = {}
            BY <2>2 DEF WayStages
      <3> QED
          BY <1>3, <3>1, <3>2 DEF areaRows
    <2> QED
        BY <2>5, <2>6
  <1>17. WaysStored'
    <2>1. mode # "relations"
          BY <1>1 DEF WayStages
    <2> QED
        BY <1>1, <1>2, <1>3, <1>16, <2>1 DEF WaysStored
  <1> QED
      BY <1>5, <1>7, <1>11, <1>13, <1>15, <1>17

\* Leaving the barrier keeps the second half.
LEMMA LeaveWayBarrierKeeps ==
    ASSUME NEW w \in WayThreads, NodeInv, WayInv, LeaveWayBarrier(w)
    PROVE  WayInv'
  <1> USE DEF WayInv
  <1>1. /\ UNCHANGED <<file, mode, wayQ, wayStop, mergeDone, ppc, pos, hand, arrived>>
        /\ UNCHANGED <<wayBuf, areaBuf, relBuf, ways, areas, relations, roads>>
        /\ wpc[w] = "barrier" /\ arrived = WayThreads
        /\ phaseDone' = [phaseDone EXCEPT ![w] = (hand[w] # 0)]
        /\ wpc' = [wpc EXCEPT ![w] = IF hand[w] # 0 THEN "item" ELSE "final"]
        BY DEF LeaveWayBarrier, input, producer, queues, nodeSide
  <1>2. /\ Entries' = Entries /\ OfKind("way")' = OfKind("way") /\ OfKind("rel")' = OfKind("rel")
        /\ OfKind("node")' = OfKind("node")
        /\ RefWays' = RefWays /\ RefAreas' = RefAreas /\ RefPolygons' = RefPolygons
        /\ RefRelations' = RefRelations /\ RefRoads' = RefRoads
        BY <1>1, FileKept
  <1>3. /\ wpc' \in [WayThreads -> {"pop", "item", "barrier", "final", "done"}]
        /\ wpc'[w] = (IF hand[w] # 0 THEN "item" ELSE "final")
        /\ phaseDone' \in [WayThreads -> BOOLEAN]
        /\ \A v \in WayThreads : v # w => wpc'[v] = wpc[v] /\ phaseDone'[v] = phaseDone[v]
        BY <1>1 DEF WayTypes
  <1>4. WayTypes' /\ WayBounds' /\ WaysStored'
        BY <1>1, <1>2, <1>3 DEF WayTypes, WayBounds, WaysStored
  <1>5. /\ \A i : Queued(i)' = Queued(i)
        /\ QueueShut' = QueueShut
        /\ \A i : Flowing(i)' = Flowing(i)
        BY <1>1 DEF Queued, QueueShut, Flowing
  <1>6. WayOrder' /\ WaysRead'
        BY <1>1, <1>2, <1>5 DEF WayOrder, WaysRead
  <1>7. WayStages'
    <2>1. ASSUME NEW v \in WayThreads, v # w PROVE WayStages!(v)'
      <3>1. WayStages!(v)
            BY DEF WayStages
      <3> QED
          BY <1>1, <1>2, <1>3, <1>5, <2>1, <3>1
    <2>2. WayStages!(w)'
      <3>1. WayStages!(w)
            BY DEF WayStages
      <3>2. mode = "relations" => phaseDone'[w]
            BY <1>1, <3>1 DEF WayTypes
      <3> QED
          BY <1>1, <1>2, <1>3, <1>5, <3>1, <3>2
    <2> QED
        BY <2>1, <2>2 DEF WayStages
  <1>8. \A i : (WayHandled(i) => WayHandled(i)') /\ (RelHandled(i) => RelHandled(i)')
    <2>1. wayRows' = wayRows /\ areaRows' = areaRows /\ relRows' = relRows
          BY <1>1 DEF wayRows, areaRows, relRows
    <2> QED
        BY <1>1, <2>1, HandledGrows
  <1>9. WaysKept' /\ RelsKept'
        BY <1>1, <1>2, <1>5, <1>8 DEF WaysKept, RelsKept
  <1> QED
      BY <1>4, <1>6, <1>7, <1>9

\* The end of a way thread keeps the second half: nothing stays in its buffers.
LEMMA FinishWaysKeeps ==
    ASSUME NEW w \in WayThreads, NodeInv, WayInv, FinishWays(w)
    PROVE  WayInv'
  <1> USE DEF WayInv
  <1>1. /\ UNCHANGED <<file, mode, wayQ, wayStop, mergeDone, ppc, pos, hand, phaseDone, arrived>>
        /\ roads' = roads
        /\ finalize_ways(w) /\ finalize_relations(w)
        /\ wpc' = [wpc EXCEPT ![w] = "done"]
        /\ wpc[w] = "final" \/ (wpc[w] = "pop" /\ QueueShut /\ phaseDone[w])
        BY DEF FinishWays, QueueShut, input, producer, queues, nodeSide
  <1>2. /\ Entries' = Entries /\ OfKind("way")' = OfKind("way") /\ OfKind("rel")' = OfKind("rel")
        /\ OfKind("node")' = OfKind("node")
        /\ RefWays' = RefWays /\ RefAreas' = RefAreas /\ RefPolygons' = RefPolygons
        /\ RefRelations' = RefRelations /\ RefRoads' = RefRoads
        BY <1>1, FileKept
  <1>3. /\ wayBuf' \in [WayThreads -> SUBSET RefWays] /\ wayBuf'[w] = {}
        /\ areaBuf' \in [WayThreads -> SUBSET (RefAreas \cup RefPolygons)] /\ areaBuf'[w] = {}
        /\ \A v \in WayThreads : v # w => wayBuf'[v] = wayBuf[v] /\ areaBuf'[v] = areaBuf[v]
        /\ ways' \subseteq RefWays /\ areas' \subseteq RefAreas \cup RefPolygons
        /\ ways \cup wayBuf[w] \subseteq ways' /\ areas \cup areaBuf[w] \subseteq areas'
        /\ wayRows \subseteq wayRows' /\ areaRows \subseteq areaRows'
        /\ \A v \in WayThreads :
              /\ IsFiniteSet(wayBuf'[v]) /\ Cardinality(wayBuf'[v]) < way_buffer_size_[v]
              /\ IsFiniteSet(areaBuf'[v]) /\ Cardinality(areaBuf'[v]) <= way_buffer_size_[v]
        BY <1>1, FinalizeFacts
  <1>4. /\ relBuf' \in [WayThreads -> SUBSET RefRelations] /\ relBuf'[w] = {}
        /\ \A v \in WayThreads : v # w => relBuf'[v] = relBuf[v]
        /\ relations' \subseteq RefRelations /\ relations' = relations \cup relBuf[w]
        BY <1>1 DEF finalize_relations, WayTypes
  <1>5. relRows \subseteq relRows'
    <2> SUFFICES ASSUME NEW x \in relRows PROVE x \in relRows'
        OBVIOUS
    <2>1. x \in relations \/ \E v \in WayThreads : x \in relBuf[v]
          BY DEF relRows
    <2>2. x \in relations' \/ \E v \in WayThreads : x \in relBuf'[v]
          BY <1>4, <2>1
    <2> QED
        BY <2>2 DEF relRows
  <1>6. /\ wpc' \in [WayThreads -> {"pop", "item", "barrier", "final", "done"}]
        /\ wpc'[w] = "done" /\ \A v \in WayThreads : v # w => wpc'[v] = wpc[v]
        BY <1>1 DEF WayTypes
  <1>7. WayTypes'
        BY <1>1, <1>2, <1>3, <1>4, <1>6 DEF WayTypes
  <1>8. WayBounds'
    <2>1. IsFiniteSet({}) /\ Cardinality({}) = 0 /\ way_buffer_size_[w] \in Nat
          BY FS_EmptySet, ImportAssumption
    <2>2. ASSUME NEW v \in WayThreads
          PROVE  IsFiniteSet(relBuf'[v]) /\ Cardinality(relBuf'[v]) <= way_buffer_size_[v]
      <3>1. CASE v = w
            BY <1>4, <2>1, <3>1
      <3>2. CASE v # w
        <4>1. relBuf'[v] = relBuf[v]
              BY <1>4, <3>2
        <4> QED
            BY <4>1 DEF WayBounds
      <3> QED
          BY <3>1, <3>2
    <2> QED
        BY <1>3, <2>2 DEF WayBounds
  <1>9. /\ \A i : Queued(i)' = Queued(i)
        /\ QueueShut' = QueueShut
        /\ \A i : Flowing(i)' = Flowing(i)
        BY <1>1 DEF Queued, QueueShut, Flowing
  <1>10. WayOrder' /\ WaysRead'
        BY <1>1, <1>2, <1>9 DEF WayOrder, WaysRead
  <1>11. WayStages'
    <2>1. ASSUME NEW v \in WayThreads, v # w PROVE WayStages!(v)'
      <3>1. WayStages!(v) /\ ppc # "done"
            BY <1>1 DEF WayStages
      <3> QED
          BY <1>1, <1>2, <1>3, <1>4, <1>6, <1>9, <2>1, <3>1
    <2>2. WayStages!(w)'
      <3>1. WayStages!(w) /\ ppc # "done"
            BY <1>1 DEF WayStages
      <3> QED
          BY <1>1, <1>2, <1>3, <1>4, <1>6, <1>9, <3>1
    <2> QED
        BY <2>1, <2>2 DEF WayStages
  <1>12. WaysKept' /\ RelsKept'
    <2>1. \A i : (WayHandled(i) => WayHandled(i)') /\ (RelHandled(i) => RelHandled(i)')
          BY <1>1, <1>3, <1>5, HandledGrows
    <2> QED
        BY <1>1, <1>2, <1>9, <2>1 DEF WaysKept, RelsKept
  <1>13. WaysStored'
        BY <1>1, <1>2, <1>3 DEF WaysStored
  <1> QED
      BY <1>7, <1>8, <1>10, <1>11, <1>12, <1>13

\* The second half holds initially: a resume offset passes over no relation,
\* and over no way unless the ways are in the tables.
LEMMA WayInit == Init => WayInv
  <1> SUFFICES ASSUME Init PROVE WayInv
      OBVIOUS
  <1>1. file \in Files /\ mode \in Modes /\ NodeInv
        BY NodeInit DEF Init
  <1>2. /\ wayQ = <<>> /\ wayStop = FALSE /\ ppc = "read" /\ pos = StartPos
        /\ wpc = [w \in WayThreads |-> "pop"]
        /\ hand = [w \in WayThreads |-> 0]
        /\ phaseDone = [w \in WayThreads |-> mode = "relations"]
        /\ arrived = {}
        /\ wayBuf = [w \in WayThreads |-> {}]
        /\ areaBuf = [w \in WayThreads |-> {}]
        /\ relBuf = [w \in WayThreads |-> {}]
        /\ ways = (IF mode = "relations" THEN RefWays ELSE {})
        /\ areas \in (IF mode = "relations"
                   THEN {RefAreas \cup left : left \in SUBSET RefPolygons} ELSE {{}})
        /\ relations = {} /\ roads = {}
        /\ mode # "nodes" \/ nodeOff = 0
        BY DEF Init
  <1>3. WayThreads # {} /\ way_buffer_size_ \in [WayThreads -> Nat \ {0}] /\ QueueSize \in Nat
        BY ImportAssumption
  <1>4. Len(wayQ) = 0 /\ wayQ \in Seq(Entries) /\ \A i : ~Queued(i)
        BY <1>2 DEF Queued
  <1>5. /\ ways \subseteq RefWays /\ areas \subseteq RefAreas \cup RefPolygons
        /\ mode = "relations" => ways = RefWays /\ RefAreas \subseteq areas
        BY <1>2
  <1>6. WayTypes
        BY <1>2, <1>3, <1>4, <1>5 DEF WayTypes
  <1>7. WayBounds
        BY <1>2, <1>3, FS_EmptySet DEF WayBounds
  <1>8. pos \in Nat \ {0}
        BY <1>1, FileFacts DEF NodeInv, NodeTypes
  <1>9. 0 \notin OfKind("way") /\ OfKind("rel") \subseteq Nat /\ OfKind("way") \subseteq Nat
        BY <1>1, Kinds
  <1>10. WayOrder
        BY <1>2, <1>4, <1>8, <1>9 DEF WayOrder
  <1>11. WayStages
        BY <1>2, <1>9 DEF WayStages
  <1>12. WaysRead /\ WaysStored
        BY <1>2, <1>3, <1>5 DEF WaysRead, WaysStored
  <1>13. \A i \in OfKind("way") : i \in Entries \ OfKind("node")
        BY <1>1, Kinds
  <1>14. \A i \in OfKind("rel") : i \in Entries \ OfKind("node")
        BY <1>1, Kinds
  <1>15. pos = 1 \/ (nodeOff # 0 /\ pos = nodeOff) \/ (mode = "relations" /\ relOff # 0 /\ pos = relOff)
        BY <1>1, <1>2 DEF StartPos, NodeInv, NodeTypes
  <1>16. \A i \in OfKind("rel") : i >= pos
    <2>1. CASE pos = 1
      <3>1. \A i \in OfKind("rel") : i \in Nat \ {0}
            BY <1>1, Kinds
      <3> QED
          BY <2>1, <3>1
    <2>2. CASE nodeOff # 0 /\ pos = nodeOff
          BY <1>1, <1>14, <2>2 DEF NodeInv, OffsetsSkipNothing
    <2>3. CASE relOff # 0 /\ pos = relOff
          BY <1>1, <2>3 DEF NodeInv, OffsetsSkipNothing
    <2> QED
        BY <1>15, <2>1, <2>2, <2>3
  <1>17. mode # "relations" => \A i \in OfKind("way") : i >= pos
    <2>1. CASE pos = 1
      <3>1. \A i \in OfKind("way") : i \in Nat \ {0}
            BY <1>1, Kinds
      <3> QED
          BY <2>1, <3>1
    <2>2. CASE nodeOff # 0 /\ pos = nodeOff
          BY <1>1, <1>13, <2>2 DEF NodeInv, OffsetsSkipNothing
    <2> QED
        BY <1>15, <2>1, <2>2
  <1>18. WaysKept /\ RelsKept
        BY <1>16, <1>17 DEF WaysKept, RelsKept, Flowing
  <1> QED
      BY <1>6, <1>7, <1>10, <1>11, <1>12, <1>18 DEF WayInv

----------------------------------------------------------------------------
(* The invariant and what it implies *)

\* A way thread leaves the reader, the nodes and the merge alone.
LEMMA WayThreadKeepsNodes ==
    ASSUME NodeInv, NEW w \in WayThreads, WayThread(w)
    PROVE  NodeInv'
  <1>1. UNCHANGED <<input, producer, nodeQ, nodeStop, wayStop, nodeSide>>
        BY DEF WayThread, PopWay, IgnoreNode, HandleWay, ArriveAtWayBarrier, LeaveWayBarrier,
               HandlePolygon, HandleRelation, FinishWays, queues
  <1> QED
      BY <1>1, NodeFrame

\* A stuttering step changes nothing.
LEMMA Stuttering == ASSUME IInv, UNCHANGED vars PROVE IInv'
  <1>1. /\ UNCHANGED <<input, producer, nodeQ, nodeStop, wayQ, wayStop, nodeSide, waySide>>
        /\ UNCHANGED <<pos, ppc, mergeDone>>
        BY DEF vars, queues, producer, nodeSide
  <1>2. NodeInv'
        BY <1>1, NodeFrame DEF IInv
  <1>3. pos \in Nat /\ (ppc = "done" => \A w \in WayThreads : wpc[w] = "done")
        BY FileFacts DEF IInv, NodeInv, NodeTypes, WayInv, WayStages
  <1>4. /\ \A i \in OfKind("rel") : i >= pos => i >= pos'
        /\ mode # "relations" => \A i \in OfKind("way") : i >= pos => i >= pos'
        BY <1>1
  <1>5. WayInv'
        BY <1>1, <1>3, <1>4, WayFrame DEF IInv
  <1> QED
      BY <1>2, <1>5 DEF IInv

\* Every step keeps the invariant.
LEMMA IInvNext == IInv /\ [Next]_vars => IInv'
  <1> SUFFICES ASSUME IInv, [Next]_vars PROVE IInv'
      OBVIOUS
  <1> USE DEF IInv
  <1>1. CASE Producer
    <2>1. CASE PushNode
          BY <2>1, PushNodeKeeps, NodeSideKeepsWays
    <2>2. CASE DropNode
          BY <2>2, DropNodeKeeps, NodeSideKeepsWays
    <2>3. CASE EndNodePhase
          BY <2>3, EndNodePhaseKeeps, NodeSideKeepsWays
    <2>4. CASE SpinOnMerge
          BY <2>4, SpinOnMergeKeeps, NodeSideKeepsWays
    <2>5. CASE DropWay
          BY <2>5, PassWayKeeps, NodeSideKeepsWays
    <2>6. CASE PushWay
          BY <2>6, PassWayKeeps, PushWayKeeps
    <2>7. CASE EndOfFile \/ JoinNodes \/ JoinWays
          BY <2>7, JoinsKeep, NodeSideKeepsWays
    <2>8. CASE Sleep
      <3>1. UNCHANGED vars
            BY <2>8 DEF Sleep
      <3> QED
          BY <3>1, Stuttering
    <2> QED
        BY <1>1, <2>1, <2>2, <2>3, <2>4, <2>5, <2>6, <2>7, <2>8 DEF Producer
  <1>2. ASSUME NEW t \in NodeTids, NodeThread(t) PROVE IInv'
    <2>1. NodeInv'
          BY <1>2, HandleNodeKeeps, FinishNodesKeeps, LeaveNodeBarrierKeeps DEF NodeThread
    <2>2. WayInv'
          BY <1>2, NodeSideKeepsWays
    <2> QED
        BY <2>1, <2>2
  <1>3. CASE Merge
    <2>1. NodeInv'
          BY <1>3, MergeShardKeeps, FinishMergeKeeps DEF Merge
    <2>2. WayInv'
          BY <1>3, NodeSideKeepsWays
    <2> QED
        BY <2>1, <2>2
  <1>4. ASSUME NEW w \in WayThreads, WayThread(w) PROVE IInv'
    <2>1. NodeInv'
          BY <1>4, WayThreadKeepsNodes
    <2>2. WayInv'
          BY <1>4, PopWayKeeps, IgnoreNodeKeeps, HandleWayKeeps, ArriveKeeps, LeaveWayBarrierKeeps,
             HandlePolygonKeeps, HandleRelationKeeps, FinishWaysKeeps DEF WayThread
    <2> QED
        BY <2>1, <2>2
  <1>5. CASE Terminated \/ UNCHANGED vars
    <2>1. UNCHANGED vars
          BY <1>5 DEF Terminated
    <2> QED
        BY <2>1, Stuttering
  <1> QED
      BY <1>1, <1>2, <1>3, <1>4, <1>5 DEF Next

\* The invariant implies the type invariant the runs check.
LEMMA IInvTypes == IInv => TypeOK
  <1> SUFFICES ASSUME IInv PROVE TypeOK
      OBVIOUS
  <1> USE DEF IInv, NodeInv, WayInv
  <1>1. ASSUME NEW w \in WayThreads PROVE wayBuf[w] \subseteq AllWayRows
        BY RowFacts DEF WayTypes, NodeTypes
  <1>2. /\ file \in Files /\ mode \in Modes
        /\ ppc \in {"read", "spin", "joinNodes", "joinWays", "done"}
        /\ pos \in 1..(Len(file) + 1) /\ nodePhase \in BOOLEAN /\ rr \in Nat
        /\ nodeOff \in {0} \cup Entries /\ relOff \in {0} \cup Entries
        /\ nodeQ \in [NodeTids -> Seq(OfKind("node"))] /\ nodeStop \in BOOLEAN
        /\ wayStop \in BOOLEAN
        /\ npc \in [NodeTids -> {"loop", "barrier", "done"}]
        /\ nodeBuf \in [NodeTids -> SUBSET RefNodes]
        /\ inbuf \in [NodeTids -> SUBSET OfKind("node")]
        /\ shard \in [NodeTids -> SUBSET OfKind("node")]
        /\ mergeNext \in 0..NodeThreads /\ merged \subseteq OfKind("node")
        /\ mergeDone \in BOOLEAN
        /\ nodes \subseteq RefNodes
        BY Zenon DEF NodeTypes
  <1>3. \A t \in NodeTids : Len(nodeQ[t]) <= QueueSize /\ Cardinality(inbuf[t]) < ChunkRecords
        BY Zenon DEF NodeBounds
  <1>4. /\ wayQ \in Seq(Entries) /\ Len(wayQ) <= QueueSize
        /\ wpc \in [WayThreads -> {"pop", "item", "barrier", "final", "done"}]
        /\ hand \in [WayThreads -> {0} \cup Entries]
        /\ phaseDone \in [WayThreads -> BOOLEAN] /\ arrived \subseteq WayThreads
        BY Zenon DEF WayTypes
  <1>5. \A w \in WayThreads :
           /\ Cardinality(wayBuf[w]) < way_buffer_size_[w]
           /\ Cardinality(areaBuf[w]) <= way_buffer_size_[w]
           /\ Cardinality(relBuf[w]) <= way_buffer_size_[w]
        BY Zenon DEF WayBounds
  <1> QED
      BY <1>1, <1>2, <1>3, <1>4, <1>5, Zenon DEF TypeOK

\* Every row of a way is the one built from all nodes.
LEMMA IInvWaysSeeAllNodes == IInv => WaysSeeAllNodes
  <1> SUFFICES ASSUME IInv PROVE WaysSeeAllNodes
      OBVIOUS
  <1>1. /\ file \in Files
        /\ ways \subseteq RefWays /\ \A w \in WayThreads : wayBuf[w] \subseteq RefWays
        /\ areas \subseteq RefAreas \cup RefPolygons
        /\ \A w \in WayThreads : areaBuf[w] \subseteq RefAreas \cup RefPolygons
        BY DEF IInv, NodeInv, NodeTypes, WayInv, WayTypes
  <1>2. ASSUME NEW row, row[1] > 0, row \in RefAreas \cup RefPolygons PROVE row \in RefAreas
    <2>1. ASSUME row \in RefPolygons PROVE FALSE
      <3>1. PICK i \in OfKind("rel") : row = PolygonRow(i, RefWays, RefAreas)
            BY <2>1 DEF RefPolygons
      <3>2. i \in Nat \ {0} /\ row[1] = -i
            BY <1>1, <3>1, Kinds DEF PolygonRow
      <3> QED
          BY <1>2, <3>2
    <2> QED
        BY <1>2, <2>1
  <1> QED
      BY <1>1, <1>2 DEF WaysSeeAllNodes

\* Every row of a relation is the one built from all stored ways.
LEMMA IInvRelationsSeeAllWays == IInv => RelationsSeeAllWays
  <1> SUFFICES ASSUME IInv PROVE RelationsSeeAllWays
      OBVIOUS
  <1>1. /\ file \in Files /\ roads \subseteq RefRoads
        /\ relations \subseteq RefRelations /\ \A w \in WayThreads : relBuf[w] \subseteq RefRelations
        /\ areas \subseteq RefAreas \cup RefPolygons
        /\ \A w \in WayThreads : areaBuf[w] \subseteq RefAreas \cup RefPolygons
        BY DEF IInv, NodeInv, NodeTypes, WayInv, WayTypes
  <1>2. ASSUME NEW row, row[1] < 0, row \in RefAreas \cup RefPolygons PROVE row \in RefPolygons
    <2>1. ASSUME row \in RefAreas PROVE FALSE
      <3>1. row[1] \in OfKind("way")
            BY <1>1, <2>1, RowFacts
      <3>2. row[1] \in Nat
            BY <1>1, <3>1, Kinds
      <3> QED
          BY <1>2, <3>2
    <2> QED
        BY <1>2, <2>1
  <1> QED
      BY <1>1, <1>2 DEF RelationsSeeAllWays

\* After the node threads' last flush every tagged node is in the table.
LEMMA NodesStored ==
    ASSUME IInv, \A t \in NodeTids : npc[t] # "loop"
    PROVE  nodes = RefNodes
  <1> USE DEF IInv
  <1>1. \A i \in OfKind("node") : ~Waiting(i)
        BY NoneWaiting
  <1>2. RefNodes \subseteq OfKind("node") /\ nodes \subseteq RefNodes
        BY DEF NodeInv, NodeTypes, RefNodes
  <1>3. \A t \in NodeTids : nodeBuf[t] = {}
        BY DEF NodeInv, NodeBarrier
  <1> QED
      BY <1>1, <1>2, <1>3 DEF NodeInv, NodeRowsKept

\* A reported phase can be resumed.
LEMMA IInvResumable == IInv => ReportedPhaseResumable
  <1> SUFFICES ASSUME IInv PROVE ReportedPhaseResumable
      OBVIOUS
  <1> USE DEF IInv
  <1>1. mergeDone => \A t \in NodeTids : npc[t] # "loop"
        BY DEF NodeInv, NodeBarrier
  <1>2. ASSUME NEW w \in WayThreads, phaseDone[w]
        PROVE  mergeDone /\ ways = RefWays /\ RefAreas \subseteq areas
    <2>1. mode = "relations" \/ arrived = WayThreads
          BY <1>2 DEF WayInv, WayStages
    <2>2. mergeDone
      <3>1. mode = "relations" => SkipNodes
            BY DEF SkipNodes
      <3>2. arrived = WayThreads => arrived # {}
            OBVIOUS
      <3> QED
          BY <2>1, <3>1, <3>2 DEF NodeInv, NodeBarrier, WayInv, WaysRead
    <2> QED
        BY <2>1, <2>2 DEF WayInv, WaysStored
  <1>3. ReportedPhase # "nodes" => \A t \in NodeTids : npc[t] # "loop"
    <2>1. CASE \E w \in WayThreads : phaseDone[w]
          BY <1>1, <1>2, <2>1
    <2>2. CASE mergeDone
          BY <1>1, <2>2
    <2>3. CASE \A t \in NodeTids : npc[t] = "barrier"
          BY <2>3
    <2> QED
        BY <2>1, <2>2, <2>3 DEF ReportedPhase
  <1>4. ReportedPhase \in {"ways", "relations"} => mergeDone
        BY <1>2 DEF ReportedPhase
  <1>5. ReportedPhase = "relations" => \E w \in WayThreads : phaseDone[w]
        BY DEF ReportedPhase
  <1> QED
      BY <1>2, <1>3, <1>4, <1>5, NodesStored DEF ReportedPhaseResumable, NodeInv, MergedWhole

\* When every thread has been joined the import is complete.
LEMMA IInvComplete == IInv => ImportComplete
  <1> SUFFICES ASSUME IInv, ppc = "done"
               PROVE  /\ merged = OfKind("node") /\ nodes = RefNodes
                      /\ ways = RefWays /\ areas = RefAreas \cup RefPolygons
                      /\ relations = RefRelations /\ roads = RefRoads
      BY DEF ImportComplete
  <1> USE DEF IInv
  <1>1. /\ \A t \in NodeTids : npc[t] = "done"
        /\ pos = Len(file) + 1
        BY DEF NodeInv, Reader
  <1>2. merged = OfKind("node") /\ nodes = RefNodes
    <2>1. mergeDone
      <3>1. 0 \in NodeTids
            BY ImportAssumption DEF NodeTids
      <3> QED
          BY <1>1, <3>1 DEF NodeInv, NodeBarrier
    <2> QED
        BY <1>1, <2>1, NodesStored DEF NodeInv, MergedWhole
  <1>3. /\ \A w \in WayThreads : /\ wpc[w] = "done" /\ hand[w] = 0 /\ QueueShut
                                 /\ wayBuf[w] = {} /\ areaBuf[w] = {} /\ relBuf[w] = {}
                                 /\ mode = "relations" \/ arrived = WayThreads
        BY DEF WayInv, WayStages
  <1>4. PICK v \in WayThreads : TRUE
        BY ImportAssumption
  <1>5. QueueShut /\ (mode = "relations" \/ arrived = WayThreads)
        BY <1>3, <1>4
  <1>6. ways = RefWays /\ RefAreas \subseteq areas
        BY <1>5 DEF WayInv, WaysStored
  <1>7. areaRows = areas /\ relRows = relations
        BY <1>3 DEF areaRows, relRows
  <1>8. ASSUME NEW i \in OfKind("rel") PROVE RelHandled(i)
    <2>1. file \in Files
          BY DEF NodeInv, NodeTypes
    <2>2. i \in Nat \ {0} /\ Len(file) \in Nat /\ i <= Len(file)
          BY <2>1, Kinds, FileFacts DEF OfKind
    <2>3. ~(i >= pos) /\ i # 0
          BY <1>1, <2>2
    <2>4. ~Queued(i)
          BY <1>5 DEF QueueShut, Queued
    <2> QED
        BY <1>3, <2>3, <2>4 DEF WayInv, RelsKept, Flowing
  <1>9. RefPolygons \subseteq areas
    <2> SUFFICES ASSUME NEW row \in RefPolygons PROVE row \in areas
        OBVIOUS
    <2>1. PICK i \in OfKind("rel") : row = PolygonRow(i, RefWays, RefAreas)
          BY DEF RefPolygons
    <2> QED
        BY <1>7, <1>8, <2>1 DEF RelHandled
  <1>10. RefRelations \subseteq relations
    <2> SUFFICES ASSUME NEW row \in RefRelations PROVE row \in relations
        OBVIOUS
    <2>1. PICK i \in OfKind("rel") : row = RelationRow(i, RefWays, RefAreas)
          BY DEF RefRelations
    <2> QED
        BY <1>7, <1>8, <2>1 DEF RelHandled
  <1>11. RefRoads \subseteq roads
    <2> SUFFICES ASSUME NEW row \in RefRoads PROVE row \in roads
        OBVIOUS
    <2>1. PICK i \in OfKind("rel") : row = RelationRow(i, RefWays, RefAreas)
          BY DEF RefRoads, RefRelations
    <2> QED
        BY <1>8, <2>1 DEF RelHandled
  <1>12. areas \subseteq RefAreas \cup RefPolygons /\ relations \subseteq RefRelations
         /\ roads \subseteq RefRoads
        BY DEF WayInv, WayTypes
  <1> QED
      BY <1>2, <1>6, <1>9, <1>10, <1>11, <1>12

\* The invariant holds in every reachable state (src/src/main.cpp, the producer
\* loop, nodeThread, wayThread and the completion of node_barrier).
THEOREM ImportInvariant == Spec => []IInv
  <1>1. Init => IInv
        BY NodeInit, WayInit DEF IInv
  <1> QED
      BY <1>1, IInvNext, PTL DEF Spec

\* Every variable keeps its type; the queues never exceed -q, the shard chunks
\* and the NavDB buffers never exceed their flush thresholds.
THEOREM ImportTypes == Spec => []TypeOK
  BY ImportInvariant, IInvTypes, PTL

\* No way thread looks up a node before the merge is done: every way and area
\* row, buffered or stored, is built from all nodes of the file (wayThread,
\* osmmap.select).
THEOREM WaysReadCompleteNodes == Spec => []WaysSeeAllNodes
  BY ImportInvariant, IInvWaysSeeAllNodes, PTL

\* No relation reads its members before every way is flushed: way_barrier
\* separates them, whatever the number of threads.
THEOREM RelationsReadCompleteWays == Spec => []RelationsSeeAllWays
  BY ImportInvariant, IInvRelationsSeeAllWays, PTL

\* An import that ends has lost nothing, from whatever phase it was resumed.
THEOREM ImportsAreComplete == Spec => []ImportComplete
  BY ImportInvariant, IInvComplete, PTL

\* An import interrupted at any moment can be resumed at the phase it reported.
THEOREM PhasesAreResumable == Spec => []ReportedPhaseResumable
  BY ImportInvariant, IInvResumable, PTL

\* A recorded resume offset never lies behind an entity the resumed phases need.
THEOREM OffsetsAreSafe == Spec => []OffsetsSkipNothing
  <1>1. IInv => OffsetsSkipNothing
        BY DEF IInv, NodeInv
  <1> QED
      BY <1>1, ImportInvariant, PTL
====
