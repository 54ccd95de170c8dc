--------------------------- MODULE ImportPipeline ---------------------------
(***************************************************************************)
(* The bulk importer of gpsxdb (src/src/main.cpp): one producer reads the  *)
(* PBF file and feeds node threads through one bounded queue each and way  *)
(* threads through a shared one; node threads write shards that the        *)
(* completion of node_barrier merges into nodes.dat; way threads look node *)
(* positions up there, buffer rows in their NavDB and meet at way_barrier  *)
(* before the first relation, whose geometry is read back from the tables. *)
(*                                                                         *)
(* An entity is its index in the file.  A row is <<id, parts>>: parts are  *)
(* the nodes found for a way, the member ways found for a relation.        *)
(* Relations stored as areas get the negative id, as in the code.          *)
(* A mode is the phase given to -R; "nodes" is a fresh import.             *)
(***************************************************************************)
EXTENDS Integers, Sequences, FiniteSets

CONSTANTS
    Files,           \* the PBF files: sequences of entries, sorted by kind
    Modes,           \* phases to start in: subset of AllModes
    NodeThreads,     \* -t: node threads are 0 .. NodeThreads - 1
    WayThreads,      \* -w: the way threads
    QueueSize,       \* -q: max_size_ of every queue
    NODE_BUFFER_SIZE,
    ChunkRecords,    \* CHUNK_SIZE of the shard writers, in records
    way_buffer_size_ \* per way thread: flush threshold of its buffers

AllModes == {"nodes", "merge", "ways", "relations"}
NodeTids == 0..(NodeThreads - 1)

ASSUME ImportAssumption ==
    /\ Modes \subseteq AllModes
    /\ NodeThreads \in Nat \ {0}
    /\ IsFiniteSet(WayThreads) /\ WayThreads # {}
    /\ QueueSize \in Nat \ {0}
    /\ NODE_BUFFER_SIZE \in Nat \ {0} /\ ChunkRecords \in Nat \ {0}
    /\ way_buffer_size_ \in [WayThreads -> Nat \ {0}]

\* A PBF file has the nodes first, then the ways, then the relations; blob is
\* the entry at which an entry's blob begins.
FileEntries ==
    [kind : {"node", "way", "rel"}, tagged : BOOLEAN, refs : Seq(Nat), areaTag : BOOLEAN,
     polygon : BOOLEAN, road : BOOLEAN, inner : SUBSET Nat, blob : Nat \ {0}]

ASSUME FilesAssumption ==
    \A f \in Files :
        /\ f \in Seq(FileEntries)
        /\ \A i \in 1..Len(f) : f[i].blob <= i
        /\ \A i \in 1..Len(f), j \in 1..Len(f) : i < j =>
              /\ f[j].kind = "node" => f[i].kind = "node"
              /\ f[i].kind = "rel" => f[j].kind = "rel"

\* Outer members have three nodes in the file, so stitchRings, which closes
\* what is open, makes a ring of any of them.
ASSUME OuterMembersAssumption ==
    \A f \in Files : \A i \in 1..Len(f) : f[i].polygon =>
        \A k \in 1..Len(f[i].refs) :
            LET m == f[i].refs[k]
            IN  m \in f[i].inner \/
                Cardinality({f[m].refs[j] : j \in 1..Len(f[m].refs)} \cap 1..(m - 1)) >= 3

VARIABLES
    file, mode,
    ppc,         \* producer: read, spin, joinNodes, joinWays, done
    pos,         \* producer: the next entry
    nodePhase,   \* producer: node_phase
    rr,          \* producer: nodes pushed so far
    nodeOff, relOff,   \* the resume-offset files, 0 if absent
    nodeQ, nodeStop,   \* the node queues and their stop_
    wayQ, wayStop,     \* way_q and its stop_
    npc,         \* node threads: loop, barrier, done
    nodeBuf,     \* node threads: node_buf_
    inbuf,       \* shard writers: records not yet in the shard's file
    shard,       \* the shard files
    mergeNext,   \* merge(): the next shard
    merged,      \* the nodes in nodes.dat
    mergeDone,   \* merge_done
    wpc,         \* way threads: pop, item, barrier, final, done
    hand,        \* way threads: the entry popped, 0 if none
    phaseDone,   \* way threads: way_phase_done
    arrived,     \* way_barrier: the threads that arrived
    wayBuf, areaBuf, relBuf,  \* way threads: way_buf_, area_buf_, relation_buf_
    nodes, ways, areas, relations, roads   \* the tables

input    == <<file, mode>>
producer == <<ppc, pos, nodePhase, rr, nodeOff, relOff>>
queues   == <<nodeQ, nodeStop, wayQ, wayStop>>
nodeSide == <<npc, nodeBuf, inbuf, shard, mergeNext, merged, mergeDone, nodes>>
waySide  == <<wpc, hand, phaseDone, arrived, wayBuf, areaBuf, relBuf,
              ways, areas, relations, roads>>

vars == <<input, producer, queues, nodeSide, waySide>>

----------------------------------------------------------------------------
(* Entries, geometries and what a complete import stores *)

Entries == 1..Len(file)
OfKind(k) == {i \in Entries : file[i].kind = k}

\* The parts of an entry that can be found, in order.
Parts(refs, found) == SelectSeq(refs, LAMBDA k : k \in found)

\* buildWayGeom: a closed line becomes a polygon.
Closed(pts) == Len(pts) >= 4 /\ pts[1] = pts[Len(pts)]

isArea(i, pts) == Closed(pts) /\ file[i].areaTag

Ids(rows) == {row[1] : row \in rows}

\* getWay, getWayCoordsMap: the members, under their own positive ids, with a
\* geometry in ways or areas.
Stored(wayRows, areaRows) == Entries \cap Ids(wayRows \cup areaRows)

\* mergeWayGeoms keeps only lines.
Linear(wayRows, areaRows) ==
    Entries \cap Ids({row \in wayRows \cup areaRows : ~Closed(row[2])})

\* The row of way i when the nodes in `known' can be found.
WayRow(i, known) == <<i, Parts(file[i].refs, known)>>

\* The ways and areas a complete import stores, given all nodes.
AllWayRows ==
    {row \in {WayRow(i, OfKind("node")) : i \in {j \in OfKind("way") : file[j].tagged}} :
        Len(row[2]) >= 2}
RefAreas == {row \in AllWayRows : isArea(row[1], row[2])}
RefWays  == AllWayRows \ RefAreas

\* buildMultipolygon: absent members are skipped, no outer one means no row.
PolygonRow(i, wayRows, areaRows) ==
    <<-i, Parts(file[i].refs, Stored(wayRows, areaRows))>>
HasOuter(row) == \E k \in 1..Len(row[2]) : row[2][k] \notin file[-row[1]].inner

\* The row of another relation: its linear members.
RelationRow(i, wayRows, areaRows) ==
    <<i, Parts(file[i].refs, Linear(wayRows, areaRows))>>

\* The rows a complete import stores for the relations.
RefPolygons ==
    {row \in {PolygonRow(i, RefWays, RefAreas) :
                 i \in {j \in OfKind("rel") : file[j].polygon /\ file[j].tagged}} :
        HasOuter(row)}
RefRelations ==
    {RelationRow(i, RefWays, RefAreas) : i \in {j \in OfKind("rel") : ~file[j].polygon}}
RefRoads == {row \in RefRelations : file[row[1]].road /\ row[2] # <<>>}
RefNodes == {i \in OfKind("node") : file[i].tagged}

\* Blob-aligned offset of the first entry of a kind other than the given ones.
FirstBlob(kinds) ==
    LET rest == {i \in Entries : file[i].kind \notin kinds}
    IN  IF rest = {} THEN 0
        ELSE file[CHOOSE i \in rest : \A j \in rest : i <= j].blob

----------------------------------------------------------------------------
(* Initial states: a fresh import, or -R naming the phase that was         *)
(* interrupted.  truncateForResume empties that phase's tables, but leaves *)
(* the relations already stored in areas: copying one of those again is a  *)
(* duplicate key, which tryCopyBatch drops.  A merge was interrupted after *)
(* some shards; that the other shard files are complete is assumed here    *)
(* (ShardsComplete says when they are not).                                *)

\* -R relations prefers the relations offset, the others use the node offset.
StartPos ==
    IF mode = "nodes" THEN 1
    ELSE IF mode = "relations" /\ relOff > 0 THEN relOff
    ELSE IF nodeOff > 0 THEN nodeOff ELSE 1

\* The nodes that go round-robin to node thread t.
ShardNodes(t) == {i \in OfKind("node") : (i - 1) % NodeThreads = t}

SkipNodes == mode \in {"ways", "relations"}

Init ==
    /\ file \in Files /\ mode \in Modes
    /\ nodeOff \in (IF mode = "nodes" THEN {0} ELSE {0, FirstBlob({"node"})})
    /\ relOff \in (IF mode = "relations" THEN {0, FirstBlob({"node", "way"})} ELSE {0})
    /\ ppc = "read" /\ pos = StartPos /\ nodePhase = ~SkipNodes /\ rr = 0
    /\ nodeQ = [t \in NodeTids |-> <<>>] /\ nodeStop = SkipNodes
    /\ wayQ = <<>> /\ wayStop = FALSE
    /\ npc = [t \in NodeTids |-> IF SkipNodes THEN "done" ELSE "loop"]
    /\ nodeBuf = [t \in NodeTids |-> {}]
    /\ inbuf = [t \in NodeTids |-> {}]
    /\ \E k \in (IF mode = "merge" THEN NodeTids ELSE {0}) :
          /\ shard = [t \in NodeTids |->
                         IF mode = "merge" /\ t >= k THEN ShardNodes(t) ELSE {}]
          /\ merged = IF SkipNodes THEN OfKind("node")
                      ELSE UNION {ShardNodes(t) : t \in 0..(k - 1)}
    /\ mergeNext = 0
    /\ mergeDone = SkipNodes
    /\ nodes = IF mode = "nodes" THEN {} ELSE RefNodes
    /\ wpc = [w \in WayThreads |-> "pop"]
    /\ hand = [w \in WayThreads |-> 0]
    /\ phaseDone = [w \in WayThreads |-> mode = "relations"]
    /\ arrived = {}
    /\ wayBuf = [w \in WayThreads |-> {}]
    /\ areaBuf = [w \in WayThreads |-> {}]
    /\ relBuf = [w \in WayThreads |-> {}]
    /\ ways = (IF mode = "relations" THEN RefWays ELSE {})
    /\ areas \in (IF mode = "relations"
                   THEN {RefAreas \cup left : left \in SUBSET RefPolygons} ELSE {{}})
    /\ relations = {} /\ roads = {}

----------------------------------------------------------------------------
(* The producer *)

Reading == ppc = "read" /\ pos <= Len(file)
Kind == file[pos].kind

\* Push to the next node queue; push() waits while the queue is full.
PushNode ==
    LET t == rr % NodeThreads
    IN  /\ Reading /\ nodePhase /\ Kind = "node" /\ mode # "merge"
        /\ Len(nodeQ[t]) < QueueSize
        /\ nodeQ' = [nodeQ EXCEPT ![t] = Append(@, pos)]
        /\ rr' = rr + 1 /\ pos' = pos + 1
        /\ UNCHANGED <<input, ppc, nodePhase, nodeOff, relOff, nodeStop, wayQ, wayStop,
                       nodeSide, waySide>>

\* -R merge: the shards already have the nodes.
DropNode ==
    /\ Reading /\ nodePhase /\ Kind = "node" /\ mode = "merge"
    /\ pos' = pos + 1
    /\ UNCHANGED <<input, ppc, nodePhase, rr, nodeOff, relOff, queues, nodeSide, waySide>>

\* Mutant: the node queues stay open.
EndNodePhaseLeavesQueuesOpen ==
    /\ Reading /\ nodePhase /\ Kind # "node"
    /\ nodePhase' = FALSE
    /\ nodeOff' = file[pos].blob
    /\ ppc' = "spin"
    /\ UNCHANGED <<input, pos, rr, relOff, queues, nodeSide, waySide>>

\* Mutant: the offset is the reader's position, already at the next blob.
EndNodePhaseRecordsNextBlob ==
    LET later == {i \in Entries : i > pos /\ file[i].blob = i}
    IN  /\ Reading /\ nodePhase /\ Kind # "node"
        /\ nodePhase' = FALSE
        /\ nodeStop' = TRUE
        /\ nodeOff' = IF later = {} THEN file[pos].blob
                       ELSE CHOOSE i \in later : \A j \in later : i <= j
        /\ ppc' = "spin"
        /\ UNCHANGED <<input, pos, rr, relOff, nodeQ, wayQ, wayStop, nodeSide, waySide>>

\* First non-node: shut the node queues, write the offset, wait for the merge.
EndNodePhase ==
    /\ Reading /\ nodePhase /\ Kind # "node"
    /\ nodePhase' = FALSE
    /\ nodeStop' = TRUE
    /\ nodeOff' = file[pos].blob
    /\ ppc' = "spin"
    /\ UNCHANGED <<input, pos, rr, relOff, nodeQ, wayQ, wayStop, nodeSide, waySide>>

\* while (!merge_done) sleep: one more round ...
Sleep == ppc = "spin" /\ ~mergeDone /\ UNCHANGED vars

\* Mutant: feeds way_q without waiting for the merge.
SpinOnMergeEarly ==
    /\ ppc = "spin"
    /\ ppc' = "read"
    /\ UNCHANGED <<input, pos, nodePhase, rr, nodeOff, relOff, queues, nodeSide, waySide>>

\* ... and on to the ways.
SpinOnMerge ==
    /\ ppc = "spin" /\ mergeDone
    /\ ppc' = "read"
    /\ UNCHANGED <<input, pos, nodePhase, rr, nodeOff, relOff, queues, nodeSide, waySide>>

\* -R relations: the ways are already in the database.
DropWay ==
    /\ Reading /\ ~nodePhase /\ Kind = "way" /\ mode = "relations"
    /\ pos' = pos + 1
    /\ UNCHANGED <<input, ppc, nodePhase, rr, nodeOff, relOff, queues, nodeSide, waySide>>

\* Mutant: push() does not wait for room.
PushWayUnbounded ==
    /\ Reading /\ ~nodePhase
    /\ ~(Kind = "way" /\ mode = "relations")
    /\ wayQ' = Append(wayQ, pos)
    /\ relOff' = IF Kind = "rel" /\ \A i \in 1..(pos - 1) : file[i].kind # "rel"
                   THEN file[pos].blob ELSE relOff
    /\ pos' = pos + 1
    /\ UNCHANGED <<input, ppc, nodePhase, rr, nodeOff, nodeQ, nodeStop, wayStop,
                   nodeSide, waySide>>

\* Everything else goes to way_q; the first relation's blob is recorded.
PushWay ==
    /\ Reading /\ ~nodePhase
    /\ ~(Kind = "way" /\ mode = "relations")
    /\ Len(wayQ) < QueueSize
    /\ wayQ' = Append(wayQ, pos)
    /\ relOff' = IF Kind = "rel" /\ \A i \in 1..(pos - 1) : file[i].kind # "rel"
                   THEN file[pos].blob ELSE relOff
    /\ pos' = pos + 1
    /\ UNCHANGED <<input, ppc, nodePhase, rr, nodeOff, nodeQ, nodeStop, wayStop,
                   nodeSide, waySide>>

\* End of file: shut the node queues and join the node threads.
EndOfFile ==
    /\ ppc = "read" /\ pos > Len(file)
    /\ nodeStop' = TRUE
    /\ ppc' = "joinNodes"
    /\ UNCHANGED <<input, pos, nodePhase, rr, nodeOff, relOff, nodeQ, wayQ, wayStop,
                   nodeSide, waySide>>

JoinNodes ==
    /\ ppc = "joinNodes" /\ \A t \in NodeTids : npc[t] = "done"
    /\ wayStop' = TRUE
    /\ ppc' = "joinWays"
    /\ UNCHANGED <<input, pos, nodePhase, rr, nodeOff, relOff, nodeQ, nodeStop, wayQ,
                   nodeSide, waySide>>

JoinWays ==
    /\ ppc = "joinWays" /\ \A w \in WayThreads : wpc[w] = "done"
    /\ ppc' = "done"
    /\ UNCHANGED <<input, pos, nodePhase, rr, nodeOff, relOff, queues, nodeSide, waySide>>

Producer ==
    \/ PushNode \/ DropNode \/ EndNodePhase \/ Sleep \/ SpinOnMerge \/ DropWay \/ PushWay
    \/ EndOfFile \/ JoinNodes \/ JoinWays

----------------------------------------------------------------------------
(* Node threads *)

\* OSMMMap::insert: the record joins the shard writer's chunk, a full chunk
\* goes to the file.
insert(t, i) ==
    LET chunk == inbuf[t] \cup {i}
        full == Cardinality(chunk) >= ChunkRecords
    IN  /\ inbuf' = [inbuf EXCEPT ![t] = IF full THEN {} ELSE chunk]
        /\ shard' = [shard EXCEPT ![t] = IF full THEN @ \cup chunk ELSE @]

\* NavDB::insertNode: a row when a tag survives.
insertNode(t, i) ==
    LET buf == IF file[i].tagged THEN nodeBuf[t] \cup {i} ELSE nodeBuf[t]
        full == Cardinality(buf) >= NODE_BUFFER_SIZE
    IN  /\ nodeBuf' = [nodeBuf EXCEPT ![t] = IF full THEN {} ELSE buf]
        /\ nodes' = IF full THEN nodes \cup buf ELSE nodes

\* flushNodes
finalize_nodes(t) ==
    /\ nodes' = nodes \cup nodeBuf[t]
    /\ nodeBuf' = [nodeBuf EXCEPT ![t] = {}]

\* insert into the shard, insertNode for tagged nodes, flush when full.
HandleNode(t) ==
    LET i == Head(nodeQ[t])
    IN  /\ npc[t] = "loop" /\ nodeQ[t] # <<>>
        /\ nodeQ' = [nodeQ EXCEPT ![t] = Tail(@)]
        /\ insert(t, i)
        /\ insertNode(t, i)
        /\ UNCHANGED <<input, producer, nodeStop, wayQ, wayStop, npc, mergeNext, merged,
                       mergeDone, waySide>>

\* Mutant: arrives at the barrier with rows still buffered.
FinishNodesWithoutFlush(t) ==
    /\ npc[t] = "loop" /\ nodeQ[t] = <<>> /\ nodeStop
    /\ npc' = [npc EXCEPT ![t] = "barrier"]
    /\ UNCHANGED <<input, producer, queues, nodeBuf, inbuf, shard, mergeNext, merged, mergeDone,
                   nodes, waySide>>

\* pop() returned false: finalize_nodes, arrive at node_barrier.
FinishNodes(t) ==
    /\ npc[t] = "loop" /\ nodeQ[t] = <<>> /\ nodeStop
    /\ finalize_nodes(t)
    /\ npc' = [npc EXCEPT ![t] = "barrier"]
    /\ UNCHANGED <<input, producer, queues, inbuf, shard, mergeNext, merged, mergeDone, waySide>>

\* The completion of node_barrier: merge() closes one shard's writer, reads the
\* shard and deletes it ...
MergeShard ==
    /\ \A t \in NodeTids : npc[t] = "barrier"
    /\ mergeNext < NodeThreads
    /\ merged' = merged \cup shard[mergeNext] \cup inbuf[mergeNext]
    /\ inbuf' = [inbuf EXCEPT ![mergeNext] = {}]
    /\ shard' = [shard EXCEPT ![mergeNext] = {}]
    /\ mergeNext' = mergeNext + 1
    /\ UNCHANGED <<input, producer, queues, npc, nodeBuf, mergeDone, nodes, waySide>>

\* ... and sets merge_done after the last one.
FinishMerge ==
    /\ mergeNext = NodeThreads /\ ~mergeDone
    /\ mergeDone' = TRUE
    /\ UNCHANGED <<input, producer, queues, npc, nodeBuf, inbuf, shard, mergeNext, merged, nodes,
                   waySide>>

LeaveNodeBarrier(t) ==
    /\ npc[t] = "barrier" /\ mergeDone
    /\ npc' = [npc EXCEPT ![t] = "done"]
    /\ UNCHANGED <<input, producer, queues, nodeBuf, inbuf, shard, mergeNext, merged, mergeDone,
                   nodes, waySide>>

Merge == MergeShard \/ FinishMerge

NodeThread(t) == HandleNode(t) \/ FinishNodes(t) \/ LeaveNodeBarrier(t)

----------------------------------------------------------------------------
(* Way threads *)

PopWay(w) ==
    /\ wpc[w] = "pop" /\ wayQ # <<>>
    /\ hand' = [hand EXCEPT ![w] = Head(wayQ)]
    /\ wayQ' = Tail(wayQ)
    /\ wpc' = [wpc EXCEPT ![w] = "item"]
    /\ UNCHANGED <<input, producer, nodeQ, nodeStop, wayStop, nodeSide, phaseDone, arrived,
                   wayBuf, areaBuf, relBuf, ways, areas, relations, roads>>

HandOf(w, k) == wpc[w] = "item" /\ file[hand[w]].kind = k

\* The item is handled: finalize_roads has nothing left, pop the next one.
NextItem(w) ==
    /\ wpc' = [wpc EXCEPT ![w] = "pop"]
    /\ hand' = [hand EXCEPT ![w] = 0]

\* A node after the node phase is ignored.
IgnoreNode(w) ==
    /\ HandOf(w, "node")
    /\ NextItem(w)
    /\ UNCHANGED <<input, producer, queues, nodeSide, phaseDone, arrived, wayBuf, areaBuf,
                   relBuf, ways, areas, relations, roads>>

\* NavDB::insertWay and insertArea: nothing without a surviving tag; the one
\* flushes when its buffer is full, the other when it is over-full.
insertWay(w, row) ==
    LET buf == IF file[hand[w]].tagged THEN wayBuf[w] \cup {row} ELSE wayBuf[w]
        full == Cardinality(buf) >= way_buffer_size_[w]
    IN  /\ wayBuf' = [wayBuf EXCEPT ![w] = IF full THEN {} ELSE buf]
        /\ ways' = IF full THEN ways \cup buf ELSE ways

insertArea(w, row) ==
    LET buf == IF file[hand[w]].tagged THEN areaBuf[w] \cup {row} ELSE areaBuf[w]
        full == Cardinality(buf) > way_buffer_size_[w]
    IN  /\ areaBuf' = [areaBuf EXCEPT ![w] = IF full THEN {} ELSE buf]
        /\ areas' = IF full THEN areas \cup buf ELSE areas

\* Look the nodes up, build the geometry, insertWay or insertArea.
HandleWay(w) ==
    LET row == WayRow(hand[w], merged)
    IN  /\ HandOf(w, "way")
        /\ IF Len(row[2]) >= 2
           THEN IF isArea(row[1], row[2])
                THEN insertArea(w, row) /\ UNCHANGED <<wayBuf, ways>>
                ELSE insertWay(w, row) /\ UNCHANGED <<areaBuf, areas>>
           ELSE UNCHANGED <<wayBuf, areaBuf, ways, areas>>
        /\ NextItem(w)
        /\ UNCHANGED <<input, producer, queues, nodeSide, phaseDone, arrived, relBuf,
                       relations, roads>>

\* finalize_ways: way_buf_ and area_buf_ go to the tables.
finalize_ways(w) ==
    /\ ways' = ways \cup wayBuf[w]
    /\ areas' = areas \cup areaBuf[w]
    /\ wayBuf' = [wayBuf EXCEPT ![w] = {}]
    /\ areaBuf' = [areaBuf EXCEPT ![w] = {}]

\* The thread's first relation, or the end of the queue before one: flush and
\* arrive at way_barrier.
ArriveAtWayBarrier(w) ==
    /\ ~phaseDone[w]
    /\ \/ HandOf(w, "rel")
       \/ wpc[w] = "pop" /\ wayQ = <<>> /\ wayStop
    /\ finalize_ways(w)
    /\ arrived' = arrived \cup {w}
    /\ wpc' = [wpc EXCEPT ![w] = "barrier"]
    /\ UNCHANGED <<input, producer, queues, nodeSide, hand, phaseDone, relBuf, relations,
                   roads>>

\* Mutant: does not wait for the other threads.
LeaveWayBarrierEarly(w) ==
    /\ wpc[w] = "barrier"
    /\ phaseDone' = [phaseDone EXCEPT ![w] = hand[w] # 0]
    /\ wpc' = [wpc EXCEPT ![w] = IF hand[w] # 0 THEN "item" ELSE "final"]
    /\ UNCHANGED <<input, producer, queues, nodeSide, hand, arrived, wayBuf, areaBuf, relBuf,
                   ways, areas, relations, roads>>

LeaveWayBarrier(w) ==
    /\ wpc[w] = "barrier" /\ arrived = WayThreads
    /\ phaseDone' = [phaseDone EXCEPT ![w] = hand[w] # 0]
    /\ wpc' = [wpc EXCEPT ![w] = IF hand[w] # 0 THEN "item" ELSE "final"]
    /\ UNCHANGED <<input, producer, queues, nodeSide, hand, arrived, wayBuf, areaBuf, relBuf,
                   ways, areas, relations, roads>>

\* type=multipolygon or boundary: insertArea under the negative id.
HandlePolygon(w) ==
    LET row == PolygonRow(hand[w], ways, areas)
    IN  /\ HandOf(w, "rel") /\ phaseDone[w] /\ file[hand[w]].polygon
        /\ IF HasOuter(row) THEN insertArea(w, row) ELSE UNCHANGED <<areaBuf, areas>>
        /\ NextItem(w)
        /\ UNCHANGED <<input, producer, queues, nodeSide, phaseDone, arrived, wayBuf, relBuf,
                       ways, relations, roads>>

\* NavDB::insertRelation, with or without a geometry or a tag.
insertRelation(w, row) ==
    LET buf == relBuf[w] \cup {row}
        full == Cardinality(buf) > way_buffer_size_[w]
    IN  /\ relBuf' = [relBuf EXCEPT ![w] = IF full THEN {} ELSE buf]
        /\ relations' = IF full THEN relations \cup buf ELSE relations

\* flushRelations
finalize_relations(w) ==
    /\ relations' = relations \cup relBuf[w]
    /\ relBuf' = [relBuf EXCEPT ![w] = {}]

\* Other relations: insertRelation, insertRoad, and finalize_roads at once.
HandleRelation(w) ==
    LET row == RelationRow(hand[w], ways, areas)
    IN  /\ HandOf(w, "rel") /\ phaseDone[w] /\ ~file[hand[w]].polygon
        /\ insertRelation(w, row)
        /\ roads' = IF file[hand[w]].road /\ row[2] # <<>> THEN roads \cup {row} ELSE roads
        /\ NextItem(w)
        /\ UNCHANGED <<input, producer, queues, nodeSide, phaseDone, arrived, wayBuf, areaBuf,
                       ways, areas>>

\* Mutant: no flush in ~NavDB.
FinishWaysWithoutDestructor(w) ==
    /\ \/ wpc[w] = "final"
       \/ wpc[w] = "pop" /\ wayQ = <<>> /\ wayStop /\ phaseDone[w]
    /\ finalize_relations(w)
    /\ wpc' = [wpc EXCEPT ![w] = "done"]
    /\ UNCHANGED <<input, producer, queues, nodeSide, hand, phaseDone, arrived, wayBuf, areaBuf,
                   ways, areas, roads>>

\* End of the thread: finalize_relations, and ~NavDB flushes what is left.
FinishWays(w) ==
    /\ \/ wpc[w] = "final"
       \/ wpc[w] = "pop" /\ wayQ = <<>> /\ wayStop /\ phaseDone[w]
    /\ finalize_ways(w)
    /\ finalize_relations(w)
    /\ wpc' = [wpc EXCEPT ![w] = "done"]
    /\ UNCHANGED <<input, producer, queues, nodeSide, hand, phaseDone, arrived, roads>>

WayThread(w) ==
    \/ PopWay(w) \/ IgnoreNode(w) \/ HandleWay(w)
    \/ ArriveAtWayBarrier(w) \/ LeaveWayBarrier(w)
    \/ HandlePolygon(w) \/ HandleRelation(w) \/ FinishWays(w)

Terminated == ppc = "done" /\ UNCHANGED vars

Next ==
    \/ Producer
    \/ \E t \in NodeTids : NodeThread(t)
    \/ Merge
    \/ \E w \in WayThreads : WayThread(w)
    \/ Terminated

Spec == Init /\ [][Next]_vars

\* The operating system schedules every thread; a wait ends once its
\* condition holds, because pop, push and shutdown notify.
FairSpec ==
    /\ Spec
    /\ WF_vars(Producer) /\ WF_vars(Merge)
    /\ \A t \in NodeTids : WF_vars(NodeThread(t))
    /\ \A w \in WayThreads : WF_vars(WayThread(w))

----------------------------------------------------------------------------
(* Properties *)

\* Every variable has its type.
TypeOK ==
    /\ file \in Files /\ mode \in Modes
    /\ ppc \in {"read", "spin", "joinNodes", "joinWays", "done"}
    /\ pos \in 1..(Len(file) + 1) /\ nodePhase \in BOOLEAN /\ rr \in Nat
    /\ nodeOff \in {0} \cup Entries /\ relOff \in {0} \cup Entries
    /\ nodeQ \in [NodeTids -> Seq(OfKind("node"))] /\ nodeStop \in BOOLEAN
    /\ \A t \in NodeTids : Len(nodeQ[t]) <= QueueSize
    /\ wayQ \in Seq(Entries) /\ Len(wayQ) <= QueueSize /\ wayStop \in BOOLEAN
    /\ npc \in [NodeTids -> {"loop", "barrier", "done"}]
    /\ nodeBuf \in [NodeTids -> SUBSET RefNodes]
    /\ inbuf \in [NodeTids -> SUBSET OfKind("node")]
    /\ shard \in [NodeTids -> SUBSET OfKind("node")]
    /\ \A t \in NodeTids : Cardinality(inbuf[t]) < ChunkRecords
    /\ mergeNext \in 0..NodeThreads /\ merged \subseteq OfKind("node")
    /\ mergeDone \in BOOLEAN
    /\ wpc \in [WayThreads -> {"pop", "item", "barrier", "final", "done"}]
    /\ hand \in [WayThreads -> {0} \cup Entries]
    /\ phaseDone \in [WayThreads -> BOOLEAN] /\ arrived \subseteq WayThreads
    /\ nodes \subseteq RefNodes
    /\ \A w \in WayThreads :
          /\ wayBuf[w] \subseteq AllWayRows
          /\ Cardinality(wayBuf[w]) < way_buffer_size_[w]
          /\ Cardinality(areaBuf[w]) <= way_buffer_size_[w]
          /\ Cardinality(relBuf[w]) <= way_buffer_size_[w]

\* Way threads look positions up without a lock while node threads may still
\* write (main.cpp wayThread, osmmap.select): every row of a way, buffered or
\* stored, must be the one built from all nodes of the file.
WaysSeeAllNodes ==
    LET wayRows == ways \cup UNION {wayBuf[w] : w \in WayThreads}
        areaRows == {row \in areas \cup UNION {areaBuf[w] : w \in WayThreads} : row[1] > 0}
    IN  wayRows \subseteq RefWays /\ areaRows \subseteq RefAreas

\* A relation reads its members from the tables while other way threads may
\* hold them in a buffer (main.cpp way_barrier): every row made from a relation
\* must be the one built from all stored ways.
RelationsSeeAllWays ==
    /\ {row \in areas \cup UNION {areaBuf[w] : w \in WayThreads} : row[1] < 0}
           \subseteq RefPolygons
    /\ relations \cup UNION {relBuf[w] : w \in WayThreads} \subseteq RefRelations
    /\ roads \subseteq RefRoads

\* When every thread has been joined the tables hold all that a complete import
\* stores, from whatever phase it was resumed (main.cpp, "all threads done").
ImportComplete ==
    ppc = "done" =>
        /\ merged = OfKind("node") /\ nodes = RefNodes
        /\ ways = RefWays /\ areas = RefAreas \cup RefPolygons
        /\ relations = RefRelations /\ roads = RefRoads

\* Status::phase, set by advancePhase.
ReportedPhase ==
    IF \E w \in WayThreads : phaseDone[w] THEN "relations"
    ELSE IF mergeDone THEN "ways"
    ELSE IF \A t \in NodeTids : npc[t] = "barrier" THEN "merge"
    ELSE "nodes"

\* An import interrupted at any moment can be resumed at the phase it reported
\* (README "Resume support"): what the earlier phases promised is on disk.  The
\* shards, which the merge needs, are left to ShardsComplete.
ReportedPhaseResumable ==
    /\ ReportedPhase # "nodes" => nodes = RefNodes
    /\ ReportedPhase \in {"ways", "relations"} => merged = OfKind("node")
    /\ ReportedPhase = "relations" => ways = RefWays /\ RefAreas \subseteq areas

\* What the README says of -R merge, "nodes already written to shards": a process
\* that dies during the merge leaves every node in nodes.dat or in a shard file.
ShardsComplete ==
    ReportedPhase = "merge" =>
        merged \cup UNION {shard[t] : t \in NodeTids} = OfKind("node")

\* A recorded resume offset lies before every entity the resumed phases need
\* (nodes.dat.offset, nodes.dat.relations_offset).
OffsetsSkipNothing ==
    /\ nodeOff # 0 => \A i \in Entries \ OfKind("node") : i >= nodeOff
    /\ relOff # 0 => \A i \in OfKind("rel") : i >= relOff

\* The comment above buildMultipolygon: a relation with missing member
\* geometries is stored without a geometry rather than with a wrong one.
PolygonCompleteOrAbsent ==
    \A row \in areas : row[1] < 0 => row[2] = file[-row[1]].refs

\* The import ends: no thread waits forever at a queue, a barrier or a join.
Termination == <>(ppc = "done")
=============================================================================
