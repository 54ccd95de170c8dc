--------------------------- MODULE RegionalDelta ---------------------------
(***************************************************************************)
(* Region-aware diff application of gpsxdb (RegionalDeltaApplier and       *)
(* RegionalNodeMap): the database of an installed region follows the OSM   *)
(* diffs with the coordinates of three stores, the read-only map of the    *)
(* installation, overlay_ and pending_, of which the last two live in      *)
(* memory and pending_ only for one diff.                                  *)
(*                                                                         *)
(* Mappers edit the world; each diff is the sequence of their edits, and   *)
(* is applied change by change.  A handler is a step that computes the     *)
(* database calls it makes; each call is a transaction and a step of its   *)
(* own.  A crash loses overlay_ and pending_ and the diff is replayed.     *)
(*                                                                         *)
(* A geometry is the sequence of its positions; it lies in the region when *)
(* one of them does.  Ways and relations carry a surviving tag.            *)
(***************************************************************************)
EXTENDS Integers, Sequences, SequencesExt

CONSTANTS
    Nodes, Ways, Rels,
    Positions, Inside,   \* the positions, and those in an installed region
    None,
    Shapes,              \* the node sequences a way can have
    Members,             \* the member ways of each relation
    Worlds,              \* the states of OSM at installation time
    MaxEdits,            \* bound on the changes of a diff
    MaxDiffs,            \* bound on the diffs
    MaxCrashes           \* bound on crashes and restarts

RelKinds == {"route", "road"}

ASSUME RegionalAssumption ==
    /\ Inside \subseteq Positions /\ None \notin Positions /\ None \notin Seq(Positions)
    /\ Shapes \subseteq Seq(Nodes) /\ None \notin Shapes /\ None \notin RelKinds
    /\ Members \in [Rels -> Seq(Ways)]
    /\ MaxEdits \in Nat /\ MaxDiffs \in Nat /\ MaxCrashes \in Nat
    /\ Worlds \subseteq [pos : [Nodes -> Positions \cup {None}], tags : [Nodes -> BOOLEAN],
                         refs : [Ways -> Shapes \cup {None}], rels : [Rels -> RelKinds \cup {None}]]

VARIABLES
    world,     \* OSM: node positions and tags, way nodes, relations
    diff,      \* the changes of the current diff
    base,      \* node_map_: the installed coordinates
    overlay,   \* overlay_
    pending,   \* pending_
    rows,      \* the tables: <<table, id>> to a geometry
    todo,      \* the database calls the running handler has left
    pc,        \* edit, apply, setSequence
    at,        \* changes of the diff begun
    diffs, crashes

vars == <<world, diff, base, overlay, pending, rows, todo, pc, at, diffs, crashes>>

memory == <<overlay, pending>>

----------------------------------------------------------------------------
(* Geometries and tables *)

inRegion(geom) == \E k \in 1..Len(geom) : geom[k] \in Inside

Closed(geom) == Len(geom) >= 4 /\ geom[1] = geom[Len(geom)]

Vertices(shape) == {shape[k] : k \in 1..Len(shape)}

\* The known positions of the nodes of a shape, in order.
Locate(shape, pos) ==
    FlattenSeq([k \in 1..Len(shape) |->
                   IF pos[shape[k]] = None THEN <<>> ELSE <<pos[shape[k]]>>])

Stored(table, id) == <<table, id>> \in DOMAIN rows

\* A database call: put a row, or delete it when val is None.
Put(table, id, val) == [key |-> <<table, id>>, val |-> val]
deleteEntity(table, id) == Put(table, id, None)

Do(call, tables) ==
    [k \in (DOMAIN tables \ {call.key}) \cup (IF call.val = None THEN {} ELSE {call.key}) |->
        IF k = call.key THEN call.val ELSE tables[k]]

\* The way's geometry in a world, and the nodes a region's bundle contains:
\* those in the region and the vertices of its ways.
WorldGeom(wd, w) == IF wd.refs[w] = None THEN <<>> ELSE Locate(wd.refs[w], wd.pos)

Bundle(wd) ==
    {n \in Nodes : \/ wd.pos[n] \in Inside
                   \/ \E w \in Ways : /\ wd.refs[w] # None /\ n \in Vertices(wd.refs[w])
                                      /\ inRegion(WorldGeom(wd, w))}

\* The rows of a bundle (relations are edited only after the installation).
Export(wd) ==
    LET nodeKeys == {<<"nodes", n>> : n \in {m \in Nodes : wd.tags[m] /\ wd.pos[m] \in Inside}}
        local == {w \in Ways : inRegion(WorldGeom(wd, w))}
        wayKeys == {<<IF Closed(WorldGeom(wd, w)) THEN "areas" ELSE "ways", w>> : w \in local}
    IN  [k \in nodeKeys \cup wayKeys |->
            IF k[1] = "nodes" THEN <<wd.pos[k[2]]>> ELSE WorldGeom(wd, k[2])]

Nowhere == [n \in Nodes |-> None]

Init ==
    /\ world \in Worlds
    /\ base = [n \in Nodes |-> IF n \in Bundle(world) THEN world.pos[n] ELSE None]
    /\ rows = Export(world)
    /\ overlay = Nowhere /\ pending = Nowhere
    /\ diff = <<>> /\ todo = <<>> /\ pc = "edit" /\ at = 0
    /\ diffs = 0 /\ crashes = 0

----------------------------------------------------------------------------
(* OSM: the edits of a diff *)

Change(op, id, val, tagged) == [op |-> op, id |-> id, val |-> val, tagged |-> tagged]

Edit(change) ==
    /\ pc = "edit" /\ diffs < MaxDiffs /\ Len(diff) < MaxEdits
    /\ diff' = Append(diff, change)
    /\ UNCHANGED <<base, memory, rows, todo, pc, at, diffs, crashes>>

\* A node is created, or moved, or its tags change.
EditNode ==
    \E n \in Nodes, p \in Positions, t \in BOOLEAN :
        /\ world' = [world EXCEPT !.pos[n] = p, !.tags[n] = t]
        /\ Edit(Change(IF world.pos[n] = None THEN "createNode" ELSE "modifyNode", n, p, t))

\* Only a node without a way can be deleted.
RemoveNode ==
    \E n \in Nodes :
        /\ world.pos[n] # None
        /\ \A w \in Ways : world.refs[w] # None => n \notin Vertices(world.refs[w])
        /\ world' = [world EXCEPT !.pos[n] = None, !.tags[n] = FALSE]
        /\ Edit(Change("deleteNode", n, None, FALSE))

EditWay ==
    \E w \in Ways, s \in Shapes :
        /\ \A n \in Vertices(s) : world.pos[n] # None
        /\ world' = [world EXCEPT !.refs[w] = s]
        /\ Edit(Change("upsertWay", w, s, TRUE))

\* Only a way without a relation can be deleted.
RemoveWay ==
    \E w \in Ways :
        /\ world.refs[w] # None
        /\ \A r \in Rels : world.rels[r] # None => w \notin Vertices(Members[r])
        /\ world' = [world EXCEPT !.refs[w] = None]
        /\ Edit(Change("deleteWay", w, None, FALSE))

EditRelation ==
    \E r \in Rels, k \in RelKinds :
        /\ \A w \in Vertices(Members[r]) : world.refs[w] # None
        /\ world' = [world EXCEPT !.rels[r] = k]
        /\ Edit(Change("upsertRelation", r, k, TRUE))

RemoveRelation ==
    \E r \in Rels :
        /\ world.rels[r] # None
        /\ world' = [world EXCEPT !.rels[r] = None]
        /\ Edit(Change("deleteRelation", r, None, FALSE))

\* The diff appears on the server and poll() downloads it.
Publish ==
    /\ pc = "edit" /\ diff # <<>>
    /\ pc' = "apply"
    /\ UNCHANGED <<world, diff, base, memory, rows, todo, at, diffs, crashes>>

----------------------------------------------------------------------------
(* RegionalDeltaApplier *)

resolve(n) ==
    IF base[n] # None THEN base[n]
    ELSE IF overlay[n] # None THEN overlay[n] ELSE pending[n]

buildWayGeom(shape) == Locate(shape, [n \in Nodes |-> resolve(n)])

\* The nodes a geometry took from pending_.
last_pending_hits(shape) ==
    {n \in Vertices(shape) : base[n] = None /\ overlay[n] = None /\ pending[n] # None}

\* getWay: the geometry of a stored way, ways before areas.
getWay(w) ==
    IF Stored("ways", w) THEN rows[<<"ways", w>>]
    ELSE IF Stored("areas", w) THEN rows[<<"areas", w>>] ELSE <<>>

\* buildRelationGeom: the member lines, one after the other.  getWay answers a
\* failed query as it answers an unknown way: found are the ways that were read.
buildRelationGeom(r, found) ==
    LET line(w) == IF w \in found /\ ~Closed(getWay(w)) THEN getWay(w) ELSE <<>>
    IN  FlattenSeq([k \in 1..Len(Members[r]) |-> line(Members[r][k])])

\* The handler of the next change runs and leaves the given database calls.
Handle(op) ==
    /\ pc = "apply" /\ todo = <<>> /\ at < Len(diff) /\ diff[at + 1].op = op
    /\ at' = at + 1
    /\ UNCHANGED <<world, diff, base, rows, pc, diffs, crashes>>

This == diff[at + 1]

\* updateNode deletes the row of a node without a surviving tag; createNode calls
\* it for excluded tags too, and returns early only for a node without tags.
updateNode(n, pos, tagged) == Put("nodes", n, IF tagged THEN <<pos>> ELSE None)

createNode ==
    /\ Handle("createNode")
    /\ pending' = [pending EXCEPT ![This.id] = This.val]
    /\ \/ /\ ~This.tagged \/ This.val \notin Inside
          /\ todo' = <<>>
       \/ /\ This.val \in Inside
          /\ todo' = <<updateNode(This.id, This.val, This.tagged)>>
    /\ UNCHANGED overlay

\* Mutant: modifyNode forgets the row of a node that left the region.
modifyNodeKeepsRow ==
    /\ Handle("modifyNode")
    /\ pending' = [pending EXCEPT ![This.id] = This.val]
    /\ todo' = IF This.val \in Inside
                 THEN <<updateNode(This.id, This.val, This.tagged)>> ELSE <<>>
    /\ UNCHANGED overlay

modifyNode ==
    /\ Handle("modifyNode")
    /\ pending' = [pending EXCEPT ![This.id] = This.val]
    /\ todo' = IF This.val \in Inside
                 THEN <<updateNode(This.id, This.val, This.tagged)>>
                 ELSE <<deleteEntity("nodes", This.id)>>
    /\ UNCHANGED overlay

\* Mutant: a promoted node outlives its deletion.
deleteNodeKeepsOverlay ==
    /\ Handle("deleteNode")
    /\ pending' = [pending EXCEPT ![This.id] = None]
    /\ todo' = <<deleteEntity("nodes", This.id)>>
    /\ UNCHANGED overlay

deleteNode ==
    /\ Handle("deleteNode")
    /\ pending' = [pending EXCEPT ![This.id] = None]
    /\ overlay' = [overlay EXCEPT ![This.id] = None]
    /\ todo' = <<deleteEntity("nodes", This.id)>>

\* Mutant: the nodes leave pending_ and do not reach overlay_.
PromoteDiscards(hits) ==
    /\ pending' = [n \in Nodes |-> IF n \in hits THEN None ELSE pending[n]]
    /\ UNCHANGED overlay

\* The promotion of the nodes an in-region way took from pending_.
Promote(hits) ==
    /\ overlay' = [n \in Nodes |-> IF n \in hits THEN pending[n] ELSE overlay[n]]
    /\ pending' = [n \in Nodes |-> IF n \in hits THEN None ELSE pending[n]]

\* Mutant: the new row is written before the old one is deleted.
upsertWayWritesFirst ==
    LET w == This.id
        geom == buildWayGeom(This.val)
    IN  /\ Handle("upsertWay")
        /\ todo' = IF Len(geom) < 2 THEN <<>>
                   ELSE IF ~inRegion(geom)
                     THEN <<deleteEntity("ways", w), deleteEntity("areas", w)>>
                   ELSE IF Closed(geom)
                     THEN <<Put("areas", w, geom), deleteEntity("ways", w)>>
                     ELSE <<Put("ways", w, geom), deleteEntity("areas", w)>>
        /\ Promote(IF Len(geom) >= 2 /\ inRegion(geom) THEN last_pending_hits(This.val) ELSE {})

upsertWay ==
    LET w == This.id
        geom == buildWayGeom(This.val)
    IN  /\ Handle("upsertWay")
        /\ todo' = IF Len(geom) < 2 THEN <<>>
                   ELSE IF ~inRegion(geom)
                     THEN <<deleteEntity("ways", w), deleteEntity("areas", w)>>
                   ELSE IF Closed(geom)
                     THEN <<deleteEntity("ways", w), Put("areas", w, geom)>>
                     ELSE <<deleteEntity("areas", w), Put("ways", w, geom)>>
        /\ Promote(IF Len(geom) >= 2 /\ inRegion(geom) THEN last_pending_hits(This.val) ELSE {})

\* Mutant: only the line is deleted.
deleteWayKeepsArea ==
    /\ Handle("deleteWay")
    /\ todo' = <<deleteEntity("ways", This.id)>>
    /\ UNCHANGED memory

deleteWay ==
    /\ Handle("deleteWay")
    /\ todo' = <<deleteEntity("ways", This.id), deleteEntity("areas", This.id)>>
    /\ UNCHANGED memory

upsertRelation ==
    LET r == This.id
    IN  /\ Handle("upsertRelation")
        /\ \E found \in SUBSET Vertices(Members[r]) :
              LET geom == buildRelationGeom(r, found)
              IN  todo' = IF ~inRegion(geom)
                            THEN <<deleteEntity("relations", r), deleteEntity("roads", r)>>
                          ELSE <<Put("relations", r, geom),
                                 Put("roads", r, IF This.val = "road" THEN geom ELSE None)>>
        /\ UNCHANGED memory

deleteRelation ==
    /\ Handle("deleteRelation")
    /\ todo' = <<deleteEntity("relations", This.id), deleteEntity("roads", This.id)>>
    /\ UNCHANGED memory

\* Mutant: a delete leaves a row without a geometry.
CommitWritesNone ==
    /\ todo # <<>>
    /\ rows' = [k \in DOMAIN rows \cup {Head(todo).key} |->
                  IF k = Head(todo).key THEN Head(todo).val ELSE rows[k]]
    /\ todo' = Tail(todo)
    /\ UNCHANGED <<world, diff, base, memory, pc, at, diffs, crashes>>

\* One database call of the handler commits.
Commit ==
    /\ todo # <<>>
    /\ rows' = Do(Head(todo), rows)
    /\ todo' = Tail(todo)
    /\ UNCHANGED <<world, diff, base, memory, pc, at, diffs, crashes>>

\* flush: the end of the diff.
flush ==
    /\ pc = "apply" /\ todo = <<>> /\ at = Len(diff)
    /\ pending' = Nowhere
    /\ pc' = "setSequence"
    /\ UNCHANGED <<world, diff, base, overlay, rows, todo, at, diffs, crashes>>

\* The sequence is stored: the diff will not be applied again.
setSequence ==
    /\ pc = "setSequence"
    /\ diff' = <<>> /\ at' = 0 /\ pc' = "edit"
    /\ diffs' = diffs + 1
    /\ UNCHANGED <<world, base, memory, rows, todo, crashes>>

\* The process ends, at any point, and is restarted; the diff begins again.
Restart ==
    /\ crashes < MaxCrashes
    /\ crashes' = crashes + 1
    /\ overlay' = Nowhere /\ pending' = Nowhere
    /\ todo' = <<>> /\ at' = 0
    /\ pc' = IF pc = "edit" THEN "edit" ELSE "apply"
    /\ UNCHANGED <<world, diff, base, rows, diffs>>

Mappers ==
    \/ EditNode \/ RemoveNode \/ EditWay \/ RemoveWay \/ EditRelation \/ RemoveRelation

apply ==
    \/ createNode \/ modifyNode \/ deleteNode \/ upsertWay \/ deleteWay
    \/ upsertRelation \/ deleteRelation

Next == Mappers \/ Publish \/ apply \/ Commit \/ flush \/ setSequence \/ Restart

Spec == Init /\ [][Next]_vars

----------------------------------------------------------------------------
(* Properties *)

Tables == {"nodes", "ways", "areas", "relations", "roads"}
Places == [Nodes -> Positions \cup {None}]

\* Every variable has its type.
TypeOK ==
    /\ base \in Places /\ overlay \in Places /\ pending \in Places
    /\ \A k \in DOMAIN rows : k[1] \in Tables /\ rows[k] \in Seq(Positions)
    /\ Len(todo) <= 2
    /\ pc \in {"edit", "apply", "setSequence"}
    /\ at \in 0..Len(diff) /\ Len(diff) <= MaxEdits
    /\ diffs \in 0..MaxDiffs /\ crashes \in 0..MaxCrashes

\* A diff has just been applied.
Applied == pc = "setSequence" \/ (pc = "edit" /\ diff = <<>>)

\* After every diff, whatever crashed and was replayed in it, the nodes table has
\* exactly the tagged nodes of the region, each at its current position.
NodeRowsExact ==
    Applied => \A n \in Nodes :
        IF world.tags[n] /\ world.pos[n] \in Inside
          THEN Stored("nodes", n) /\ rows[<<"nodes", n>>] = <<world.pos[n]>>
          ELSE ~Stored("nodes", n)

\* A way that changes between line and polygon, or loses vertices, while the
\* process may die between the handler's two transactions, is never in both
\* ways and areas.
WayInOneTable == \A w \in Ways : ~(Stored("ways", w) /\ Stored("areas", w))

\* After every diff, what OSM no longer has is in no table, and a road is one of
\* the relations, with the same geometry.
NoGhostRows ==
    Applied =>
        /\ \A w \in Ways : Stored("ways", w) \/ Stored("areas", w) => world.refs[w] # None
        /\ \A r \in Rels :
              /\ Stored("relations", r) => world.rels[r] # None
              /\ Stored("roads", r) =>
                    /\ world.rels[r] = "road" /\ Stored("relations", r)
                    /\ rows[<<"roads", r>>] = rows[<<"relations", r>>]

\* The changes of node n in the part of the diff that has been applied.
NodeChanges(n) ==
    {k \in 1..at : diff[k].id = n /\ diff[k].op \in {"createNode", "modifyNode", "deleteNode"}}

LastPosition(n) == diff[CHOOSE k \in NodeChanges(n) : \A j \in NodeChanges(n) : j <= k].val

\* A node that the diff has created or changed can be located by every later way
\* of the diff, also after it was promoted, and after a crash and a replay.
NewVertexResolves ==
    pc = "apply" => \A n \in Nodes :
        NodeChanges(n) # {} /\ LastPosition(n) # None => resolve(n) # None

\* Memory is kept only for what the region needs: overlay_ never holds a node
\* that the installed map has, and after a diff it holds no deleted node and no
\* second copy of a node is left in pending_.
OverlayIsNeeded ==
    \A n \in Nodes : overlay[n] # None =>
        /\ base[n] = None
        /\ Applied => world.pos[n] # None /\ pending[n] = None

\* The comment in createNode: nodes are buffered, as DeltaApplier's update of
\* nodes.dat, so that a way later in the diff can resolve them immediately.
SameDiffPositionUsed ==
    pc = "apply" => \A n \in Nodes :
        NodeChanges(n) # {} /\ LastPosition(n) # None => resolve(n) = LastPosition(n)
=============================================================================
