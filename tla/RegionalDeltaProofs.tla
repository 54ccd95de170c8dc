------------------------ MODULE RegionalDeltaProofs ------------------------
(***************************************************************************)
(* Proofs about the region-aware diff application: for every set of nodes, *)
(* ways and relations, every region, every installed world, diffs of any   *)
(* length and any number of crashes and replays.                           *)
(***************************************************************************)
EXTENDS RegionalDelta, InductionLemmas, TLAPS

----------------------------------------------------------------------------
(* The inductive invariant *)

NodeOps == {"createNode", "modifyNode", "deleteNode"}
WayOps == {"upsertWay", "deleteWay"}
RelOps == {"upsertRelation", "deleteRelation"}

World == [pos : Places, tags : [Nodes -> BOOLEAN], refs : [Ways -> Shapes \cup {None}],
          rels : [Rels -> RelKinds \cup {None}]]

Changes ==
    [op : {"createNode", "modifyNode"}, id : Nodes, val : Positions, tagged : BOOLEAN]
    \cup [op : {"deleteNode"}, id : Nodes, val : {None}, tagged : {FALSE}]
    \cup [op : {"upsertWay"}, id : Ways, val : Shapes, tagged : {TRUE}]
    \cup [op : {"deleteWay"}, id : Ways, val : {None}, tagged : {FALSE}]
    \cup [op : {"upsertRelation"}, id : Rels, val : RelKinds, tagged : {TRUE}]
    \cup [op : {"deleteRelation"}, id : Rels, val : {None}, tagged : {FALSE}]

Geoms == Seq(Positions)

Types ==
    /\ world \in World /\ diff \in Seq(Changes)
    /\ base \in Places /\ overlay \in Places /\ pending \in Places
    /\ \A k \in DOMAIN rows : k[1] \in Tables /\ rows[k] \in Geoms
    /\ pc \in {"edit", "apply", "setSequence"}
    /\ at \in 0..Len(diff) /\ Len(diff) <= MaxEdits
    /\ diffs \in 0..MaxDiffs /\ crashes \in 0..MaxCrashes

\* A diff is open from its first edit to the sequence; pending_ is for one diff.
Stages ==
    /\ pc = "edit" => at = 0 /\ todo = <<>>
    /\ pc = "setSequence" => at = Len(diff) /\ todo = <<>>
    /\ pc # "edit" => diff # <<>>
    /\ diff # <<>> => diffs < MaxDiffs
    /\ pc # "apply" => pending = Nowhere

\* What the calls of a way, or of a relation, write at last.
WayCalls(w, t, u, v) ==
    \/ todo = <<deleteEntity(t, w), Put(u, w, v)>>
    \/ todo = <<Put(u, w, v)>> /\ ~Stored(t, w)

RelCalls(r, v, road) ==
    \/ todo = <<Put("relations", r, v), Put("roads", r, road)>>
    \/ /\ todo = <<Put("roads", r, road)>>
       /\ Stored("relations", r) <=> v # None
       /\ v # None => rows[<<"relations", r>>] = v

\* The calls left are the last ones of the handler of the change begun last.
Calls ==
    todo # <<>> =>
        LET c == diff[at]
        IN  /\ pc = "apply" /\ at > 0
            /\ c.op \in NodeOps =>
                  todo = <<Put("nodes", c.id, IF c.tagged /\ c.val \in Inside THEN <<c.val>> ELSE None)>>
            /\ c.op \in WayOps =>
                  \E t \in {"ways", "areas"}, u \in {"ways", "areas"}, v \in Geoms \cup {None} :
                      /\ t # u /\ WayCalls(c.id, t, u, v)
                      /\ c.op = "deleteWay" => v = None
            /\ c.op \in RelOps =>
                  \E v \in Geoms \cup {None} :
                      /\ RelCalls(c.id, v, IF c.val = "road" THEN v ELSE None)
                      /\ c.op = "deleteRelation" => v = None

\* Change k of the diff is about the entity, and the last one about it ...
Of(k, ops, id) == diff[k].op \in ops /\ diff[k].id = id
LastOf(k, ops, id) == Of(k, ops, id) /\ \A j \in (k + 1)..Len(diff) : ~Of(j, ops, id)

\* ... or the last one begun.
LastDone(k, n) == Of(k, NodeOps, n) /\ \A j \in (k + 1)..at : ~Of(j, NodeOps, n)

\* Every change of the entity has been handled, and its calls have committed.
Settled(ops, id) ==
    \A k \in 1..Len(diff) : Of(k, ops, id) => k < at \/ (k = at /\ todo = <<>>)

\* The last change of an entity leaves it as it is in the world; a node is
\* created after its deletion or as the first change of it.
LastIsWorld ==
    \A k \in 1..Len(diff) :
        /\ \A n \in Nodes : LastOf(k, NodeOps, n) =>
              diff[k].val = world.pos[n] /\ diff[k].tagged = world.tags[n]
        /\ \A w \in Ways : LastOf(k, WayOps, w) => diff[k].val = world.refs[w]
        /\ \A r \in Rels : LastOf(k, RelOps, r) => diff[k].val = world.rels[r]

CreatedAnew ==
    \A k \in 1..Len(diff), j \in 1..Len(diff), n \in Nodes :
        /\ j < k /\ Of(k, {"createNode"}, n) /\ Of(j, NodeOps, n)
        /\ \A i \in (j + 1)..(k - 1) : ~Of(i, NodeOps, n)
        => diff[j].op = "deleteNode"

\* The rows of settled entities are right ...
NodeRow(n) ==
    IF world.tags[n] /\ world.pos[n] \in Inside
      THEN Stored("nodes", n) /\ rows[<<"nodes", n>>] = <<world.pos[n]>>
      ELSE ~Stored("nodes", n)
NodeRows == \A n \in Nodes : Settled(NodeOps, n) => NodeRow(n)

WayRows ==
    \A w \in Ways :
        /\ ~(Stored("ways", w) /\ Stored("areas", w))
        /\ Settled(WayOps, w) /\ (Stored("ways", w) \/ Stored("areas", w)) => world.refs[w] # None

RelRow(r) ==
    /\ Stored("relations", r) => world.rels[r] # None
    /\ Stored("roads", r) =>
          /\ world.rels[r] = "road" /\ Stored("relations", r)
          /\ rows[<<"roads", r>>] = rows[<<"relations", r>>]
RelRows == \A r \in Rels : Settled(RelOps, r) => RelRow(r)

\* ... a deleted node has none ...
DeletedRows ==
    \A n \in Nodes, k \in 1..at :
        LastDone(k, n) /\ diff[k].op = "deleteNode" /\ (k = at => todo = <<>>) => ~Stored("nodes", n)

\* ... and neither has one that the diff does nothing with but create it
\* without a tag or outside, for which createNode makes no call.
Silent(n) ==
    /\ \E k \in 1..Len(diff) : Of(k, NodeOps, n)
    /\ \A k \in 1..Len(diff) : Of(k, NodeOps, n) =>
          diff[k].op = "createNode" /\ ~(diff[k].tagged /\ diff[k].val \in Inside)
SilentRows == \A n \in Nodes : Silent(n) => ~Stored("nodes", n)

\* A node the diff has placed can be located; pending_ has only such nodes, and
\* overlay_ none that the installation has or that is gone.
Located ==
    pc = "apply" => \A n \in Nodes, k \in 1..at :
        LastDone(k, n) /\ diff[k].val # None => resolve(n) # None
PendingIsNew ==
    \A n \in Nodes : pending[n] # None => \E k \in 1..at : LastDone(k, n) /\ diff[k].val # None
OverlayIsCurrent ==
    \A n \in Nodes : overlay[n] # None =>
        /\ base[n] = None
        /\ (\A k \in (at + 1)..Len(diff) : ~Of(k, NodeOps, n)) => world.pos[n] # None

RInv ==
    /\ Types /\ Stages /\ Calls /\ LastIsWorld /\ CreatedAnew
    /\ NodeRows /\ WayRows /\ RelRows /\ DeletedRows /\ SilentRows
    /\ Located /\ PendingIsNew /\ OverlayIsCurrent

----------------------------------------------------------------------------
(* Changes and geometries *)

\* What a change of a diff can be.
LEMMA ChangeFacts ==
    ASSUME NEW c \in Changes
    PROVE  /\ c.op \in NodeOps \/ c.op \in WayOps \/ c.op \in RelOps
           /\ c.op \in NodeOps =>
                 /\ c.id \in Nodes /\ c.val \in Positions \cup {None} /\ c.tagged \in BOOLEAN
                 /\ c.val = None <=> c.op = "deleteNode"
           /\ c.op \in WayOps =>
                 /\ c.id \in Ways /\ c.val \in Shapes \cup {None}
                 /\ c.val = None <=> c.op = "deleteWay"
           /\ c.op \in RelOps =>
                 /\ c.id \in Rels /\ c.val \in RelKinds \cup {None}
                 /\ c.val = None <=> c.op = "deleteRelation"
  BY RegionalAssumption DEF Changes, NodeOps, WayOps, RelOps

\* The applied part of the diff, and its changes.
LEMMA DiffFacts ==
    ASSUME Types
    PROVE  /\ Len(diff) \in Nat /\ at \in Nat /\ at <= Len(diff)
           /\ \A k \in 1..Len(diff) : diff[k] \in Changes
  BY DEF Types

\* Every geometry is a sequence of positions.
LEMMA LocateType ==
    ASSUME NEW shape \in Seq(Nodes), NEW pos \in Places
    PROVE  Locate(shape, pos) \in Geoms
  <1> DEFINE parts == [k \in 1..Len(shape) |->
                          IF pos[shape[k]] = None THEN <<>> ELSE <<pos[shape[k]]>>]
  <1>1. ASSUME NEW k \in 1..Len(shape)
        PROVE  (IF pos[shape[k]] = None THEN <<>> ELSE <<pos[shape[k]]>>) \in Seq(Positions)
    <2>1. pos[shape[k]] \in Positions \cup {None}
          BY DEF Places
    <2> QED
        BY <2>1
  <1>2. parts \in Seq(Seq(Positions))
        BY <1>1
  <1> QED
      BY <1>2, FlattenType DEF Locate, Geoms

\* The shape of a way is a sequence of nodes.
LEMMA ShapeType == ASSUME NEW s \in Shapes PROVE s \in Seq(Nodes)
  BY RegionalAssumption

\* The geometry of a way in the world; a deleted way has none.
LEMMA WorldGeomType ==
    ASSUME NEW wd \in World, NEW w \in Ways
    PROVE  WorldGeom(wd, w) \in Geoms /\ (wd.refs[w] = None => WorldGeom(wd, w) = <<>>)
  <1>1. wd.pos \in Places /\ wd.refs[w] \in Shapes \cup {None}
        BY DEF World
  <1>2. <<>> \in Geoms
        BY DEF Geoms
  <1>3. wd.refs[w] # None => Locate(wd.refs[w], wd.pos) \in Geoms
        BY <1>1, ShapeType, LocateType
  <1> QED
      BY <1>2, <1>3 DEF WorldGeom

\* buildWayGeom makes a geometry from what resolve finds.
LEMMA WayGeomType ==
    ASSUME Types, NEW s \in Shapes
    PROVE  buildWayGeom(s) \in Geoms
  <1>1. [n \in Nodes |-> resolve(n)] \in Places
        BY DEF Types, Places, resolve
  <1> QED
      BY <1>1, ShapeType, LocateType DEF buildWayGeom

\* buildRelationGeom makes a geometry, whichever members were read.
LEMMA RelationGeomType ==
    ASSUME Types, NEW r \in Rels, NEW found
    PROVE  buildRelationGeom(r, found) \in Geoms
  <1> DEFINE line(w) == IF w \in found /\ ~Closed(getWay(w)) THEN getWay(w) ELSE <<>>
             lines == [k \in 1..Len(Members[r]) |-> line(Members[r][k])]
  <1>1. ASSUME NEW w PROVE line(w) \in Seq(Positions)
    <2>1. getWay(w) \in Seq(Positions)
          BY DEF getWay, Stored, Types, Geoms
    <2> QED
        BY <2>1
  <1>2. Members[r] \in Seq(Ways)
        BY RegionalAssumption
  <1> HIDE DEF line
  <1>3. lines \in Seq(Seq(Positions))
        BY <1>1, <1>2
  <1>4. buildRelationGeom(r, found) = FlattenSeq(lines)
        BY Zenon DEF buildRelationGeom, line
  <1> QED
      BY <1>3, <1>4, FlattenType DEF Geoms

\* None is no geometry.
LEMMA NoneIsNoGeom == None \notin Geoms /\ None \notin Positions /\ None \notin Inside
  BY RegionalAssumption DEF Geoms

\* What a database call does.
LEMMA DoFacts ==
    ASSUME NEW call, rows' = Do(call, rows)
    PROVE  /\ \A t, id : Stored(t, id)' <=>
                 IF <<t, id>> = call.key THEN call.val # None ELSE Stored(t, id)
           /\ call.val # None => rows'[call.key] = call.val
           /\ \A k \in DOMAIN rows : k # call.key => rows'[k] = rows[k]
           /\ \A k \in DOMAIN rows' : k = call.key \/ k \in DOMAIN rows
  BY DEF Do, Stored

----------------------------------------------------------------------------
(* Edits *)

\* An edit adds one change to the diff and makes the same one in the world.
Follows(c) ==
    /\ world' \in World
    /\ \A n \in Nodes :
          /\ world'.pos[n] = IF c.op \in NodeOps /\ c.id = n THEN c.val ELSE world.pos[n]
          /\ world'.tags[n] = IF c.op \in NodeOps /\ c.id = n THEN c.tagged ELSE world.tags[n]
    /\ \A w \in Ways : world'.refs[w] = IF c.op \in WayOps /\ c.id = w THEN c.val ELSE world.refs[w]
    /\ \A r \in Rels : world'.rels[r] = IF c.op \in RelOps /\ c.id = r THEN c.val ELSE world.rels[r]
    /\ c.op = "createNode" => world.pos[c.id] = None

\* An edit that follows from the world keeps the invariant: no row and no
\* memory changes, and the edited entity is no longer settled.
LEMMA EditKeeps ==
    ASSUME RInv, NEW c \in Changes, Edit(c), Follows(c)
    PROVE  RInv'
  <1> USE DEF RInv
  <1>0. PICK m : m = Len(diff) + 1
        OBVIOUS
  <1>1. /\ UNCHANGED <<base, overlay, pending, rows, todo, pc, at, diffs, crashes>>
        /\ pc = "edit" /\ diffs < MaxDiffs /\ Len(diff) < MaxEdits
        /\ at = 0 /\ todo = <<>> /\ pending = Nowhere
        BY DEF Edit, memory, Stages
  <1>2. /\ Len(diff) \in Nat /\ Len(diff') = m /\ diff'[m] = c /\ diff' \in Seq(Changes)
        /\ \A k \in 1..Len(diff) : diff'[k] = diff[k]
        BY <1>0 DEF Edit, Types
  <1>3. m \in Nat /\ m \notin 1..Len(diff) /\ 1..Len(diff') = 1..Len(diff) \cup {m}
        BY <1>0, <1>2
  <1>4. ASSUME NEW ops, NEW id
        PROVE  /\ \A k \in 1..Len(diff) : Of(k, ops, id)' <=> Of(k, ops, id)
               /\ Of(m, ops, id)' <=> c.op \in ops /\ c.id = id
        BY <1>2 DEF Of
  <1>5. ASSUME NEW ops, NEW id, Settled(ops, id)'
        PROVE  Settled(ops, id) /\ ~(c.op \in ops /\ c.id = id)
    <2>1. \A k \in 1..Len(diff') : ~Of(k, ops, id)'
          BY <1>1, <1>5 DEF Settled
    <2> QED
        BY <1>3, <1>4, <2>1 DEF Settled
  <1>6. ASSUME NEW ops, NEW id, NEW k \in 1..Len(diff), LastOf(k, ops, id)'
        PROVE  LastOf(k, ops, id) /\ ~(c.op \in ops /\ c.id = id)
    <2>1. Of(k, ops, id)' /\ \A j \in (k + 1)..Len(diff') : ~Of(j, ops, id)'
          BY <1>6 DEF LastOf
    <2>2. m \in (k + 1)..Len(diff') /\ \A j \in (k + 1)..Len(diff) : j \in (k + 1)..Len(diff') /\ j \in 1..Len(diff)
          BY <1>0, <1>2, <1>6
    <2> QED
        BY <1>4, <1>6, <2>1, <2>2 DEF LastOf
  <1>7. Types'
    <2>1. MaxEdits \in Nat
          BY RegionalAssumption
    <2>2. Len(diff') <= MaxEdits /\ at' \in 0..Len(diff')
          BY <1>0, <1>1, <1>2, <2>1
    <2>3. world' \in World
          BY DEF Follows
    <2> QED
        BY <1>1, <1>2, <2>2, <2>3 DEF Types
  <1>8. Stages' /\ Calls'
        BY <1>0, <1>1, <1>2 DEF Stages, Calls
  <1>9. LastIsWorld'
    <2>1. ASSUME NEW k \in 1..Len(diff) PROVE LastIsWorld!(k)'
      <3>1. LastIsWorld!(k) /\ diff'[k] = diff[k]
            BY <1>2, <2>1 DEF LastIsWorld
      <3>2. ASSUME NEW n \in Nodes, LastOf(k, NodeOps, n)'
            PROVE  diff'[k].val = world'.pos[n] /\ diff'[k].tagged = world'.tags[n]
            BY <1>6, <3>1, <3>2 DEF Follows
      <3>3. ASSUME NEW w \in Ways, LastOf(k, WayOps, w)' PROVE diff'[k].val = world'.refs[w]
            BY <1>6, <3>1, <3>3 DEF Follows
      <3>4. ASSUME NEW r \in Rels, LastOf(k, RelOps, r)' PROVE diff'[k].val = world'.rels[r]
            BY <1>6, <3>1, <3>4 DEF Follows
      <3> QED
          BY <3>2, <3>3, <3>4
    <2>2. LastIsWorld!(m)'
      <3>1. \A ops, id : LastOf(m, ops, id)' => c.op \in ops /\ c.id = id
            BY <1>4 DEF LastOf
      <3> QED
          BY <1>2, <3>1 DEF Follows
    <2> QED
        BY <1>3, <2>1, <2>2 DEF LastIsWorld
  <1>10. CreatedAnew'
    <2> SUFFICES ASSUME NEW k \in 1..Len(diff'), NEW j \in 1..Len(diff'), NEW n \in Nodes,
                        j < k, Of(k, {"createNode"}, n)', Of(j, NodeOps, n)',
                        \A i \in (j + 1)..(k - 1) : ~Of(i, NodeOps, n)'
                 PROVE  diff'[j].op = "deleteNode"
        BY Zenon DEF CreatedAnew
    <2>0. j \in 1..Len(diff)
          BY <1>0, <1>2
    <2>1. j \in 1..Len(diff) /\ Of(j, NodeOps, n) /\ diff'[j] = diff[j]
          BY <1>2, <1>4, <2>0
    <2>2. CASE k \in 1..Len(diff)
      <3>1. Of(k, {"createNode"}, n)
            BY <1>4, <2>2
      <3>2. \A i \in (j + 1)..(k - 1) : i \in 1..Len(diff)
            BY <2>1, <2>2
      <3>3. \A i \in (j + 1)..(k - 1) : ~Of(i, NodeOps, n)
            BY <1>4, <3>2
      <3> QED
          BY <2>1, <2>2, <3>1, <3>3 DEF CreatedAnew
    <2>3. CASE k = m
      <3>1. c.op = "createNode" /\ c.id = n
            BY <1>4, <2>3
      <3>2. \A i \in (j + 1)..Len(diff) : i \in (j + 1)..(k - 1) /\ i \in 1..Len(diff)
            BY <1>0, <1>2, <2>1, <2>3
      <3>3. LastOf(j, NodeOps, n)
            BY <1>4, <2>1, <3>2 DEF LastOf
      <3>4. diff[j].val = None
            BY <2>1, <3>1, <3>3 DEF LastIsWorld, Follows
      <3>5. diff[j] \in Changes /\ diff[j].op \in NodeOps
            BY <2>1, DiffFacts DEF Of
      <3> QED
          BY <2>1, <3>4, <3>5, ChangeFacts
    <2> QED
        BY <1>3, <2>2, <2>3
  <1>11. \A t, id : Stored(t, id)' <=> Stored(t, id)
        BY <1>1 DEF Stored
  <1>12. NodeRows'
    <2> SUFFICES ASSUME NEW n \in Nodes, Settled(NodeOps, n)' PROVE NodeRow(n)'
        BY DEF NodeRows
    <2>1. NodeRow(n) /\ world'.pos[n] = world.pos[n] /\ world'.tags[n] = world.tags[n]
          BY <1>5 DEF NodeRows, Follows
    <2> QED
        BY <1>1, <1>11, <2>1 DEF NodeRow
  <1>13. WayRows'
    <2> SUFFICES ASSUME NEW w \in Ways PROVE WayRows!(w)'
        BY DEF WayRows
    <2>1. Settled(WayOps, w)' => Settled(WayOps, w) /\ world'.refs[w] = world.refs[w]
          BY <1>5 DEF Follows
    <2> QED
        BY <1>11, <2>1 DEF WayRows
  <1>14. RelRows'
    <2> SUFFICES ASSUME NEW r \in Rels, Settled(RelOps, r)' PROVE RelRow(r)'
        BY DEF RelRows
    <2>1. RelRow(r) /\ world'.rels[r] = world.rels[r]
          BY <1>5 DEF RelRows, Follows
    <2> QED
        BY <1>1, <1>11, <2>1 DEF RelRow
  <1>15. DeletedRows'
        BY <1>1 DEF DeletedRows
  <1>16. SilentRows'
    <2> SUFFICES ASSUME NEW n \in Nodes, Silent(n)' PROVE ~Stored("nodes", n)
        BY <1>11 DEF SilentRows
    <2>1. \A k \in 1..Len(diff') : Of(k, NodeOps, n)' =>
             diff'[k].op = "createNode" /\ ~(diff'[k].tagged /\ diff'[k].val \in Inside)
          BY DEF Silent
    <2>2. CASE \E k \in 1..Len(diff) : Of(k, NodeOps, n)
      <3>1. \A k \in 1..Len(diff) : Of(k, NodeOps, n) =>
               diff[k].op = "createNode" /\ ~(diff[k].tagged /\ diff[k].val \in Inside)
            BY <1>2, <1>3, <1>4, <2>1
      <3>2. Silent(n)
            BY <2>2, <3>1 DEF Silent
      <3> QED
          BY <3>2 DEF SilentRows
    <2>3. CASE \A k \in 1..Len(diff) : ~Of(k, NodeOps, n)
      <3>1. Settled(NodeOps, n)
            BY <2>3 DEF Settled
      <3>2. \E k \in 1..Len(diff') : Of(k, NodeOps, n)'
            BY DEF Silent
      <3>3. Of(m, NodeOps, n)'
            BY <1>3, <1>4, <2>3, <3>2
      <3>4. c.op = "createNode" /\ c.id = n
            BY <1>2, <1>3, <1>4, <2>1, <3>3
      <3>5. world.pos[n] \notin Inside
            BY <3>4, NoneIsNoGeom DEF Follows
      <3>6. NodeRow(n)
            BY <3>1 DEF NodeRows
      <3> QED
          BY <3>5, <3>6 DEF NodeRow
    <2> QED
        BY <2>2, <2>3
  <1>17. Located' /\ PendingIsNew'
        BY <1>1 DEF Located, PendingIsNew, Nowhere
  <1>18. OverlayIsCurrent'
    <2> SUFFICES ASSUME NEW n \in Nodes, overlay'[n] # None
                 PROVE  /\ base'[n] = None
                        /\ (\A k \in (at' + 1)..Len(diff') : ~Of(k, NodeOps, n)') => world'.pos[n] # None
        BY DEF OverlayIsCurrent
    <2>1. base[n] = None /\ ((\A k \in (at + 1)..Len(diff) : ~Of(k, NodeOps, n)) => world.pos[n] # None)
          BY <1>1 DEF OverlayIsCurrent
    <2>2. ASSUME \A k \in (at' + 1)..Len(diff') : ~Of(k, NodeOps, n)' PROVE world'.pos[n] # None
      <3>1. (at' + 1)..Len(diff') = 1..Len(diff') /\ (at + 1)..Len(diff) = 1..Len(diff)
            BY <1>1
      <3>2. ~Of(m, NodeOps, n)' /\ \A k \in 1..Len(diff) : ~Of(k, NodeOps, n)
            BY <1>3, <1>4, <2>2, <3>1
      <3>3. world'.pos[n] = world.pos[n]
            BY <1>4, <3>2 DEF Follows
      <3> QED
          BY <2>1, <3>1, <3>2, <3>3
    <2> QED
        BY <1>1, <2>1, <2>2
  <1> QED
      BY <1>7, <1>8, <1>9, <1>10, <1>12, <1>13, <1>14, <1>15, <1>16, <1>17, <1>18

\* Every edit of a mapper is one of those.
LEMMA MappersKeep == ASSUME RInv, Mappers PROVE RInv'
  <1>1. world \in World
        BY DEF RInv, Types
  <1>2. CASE EditNode
    <2>1. PICK n \in Nodes, p \in Positions, t \in BOOLEAN :
             /\ world' = [world EXCEPT !.pos[n] = p, !.tags[n] = t]
             /\ Edit(Change(IF world.pos[n] = None THEN "createNode" ELSE "modifyNode", n, p, t))
          BY <1>2 DEF EditNode
    <2>2. PICK c : c = Change(IF world.pos[n] = None THEN "createNode" ELSE "modifyNode", n, p, t)
          OBVIOUS
    <2>3. c \in Changes
          BY <2>2 DEF Changes, Change
    <2>4. c.op \in NodeOps /\ c.op \notin WayOps /\ c.op \notin RelOps /\ c.id = n /\ c.val = p
          /\ c.tagged = t /\ (c.op = "createNode" => world.pos[n] = None)
          BY <2>2 DEF Change, NodeOps, WayOps, RelOps
    <2>5. Follows(c)
          BY <1>1, <2>1, <2>4 DEF Follows, World, Places
    <2> QED
        BY <2>1, <2>2, <2>3, <2>5, EditKeeps
  <1>3. CASE RemoveNode
    <2>1. PICK n \in Nodes :
             /\ world' = [world EXCEPT !.pos[n] = None, !.tags[n] = FALSE]
             /\ Edit(Change("deleteNode", n, None, FALSE))
          BY <1>3 DEF RemoveNode
    <2>2. PICK c : c = Change("deleteNode", n, None, FALSE)
          OBVIOUS
    <2>3. c \in Changes
          BY <2>2 DEF Changes, Change
    <2>4. c.op \in NodeOps /\ c.op \notin WayOps /\ c.op \notin RelOps /\ c.id = n /\ c.val = None
          /\ c.tagged = FALSE /\ c.op # "createNode"
          BY <2>2 DEF Change, NodeOps, WayOps, RelOps
    <2>5. Follows(c)
          BY <1>1, <2>1, <2>4 DEF Follows, World, Places
    <2> QED
        BY <2>1, <2>2, <2>3, <2>5, EditKeeps
  <1>4. CASE EditWay
    <2>1. PICK w \in Ways, s \in Shapes :
             world' = [world EXCEPT !.refs[w] = s] /\ Edit(Change("upsertWay", w, s, TRUE))
          BY <1>4 DEF EditWay
    <2>2. PICK c : c = Change("upsertWay", w, s, TRUE)
          OBVIOUS
    <2>3. c \in Changes
          BY <2>2 DEF Changes, Change
    <2>4. c.op \in WayOps /\ c.op \notin NodeOps /\ c.op \notin RelOps /\ c.id = w /\ c.val = s
          /\ c.op # "createNode"
          BY <2>2 DEF Change, NodeOps, WayOps, RelOps
    <2>5. Follows(c)
          BY <1>1, <2>1, <2>4 DEF Follows, World, Places
    <2> QED
        BY <2>1, <2>2, <2>3, <2>5, EditKeeps
  <1>5. CASE RemoveWay
    <2>1. PICK w \in Ways :
             world' = [world EXCEPT !.refs[w] = None] /\ Edit(Change("deleteWay", w, None, FALSE))
          BY <1>5 DEF RemoveWay
    <2>2. PICK c : c = Change("deleteWay", w, None, FALSE)
          OBVIOUS
    <2>3. c \in Changes
          BY <2>2 DEF Changes, Change
    <2>4. c.op \in WayOps /\ c.op \notin NodeOps /\ c.op \notin RelOps /\ c.id = w /\ c.val = None
          /\ c.op # "createNode"
          BY <2>2 DEF Change, NodeOps, WayOps, RelOps
    <2>5. Follows(c)
          BY <1>1, <2>1, <2>4 DEF Follows, World, Places
    <2> QED
        BY <2>1, <2>2, <2>3, <2>5, EditKeeps
  <1>6. CASE EditRelation
    <2>1. PICK r \in Rels, k \in RelKinds :
             world' = [world EXCEPT !.rels[r] = k] /\ Edit(Change("upsertRelation", r, k, TRUE))
          BY <1>6 DEF EditRelation
    <2>2. PICK c : c = Change("upsertRelation", r, k, TRUE)
          OBVIOUS
    <2>3. c \in Changes
          BY <2>2 DEF Changes, Change
    <2>4. c.op \in RelOps /\ c.op \notin NodeOps /\ c.op \notin WayOps /\ c.id = r /\ c.val = k
          /\ c.op # "createNode"
          BY <2>2 DEF Change, NodeOps, WayOps, RelOps
    <2>5. Follows(c)
          BY <1>1, <2>1, <2>4 DEF Follows, World, Places
    <2> QED
        BY <2>1, <2>2, <2>3, <2>5, EditKeeps
  <1>7. CASE RemoveRelation
    <2>1. PICK r \in Rels :
             world' = [world EXCEPT !.rels[r] = None] /\ Edit(Change("deleteRelation", r, None, FALSE))
          BY <1>7 DEF RemoveRelation
    <2>2. PICK c : c = Change("deleteRelation", r, None, FALSE)
          OBVIOUS
    <2>3. c \in Changes
          BY <2>2 DEF Changes, Change
    <2>4. c.op \in RelOps /\ c.op \notin NodeOps /\ c.op \notin WayOps /\ c.id = r /\ c.val = None
          /\ c.op # "createNode"
          BY <2>2 DEF Change, NodeOps, WayOps, RelOps
    <2>5. Follows(c)
          BY <1>1, <2>1, <2>4 DEF Follows, World, Places
    <2> QED
        BY <2>1, <2>2, <2>3, <2>5, EditKeeps
  <1> QED
      BY <1>2, <1>3, <1>4, <1>5, <1>6, <1>7 DEF Mappers

----------------------------------------------------------------------------
(* Handlers *)

\* The handler of the next change keeps the invariant if it leaves calls that
\* make the rows right and keeps memory in order.  It may make no call only for
\* a way, or for a node that has no row.
LEMMA HandleKeeps ==
    ASSUME RInv, NEW op, Handle(op), overlay' \in Places, pending' \in Places, Calls',
           Located', PendingIsNew', OverlayIsCurrent',
           todo' = <<>> =>
              \/ This.op = "upsertWay"
              \/ This.op = "createNode" /\ ~(This.tagged /\ This.val \in Inside)
    PROVE  RInv'
  <1> USE DEF RInv
  <1>1. /\ UNCHANGED <<world, diff, base, rows, pc, diffs, crashes>>
        /\ pc = "apply" /\ todo = <<>> /\ at < Len(diff) /\ at' = at + 1
        BY DEF Handle
  <1>2. /\ Len(diff) \in Nat /\ at \in Nat /\ at + 1 \in 1..Len(diff)
        /\ \A k \in 1..Len(diff) : diff[k] \in Changes
        BY <1>1, DiffFacts
  <1>3. \A k, ops, id : Of(k, ops, id)' <=> Of(k, ops, id)
        BY <1>1 DEF Of
  <1>4. \A t, id : Stored(t, id)' <=> Stored(t, id)
        BY <1>1 DEF Stored
  <1>5. ASSUME NEW ops, NEW id, Settled(ops, id)'
        PROVE  IF Of(at + 1, ops, id) THEN todo' = <<>> /\ LastOf(at + 1, ops, id)
               ELSE Settled(ops, id)
    <2>1. \A k \in 1..Len(diff) : Of(k, ops, id) => k < at + 1 \/ (k = at + 1 /\ todo' = <<>>)
          BY <1>1, <1>3, <1>5 DEF Settled
    <2>2. CASE Of(at + 1, ops, id)
      <3>1. \A j \in ((at + 1) + 1)..Len(diff) : j \in 1..Len(diff) /\ ~(j < at + 1) /\ j # at + 1
            BY <1>2
      <3> QED
          BY <1>2, <2>1, <2>2, <3>1 DEF LastOf
    <2>3. CASE ~Of(at + 1, ops, id)
      <3>1. \A k \in 1..Len(diff) : Of(k, ops, id) => k < at + 1
            BY <2>1, <2>3
      <3>2. \A k \in 1..Len(diff) : k < at + 1 => k < at \/ k = at
            BY <1>2
      <3> QED
          BY <1>1, <2>3, <3>1, <3>2 DEF Settled
    <2> QED
        BY <2>2, <2>3
  <1>6. Types' /\ Stages'
    <2>1. at' \in 0..Len(diff')
          BY <1>1, <1>2
    <2> QED
        BY <1>1, <2>1 DEF Types, Stages
  <1>7. LastIsWorld' /\ CreatedAnew'
        BY <1>1 DEF LastIsWorld, CreatedAnew, LastOf, Of
  <1>8. NodeRows'
    <2> SUFFICES ASSUME NEW n \in Nodes, Settled(NodeOps, n)' PROVE NodeRow(n)
        BY <1>1, <1>4 DEF NodeRows, NodeRow
    <2>1. CASE ~Of(at + 1, NodeOps, n)
          BY <1>5, <2>1 DEF NodeRows
    <2>2. CASE Of(at + 1, NodeOps, n)
      <3>1. todo' = <<>> /\ LastOf(at + 1, NodeOps, n)
            BY <1>5, <2>2
      <3>2. This.op = "createNode" /\ ~(This.tagged /\ This.val \in Inside)
            BY <2>2, <3>1 DEF This, Of, NodeOps
      <3>3. This.val = world.pos[n] /\ This.tagged = world.tags[n]
            BY <1>2, <3>1 DEF LastIsWorld, This
      <3>4. ~Stored("nodes", n)
        <4> DEFINE earlier == {k \in 1..at : Of(k, NodeOps, n)}
        <4>1. CASE earlier # {}
          <5>1. earlier \in SUBSET (0..at)
                BY <1>2
          <5>2. PICK j \in earlier : \A i \in earlier : i <= j
                BY <1>2, <4>1, <5>1, GreatestElement, Zenon
          <5>3. j \in 1..at /\ j \in 1..Len(diff) /\ j < at + 1 /\ Of(j, NodeOps, n)
                BY <1>2, <5>2
          <5>4. \A i \in (j + 1)..at : ~Of(i, NodeOps, n)
            <6>1. \A i \in (j + 1)..at : i \in 1..at /\ ~(i <= j)
                  BY <1>2, <5>3
            <6> QED
                BY <5>2, <6>1
          <5>5. Of(at + 1, {"createNode"}, n) /\ (at + 1) - 1 = at
                BY <1>2, <2>2, <3>2 DEF Of, This
          <5>6. diff[j].op = "deleteNode"
                BY <1>2, <5>3, <5>4, <5>5 DEF CreatedAnew
          <5>7. LastDone(j, n)
                BY <5>3, <5>4 DEF LastDone
          <5> QED
              BY <1>1, <5>3, <5>6, <5>7 DEF DeletedRows
        <4>2. CASE earlier = {}
          <5>1. \A k \in 1..Len(diff) : Of(k, NodeOps, n) => k = at + 1
            <6>1. \A k \in 1..Len(diff) : k = at + 1 \/ k \in 1..at \/ k \in ((at + 1) + 1)..Len(diff)
                  BY <1>2
            <6> QED
                BY <3>1, <4>2, <6>1 DEF LastOf
          <5>2. Silent(n)
                BY <1>2, <2>2, <3>2, <5>1 DEF Silent, This
          <5> QED
              BY <5>2 DEF SilentRows
        <4> QED
            BY <4>1, <4>2
      <3> QED
          BY <3>2, <3>3, <3>4 DEF NodeRow
    <2> QED
        BY <2>1, <2>2
  <1>9. WayRows'
    <2> SUFFICES ASSUME NEW w \in Ways PROVE WayRows!(w)'
        BY DEF WayRows
    <2>1. CASE ~Of(at + 1, WayOps, w)
          BY <1>1, <1>4, <1>5, <2>1 DEF WayRows
    <2>2. CASE Of(at + 1, WayOps, w)
      <3>1. ASSUME Settled(WayOps, w)' PROVE world.refs[w] # None
        <4>1. todo' = <<>> /\ LastOf(at + 1, WayOps, w)
              BY <1>5, <2>2, <3>1
        <4>2. This.op = "upsertWay" /\ This.val = world.refs[w]
              BY <1>2, <2>2, <4>1 DEF LastIsWorld, This, Of, WayOps
        <4>3. This \in Changes /\ This.op \in WayOps
              BY <1>2, <4>2 DEF This, WayOps
        <4> QED
            BY <4>2, <4>3, ChangeFacts
      <3> QED
          BY <1>1, <1>4, <3>1 DEF WayRows
    <2> QED
        BY <2>1, <2>2
  <1>10. RelRows'
    <2> SUFFICES ASSUME NEW r \in Rels, Settled(RelOps, r)' PROVE RelRow(r)
        BY <1>1, <1>4 DEF RelRows, RelRow
    <2>1. ~Of(at + 1, RelOps, r)
          BY <1>5 DEF Of, RelOps, This
    <2> QED
        BY <1>5, <2>1 DEF RelRows
  <1>11. DeletedRows'
    <2> SUFFICES ASSUME NEW n \in Nodes, NEW k \in 1..at', LastDone(k, n)', diff[k].op = "deleteNode",
                        k = at' => todo' = <<>>
                 PROVE  ~Stored("nodes", n)
        BY <1>1, <1>4 DEF DeletedRows
    <2>1. k \in 1..at
      <3>1. k # at + 1
            BY <1>1 DEF This
      <3> QED
          BY <1>1, <1>2, <3>1
    <2>2. \A j \in (k + 1)..at : j \in (k + 1)..at'
          BY <1>1, <1>2, <2>1
    <2>3. LastDone(k, n)
          BY <1>3, <2>2 DEF LastDone
    <2> QED
        BY <1>1, <2>1, <2>3 DEF DeletedRows
  <1>12. SilentRows'
        BY <1>1, <1>4 DEF SilentRows, Silent, Of
  <1> QED
      BY <1>6, <1>7, <1>8, <1>9, <1>10, <1>11, <1>12

\* After a handler, the last change of a node is the one before, or this one.
LEMMA DoneStep ==
    ASSUME Types, NEW op, Handle(op), NEW n \in Nodes
    PROVE  /\ \A k \in 1..at' :
                 LastDone(k, n)' <=> IF Of(at + 1, NodeOps, n) THEN k = at + 1
                                     ELSE k \in 1..at /\ LastDone(k, n)
           /\ \A k \in 1..at : k \in 1..at'
           /\ (\A k \in (at' + 1)..Len(diff') : ~Of(k, NodeOps, n)') =>
                 IF Of(at + 1, NodeOps, n) THEN LastOf(at + 1, NodeOps, n)
                 ELSE \A k \in (at + 1)..Len(diff) : ~Of(k, NodeOps, n)
  <1>1. diff' = diff /\ at < Len(diff) /\ at' = at + 1 /\ Len(diff) \in Nat /\ at \in Nat
        BY DiffFacts DEF Handle
  <1>2. \A k, id : Of(k, NodeOps, id)' <=> Of(k, NodeOps, id)
        BY <1>1 DEF Of
  <1>3. ASSUME NEW k \in 1..at'
        PROVE  LastDone(k, n)' <=> IF Of(at + 1, NodeOps, n) THEN k = at + 1
                                   ELSE k \in 1..at /\ LastDone(k, n)
    <2>1. LastDone(k, n)' <=> Of(k, NodeOps, n) /\ \A j \in (k + 1)..(at + 1) : ~Of(j, NodeOps, n)
          BY <1>1, <1>2 DEF LastDone
    <2>2. CASE k = at + 1
      <3>1. (k + 1)..(at + 1) = {} /\ k \notin 1..at
            BY <1>1, <2>2
      <3> QED
          BY <2>1, <2>2, <3>1
    <2>3. CASE k # at + 1
      <3>1. k \in 1..at /\ at + 1 \in (k + 1)..(at + 1)
            /\ (k + 1)..(at + 1) = (k + 1)..at \cup {at + 1}
            BY <1>1, <2>3
      <3> QED
          BY <2>1, <2>3, <3>1 DEF LastDone
    <2> QED
        BY <2>2, <2>3
  <1>4. ASSUME \A k \in (at' + 1)..Len(diff') : ~Of(k, NodeOps, n)'
        PROVE  IF Of(at + 1, NodeOps, n) THEN LastOf(at + 1, NodeOps, n)
               ELSE \A k \in (at + 1)..Len(diff) : ~Of(k, NodeOps, n)
    <2>1. \A k \in ((at + 1) + 1)..Len(diff) : ~Of(k, NodeOps, n)
          BY <1>1, <1>2, <1>4
    <2>2. \A k \in (at + 1)..Len(diff) : k = at + 1 \/ k \in ((at + 1) + 1)..Len(diff)
          BY <1>1
    <2> QED
        BY <2>1, <2>2 DEF LastOf
  <1>5. \A k \in 1..at : k \in 1..at'
        BY <1>1
  <1> QED
      BY <1>3, <1>4, <1>5

\* A node handler keeps memory in order.
LEMMA NodeMemory ==
    ASSUME RInv, NEW op, Handle(op), This.op \in NodeOps,
           pending' = [pending EXCEPT ![This.id] = This.val],
           IF This.op = "deleteNode" THEN overlay' = [overlay EXCEPT ![This.id] = None]
           ELSE overlay' = overlay
    PROVE  overlay' \in Places /\ pending' \in Places /\ Located' /\ PendingIsNew' /\ OverlayIsCurrent'
  <1> USE DEF RInv
  <1>1. /\ UNCHANGED <<world, diff, base, pc>> /\ pc = "apply" /\ at' = at + 1 /\ at \in Nat
        /\ at + 1 \in 1..Len(diff) /\ Len(diff) \in Nat
        BY DiffFacts DEF Handle
  <1>2. PICK c : c = This
        OBVIOUS
  <1>3. c \in Changes /\ diff[at + 1] = c /\ c.op \in NodeOps
        BY <1>1, <1>2, DiffFacts DEF This
  <1>4. c.id \in Nodes /\ c.val \in Positions \cup {None} /\ (c.val = None <=> c.op = "deleteNode")
        BY <1>3, ChangeFacts
  <1>5. overlay \in Places /\ pending \in Places
        BY DEF Types
  <1>6. overlay' \in Places /\ pending' \in Places
        BY <1>2, <1>4, <1>5 DEF Places
  <1>7. /\ pending'[c.id] = c.val /\ (c.val = None => overlay'[c.id] = None)
        /\ c.val # None => overlay'[c.id] = overlay[c.id]
        /\ \A n \in Nodes : n # c.id => pending'[n] = pending[n] /\ overlay'[n] = overlay[n]
        BY <1>2, <1>4, <1>5 DEF Places
  <1>8. \A n \in Nodes : Of(at + 1, NodeOps, n) <=> n = c.id
        BY <1>3 DEF Of
  <1>9. ASSUME NEW n \in Nodes, NEW k \in 1..at', LastDone(k, n)', diff'[k].val # None
        PROVE  resolve(n)' # None
    <2>1. CASE n = c.id
      <3>1. k = at + 1
            BY <1>8, <1>9, <2>1, DoneStep
      <3> QED
          BY <1>1, <1>3, <1>7, <1>9, <2>1, <3>1 DEF resolve
    <2>2. CASE n # c.id
      <3>1. k \in 1..at /\ LastDone(k, n)
            BY <1>8, <1>9, <2>2, DoneStep
      <3>2. resolve(n) # None
            BY <1>1, <1>9, <3>1 DEF Located
      <3> QED
          BY <1>1, <1>7, <2>2, <3>2 DEF resolve
    <2> QED
        BY <2>1, <2>2
  <1>10. ASSUME NEW n \in Nodes, pending'[n] # None
         PROVE  \E k \in 1..at' : LastDone(k, n)' /\ diff'[k].val # None
    <2>1. CASE n = c.id
      <3>1. PICK k : k = at + 1
            OBVIOUS
      <3>2. k \in 1..at'
            BY <1>1, <3>1
      <3>3. LastDone(k, n)'
            BY <1>8, <2>1, <3>1, <3>2, DoneStep
      <3>4. diff'[k].val # None
            BY <1>1, <1>3, <1>7, <1>10, <2>1, <3>1
      <3> QED
          BY <3>2, <3>3, <3>4
    <2>2. CASE n # c.id
      <3>1. PICK k \in 1..at : LastDone(k, n) /\ diff[k].val # None
            BY <1>7, <1>10, <2>2 DEF PendingIsNew
      <3>2. k \in 1..at' /\ LastDone(k, n)'
            BY <1>8, <2>2, <3>1, DoneStep
      <3> QED
          BY <1>1, <3>1, <3>2
    <2> QED
        BY <2>1, <2>2
  <1>11. ASSUME NEW n \in Nodes, overlay'[n] # None
         PROVE  /\ base'[n] = None
                /\ (\A k \in (at' + 1)..Len(diff') : ~Of(k, NodeOps, n)') => world'.pos[n] # None
    <2>1. CASE n = c.id
      <3>1. c.val # None /\ base[n] = None
            BY <1>7, <1>11, <2>1 DEF OverlayIsCurrent
      <3>2. LastOf(at + 1, NodeOps, n) => world.pos[n] = c.val
            BY <1>1, <1>3 DEF LastIsWorld
      <3> QED
          BY <1>1, <1>8, <2>1, <3>1, <3>2, DoneStep
    <2>2. CASE n # c.id
      <3>1. overlay[n] # None
            BY <1>7, <1>11, <2>2
      <3> QED
          BY <1>1, <1>8, <2>2, <3>1, DoneStep DEF OverlayIsCurrent
    <2> QED
        BY <2>1, <2>2
  <1>12. Located' /\ PendingIsNew' /\ OverlayIsCurrent'
        BY <1>9, <1>10, <1>11 DEF Located, PendingIsNew, OverlayIsCurrent
  <1> QED
      BY <1>6, <1>12

\* A handler of a way or a relation keeps memory in order: a node moves from
\* pending_ to overlay_ or stays.
LEMMA OtherMemory ==
    ASSUME RInv, NEW op, Handle(op), This.op \notin NodeOps,
           overlay' \in Places, pending' \in Places,
           \A n \in Nodes :
              \/ overlay'[n] = overlay[n] /\ pending'[n] = pending[n]
              \/ /\ base[n] = None /\ pending[n] # None
                 /\ overlay'[n] = pending[n] /\ pending'[n] = None
    PROVE  Located' /\ PendingIsNew' /\ OverlayIsCurrent'
  <1> USE DEF RInv
  <1>1. /\ UNCHANGED <<world, diff, base, pc>> /\ pc = "apply" /\ at' = at + 1 /\ at \in Nat
        /\ at + 1 \in 1..Len(diff) /\ Len(diff) \in Nat
        BY DiffFacts DEF Handle
  <1>2. \A n \in Nodes : ~Of(at + 1, NodeOps, n)
        BY DEF Of, This
  <1>3. ASSUME NEW n \in Nodes, NEW k \in 1..at', LastDone(k, n)', diff'[k].val # None
        PROVE  resolve(n)' # None
    <2>1. k \in 1..at /\ LastDone(k, n)
          BY <1>2, <1>3, DoneStep
    <2>2. resolve(n) # None
          BY <1>1, <1>3, <2>1 DEF Located
    <2> QED
        BY <1>1, <2>2 DEF resolve
  <1>4. ASSUME NEW n \in Nodes, pending'[n] # None
        PROVE  \E k \in 1..at' : LastDone(k, n)' /\ diff'[k].val # None
    <2>1. PICK k \in 1..at : LastDone(k, n) /\ diff[k].val # None
          BY <1>4 DEF PendingIsNew
    <2>2. k \in 1..at' /\ LastDone(k, n)'
          BY <1>2, <2>1, DoneStep
    <2> QED
        BY <1>1, <2>1, <2>2
  <1>5. ASSUME NEW n \in Nodes, overlay'[n] # None
        PROVE  /\ base'[n] = None
               /\ (\A k \in (at' + 1)..Len(diff') : ~Of(k, NodeOps, n)') => world'.pos[n] # None
    <2>1. CASE overlay[n] # None
          BY <1>1, <1>2, <2>1, DoneStep DEF OverlayIsCurrent
    <2>2. CASE overlay[n] = None
      <3>1. base[n] = None /\ pending[n] # None
            BY <1>5, <2>2
      <3>2. PICK k \in 1..at : LastDone(k, n) /\ diff[k].val # None
            BY <3>1 DEF PendingIsNew
      <3>3. ASSUME \A j \in (at + 1)..Len(diff) : ~Of(j, NodeOps, n) PROVE world.pos[n] # None
        <4>1. k \in 1..Len(diff) /\ \A j \in (k + 1)..Len(diff) : j \in (k + 1)..at \/ j \in (at + 1)..Len(diff)
              BY <1>1
        <4>2. LastOf(k, NodeOps, n)
              BY <3>2, <3>3, <4>1 DEF LastOf, LastDone
        <4> QED
            BY <3>2, <4>1, <4>2 DEF LastIsWorld
      <3> QED
          BY <1>1, <1>2, <3>1, <3>3, DoneStep
    <2> QED
        BY <2>1, <2>2
  <1> QED
      BY <1>3, <1>4, <1>5 DEF Located, PendingIsNew, OverlayIsCurrent

\* createNode keeps the invariant.
LEMMA CreateNodeKeeps == ASSUME RInv, createNode PROVE RInv'
  <1>1. /\ Handle("createNode") /\ This.op = "createNode" /\ overlay' = overlay
        /\ pending' = [pending EXCEPT ![This.id] = This.val]
        /\ \/ /\ ~This.tagged \/ This.val \notin Inside
              /\ todo' = <<>>
           \/ /\ This.val \in Inside
              /\ todo' = <<updateNode(This.id, This.val, This.tagged)>>
        BY DEF createNode, Handle, This
  <1>2. /\ overlay' \in Places /\ pending' \in Places
        /\ Located' /\ PendingIsNew' /\ OverlayIsCurrent'
        BY <1>1, NodeMemory DEF NodeOps
  <1>3. pc' = "apply" /\ at' > 0 /\ diff'[at'] = This
        BY <1>1, DiffFacts DEF Handle, This, RInv
  <1>4. Calls'
        BY <1>1, <1>3 DEF Calls, updateNode, NodeOps, WayOps, RelOps
  <1>5. todo' = <<>> => ~(This.tagged /\ This.val \in Inside)
    <2>1. <<updateNode(This.id, This.val, This.tagged)>> # <<>>
          OBVIOUS
    <2> QED
        BY <1>1, <2>1, Zenon
  <1> QED
      BY <1>1, <1>2, <1>4, <1>5, HandleKeeps

\* modifyNode keeps the invariant.
LEMMA ModifyNodeKeeps == ASSUME RInv, modifyNode PROVE RInv'
  <1>1. /\ Handle("modifyNode") /\ This.op = "modifyNode" /\ overlay' = overlay
        /\ pending' = [pending EXCEPT ![This.id] = This.val]
        /\ todo' = <<Put("nodes", This.id, IF This.tagged /\ This.val \in Inside THEN <<This.val>> ELSE None)>>
        BY DEF modifyNode, Handle, This, updateNode, deleteEntity
  <1>2. /\ overlay' \in Places /\ pending' \in Places
        /\ Located' /\ PendingIsNew' /\ OverlayIsCurrent'
        BY <1>1, NodeMemory DEF NodeOps
  <1>3. pc' = "apply" /\ at' > 0 /\ diff'[at'] = This
        BY <1>1, DiffFacts DEF Handle, This, RInv
  <1>4. Calls'
        BY <1>1, <1>3 DEF Calls, NodeOps, WayOps, RelOps
  <1> QED
      BY <1>1, <1>2, <1>4, HandleKeeps

\* deleteNode keeps the invariant.
LEMMA DeleteNodeKeeps == ASSUME RInv, deleteNode PROVE RInv'
  <1>1. /\ Handle("deleteNode") /\ This.op = "deleteNode"
        /\ overlay' = [overlay EXCEPT ![This.id] = None]
        /\ pending' = [pending EXCEPT ![This.id] = None]
        /\ todo' = <<Put("nodes", This.id, None)>>
        BY DEF deleteNode, Handle, This, deleteEntity
  <1>2. This.val = None
    <2>1. This \in Changes
          BY <1>1, DiffFacts DEF This, Handle, RInv
    <2> QED
        BY <1>1, <2>1, ChangeFacts DEF NodeOps
  <1>3. /\ overlay' \in Places /\ pending' \in Places
        /\ Located' /\ PendingIsNew' /\ OverlayIsCurrent'
        BY <1>1, <1>2, NodeMemory DEF NodeOps
  <1>4. pc' = "apply" /\ at' > 0 /\ diff'[at'] = This
        BY <1>1, DiffFacts DEF Handle, This, RInv
  <1>5. Calls'
        BY <1>1, <1>2, <1>4, NoneIsNoGeom DEF Calls, NodeOps, WayOps, RelOps
  <1> QED
      BY <1>1, <1>3, <1>5, HandleKeeps

\* upsertWay keeps the invariant: a way is deleted from one table before it is
\* put into the other, and what it promotes is new and in the world.
LEMMA UpsertWayKeeps == ASSUME RInv, upsertWay PROVE RInv'
  <1> DEFINE w == This.id
             geom == buildWayGeom(This.val)
             hits == IF Len(geom) >= 2 /\ inRegion(geom) THEN last_pending_hits(This.val) ELSE {}
  <1>1. /\ Handle("upsertWay") /\ This.op = "upsertWay" /\ Promote(hits)
        /\ todo' = IF Len(geom) < 2 THEN <<>>
                   ELSE IF ~inRegion(geom)
                     THEN <<deleteEntity("ways", w), deleteEntity("areas", w)>>
                   ELSE IF Closed(geom)
                     THEN <<deleteEntity("ways", w), Put("areas", w, geom)>>
                     ELSE <<deleteEntity("areas", w), Put("ways", w, geom)>>
        BY DEF upsertWay, Handle, This
  <1>2. This \in Changes /\ This.val \in Shapes
    <2>1. This \in Changes
          BY <1>1, DiffFacts DEF This, Handle, RInv
    <2> QED
        BY <1>1, <2>1, ChangeFacts DEF WayOps
  <1>3. geom \in Geoms
        BY <1>2, WayGeomType DEF RInv
  <1>4. \A n \in hits : base[n] = None /\ overlay[n] = None /\ pending[n] # None
        BY DEF last_pending_hits
  <1> HIDE DEF geom, hits
  <1>5. /\ overlay' \in Places /\ pending' \in Places
        /\ \A n \in Nodes :
              \/ overlay'[n] = overlay[n] /\ pending'[n] = pending[n]
              \/ /\ base[n] = None /\ pending[n] # None
                 /\ overlay'[n] = pending[n] /\ pending'[n] = None
        BY <1>1, <1>4 DEF Promote, RInv, Types, Places
  <1>6. Located' /\ PendingIsNew' /\ OverlayIsCurrent'
        BY <1>1, <1>5, OtherMemory DEF NodeOps
  <1>7. pc' = "apply" /\ at' > 0 /\ diff'[at'] = This
        BY <1>1, DiffFacts DEF Handle, This, RInv
  <1>8. ASSUME todo' # <<>>
        PROVE  \E t \in {"ways", "areas"}, u \in {"ways", "areas"}, v \in Geoms \cup {None} :
                   t # u /\ todo' = <<deleteEntity(t, w), Put(u, w, v)>>
        BY <1>1, <1>3, <1>8 DEF deleteEntity
  <1>9. Calls'
        BY <1>1, <1>7, <1>8 DEF Calls, WayCalls, NodeOps, WayOps, RelOps
  <1> QED
      BY <1>1, <1>5, <1>6, <1>9, HandleKeeps

\* deleteWay keeps the invariant.
LEMMA DeleteWayKeeps == ASSUME RInv, deleteWay PROVE RInv'
  <1>1. /\ Handle("deleteWay") /\ This.op = "deleteWay" /\ UNCHANGED <<overlay, pending>>
        /\ todo' = <<deleteEntity("ways", This.id), Put("areas", This.id, None)>>
        BY DEF deleteWay, Handle, This, memory, deleteEntity
  <1>2. overlay' \in Places /\ pending' \in Places
        BY <1>1 DEF RInv, Types
  <1>3. Located' /\ PendingIsNew' /\ OverlayIsCurrent'
        BY <1>1, <1>2, OtherMemory DEF NodeOps
  <1>4. pc' = "apply" /\ at' > 0 /\ diff'[at'] = This
        BY <1>1, DiffFacts DEF Handle, This, RInv
  <1>5. Calls'
        BY <1>1, <1>4 DEF Calls, WayCalls, NodeOps, WayOps, RelOps
  <1> QED
      BY <1>1, <1>2, <1>3, <1>5, HandleKeeps

\* upsertRelation keeps the invariant, whichever members it finds.
LEMMA UpsertRelationKeeps == ASSUME RInv, upsertRelation PROVE RInv'
  <1>1. /\ Handle("upsertRelation") /\ This.op = "upsertRelation" /\ UNCHANGED <<overlay, pending>>
        /\ \E found \in SUBSET Vertices(Members[This.id]) :
              todo' = IF ~inRegion(buildRelationGeom(This.id, found))
                        THEN <<deleteEntity("relations", This.id), deleteEntity("roads", This.id)>>
                      ELSE <<Put("relations", This.id, buildRelationGeom(This.id, found)),
                             Put("roads", This.id, IF This.val = "road"
                                                   THEN buildRelationGeom(This.id, found) ELSE None)>>
        BY DEF upsertRelation, Handle, This, memory
  <1>2. This.id \in Rels
    <2>1. This \in Changes
          BY <1>1, DiffFacts DEF This, Handle, RInv
    <2> QED
        BY <1>1, <2>1, ChangeFacts DEF RelOps
  <1>3. overlay' \in Places /\ pending' \in Places
        BY <1>1 DEF RInv, Types
  <1>4. Located' /\ PendingIsNew' /\ OverlayIsCurrent'
        BY <1>1, <1>3, OtherMemory DEF NodeOps
  <1>5. pc' = "apply" /\ at' > 0 /\ diff'[at'] = This
        BY <1>1, DiffFacts DEF Handle, This, RInv
  <1>6. \E v \in Geoms \cup {None} :
           todo' = <<Put("relations", This.id, v),
                     Put("roads", This.id, IF This.val = "road" THEN v ELSE None)>>
    <2>1. PICK found \in SUBSET Vertices(Members[This.id]) :
              todo' = IF ~inRegion(buildRelationGeom(This.id, found))
                        THEN <<deleteEntity("relations", This.id), deleteEntity("roads", This.id)>>
                      ELSE <<Put("relations", This.id, buildRelationGeom(This.id, found)),
                             Put("roads", This.id, IF This.val = "road"
                                                   THEN buildRelationGeom(This.id, found) ELSE None)>>
          BY <1>1
    <2>2. buildRelationGeom(This.id, found) \in Geoms
          BY <1>2, RelationGeomType DEF RInv
    <2>3. CASE inRegion(buildRelationGeom(This.id, found))
          BY <2>1, <2>2, <2>3
    <2>4. CASE ~inRegion(buildRelationGeom(This.id, found))
      <3>1. todo' = <<Put("relations", This.id, None), Put("roads", This.id, None)>>
            BY <2>1, <2>4 DEF deleteEntity
      <3>2. todo' = <<Put("relations", This.id, None),
                      Put("roads", This.id, IF This.val = "road" THEN None ELSE None)>>
            BY <3>1
      <3> QED
          BY <3>2
    <2> QED
        BY <2>3, <2>4
  <1>7. Calls'
        BY <1>1, <1>5, <1>6 DEF Calls, RelCalls, NodeOps, WayOps, RelOps
  <1>8. todo' # <<>>
        BY <1>6
  <1> QED
      BY <1>1, <1>3, <1>4, <1>7, <1>8, HandleKeeps

\* deleteRelation keeps the invariant.
LEMMA DeleteRelationKeeps == ASSUME RInv, deleteRelation PROVE RInv'
  <1>1. /\ Handle("deleteRelation") /\ This.op = "deleteRelation" /\ UNCHANGED <<overlay, pending>>
        /\ todo' = <<Put("relations", This.id, None), Put("roads", This.id, None)>>
        BY DEF deleteRelation, Handle, This, memory, deleteEntity
  <1>2. overlay' \in Places /\ pending' \in Places
        BY <1>1 DEF RInv, Types
  <1>3. Located' /\ PendingIsNew' /\ OverlayIsCurrent'
        BY <1>1, <1>2, OtherMemory DEF NodeOps
  <1>4. pc' = "apply" /\ at' > 0 /\ diff'[at'] = This
        BY <1>1, DiffFacts DEF Handle, This, RInv
  <1>5. Calls'
        BY <1>1, <1>4 DEF Calls, RelCalls, NodeOps, WayOps, RelOps
  <1> QED
      BY <1>1, <1>2, <1>3, <1>5, HandleKeeps

----------------------------------------------------------------------------
(* Commits, the end of a diff, crashes *)

\* A commit keeps the invariant: the rows of the change's entity are right when
\* its last call has committed, and no other row is touched.
LEMMA CommitKeeps == ASSUME RInv, Commit PROVE RInv'
  <1> USE DEF RInv
  <1>1. /\ UNCHANGED <<world, diff, base, overlay, pending, pc, at, diffs, crashes>>
        /\ todo # <<>> /\ rows' = Do(Head(todo), rows) /\ todo' = Tail(todo)
        BY DEF Commit, memory
  <1>2. PICK call : call = Head(todo)
        OBVIOUS
  <1>3. /\ \A t, id : Stored(t, id)' <=>
              IF <<t, id>> = call.key THEN call.val # None ELSE Stored(t, id)
        /\ call.val # None => rows'[call.key] = call.val
        /\ \A k \in DOMAIN rows : k # call.key => rows'[k] = rows[k]
        /\ \A k \in DOMAIN rows' : k = call.key \/ k \in DOMAIN rows
        BY <1>1, <1>2, DoFacts
  <1>4. /\ Len(diff) \in Nat /\ at \in 1..Len(diff) /\ pc = "apply"
        /\ \A k \in 1..Len(diff) : diff[k] \in Changes
        BY <1>1, DiffFacts DEF Calls
  <1>5. PICK c : c = diff[at]
        OBVIOUS
  <1>6. c \in Changes
        BY <1>4, <1>5
  <1>7. \A k, ops, id : Of(k, ops, id)' <=> Of(k, ops, id)
        BY <1>1 DEF Of
  <1>8. /\ Stages' /\ LastIsWorld' /\ CreatedAnew' /\ Located' /\ PendingIsNew' /\ OverlayIsCurrent'
    <2>1. Stages'
          BY <1>1, <1>4 DEF Stages
    <2>2. LastIsWorld' /\ CreatedAnew'
          BY <1>1 DEF LastIsWorld, CreatedAnew, LastOf, Of
    <2>3. Located' /\ PendingIsNew' /\ OverlayIsCurrent'
          BY <1>1 DEF Located, PendingIsNew, OverlayIsCurrent, LastDone, Of, resolve
    <2> QED
        BY <2>1, <2>2, <2>3
  \* What is settled now was settled before, or it is the entity of c.
  <1>9. ASSUME NEW ops, NEW id, Settled(ops, id)'
        PROVE  IF c.op \in ops /\ c.id = id THEN todo' = <<>> /\ LastOf(at, ops, id)
               ELSE Settled(ops, id)
    <2>1. \A k \in 1..Len(diff) : Of(k, ops, id) => k < at \/ (k = at /\ todo' = <<>>)
          BY <1>1, <1>7, <1>9 DEF Settled
    <2>2. CASE c.op \in ops /\ c.id = id
      <3>1. Of(at, ops, id)
            BY <1>5, <2>2 DEF Of
      <3>2. \A j \in (at + 1)..Len(diff) : j \in 1..Len(diff) /\ ~(j < at) /\ j # at
            BY <1>4
      <3> QED
          BY <1>4, <2>1, <2>2, <3>1, <3>2 DEF LastOf
    <2>3. CASE ~(c.op \in ops /\ c.id = id)
      <3>1. ~Of(at, ops, id)
            BY <1>5, <2>3 DEF Of
      <3> QED
          BY <2>1, <2>3, <3>1 DEF Settled
    <2> QED
        BY <2>2, <2>3
  <1>10. CASE c.op \in NodeOps
    <2>1. PICK v : v = IF c.tagged /\ c.val \in Inside THEN <<c.val>> ELSE None
          OBVIOUS
    <2>2. todo = <<Put("nodes", c.id, v)>>
          BY <1>1, <1>5, <1>10, <2>1 DEF Calls
    <2>3. call.key = <<"nodes", c.id>> /\ call.val = v /\ todo' = <<>>
          BY <1>1, <1>2, <2>2 DEF Put
    <2>4. c.id \in Nodes /\ c.val \in Positions \cup {None} /\ (c.val = None <=> c.op = "deleteNode")
          BY <1>6, <1>10, ChangeFacts
    <2>5. v \in Geoms \cup {None} /\ (v # None <=> c.tagged /\ c.val \in Inside)
      <3>1. c.val \in Inside => <<c.val>> \in Geoms
            BY RegionalAssumption DEF Geoms
      <3>2. CASE c.tagged /\ c.val \in Inside
            BY <2>1, <3>1, <3>2, NoneIsNoGeom
      <3>3. CASE ~(c.tagged /\ c.val \in Inside)
            BY <2>1, <3>3
      <3> QED
          BY <3>2, <3>3
    <2>6. Types'
      <3>1. \A k \in DOMAIN rows' : k[1] \in Tables /\ rows'[k] \in Geoms
        <4> SUFFICES ASSUME NEW k \in DOMAIN rows' PROVE k[1] \in Tables /\ rows'[k] \in Geoms
            OBVIOUS
        <4>1. CASE k = call.key
          <5>1. Stored("nodes", c.id)'
                BY <2>3, <4>1 DEF Stored
          <5>2. v # None
                BY <1>3, <2>3, <5>1
          <5> QED
              BY <1>3, <2>3, <2>5, <4>1, <5>2 DEF Tables
        <4>2. CASE k # call.key
              BY <1>3, <4>2 DEF Types
        <4> QED
            BY <4>1, <4>2
      <3> QED
          BY <1>1, <3>1 DEF Types
    <2>7. Calls'
          BY <2>3 DEF Calls
    <2>8. \A t, id : t # "nodes" => (Stored(t, id)' <=> Stored(t, id))
          BY <1>3, <2>3
    <2>9. ASSUME NEW n \in Nodes, n # c.id
          PROVE  /\ Stored("nodes", n)' <=> Stored("nodes", n)
                 /\ Stored("nodes", n) => rows'[<<"nodes", n>>] = rows[<<"nodes", n>>]
          BY <1>3, <2>3, <2>9 DEF Stored
    <2>10. Stored("nodes", c.id)' <=> c.tagged /\ c.val \in Inside
          BY <1>3, <2>3, <2>5
    <2>11. NodeRows'
      <3> SUFFICES ASSUME NEW n \in Nodes, Settled(NodeOps, n)' PROVE NodeRow(n)'
          BY DEF NodeRows
      <3>1. CASE n = c.id
        <4>1. LastOf(at, NodeOps, n)
              BY <1>9, <1>10, <3>1
        <4>2. c.val = world.pos[n] /\ c.tagged = world.tags[n]
              BY <1>4, <1>5, <4>1 DEF LastIsWorld
        <4>3. c.tagged /\ c.val \in Inside => rows'[<<"nodes", n>>] = <<c.val>>
              BY <1>3, <2>1, <2>3, <2>5, <3>1
        <4> QED
            BY <1>1, <2>10, <3>1, <4>2, <4>3 DEF NodeRow
      <3>2. CASE n # c.id
        <4>1. NodeRow(n)
              BY <1>9, <3>2 DEF NodeRows
        <4> QED
            BY <1>1, <2>9, <3>2, <4>1 DEF NodeRow
      <3> QED
          BY <3>1, <3>2
    <2>12. c.op \notin WayOps /\ c.op \notin RelOps
          BY <1>10 DEF NodeOps, WayOps, RelOps
    <2>13. WayRows'
      <3>1. \A w \in Ways : Settled(WayOps, w)' => Settled(WayOps, w)
            BY <1>9, <2>12
      <3> QED
          BY <1>1, <2>8, <3>1 DEF WayRows
    <2>14. RelRows'
      <3> SUFFICES ASSUME NEW r \in Rels, Settled(RelOps, r)' PROVE RelRow(r)'
          BY DEF RelRows
      <3>1. RelRow(r)
            BY <1>9, <2>12 DEF RelRows
      <3>2. /\ Stored("relations", r) => rows'[<<"relations", r>>] = rows[<<"relations", r>>]
            /\ Stored("roads", r) => rows'[<<"roads", r>>] = rows[<<"roads", r>>]
            BY <1>3, <2>3 DEF Stored
      <3> QED
          BY <1>1, <2>8, <3>1, <3>2 DEF RelRow
    <2>15. DeletedRows'
      <3> SUFFICES ASSUME NEW n \in Nodes, NEW k \in 1..at, LastDone(k, n), diff[k].op = "deleteNode"
                   PROVE  ~Stored("nodes", n)'
          BY <1>1 DEF DeletedRows, LastDone, Of
      <3>1. CASE n = c.id
        <4>1. k = at
          <5>1. Of(at, NodeOps, n)
                BY <1>5, <1>10, <3>1 DEF Of
          <5>2. k # at => at \in (k + 1)..at
                BY <1>4
          <5> QED
              BY <5>1, <5>2 DEF LastDone
        <4>2. c.val = None
              BY <1>5, <2>4, <4>1
        <4> QED
            BY <2>10, <3>1, <4>2, NoneIsNoGeom
      <3>2. CASE n # c.id
        <4>1. k # at
              BY <1>5, <3>2 DEF LastDone, Of
        <4>2. ~Stored("nodes", n)
              BY <4>1 DEF DeletedRows
        <4> QED
            BY <2>9, <3>2, <4>2
      <3> QED
          BY <3>1, <3>2
    <2>16. SilentRows'
      <3> SUFFICES ASSUME NEW n \in Nodes, Silent(n) PROVE ~Stored("nodes", n)'
          BY <1>1 DEF SilentRows, Silent, Of
      <3>1. CASE n = c.id
        <4>1. ~(c.tagged /\ c.val \in Inside)
              BY <1>4, <1>5, <1>10, <3>1 DEF Silent, Of
        <4> QED
            BY <2>10, <3>1, <4>1
      <3>2. CASE n # c.id
            BY <2>9, <3>2 DEF SilentRows
      <3> QED
          BY <3>1, <3>2
    <2> QED
        BY <1>8, <2>6, <2>7, <2>11, <2>13, <2>14, <2>15, <2>16
  <1>11. ASSUME c.op \notin NodeOps, call.key[1] # "nodes"
         PROVE  NodeRows' /\ DeletedRows' /\ SilentRows'
    <2>1. ASSUME NEW n \in Nodes
          PROVE  /\ Stored("nodes", n)' <=> Stored("nodes", n)
                 /\ Stored("nodes", n) => rows'[<<"nodes", n>>] = rows[<<"nodes", n>>]
      <3>1. <<"nodes", n>> # call.key
            BY <1>11
      <3> QED
          BY <1>3, <3>1 DEF Stored
    <2>2. NodeRows'
      <3> SUFFICES ASSUME NEW n \in Nodes, Settled(NodeOps, n)' PROVE NodeRow(n)'
          BY DEF NodeRows
      <3>1. NodeRow(n)
            BY <1>9, <1>11 DEF NodeRows
      <3> QED
          BY <1>1, <2>1, <3>1 DEF NodeRow
    <2>3. DeletedRows'
      <3> SUFFICES ASSUME NEW n \in Nodes, NEW k \in 1..at, LastDone(k, n), diff[k].op = "deleteNode"
                   PROVE  ~Stored("nodes", n)
          BY <1>1, <2>1 DEF DeletedRows, LastDone, Of
      <3>1. k # at
            BY <1>5, <1>11 DEF LastDone, Of
      <3> QED
          BY <3>1 DEF DeletedRows
    <2>4. SilentRows'
          BY <1>1, <2>1 DEF SilentRows, Silent, Of
    <2> QED
        BY <2>2, <2>3, <2>4
  <1>12. CASE c.op \in WayOps
    <2>1. PICK t \in {"ways", "areas"}, u \in {"ways", "areas"}, v \in Geoms \cup {None} :
             t # u /\ WayCalls(c.id, t, u, v) /\ (c.op = "deleteWay" => v = None)
          BY <1>1, <1>5, <1>12 DEF Calls
    <2>2. c.id \in Ways /\ (c.val = None <=> c.op = "deleteWay") /\ c.op \notin NodeOps /\ c.op \notin RelOps
          BY <1>6, <1>12, ChangeFacts DEF NodeOps, WayOps, RelOps
    <2>3. \/ call.key = <<t, c.id>> /\ call.val = None /\ todo' = <<Put(u, c.id, v)>>
          \/ call.key = <<u, c.id>> /\ call.val = v /\ todo' = <<>> /\ ~Stored(t, c.id)
      <3>1. CASE todo = <<deleteEntity(t, c.id), Put(u, c.id, v)>>
        <4>1. call = deleteEntity(t, c.id) /\ todo' = <<Put(u, c.id, v)>>
              BY <1>1, <1>2, <3>1
        <4> QED
            BY <4>1 DEF deleteEntity, Put
      <3>2. CASE todo = <<Put(u, c.id, v)>> /\ ~Stored(t, c.id)
        <4>1. call = Put(u, c.id, v) /\ todo' = <<>>
              BY <1>1, <1>2, <3>2
        <4> QED
            BY <3>2, <4>1 DEF Put
      <3> QED
          BY <2>1, <3>1, <3>2 DEF WayCalls
    <2>4. /\ ~Stored(t, c.id)'
          /\ todo' = <<>> => (Stored(u, c.id)' <=> v # None)
          BY <1>3, <2>1, <2>3
    <2>5. call.key[1] \in {"ways", "areas"} /\ call.key[2] = c.id /\ call.val \in Geoms \cup {None}
          BY <2>1, <2>3
    <2>6. Types'
      <3>1. \A k \in DOMAIN rows' : k[1] \in Tables /\ rows'[k] \in Geoms
        <4> SUFFICES ASSUME NEW k \in DOMAIN rows' PROVE k[1] \in Tables /\ rows'[k] \in Geoms
            OBVIOUS
        <4>1. CASE k = call.key
          <5>1. PICK x \in {"ways", "areas"} : call.key = <<x, c.id>>
                BY <2>1, <2>3
          <5>2. Stored(x, c.id)'
                BY <4>1, <5>1 DEF Stored
          <5>3. call.val # None
                BY <1>3, <5>1, <5>2
          <5> QED
              BY <1>3, <2>5, <4>1, <5>3 DEF Tables
        <4>2. CASE k # call.key
              BY <1>3, <4>2 DEF Types
        <4> QED
            BY <4>1, <4>2
      <3> QED
          BY <1>1, <3>1 DEF Types
    <2>7. Calls'
      <3> SUFFICES ASSUME todo' # <<>> PROVE Calls'
          BY DEF Calls
      <3>1. WayCalls(c.id, t, u, v)'
            BY <2>3, <2>4 DEF WayCalls
      <3> QED
          BY <1>1, <1>4, <1>5, <1>12, <2>1, <2>2, <3>1 DEF Calls
    <2>8. NodeRows' /\ DeletedRows' /\ SilentRows'
          BY <1>11, <2>2, <2>5
    <2>9. WayRows'
      <3> SUFFICES ASSUME NEW w \in Ways PROVE WayRows!(w)'
          BY DEF WayRows
      <3>1. CASE w = c.id
        <4>1. ~(Stored("ways", w)' /\ Stored("areas", w)')
              BY <2>1, <2>4, <3>1
        <4>2. ASSUME Settled(WayOps, w)', Stored("ways", w)' \/ Stored("areas", w)'
              PROVE  world'.refs[w] # None
          <5>1. todo' = <<>> /\ LastOf(at, WayOps, w)
                BY <1>9, <1>12, <3>1, <4>2
          <5>2. v # None
                BY <2>1, <2>4, <3>1, <4>2, <5>1
          <5>3. c.val # None /\ c.val = world.refs[w]
                BY <1>4, <1>5, <2>1, <2>2, <5>1, <5>2 DEF LastIsWorld
          <5> QED
              BY <1>1, <5>3
        <4> QED
            BY <4>1, <4>2
      <3>2. CASE w # c.id
        <4>1. \A x : Stored(x, w)' <=> Stored(x, w)
              BY <1>3, <2>3, <3>2
        <4> QED
            BY <1>1, <1>9, <3>2, <4>1 DEF WayRows
      <3> QED
          BY <3>1, <3>2
    <2>10. RelRows'
      <3> SUFFICES ASSUME NEW r \in Rels, Settled(RelOps, r)' PROVE RelRow(r)'
          BY DEF RelRows
      <3>1. RelRow(r)
            BY <1>9, <2>2 DEF RelRows
      <3>2. <<"relations", r>> # call.key /\ <<"roads", r>> # call.key
            BY <2>5
      <3>3. /\ Stored("relations", r)' <=> Stored("relations", r)
            /\ Stored("roads", r)' <=> Stored("roads", r)
            /\ Stored("relations", r) => rows'[<<"relations", r>>] = rows[<<"relations", r>>]
            /\ Stored("roads", r) => rows'[<<"roads", r>>] = rows[<<"roads", r>>]
            BY <1>3, <3>2 DEF Stored
      <3> QED
          BY <1>1, <3>1, <3>3 DEF RelRow
    <2> QED
        BY <1>8, <2>6, <2>7, <2>8, <2>9, <2>10

  <1>13. CASE c.op \in RelOps
    <2>1. PICK v \in Geoms \cup {None} :
             RelCalls(c.id, v, IF c.val = "road" THEN v ELSE None) /\ (c.op = "deleteRelation" => v = None)
          BY <1>1, <1>5, <1>13 DEF Calls
    <2>2. PICK road : road = IF c.val = "road" THEN v ELSE None
          OBVIOUS
    <2>3. RelCalls(c.id, v, road) /\ road \in Geoms \cup {None}
          BY <2>1, <2>2
    <2>4. c.id \in Rels /\ (c.val = None <=> c.op = "deleteRelation") /\ c.op \notin NodeOps /\ c.op \notin WayOps
          BY <1>6, <1>13, ChangeFacts DEF NodeOps, WayOps, RelOps
    <2>5. \/ call.key = <<"relations", c.id>> /\ call.val = v /\ todo' = <<Put("roads", c.id, road)>>
          \/ /\ call.key = <<"roads", c.id>> /\ call.val = road /\ todo' = <<>>
             /\ Stored("relations", c.id) <=> v # None
             /\ v # None => rows[<<"relations", c.id>>] = v
      <3>1. CASE todo = <<Put("relations", c.id, v), Put("roads", c.id, road)>>
        <4>1. call = Put("relations", c.id, v) /\ todo' = <<Put("roads", c.id, road)>>
              BY <1>1, <1>2, <3>1
        <4> QED
            BY <4>1 DEF Put
      <3>2. CASE /\ todo = <<Put("roads", c.id, road)>>
                 /\ Stored("relations", c.id) <=> v # None
                 /\ v # None => rows[<<"relations", c.id>>] = v
        <4>1. call = Put("roads", c.id, road) /\ todo' = <<>>
              BY <1>1, <1>2, <3>2
        <4> QED
            BY <3>2, <4>1 DEF Put
      <3> QED
          BY <2>3, <3>1, <3>2 DEF RelCalls
    <2>6. /\ Stored("relations", c.id)' <=> v # None
          /\ v # None => rows'[<<"relations", c.id>>] = v
          /\ todo' = <<>> => (Stored("roads", c.id)' <=> road # None)
          /\ todo' = <<>> /\ road # None => rows'[<<"roads", c.id>>] = road
      <3>1. CASE call.key = <<"relations", c.id>> /\ call.val = v /\ todo' = <<Put("roads", c.id, road)>>
            BY <1>3, <3>1
      <3>2. CASE /\ call.key = <<"roads", c.id>> /\ call.val = road /\ todo' = <<>>
                 /\ Stored("relations", c.id) <=> v # None
                 /\ v # None => rows[<<"relations", c.id>>] = v
        <4>1. <<"relations", c.id>> # call.key
              BY <3>2
        <4>2. Stored("relations", c.id)' <=> v # None
              BY <1>3, <3>2, <4>1
        <4>3. v # None => rows'[<<"relations", c.id>>] = v
              BY <1>3, <3>2, <4>1 DEF Stored
        <4> QED
            BY <1>3, <3>2, <4>2, <4>3
      <3> QED
          BY <2>5, <3>1, <3>2
    <2>7. call.key[1] \in {"relations", "roads"} /\ call.key[2] = c.id /\ call.val \in Geoms \cup {None}
          BY <2>1, <2>3, <2>5
    <2>8. Types'
      <3>1. \A k \in DOMAIN rows' : k[1] \in Tables /\ rows'[k] \in Geoms
        <4> SUFFICES ASSUME NEW k \in DOMAIN rows' PROVE k[1] \in Tables /\ rows'[k] \in Geoms
            OBVIOUS
        <4>1. CASE k = call.key
          <5>1. PICK x \in {"relations", "roads"} : call.key = <<x, c.id>>
                BY <2>5
          <5>2. Stored(x, c.id)'
                BY <4>1, <5>1 DEF Stored
          <5>3. call.val # None
                BY <1>3, <5>1, <5>2
          <5> QED
              BY <1>3, <2>7, <4>1, <5>3 DEF Tables
        <4>2. CASE k # call.key
              BY <1>3, <4>2 DEF Types
        <4> QED
            BY <4>1, <4>2
      <3> QED
          BY <1>1, <3>1 DEF Types
    <2>9. Calls'
      <3> SUFFICES ASSUME todo' # <<>> PROVE Calls'
          BY DEF Calls
      <3>1. RelCalls(c.id, v, road)'
            BY <2>5, <2>6 DEF RelCalls
      <3> QED
          BY <1>1, <1>4, <1>5, <1>13, <2>1, <2>2, <2>4, <3>1 DEF Calls
    <2>10. NodeRows' /\ DeletedRows' /\ SilentRows'
          BY <1>11, <2>4, <2>7
    <2>11. WayRows'
      <3> SUFFICES ASSUME NEW w \in Ways PROVE WayRows!(w)'
          BY DEF WayRows
      <3>1. <<"ways", w>> # call.key /\ <<"areas", w>> # call.key
            BY <2>7
      <3>2. /\ Stored("ways", w)' <=> Stored("ways", w)
            /\ Stored("areas", w)' <=> Stored("areas", w)
            BY <1>3, <3>1
      <3>3. Settled(WayOps, w)' => Settled(WayOps, w)
            BY <1>9, <2>4
      <3> QED
          BY <1>1, <3>2, <3>3 DEF WayRows
    <2>12. RelRows'
      <3> SUFFICES ASSUME NEW r \in Rels, Settled(RelOps, r)' PROVE RelRow(r)'
          BY DEF RelRows
      <3>1. CASE r = c.id
        <4>1. todo' = <<>> /\ LastOf(at, RelOps, r)
              BY <1>9, <1>13, <3>1
        <4>2. c.val = world.rels[r]
              BY <1>4, <1>5, <4>1 DEF LastIsWorld
        <4>3. Stored("relations", r)' => c.val # None
              BY <2>1, <2>4, <2>6, <3>1
        <4>4. Stored("roads", r)' => c.val = "road" /\ road = v /\ v # None
              BY <2>2, <2>6, <3>1, <4>1
        <4> QED
            BY <1>1, <2>6, <3>1, <4>1, <4>2, <4>3, <4>4 DEF RelRow
      <3>2. CASE r # c.id
        <4>1. RelRow(r)
              BY <1>9, <3>2 DEF RelRows
        <4>2. <<"relations", r>> # call.key /\ <<"roads", r>> # call.key
              BY <2>7, <3>2
        <4>3. /\ Stored("relations", r)' <=> Stored("relations", r)
              /\ Stored("roads", r)' <=> Stored("roads", r)
              /\ Stored("relations", r) => rows'[<<"relations", r>>] = rows[<<"relations", r>>]
              /\ Stored("roads", r) => rows'[<<"roads", r>>] = rows[<<"roads", r>>]
              BY <1>3, <4>2 DEF Stored
        <4> QED
            BY <1>1, <4>1, <4>3 DEF RelRow
      <3> QED
          BY <3>1, <3>2
    <2> QED
        BY <1>8, <2>8, <2>9, <2>10, <2>11, <2>12
  <1> QED
      BY <1>6, <1>10, <1>12, <1>13, ChangeFacts

\* The diff is published, or its end is reached: only the stage changes.
LEMMA PublishKeeps == ASSUME RInv, Publish PROVE RInv'
  <1> USE DEF RInv
  <1>1. /\ UNCHANGED <<world, diff, base, overlay, pending, rows, todo, at, diffs, crashes>>
        /\ pc = "edit" /\ diff # <<>> /\ pc' = "apply" /\ at = 0 /\ todo = <<>>
        BY DEF Publish, memory, Stages
  <1>2. Types' /\ Stages' /\ Calls'
        BY <1>1 DEF Types, Stages, Calls
  <1>3. LastIsWorld' /\ CreatedAnew'
        BY <1>1 DEF LastIsWorld, CreatedAnew, LastOf, Of
  <1>4. NodeRows' /\ WayRows' /\ RelRows'
        BY <1>1 DEF NodeRows, NodeRow, WayRows, RelRows, RelRow, Settled, Of, Stored
  <1>5. DeletedRows' /\ SilentRows'
        BY <1>1 DEF DeletedRows, SilentRows, Silent, LastDone, Of, Stored
  <1>6. Located' /\ PendingIsNew' /\ OverlayIsCurrent'
    <2>1. 1..at' = {}
          BY <1>1
    <2> QED
        BY <1>1, <2>1 DEF Located, PendingIsNew, OverlayIsCurrent, LastDone, Of
  <1> QED
      BY <1>2, <1>3, <1>4, <1>5, <1>6

\* flush ends the diff: every change has been handled and pending_ is emptied.
LEMMA FlushKeeps == ASSUME RInv, flush PROVE RInv'
  <1> USE DEF RInv
  <1>1. /\ UNCHANGED <<world, diff, base, overlay, rows, todo, at, diffs, crashes>>
        /\ pc = "apply" /\ todo = <<>> /\ at = Len(diff) /\ pending' = Nowhere /\ pc' = "setSequence"
        BY DEF flush
  <1>2. Types' /\ Stages' /\ Calls'
    <2>1. Nowhere \in Places
          BY DEF Nowhere, Places
    <2> QED
        BY <1>1, <2>1 DEF Types, Stages, Calls
  <1>3. LastIsWorld' /\ CreatedAnew'
        BY <1>1 DEF LastIsWorld, CreatedAnew, LastOf, Of
  <1>4. NodeRows' /\ WayRows' /\ RelRows'
        BY <1>1 DEF NodeRows, NodeRow, WayRows, RelRows, RelRow, Settled, Of, Stored
  <1>5. DeletedRows' /\ SilentRows'
        BY <1>1 DEF DeletedRows, SilentRows, Silent, LastDone, Of, Stored
  <1>6. Located' /\ PendingIsNew' /\ OverlayIsCurrent'
    <2>1. \A n \in Nodes : pending'[n] = None
          BY <1>1 DEF Nowhere
    <2> QED
        BY <1>1, <2>1 DEF Located, PendingIsNew, OverlayIsCurrent, Of
  <1> QED
      BY <1>2, <1>3, <1>4, <1>5, <1>6

\* The stored sequence closes the diff, whose changes are all settled.
LEMMA SequenceKeeps == ASSUME RInv, setSequence PROVE RInv'
  <1> USE DEF RInv
  <1>1. /\ UNCHANGED <<world, base, overlay, pending, rows, todo, crashes>>
        /\ pc = "setSequence" /\ diff' = <<>> /\ at' = 0 /\ pc' = "edit" /\ diffs' = diffs + 1
        /\ todo = <<>> /\ at = Len(diff) /\ diff # <<>> /\ diffs < MaxDiffs /\ pending = Nowhere
        BY DEF setSequence, memory, Stages
  <1>2. Len(diff') = 0 /\ 1..Len(diff') = {} /\ 1..at' = {} /\ (at' + 1)..Len(diff') = {}
        BY <1>1
  <1>3. Len(diff) \in Nat /\ at \in Nat
        BY DiffFacts
  <1>4. \A ops, id : Settled(ops, id)
    <2>1. \A k \in 1..Len(diff) : k < at \/ k = at
          BY <1>1, <1>3
    <2> QED
        BY <1>1, <2>1 DEF Settled
  <1>5. (at + 1)..Len(diff) = {}
        BY <1>1, <1>3
  <1>6. Types'
    <2>1. diffs' \in 0..MaxDiffs /\ at' \in 0..Len(diff') /\ Len(diff') <= MaxEdits
          BY <1>1, <1>2, RegionalAssumption DEF Types
    <2>2. diff' \in Seq(Changes)
          BY <1>1
    <2> QED
        BY <1>1, <2>1, <2>2 DEF Types
  <1>7. Stages' /\ Calls'
        BY <1>1 DEF Stages, Calls
  <1>8. LastIsWorld' /\ CreatedAnew'
        BY <1>2 DEF LastIsWorld, CreatedAnew
  <1>9. NodeRows'
        BY <1>1, <1>4 DEF NodeRows, NodeRow, Stored
  <1>10. WayRows'
        BY <1>1, <1>4 DEF WayRows, Stored
  <1>11. RelRows'
        BY <1>1, <1>4 DEF RelRows, RelRow, Stored
  <1>12. DeletedRows' /\ SilentRows'
        BY <1>2 DEF DeletedRows, SilentRows, Silent
  <1>13. Located' /\ PendingIsNew'
    <2>1. \A n \in Nodes : pending'[n] = None
          BY <1>1 DEF Nowhere
    <2> QED
        BY <1>1, <2>1 DEF Located, PendingIsNew
  <1>14. OverlayIsCurrent'
        BY <1>1, <1>5 DEF OverlayIsCurrent
  <1> QED
      BY <1>6, <1>7, <1>8, <1>9, <1>10, <1>11, <1>12, <1>13, <1>14

\* After a crash the diff begins again: a change is settled again only when the
\* diff has none for its entity, and no node is located but by the installation.
LEMMA RestartKeeps == ASSUME RInv, Restart PROVE RInv'
  <1> USE DEF RInv
  <1>1. /\ UNCHANGED <<world, diff, base, rows, diffs>>
        /\ crashes < MaxCrashes /\ crashes' = crashes + 1 /\ overlay' = Nowhere /\ pending' = Nowhere
        /\ todo' = <<>> /\ at' = 0 /\ pc' = IF pc = "edit" THEN "edit" ELSE "apply"
        BY DEF Restart
  <1>2. Nowhere \in Places /\ \A n \in Nodes : Nowhere[n] = None
        BY DEF Nowhere, Places
  <1>3. Len(diff) \in Nat /\ 1..at' = {}
        BY <1>1, DiffFacts
  <1>4. \A k, ops, id : Of(k, ops, id)' <=> Of(k, ops, id)
        BY <1>1 DEF Of
  <1>5. \A t, id : Stored(t, id)' <=> Stored(t, id)
        BY <1>1 DEF Stored
  <1>6. ASSUME NEW ops, NEW id, Settled(ops, id)' PROVE Settled(ops, id)
    <2>1. \A k \in 1..Len(diff) : ~(k < 0) /\ k # 0
          BY <1>3
    <2> QED
        BY <1>1, <1>4, <1>6, <2>1 DEF Settled
  <1>7. Types'
    <2>1. crashes' \in 0..MaxCrashes /\ at' \in 0..Len(diff')
          BY <1>1, <1>3, RegionalAssumption DEF Types
    <2> QED
        BY <1>1, <1>2, <2>1 DEF Types
  <1>8. Stages' /\ Calls'
        BY <1>1 DEF Stages, Calls
  <1>9. LastIsWorld' /\ CreatedAnew'
        BY <1>1 DEF LastIsWorld, CreatedAnew, LastOf, Of
  <1>10. NodeRows'
        BY <1>1, <1>5, <1>6 DEF NodeRows, NodeRow
  <1>11. WayRows'
        BY <1>1, <1>5, <1>6 DEF WayRows
  <1>12. RelRows'
        BY <1>1, <1>5, <1>6 DEF RelRows, RelRow
  <1>13. DeletedRows' /\ SilentRows'
        BY <1>1, <1>3, <1>5 DEF DeletedRows, SilentRows, Silent, Of
  <1>14. Located' /\ PendingIsNew' /\ OverlayIsCurrent'
        BY <1>1, <1>2, <1>3 DEF Located, PendingIsNew, OverlayIsCurrent
  <1> QED
      BY <1>7, <1>8, <1>9, <1>10, <1>11, <1>12, <1>13, <1>14

----------------------------------------------------------------------------
(* The specification *)

\* An installed bundle satisfies the invariant before the first diff.
LEMMA RegionalInit == Init => RInv
  <1> SUFFICES ASSUME Init PROVE RInv
      OBVIOUS
  <1>1. /\ world \in World /\ rows = Export(world) /\ overlay = Nowhere /\ pending = Nowhere
        /\ base = [n \in Nodes |-> IF n \in Bundle(world) THEN world.pos[n] ELSE None]
        /\ diff = <<>> /\ todo = <<>> /\ pc = "edit" /\ at = 0 /\ diffs = 0 /\ crashes = 0
        BY RegionalAssumption DEF Init, World, Places
  <1>2. world.pos \in Places /\ Nowhere \in Places /\ \A n \in Nodes : Nowhere[n] = None
        BY <1>1 DEF World, Nowhere, Places
  <1>3. Len(diff) = 0 /\ 1..Len(diff) = {} /\ 1..at = {}
        BY <1>1
  <1> DEFINE nodeKeys == {<<"nodes", n>> : n \in {m \in Nodes : world.tags[m] /\ world.pos[m] \in Inside}}
             local == {w \in Ways : inRegion(WorldGeom(world, w))}
             wayKeys == {<<IF Closed(WorldGeom(world, w)) THEN "areas" ELSE "ways", w>> : w \in local}
  <1>4. rows = [k \in nodeKeys \cup wayKeys |->
                  IF k[1] = "nodes" THEN <<world.pos[k[2]]>> ELSE WorldGeom(world, k[2])]
        BY <1>1, Zenon DEF Export
  <1>5. DOMAIN rows = nodeKeys \cup wayKeys
        BY <1>4
  <1>6. ASSUME NEW n \in Nodes
        PROVE  /\ Stored("nodes", n) <=> world.tags[n] /\ world.pos[n] \in Inside
               /\ Stored("nodes", n) => rows[<<"nodes", n>>] = <<world.pos[n]>>
    <2>1. <<"nodes", n>> \notin wayKeys
          OBVIOUS
    <2>2. <<"nodes", n>> \in nodeKeys <=> world.tags[n] /\ world.pos[n] \in Inside
          OBVIOUS
    <2> QED
        BY <1>4, <1>5, <2>1, <2>2 DEF Stored
  <1>7. ASSUME NEW w \in Ways, NEW t \in {"ways", "areas"}, Stored(t, w)
        PROVE  w \in local /\ t = (IF Closed(WorldGeom(world, w)) THEN "areas" ELSE "ways")
    <2>1. <<t, w>> \in wayKeys
          BY <1>5, <1>7 DEF Stored
    <2> QED
        BY <2>1
  <1>8. ASSUME NEW r, NEW t \in {"relations", "roads"} PROVE ~Stored(t, r)
        BY <1>5 DEF Stored
  <1>9. ASSUME NEW k \in DOMAIN rows PROVE k[1] \in Tables /\ rows[k] \in Geoms
    <2>1. CASE k \in nodeKeys
      <3>1. PICK n \in Nodes : k = <<"nodes", n>> /\ world.pos[n] \in Inside
            BY <2>1
      <3>2. rows[k] = <<world.pos[n]>> /\ k[1] = "nodes"
            BY <1>4, <1>9, <3>1
      <3>3. world.pos[n] \in Positions
            BY <3>1, RegionalAssumption
      <3> QED
          BY <3>2, <3>3 DEF Geoms, Tables
    <2>2. CASE k \in wayKeys
      <3>1. PICK w \in Ways, t \in {"ways", "areas"} : k = <<t, w>>
            BY <2>2
      <3>2. rows[k] = WorldGeom(world, w) /\ k[1] = t
            BY <1>4, <1>9, <3>1
      <3> QED
          BY <1>1, <3>2, WorldGeomType DEF Tables
    <2> QED
        BY <1>5, <2>1, <2>2
  <1>10. base \in Places
        BY <1>1, <1>2 DEF Places
  <1> HIDE DEF nodeKeys, local, wayKeys
  <1>11. Types
    <2>1. diff \in Seq(Changes) /\ at \in 0..Len(diff) /\ Len(diff) <= MaxEdits
          /\ diffs \in 0..MaxDiffs /\ crashes \in 0..MaxCrashes
          BY <1>1, <1>3, RegionalAssumption
    <2> QED
        BY <1>1, <1>2, <1>9, <1>10, <2>1 DEF Types
  <1>12. Stages /\ Calls /\ LastIsWorld /\ CreatedAnew
        BY <1>1, <1>3 DEF Stages, Calls, LastIsWorld, CreatedAnew
  <1>13. NodeRows
        BY <1>6 DEF NodeRows, NodeRow
  <1>14. WayRows
    <2> SUFFICES ASSUME NEW w \in Ways
                 PROVE  /\ ~(Stored("ways", w) /\ Stored("areas", w))
                        /\ Stored("ways", w) \/ Stored("areas", w) => world.refs[w] # None
        BY DEF WayRows
    <2>1. ~(Stored("ways", w) /\ Stored("areas", w))
          BY <1>7
    <2>2. ASSUME Stored("ways", w) \/ Stored("areas", w), world.refs[w] = None PROVE FALSE
      <3>1. inRegion(WorldGeom(world, w))
            BY <1>7, <2>2 DEF local
      <3>2. WorldGeom(world, w) = <<>>
            BY <1>1, <2>2, WorldGeomType
      <3> QED
          BY <3>1, <3>2 DEF inRegion
    <2> QED
        BY <2>1, <2>2
  <1>15. RelRows
        BY <1>8 DEF RelRows, RelRow
  <1>16. DeletedRows /\ SilentRows
        BY <1>3 DEF DeletedRows, SilentRows, Silent
  <1>17. Located /\ PendingIsNew /\ OverlayIsCurrent
        BY <1>1, <1>2 DEF Located, PendingIsNew, OverlayIsCurrent
  <1> QED
      BY <1>11, <1>12, <1>13, <1>14, <1>15, <1>16, <1>17 DEF RInv

\* Every step keeps the invariant.
LEMMA RegionalNext == RInv /\ [Next]_vars => RInv'
  <1> SUFFICES ASSUME RInv, [Next]_vars PROVE RInv'
      OBVIOUS
  <1>1. CASE Mappers
        BY <1>1, MappersKeep
  <1>2. CASE Publish
        BY <1>2, PublishKeeps
  <1>3. CASE createNode
        BY <1>3, CreateNodeKeeps
  <1>4. CASE modifyNode
        BY <1>4, ModifyNodeKeeps
  <1>5. CASE deleteNode
        BY <1>5, DeleteNodeKeeps
  <1>6. CASE upsertWay
        BY <1>6, UpsertWayKeeps
  <1>7. CASE deleteWay
        BY <1>7, DeleteWayKeeps
  <1>8. CASE upsertRelation
        BY <1>8, UpsertRelationKeeps
  <1>9. CASE deleteRelation
        BY <1>9, DeleteRelationKeeps
  <1>10. CASE Commit
        BY <1>10, CommitKeeps
  <1>11. CASE flush
        BY <1>11, FlushKeeps
  <1>12. CASE setSequence
        BY <1>12, SequenceKeeps
  <1>13. CASE Restart
        BY <1>13, RestartKeeps
  <1>14. CASE UNCHANGED vars
    <2>1. UNCHANGED <<world, diff, base, overlay, pending, rows, todo, pc, at, diffs, crashes>>
          BY <1>14 DEF vars
    <2>2. (Types /\ Stages /\ Calls)'
          BY <2>1 DEF RInv, Types, Stages, Calls, WayCalls, RelCalls, Stored
    <2>3. (LastIsWorld /\ CreatedAnew)'
          BY <2>1 DEF RInv, LastIsWorld, CreatedAnew, LastOf, Of
    <2>4. (NodeRows /\ WayRows /\ RelRows)'
          BY <2>1 DEF RInv, NodeRows, NodeRow, WayRows, RelRows, RelRow, Settled, Of, Stored
    <2>5. (DeletedRows /\ SilentRows)'
          BY <2>1 DEF RInv, DeletedRows, SilentRows, Silent, LastDone, Of, Stored
    <2>6. (Located /\ PendingIsNew /\ OverlayIsCurrent)'
          BY <2>1 DEF RInv, Located, PendingIsNew, OverlayIsCurrent, LastDone, Of, resolve
    <2> QED
        BY <2>2, <2>3, <2>4, <2>5, <2>6 DEF RInv
  <1> QED
      BY <1>1, <1>2, <1>3, <1>4, <1>5, <1>6, <1>7, <1>8, <1>9, <1>10, <1>11, <1>12, <1>13, <1>14
         DEF Next, apply

\* The inductive invariant of the regional diff application holds in every
\* behaviour: diffs of any length, interrupted and replayed any number of times.
THEOREM RegionalInvariant == Spec => []RInv
  BY RegionalInit, RegionalNext, PTL DEF Spec

----------------------------------------------------------------------------
(* The properties the runs check *)

\* When a diff has been applied, each of its changes is settled.
LEMMA AppliedIsSettled ==
    ASSUME RInv, Applied
    PROVE  /\ \A ops, id : Settled(ops, id)
           /\ pending = Nowhere /\ (at + 1)..Len(diff) = {}
  <1>1. Len(diff) \in Nat /\ at \in Nat /\ at = Len(diff) /\ todo = <<>> /\ pending = Nowhere
    <2>1. Len(diff) \in Nat /\ at \in Nat
          BY DiffFacts DEF RInv
    <2>2. diff = <<>> => Len(diff) = 0
          OBVIOUS
    <2>3. /\ pc = "setSequence" => at = Len(diff) /\ todo = <<>>
          /\ pc = "edit" => at = 0 /\ todo = <<>>
          /\ pc # "apply" => pending = Nowhere
          BY DEF RInv, Stages
    <2>4. pc = "setSequence" \/ (pc = "edit" /\ diff = <<>>)
          BY DEF Applied
    <2> QED
        BY <2>1, <2>2, <2>3, <2>4
  <1>2. \A k \in 1..Len(diff) : k < at \/ k = at
        BY <1>1
  <1>3. (at + 1)..Len(diff) = {}
        BY <1>1
  <1> QED
      BY <1>1, <1>2, <1>3 DEF Settled

\* The last change of a node in the applied part of the diff is the one whose
\* position LastPosition takes.
LEMMA LastPositionFacts ==
    ASSUME Types, NEW n \in Nodes, NodeChanges(n) # {}
    PROVE  \E k \in 1..at : LastDone(k, n) /\ LastPosition(n) = diff[k].val
  <1>1. at \in Nat
        BY DiffFacts
  <1>2. NodeChanges(n) \in SUBSET (0..at)
        BY <1>1 DEF NodeChanges
  <1>3. \E k \in NodeChanges(n) : \A j \in NodeChanges(n) : j <= k
        BY <1>1, <1>2, GreatestElement, Zenon
  <1>4. PICK k : k = CHOOSE i \in NodeChanges(n) : \A j \in NodeChanges(n) : j <= i
        OBVIOUS
  <1>5. k \in NodeChanges(n) /\ \A j \in NodeChanges(n) : j <= k
        BY <1>3, <1>4
  <1>6. k \in 1..at /\ Of(k, NodeOps, n)
        BY <1>5 DEF NodeChanges, Of, NodeOps
  <1>7. \A j \in (k + 1)..at : ~Of(j, NodeOps, n)
    <2>1. \A j \in (k + 1)..at : j \in 1..at /\ ~(j <= k)
          BY <1>1, <1>6
    <2> QED
        BY <1>5, <2>1 DEF NodeChanges, Of, NodeOps
  <1> QED
      BY <1>4, <1>6, <1>7 DEF LastDone, LastPosition

\* What the invariant says about the state the runs look at.
LEMMA RegionalConsequences ==
    RInv => /\ TypeOK /\ NodeRowsExact /\ WayInOneTable /\ NoGhostRows
            /\ NewVertexResolves /\ OverlayIsNeeded
  <1> SUFFICES ASSUME RInv
               PROVE  /\ TypeOK /\ NodeRowsExact /\ WayInOneTable /\ NoGhostRows
                      /\ NewVertexResolves /\ OverlayIsNeeded
      OBVIOUS
  <1>1. TypeOK
    <2>1. Len(todo) <= 2
      <3>1. todo = <<>> \/ (\E a : todo = <<a>>) \/ (\E a, b : todo = <<a, b>>)
        <4> SUFFICES ASSUME todo # <<>> PROVE (\E a : todo = <<a>>) \/ (\E a, b : todo = <<a, b>>)
            OBVIOUS
        <4>1. PICK c : c = diff[at]
              OBVIOUS
        <4>2. c \in Changes
          <5>1. at \in 1..Len(diff)
                BY DiffFacts DEF RInv, Calls
          <5> QED
              BY <4>1, <5>1, DiffFacts DEF RInv
        <4>3. CASE c.op \in NodeOps
              BY <4>1, <4>3, Zenon DEF RInv, Calls
        <4>4. CASE c.op \in WayOps
          <5>1. \E t, u, v : WayCalls(c.id, t, u, v)
                BY <4>1, <4>4, Zenon DEF RInv, Calls
          <5> QED
              BY <5>1, Zenon DEF WayCalls
        <4>5. CASE c.op \in RelOps
          <5>1. \E v, road : RelCalls(c.id, v, road)
                BY <4>1, <4>5, Zenon DEF RInv, Calls
          <5> QED
              BY <5>1, Zenon DEF RelCalls
        <4> QED
            BY <4>2, <4>3, <4>4, <4>5, ChangeFacts
      <3>2. Len(<<>>) <= 2 /\ (\A a : Len(<<a>>) <= 2) /\ (\A a, b : Len(<<a, b>>) <= 2)
            OBVIOUS
      <3> QED
          BY <3>1, <3>2, Zenon
    <2> QED
        BY <2>1 DEF RInv, Types, TypeOK, Geoms
  <1>2. NodeRowsExact
        BY AppliedIsSettled DEF RInv, NodeRows, NodeRow, NodeRowsExact
  <1>3. WayInOneTable
        BY DEF RInv, WayRows, WayInOneTable
  <1>4. NoGhostRows
        BY AppliedIsSettled DEF RInv, WayRows, RelRows, RelRow, NoGhostRows
  <1>5. NewVertexResolves
        BY LastPositionFacts DEF RInv, Located, NewVertexResolves
  <1>6. OverlayIsNeeded
        BY AppliedIsSettled DEF RInv, OverlayIsCurrent, OverlayIsNeeded, Nowhere
  <1> QED
      BY <1>1, <1>2, <1>3, <1>4, <1>5, <1>6

\* Every variable of the regional diff application has its type.
THEOREM RegionalTypes == Spec => []TypeOK
  BY RegionalInvariant, RegionalConsequences, PTL

\* After every diff, whatever crashed and was replayed in it, the nodes table of
\* the region has exactly its tagged nodes, at their current positions.
THEOREM NodeRowsAreExact == Spec => []NodeRowsExact
  BY RegionalInvariant, RegionalConsequences, PTL

\* No crash between the two transactions of a way leaves it in ways and areas.
THEOREM WaysInOneTable == Spec => []WayInOneTable
  BY RegionalInvariant, RegionalConsequences, PTL

\* After every diff no row is left of what OSM deleted, and a road is a relation
\* with the same geometry.
THEOREM NoRowsOfDeleted == Spec => []NoGhostRows
  BY RegionalInvariant, RegionalConsequences, PTL

\* A node of the diff can be located by every later way of the diff.
THEOREM NewVerticesResolve == Spec => []NewVertexResolves
  BY RegionalInvariant, RegionalConsequences, PTL

\* overlay_ has no node the installation has, and after a diff no deleted one.
THEOREM OverlaysAreNeeded == Spec => []OverlayIsNeeded
  BY RegionalInvariant, RegionalConsequences, PTL
====
