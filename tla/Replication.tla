---------------------------- MODULE Replication ----------------------------
(***************************************************************************)
(* Poll mode of gpsxdb: Replicator::poll (src/src/Replicator.cpp) applying *)
(* numbered diffs through DeltaApplier to two stores that share no         *)
(* transaction, the node store nodes.dat and the PostgreSQL database,      *)
(* which also holds the sequence number of the last applied diff.          *)
(*                                                                         *)
(* The diffs are one stream of changes 1..NChanges; diff s is the changes  *)
(* End[s-1]+1 .. End[s].  What a store holds for an entity is abstracted   *)
(* to the position of the change that wrote it (its stamp), 0 when it      *)
(* holds no complete version.  A way's geometry is the stamps of the node  *)
(* positions it was built from.                                            *)
(*                                                                         *)
(* The process may crash, be stopped and be restarted by systemd           *)
(* (Restart=always, setup_regional_server.sh) at any point.  Postgres runs *)
(* with synchronous_commit=off: its crash loses the commits since the last *)
(* WAL flush, and nodes.dat does not roll back with it.                    *)
(***************************************************************************)
EXTENDS Integers

CONSTANTS
    Nodes, Ways,   \* the entities; relations behave as ways without nodes
    Refs,          \* the nodes of each way
    NChanges,      \* length of the change stream
    Ent,           \* the entity of each change
    Untagged,      \* the changes that create a node without tags
    MaxSeq,        \* the last diff published
    End,           \* End[s]: position of the last change of diff s
    MaxFaults      \* bound on crashes, failures, stops and -Q restarts

Ents == Nodes \cup Ways
Stamps == 0..NChanges

ASSUME ReplicationAssumption ==
    /\ NChanges \in Nat /\ MaxSeq \in Nat /\ MaxFaults \in Nat
    /\ Nodes \cap Ways = {}
    /\ Refs \in [Ways -> SUBSET Nodes]
    /\ Ent \in [1..NChanges -> Ents]
    /\ Untagged \subseteq {p \in 1..NChanges : Ent[p] \in Nodes}
    /\ End \in [0..MaxSeq -> Stamps]
    /\ \A s, t \in 0..MaxSeq : s <= t => End[s] <= End[t]

VARIABLES
    nd,       \* nodes.dat: stamp of each node's coordinates
    db,       \* the tables: stamp of each entity's rows
    geom,     \* the tables: the node stamps in each way's geometry
    seq,      \* external_data_state 'osm'
    durable,  \* what of <<db, geom, seq>> has reached the disk
    conn,     \* the process's connection is alive
    remote,   \* sequenceNumber of the server's state.txt
    pc,       \* where the process is
    local,    \* poll(): local
    rem,      \* poll(): remote
    cur,      \* poll(): the diff of the inner loop
    pos,      \* the last change applied by this process
    faults,   \* faults so far
    high,     \* history: the highest change ever begun
    cutoff,   \* history: the change up to which the planet file was current
    undone    \* history: a Postgres crash rolled back a -Q restart

vars == <<nd, db, geom, seq, durable, conn, remote, pc, local, rem, cur, pos,
          faults, high, cutoff, undone>>

tables  == <<db, geom, seq>>
loop    == <<local, rem, cur, pos>>
history == <<high, cutoff, undone>>

----------------------------------------------------------------------------
\* stamp is the last of e's changes among the first n.
IsLatest(e, stamp, n) ==
    /\ stamp # 0 => Ent[stamp] = e
    /\ stamp <= n
    /\ \A p \in 1..n : Ent[p] = e => p <= stamp

\* buildWayGeom: the positions nodes.dat has for the way's nodes.
buildWayGeom(w, store) ==
    [n \in Nodes |-> IF n \in Refs[w] THEN store[n] ELSE 0]

\* A fresh import of a planet file current up to `cutoff', whose sequence is
\* seeded at or before that point (estimatePlanetReplicationSequence).
Init ==
    /\ cutoff \in Stamps
    /\ nd \in [Nodes -> Stamps] /\ \A n \in Nodes : IsLatest(n, nd[n], cutoff)
    /\ db \in [Ents -> Stamps] /\ \A e \in Ents : IsLatest(e, db[e], cutoff)
    /\ geom = [w \in Ways |-> buildWayGeom(w, nd)]
    /\ seq \in 0..MaxSeq /\ End[seq] <= cutoff
    /\ durable = tables
    /\ conn = FALSE
    /\ remote = seq
    /\ pc = "down"
    /\ local = -1 /\ rem = 0 /\ cur = 0 /\ pos = 0
    /\ faults = 0
    /\ high = cutoff
    /\ undone = FALSE

Fault == faults < MaxFaults /\ faults' = faults + 1

----------------------------------------------------------------------------
(* Environment *)

\* The server publishes the next diff.
Publish ==
    /\ remote < MaxSeq
    /\ remote' = remote + 1
    /\ UNCHANGED <<nd, tables, durable, conn, pc, loop, faults, history>>

\* The WAL writer makes all commits so far durable.
WalFlush ==
    /\ durable # tables
    /\ durable' = tables
    /\ UNCHANGED <<nd, tables, conn, remote, pc, loop, faults, history>>

\* Postgres crashes and recovers: the tables roll back, nodes.dat does not.
DbCrash ==
    /\ Fault
    /\ db' = durable[1] /\ geom' = durable[2] /\ seq' = durable[3]
    /\ conn' = FALSE
    /\ undone' = (undone \/ durable[3] > seq)
    /\ UNCHANGED <<nd, durable, remote, pc, loop, high, cutoff>>

----------------------------------------------------------------------------
(* The poll process *)

stores == <<nd, db, geom, durable>>

Exit == pc' = "down"

\* The service starts without -Q.
Start ==
    /\ pc = "down"
    /\ conn' = TRUE
    /\ pc' = "poll"
    /\ UNCHANGED <<stores, seq, remote, loop, faults, history>>

\* An operator starts it with -Q to repeat diffs.
StartAt ==
    /\ pc = "down" /\ Fault
    /\ \E q \in 0..seq : seq' = q
    /\ conn' = TRUE
    /\ pc' = "poll"
    /\ UNCHANGED <<stores, remote, loop, history>>

\* getSequence: any database error reads as -1.
ReadLocal ==
    /\ pc = "poll"
    /\ \/ conn /\ local' = seq /\ UNCHANGED faults
       \/ ~conn /\ local' = -1 /\ UNCHANGED faults
       \/ conn /\ local' = -1 /\ Fault
    /\ pc' = "state"
    /\ UNCHANGED <<stores, seq, conn, remote, rem, cur, pos, history>>

\* remoteSequence: download and parse state.txt.
ReadRemote ==
    /\ pc = "state"
    /\ rem' = remote
    /\ pc' = "compare"
    /\ UNCHANGED <<stores, seq, conn, remote, local, cur, pos, faults, history>>

\* remoteSequence or an external-data check throws: sleep and retry.
Retry ==
    /\ pc = "state" \/ (pc = "download" /\ cur > local + 1)
    /\ Fault
    /\ pc' = "poll"
    /\ UNCHANGED <<stores, seq, conn, remote, loop, history>>

\* local < 0: "No local sequence number", leave the loop.
NoSequence ==
    /\ pc = "compare" /\ local < 0
    /\ Exit
    /\ UNCHANGED <<stores, seq, conn, remote, loop, faults, history>>

\* Mutant of UpToDate: one diff behind counts as up to date.
UpToDateOffByOne ==
    /\ pc = "compare" /\ local >= 0 /\ local >= rem - 1
    /\ pc' = "poll"
    /\ UNCHANGED <<stores, seq, conn, remote, loop, faults, history>>

\* local >= remote: sleep, then poll again.
UpToDate ==
    /\ pc = "compare" /\ local >= 0 /\ local >= rem
    /\ pc' = "poll"
    /\ UNCHANGED <<stores, seq, conn, remote, loop, faults, history>>

\* Mutant of Behind: the loop starts one diff late.
BehindSkips ==
    /\ pc = "compare" /\ local >= 0 /\ local < rem
    /\ cur' = local + 2
    /\ pc' = "download"
    /\ UNCHANGED <<stores, seq, conn, remote, local, rem, pos, faults, history>>

\* Enter the inner loop at local + 1.
Behind ==
    /\ pc = "compare" /\ local >= 0 /\ local < rem
    /\ cur' = local + 1
    /\ pc' = "download"
    /\ UNCHANGED <<stores, seq, conn, remote, local, rem, pos, faults, history>>

\* Mutant of Download: setSequence comes before the apply.
DownloadSetsSequence ==
    /\ pc = "download"
    /\ pos' = End[cur - 1]
    /\ seq' = cur
    /\ pc' = "apply"
    /\ UNCHANGED <<stores, conn, remote, local, rem, cur, faults, history>>

\* downloadAndApply: the diff is fetched.
Download ==
    /\ pc = "download"
    /\ pos' = End[cur - 1]
    /\ pc' = "apply"
    /\ UNCHANGED <<stores, seq, conn, remote, local, rem, cur, faults, history>>

Begun(p) == high' = IF p > high THEN p ELSE high

\* Mutant of ApplyNode: a node with tags goes to the tables only.
ApplyNodeOnlyUntagged ==
    /\ pc = "apply" /\ pos < End[cur]
    /\ Ent[pos + 1] \in Nodes
    /\ nd' = IF pos + 1 \in Untagged THEN [nd EXCEPT ![Ent[pos + 1]] = pos + 1] ELSE nd
    /\ Begun(pos + 1)
    /\ pc' = "rows"
    /\ UNCHANGED <<tables, durable, conn, remote, loop, faults, cutoff,
                   undone>>

\* createNode, modifyNode, deleteNode: the node store is written first.
ApplyNode ==
    /\ pc = "apply" /\ pos < End[cur]
    /\ Ent[pos + 1] \in Nodes
    /\ nd' = [nd EXCEPT ![Ent[pos + 1]] = pos + 1]
    /\ Begun(pos + 1)
    /\ pc' = "rows"
    /\ UNCHANGED <<tables, durable, conn, remote, loop, faults, cutoff,
                   undone>>

\* upsertWay, deleteWay, upsertRelation, deleteRelation: the first of the
\* handler's two transactions may leave no complete version in the tables.
\* A changed way has two located nodes: the early return on an empty geometry,
\* which leaves the older rows alone, is not taken.
ApplyWay ==
    /\ pc = "apply" /\ pos < End[cur] /\ conn
    /\ Ent[pos + 1] \in Ways
    /\ \E partial \in {0, db[Ent[pos + 1]]} :
           db' = [db EXCEPT ![Ent[pos + 1]] = partial]
    /\ Begun(pos + 1)
    /\ pc' = "rows"
    /\ UNCHANGED <<nd, geom, seq, durable, conn, remote, loop, faults, cutoff,
                   undone>>

\* Mutant of CommitRows: INSERT ... ON CONFLICT DO NOTHING.
CommitRowsKeepsOld ==
    /\ pc = "rows" /\ conn
    /\ LET p == pos + 1
           e == Ent[p]
       IN  /\ db' = [db EXCEPT ![e] = IF @ > 0 THEN @ ELSE p]
           /\ geom' = IF e \in Ways
                        THEN [geom EXCEPT ![e] = buildWayGeom(e, nd)]
                        ELSE geom
           /\ pos' = p
    /\ pc' = "apply"
    /\ UNCHANGED <<nd, seq, durable, conn, remote, local, rem, cur, faults, history>>

\* The handler's (last) transaction commits.  createNode makes none for a node
\* without tags: rows of a later change stay, a dead connection is not noticed.
CommitRows ==
    /\ pc = "rows"
    /\ conn \/ pos + 1 \in Untagged
    /\ LET p == pos + 1
           e == Ent[p]
       IN  /\ db' = [db EXCEPT ![e] =
                         IF p \in Untagged /\ (@ > p \/ ~conn) THEN @ ELSE p]
           /\ geom' = IF e \in Ways
                        THEN [geom EXCEPT ![e] = buildWayGeom(e, nd)]
                        ELSE geom
           /\ pos' = p
    /\ pc' = "apply"
    /\ UNCHANGED <<nd, seq, durable, conn, remote, local, rem, cur, faults, history>>

\* Mutant of SetSequence: the server's sequence is stored.
SetSequenceRemote ==
    /\ pc = "apply" /\ pos = End[cur] /\ conn
    /\ seq' = rem
    /\ IF cur < rem
         THEN cur' = cur + 1 /\ pc' = "download"
         ELSE cur' = cur /\ pc' = "poll"
    /\ UNCHANGED <<stores, conn, remote, local, rem, pos, faults, history>>

\* The diff is applied: setSequence, and on to the next one.
SetSequence ==
    /\ pc = "apply" /\ pos = End[cur] /\ conn
    /\ seq' = cur
    /\ IF cur < rem
         THEN cur' = cur + 1 /\ pc' = "download"
         ELSE cur' = cur /\ pc' = "poll"
    /\ UNCHANGED <<stores, conn, remote, local, rem, pos, faults, history>>

\* The next statement of the process needs the database.
UsesDatabase ==
    \/ pc = "rows" /\ pos + 1 \notin Untagged
    \/ pc = "apply" /\ (pos < End[cur] => Ent[pos + 1] \in Ways)

\* A transaction fails, always so on a dead connection, or the download does:
\* "Stopping due to error", g_stop.
StopOnError ==
    /\ \/ UsesDatabase /\ ~conn /\ UNCHANGED faults
       \/ (UsesDatabase \/ pc = "download") /\ Fault
    /\ Exit
    /\ UNCHANGED <<stores, seq, conn, remote, loop, history>>

\* SIGINT or SIGTERM, honoured at the head of either loop.
Stop ==
    /\ pc \in {"poll", "download"} /\ Fault
    /\ Exit
    /\ UNCHANGED <<stores, seq, conn, remote, loop, history>>

\* The process dies.
Crash ==
    /\ pc # "down" /\ Fault
    /\ Exit
    /\ UNCHANGED <<stores, seq, conn, remote, loop, history>>

Apply == ApplyNode \/ ApplyWay \/ CommitRows \/ SetSequence

Poll ==
    \/ ReadLocal \/ ReadRemote \/ Retry
    \/ NoSequence \/ UpToDate \/ Behind \/ Download
    \/ Apply \/ StopOnError

Next ==
    \/ Publish \/ WalFlush \/ DbCrash
    \/ Start \/ StartAt \/ Poll \/ Stop \/ Crash

Spec == Init /\ [][Next]_vars

\* systemd restarts the service whenever it exits, the scheduler runs it, and
\* faults are bounded.
FairSpec == Spec /\ WF_vars(Start) /\ WF_vars(Poll)

----------------------------------------------------------------------------
(* Properties *)

\* Every variable has its type.
TypeOK ==
    /\ nd \in [Nodes -> Stamps]
    /\ db \in [Ents -> Stamps]
    /\ geom \in [Ways -> [Nodes -> Stamps]]
    /\ seq \in 0..MaxSeq
    /\ durable \in [Ents -> Stamps] \X [Ways -> [Nodes -> Stamps]] \X (0..MaxSeq)
    /\ conn \in BOOLEAN
    /\ remote \in 0..MaxSeq
    /\ pc \in {"down", "poll", "state", "compare", "download", "apply", "rows"}
    /\ local \in -1..MaxSeq
    /\ rem \in 0..MaxSeq
    /\ cur \in 0..MaxSeq
    /\ pos \in Stamps
    /\ faults \in 0..MaxFaults
    /\ high \in Stamps
    /\ cutoff \in Stamps
    /\ undone \in BOOLEAN

\* nodes.dat has the first n changes, or newer positions.
NodesCover(store, n) == \A p \in 1..n : Ent[p] \in Nodes => store[Ent[p]] >= p

\* The tables have the first n changes, or newer rows; only an entity that a
\* later change, up to top, has begun to replace may have none.
RowsCover(rows, n, top) ==
    \A p \in 1..n :
        rows[Ent[p]] >= p \/ \E q \in (n + 1)..top : Ent[q] = Ent[p]

\* Each way's geometry has its nodes as of the way's version, or newer.
GeomCovers(rows, geoms) ==
    \A w \in Ways : \A n \in Refs[w] : \A p \in 1..rows[w] :
        Ent[p] = n => geoms[w][n] >= p

\* The stored sequence never runs ahead of the data: every change of the diffs
\* it claims is in the tables, on disk as well as in memory, and in nodes.dat,
\* whatever crashed in between.  For nodes.dat this needs that no Postgres crash
\* rolled back a -Q restart: poll() has then overwritten it with older positions
\* that the restored sequence will not replay.
NeverStale ==
    /\ RowsCover(db, End[seq], high)
    /\ RowsCover(durable[1], End[durable[3]], high)
    /\ ~undone => NodesCover(nd, End[seq])

\* Once every change that was ever begun is covered by the sequence, replays
\* included, both stores hold exactly the latest change of every entity.
CaughtUpIsExact ==
    End[seq] >= high =>
        /\ \A e \in Ents : IsLatest(e, db[e], End[seq])
        /\ ~undone => \A n \in Nodes : IsLatest(n, nd[n], End[seq])

\* A way's geometry is never built from node positions older than the way
\* version it belongs to, also when diffs are replayed over newer data.
GeometryAsOfWay == ~undone => GeomCovers(db, geom)

\* What PlanetDownloader.h says of the early seed: replaying changes that the
\* planet file already had is harmless.  After replaying up to the cutoff, every
\* way's geometry is again the one the import built.
ReplayIsHarmless ==
    (End[seq] = cutoff /\ high = cutoff /\ ~undone) =>
        \A w \in Ways : \A n \in Refs[w] : IsLatest(n, geom[w][n], cutoff)

\* The sequence moves forward only one diff at a time and only when all changes
\* of that diff are in the tables; it moves back only through -Q, and otherwise
\* only with a rollback of the whole database.
NoSkippedDiff ==
    [][seq' > seq =>
          \/ seq' = seq + 1 /\ RowsCover(db, End[seq'], high)
          \/ <<db', geom', seq'>> = durable]_vars

\* With finitely many faults and diffs, the database ends up at the server's
\* sequence: no exit, lost connection or failed download is final.
EventuallyCaughtUp == <>[](seq = remote)
=============================================================================
