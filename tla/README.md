# A TLA+ verification of gpsxdb

gpsxdb loads OpenStreetMap into PostgreSQL/PostGIS, keeps the database current
from the OSM replication diffs, and adds airports, obstacles, airspace, terrain
and magnetic declination.  This directory models the parts of it that carry
state through threads, crashes and replays.  TLC checks the models on small
instances; TLAPS proves every safety property that a passing run checks, and the safety
part of a refinement, for every instance.  Paths below are relative to the repository's root.

## 1. Inventory

| Component | State it keeps | Operations | Hard behaviour |
|---|---|---|---|
| Node store, merged file (`src/OSMMMap.cpp`) | `nodes.dat` (16 bytes per node id), `nodes.dat.bmp` (one bit per id), their mapped sizes | `update`, `remove`, `select`, growth in place, open with `-n`, close | two files without a common transaction; a process dying between two stores or ftruncates; sizes at a byte boundary |
| Node store, shards and merge | LZ4 shard files, their writers' buffers, chunk bitmaps | `insert`, `merge`, shard removal | tails in memory while the merge runs |
| Bulk importer (`src/main.cpp`) | bounded queues, two barriers, `merge_done`, resume-offset files, per-thread buffers | producer loop, `nodeThread`, `wayThread`, `-R` resume | lock-free lookups by way threads, relations that read ways other threads have buffered, termination, resume after a crash |
| Import buffers (`src/NavDB.cpp`) | `node_buf_`, `way_buf_`, `area_buf_`, `relation_buf_`, tag buffers | `insert*`, `flush*`, `finalize_*`, destructor | flush order, rejected rows |
| Replication loop (`src/Replicator.cpp`) | sequence in `external_data_state` | `poll`, `downloadAndApply`, signals, `-Q` | crash, error and lost connection anywhere in a diff; retry by restart |
| Delta application (`src/DeltaApplier.cpp`, `NavDB::update*`) | `nodes.dat` and the tables | one handler per change kind | order of the two stores; two transactions per way; `synchronous_commit=off` |
| Region-aware delta application (`src/RegionalDeltaApplier.cpp`, `src/RegionalNodeMap.cpp`) | installed coordinates, `overlay_`, `pending_`, the region's tables | one handler per change kind, `flush` | memory-only coordinates, border crossings, replays |
| Regional export (`src/regional_db_export.cpp`, `src/regional_export.cpp`, `build_regional_bundles.sh`) | the bundle being built | manifest, rows, tags, coordinates, small tables | one bundle read at several times from a database in use |
| Region installation (`src/regional_install.cpp`) | the target's tables, indexes, `nodes.dat`, `installed_regions`, sequence | schema, script, indexes, nodes, registration, seed | several bundles of different age in one database, a break between any two steps |
| Planet download, sequence seed (`src/PlanetDownloader.cpp`) | partial file, mtime | resume, estimate of the first sequence | a new weekly file between two attempts |
| External data refresh (`src/Replicator.cpp`) | timestamps in `external_data_state` | checks per cadence and tolerance, records, seeds | load racing a new publication; a timestamp that hides a failure |
| Airports, obstacle and airspace loaders (`src/*Loader.cpp`) | their tables | download, truncate, insert | failure between truncate and load; two loads at a time |
| Terrain loader (`src/TerrainLoader.cpp`) | `terrain`, `terrain_tiles` | batches by a pool of threads, `psql` as a child process | pixels and records in different sessions, retries, process exit |
| Declination loader (`src/WMMLoader.cpp`) | `wmm`, `wmm_cells`, `wmm_bands`, a staging table | cells by threads, bands from staging | resume, partial bands, two runs sharing the staging table |
| Ring stitching, `isArea`, multipolygons (`src/GeoUtils.cpp`, `src/main.cpp`) | none | pure functions | incomplete members |
| PBF and OSC readers, schema maintenance, command-line tools | none that a protocol depends on | decoding, SQL text, file formats | pure I/O |

How they interact: the producer feeds node threads (one queue each) and way
threads (one shared queue); node threads write shards, the completion of
`node_barrier` merges them, way threads read the result; relations are built from
ways read back from PostgreSQL.  Afterwards a second program mode, poll, follows
the server's sequence: `Replicator` downloads a diff, hands each change to an
`IDeltaApplier` (global or regional) and stores the sequence when all are applied.

`PROJECT.json` lists the components with their status and the hazards at their
lines, each with the properties that would notice.

## 2. Modules

    NodeStore       <- NodeStoreProofs        MCNodeStore       (nodes.dat)
    Replication     <- ReplicationProofs                        (poll over two stores)
      ReplicationMirror <- ReplicationMirrorProofs  MCReplication
      (implements DiffMirror, the abstract specification)
    ImportPipeline  <- ImportPipelineProofs   MCImportPipeline  (the threaded import)
    RegionalDelta   <- RegionalDeltaProofs    MCRegionalDelta   (a region's database)
    RegionalBundle  <- RegionalBundleProofs   MCRegionalBundle  (export, install, poll)
    ExternalTables, Terrain, Declination
                    <- AeronauticalProofs     MCAeronautical    (aeronautical data)
    InductionLemmas (least elements and sequences, for the import and the regional proofs)

Operators named `...Keeps...`, `...Early`, `...Forgets...` and the like, marked
"Mutant" in their comments, are deliberately wrong variants of the definition
that follows.  No specification uses them; each serves to confirm that replacing
the definition by its variant makes TLC report the property named in
`PROJECT.json`.

### NodeStore

A process with the file mapped fetches a diff (`Download`), applies its records (`update` or
`remove` of an id) one after the other (`Call`) and, after the last, has its sequence stored
(`SetSequence`).  One action per store or system call: `GrowData` and
`GrowBitmap` are the two ftruncates of `growMergedIfNeeded`; `WriteLon`,
`WriteLat` and `SetBit` the three stores of `update`; `ZeroRecord` and `ClearBit`
those of `remove`; `DropUpdate` and `RemoveOutside` the early returns; `OpenData`
and `OpenBitmap` the constructor.  `Crash` can fall between any two.  The sequence of the diff
is not stored then, so the next process applies the diff again from its first record, over
whatever the broken pass left; in between, an interrupted record further back in the diff can be
read half written or zeroed.  Sizes are
real byte counts with the code's divisions and roundings.  The histories are `before` (what the
stored diffs say of each id), `want` (the same with the records of this pass), `half` (the ids
whose record a crash cut in two) and `torn` (a crash fell between the two growths).  A dead
process leaves its stores in the page cache, so file
contents survive; a machine crash that loses dirty pages is not modelled.

`SelectNeverStale` therefore distinguishes.  An id the pass has come to reads as its last record,
or as nothing.  Another id reads as before the diff, as a record of this diff that a broken pass
wrote, or as nothing; only an id in `half` may read as something else, and only until the pass
comes to it.

### Replication

The diffs are one stream of changes; a store holds, per entity, the position
(stamp) of the change it was last written by, and a way's geometry holds the
stamps of the node positions it was built from.  This is the data the properties
tell apart: newer, older, missing.  `ReadLocal`, `ReadRemote`, `UpToDate`, `Behind`,
`Download`, `SetSequence`, `Retry`, `NoSequence` and `StopOnError` are the branches of
`Replicator::poll`; `ApplyNode`/`ApplyWay` and `CommitRows` the two halves of a
handler (the first store or transaction, then the last).  `durable` is what
PostgreSQL would recover: `WalFlush` advances it and `DbCrash` returns to it,
while `nodes.dat` does not go back.  `StartAt` is a restart with `-Q`.
Located nodes are assumed: the early return of `upsertWay` on an empty geometry is
left to a module at entity level (section 6).  `StartAt` only rewinds: `-Q` beyond
the stored sequence asks for diffs to be skipped.

### ImportPipeline

One process per thread of `main.cpp`: the producer, the node threads, the barrier
completion that merges, the way threads.  An entry of the file is its index; a row
is the id with the parts that were found when it was built, so that a row built
too early is recognisably smaller.  Queues are bounded sequences, buffers are sets
with the code's thresholds (which differ: `>=` for nodes and ways, `>` for areas and
relations), and the destructor's flush is part of `FinishWays`.  `Init` ranges over
the phases of `-R`, with or without the offset files, and for `-R merge` over how far
the interrupted merge had come.  `RefWays`, `RefAreas`, `RefPolygons`, `RefRelations`
and `RefRoads` define the complete import without threads, from the file alone.
Tags are reduced to whether one survives the exclusion list; geometry to its parts,
closed or not.  `Parts`, `Stored` and `Linear` are sets over the file, so that what a row is made
of has no recursion and can be reasoned about.  Outer members of multipolygons are assumed to have three nodes
in the file (`OuterMembersAssumption`), which lets ring assembly succeed.

### RegionalDelta

Mappers edit the world under OSM's own rules (a node of a way cannot be deleted);
the edits form a diff, which is applied change by change.  A handler is a step
that leaves the list of database calls it makes; each call is a transaction of its
own (`Commit`), so a crash can fall between them.  `resolve`, the promotion from
`pending_` to `overlay_`, `flush` and the region test follow the code; a geometry is
the sequence of its positions and lies in the region when one of them does.
`getWay` turns a failed query into "no such way", so a relation is built from any
subset of its members.  `Bundle` and `Export` are what the two export programs write for a region that is not being
edited (a node is exported for its place or as the vertex of a way of the region); the mappers and
the replication server are external.

### DiffMirror and ReplicationMirror

`DiffMirror` says what a reader of the database may count on: it claims a sequence,
and holds the snapshot of that sequence or, while diffs are applied or repeated, none;
`Advance` moves it by one diff, `Flush` and `Recover` are the durability of PostgreSQL,
`Rewind` is `-Q`, and under fairness every diff gets in.  `ReplicationMirror` instantiates
it: the stored sequence is what is claimed, `durable` gives what was flushed, and
the contents are the tables whenever the sequence covers every change begun
(`Settled`), nothing otherwise.  `nodes.dat` and the loop are not visible.

### RegionalBundle

The life of a region from export to a target that polls.  A published diff changes one
feature, a tagged node; a version is the number of the diff that made it.  On the
master, `WriteManifest`, `ReadRows`, `ReadTags` and `Bundle` are the steps of
`build_regional_bundles.sh`; each member's row and tags are read at a time of their own,
anywhere between the bounds of the pass (chunks are taken by threads), while
`MasterPolls` goes on.  On the target, `PrepareSchema`, `RunScript`, `CreateIndexes`,
`InstallNodes`, `Register` and `Seed` are `main` of `regional_install` in order;
`InstallBreaks` can follow each of them and can cut the first copy of `nodes.dat` short.
A bundle's slice of `nodes.dat` may be whole, read as empty (`Writer::finalize` does not look
whether the count in the header was written), or be missing (`build_regional_bundles.sh` warns and
ships the bundle).  `SkipNodes` is the install of a bundle without one, which goes on to the
registration and the seed; `SkipRegister` that of a bundle without polygon or bounding box; and
`InstallNodes` may lose the count of the merged file, which takes the coordinates of every region
along.  The history `bare` names the regions that lack coordinates in one of these ways, until a
complete install of the region; `RegisteredIsUsable` promises coordinates to the others.
`PollStarts` reads `installed_regions` once, as `runDelta` does, and `PollApplies` handles one
diff.  Times and sequence numbers coincide: one diff is published per unit, so the
sequence estimate is exact up to the margin, and the margin stands for what the
estimate and the lag of the master are off.

The histories `flaw` and `unseeded` record the ways in which the stored sequence can be
too high for some rows: the margin did not cover the lag and the export (`lag`), a newer
bundle raised the sequence (`skipped`), poll ran while a region was installed
(`overlap`), an install put its rows in and ended before the sequence (`unseeded`).
`InstalledRegionIsExact` says that nothing else makes a caught-up target wrong.

`overlap` is recorded for every diff, deletions included, about a row of a region that
the running poll has not loaded.  That deletions count is a result of the proof: without
them there is a counterexample, which TLC confirms with a margin of 0.  A poll that was
started before the install runs between the script and the seed; it applies the deletion
and then the re-creation of a feature of the new region, the second of which it takes to
be outside, and stops before the seed; the seed then leaves a sequence that says both
are applied, and the row is missing.

### ExternalTables

A load of one source by poll, by the import or by a tool: `Start` and `Check` decide,
`Download`, `Truncate`, `InsertKeyed`, `InsertUnkeyed` (airports, obstacles) and
`AirspaceFetch`, `AirspaceTruncate`, `AirspaceInsert` (airspace, one sub-loader after
the other whatever the last one returned) are its transactions, `Record` and
`RecordNothing` its end.  `CheckBlind` is a check in which the database fails to say when the source was
last loaded: `getExternalDataTimestamp` answers -1, and poll reloads what is up to date (`due` in the
job tells such loads apart, and loads by hand: when one of them breaks off, nothing makes the next check
repeat it).  `rows` keeps for each table the loads whose rows it has, so
that old, short and doubled tables are told apart.  `remoteLastModified` is any
time up to `Jitter` after the publication.  What poll cannot notice is recorded in
`flaw`: loads that overlapped, a load that was not due and failed, OpenAIP pages that broke
off, a seed that asked for the time after its load.

### Terrain and Declination

`Terrain` is `TerrainLoader::load` with its threads: `SelectTiles`, the bootstrap batch that
creates the table alone, `TakeBatch` from the shared counter, download, `psql`, record,
one retry and `_exit`.  Initially the table exists, as after the import's `initializeSchema`, or not.
`psql` is a process of its own: it may fail after its commit (`LoadFailsLate`; the retry then
appends the tiles again), and neither `_exit` nor a kill ends it.  `Die` keeps those that the other
threads had started in `orphans`; they commit or fail at any later time (`OrphanCommits`,
`OrphanFails`), during a later run too.  `torn` names the tiles that were committed without being
recorded.  `createElevationFunctions` swallows its errors.  `to_load` is a set of tiles, numbered in the order of the catalogue;
`position` gives a tile's place in the vector that the code divides into batches.  `Declination` is `WMMLoader::load` and `buildBands`: a cell is
one transaction, the bands are truncated, staged and inserted in several; two programs
may run at once.  A cell's commit may go through and its answer be lost (`CellInDoubt`), the creation
of the function may fail without the run noticing (`FunctionFails`), and the staging table may stay
(`StagingStays`).  `left_out` records that a run covered the globe without making the function.  The threads of one declination run share only counters, so its steps
handle any cell or band that is left.

## 3. Runs

| Run | Expectation | What it shows |
|---|---|---|
| `node_store` | pass | a lookup of an id the replay has come to is never stale or half-written, and exact unless a crash fell between the two growths; before that it is not older than the diff, unless its record was cut in two; no restart loses capacity |
| `node_store_torn_growth` | violation | such a crash loses the replayed update for good |
| `replication` | pass | the sequence never runs ahead of either store, on disk or in memory; caught-up stores are exact; no diff is skipped; the server is eventually reached; all of it implements `DiffMirror`, fairness included |
| `replication_replay` | violation | replaying changes the planet file already has can age a way's geometry |
| `import_pipeline` | pass | rows are built from complete inputs only, nothing stays in a buffer, every reported phase can be resumed (shards apart), the import ends |
| `import_shards` | violation | during the merge the tails of later shards exist only in memory |
| `import_polygons` | violation | a polygon with an untagged inner member is stored without its hole |
| `aeronautical` | pass | tables that are short or old are due at the next check, none holds a load twice, jitter causes no reload, tables end up fresh; recorded terrain tiles and declination cells are there, and twice only for the reasons named in section 5; a clean run is complete |
| `regional_bundle` | pass | a caught-up target has exactly the rows and tags of its regions, and a region is registered over its coordinates in a readable node file, unless its bundle had none, and with the indexes rebuilt |
| `regional_bundle_second` | violation | a second, newer bundle makes poll skip diffs of the first region |
| `regional_delta` | pass | a region's node rows are exact after every diff, no way is in two tables, nothing deleted stays, new vertices resolve in their own diff |
| `regional_delta_moves` | violation | a moved node of the installed map keeps its old position for the ways of the same diff |

Bounds, and why they are enough for the cases at stake:

- **NodeStore**: ids 7, 9, 16 and 17 lie on both sides of a bitmap byte, of either
  `-n` (6 and 16) and of the sanity ceiling (12); two crashes allow a crash during
  the replay after the first; diffs of up to two records let the same id occur twice, and another
  record be replayed while the interrupted one still waits; two points tell old from new coordinates, and
  longitude from latitude.  `GrowFloor` is 1 record so that the 25% rule and the
  floor both decide.  The proofs remove all these bounds.
- **Replication**: three diffs with a node that moves before and after its way, and
  a node created without tags and tagged later; every cutoff and every seed at or before
  it; two faults, of any kind and at any place.  The proofs remove the bounds
  for the safety part.
- **ImportPipeline**: four files (with polygons and an untagged member, with a
  roundabout, without ways, without relations), blobs that mix kinds, two node
  threads, three way threads (one that flushes at once, two that keep rows),
  queues of two, so that the producer blocks and one thread can be idle when
  another has its first relation.
- **RegionalDelta**: one way that can be a line, a triangle or lie outside, one
  relation, three nodes of which one does not exist yet, two positions inside and one
  outside, two diffs of two edits, one crash anywhere.  Two diffs are needed to
  carry `overlay_` from one to the next, two edits to create a vertex and use it.
  The run stops when the diffs are used up, so it does not check for deadlock.
- **RegionalBundle**: two regions that share a feature, two diffs, two bundles, two
  installs, one mishap (a break, or a damaged slice, in `OneMishap`; with the latter one diff, since no
  diff changes the node file): enough for a feature that changes between its row and its tags,
  for an install over another region's row, and for a break with a repeat.
  `MasterFirst` orders behaviours so that the master finishes before the first
  install: the target reads from that side only finished bundles and published
  diffs, both only grow, and poll may stop after any diff, so every state of the
  target that another order reaches is reached in this one too.  `SequenceTrusted`
  ends a behaviour once `flaw` is not empty, since both properties about data
  exclude what follows.  `NoMishap` keeps damaged slices out of the run that expects a violation.  The run stops when its bounds are used up.
- **Aeronautical data**: the components share no table and no file, so a behaviour
  follows one of them, and one source.  Tables: a publication after the first, a load by hand beside poll, two
  faults; the timestamps are three apart with a jitter and a tolerance of one, the
  tightest values the assumption allows.  Terrain: five tiles of which one is not
  published, batches of two (the last one short), two threads, two faults: a failure
  and a failed retry, or a crash and an orphan.  Declination: two cells, two bands, poll and one run by hand, one fault.

Fairness.  `Replication` assumes weak fairness of `Start` (systemd restarts the
service, `Restart=always` in `setup_regional_server.sh`) and of the process's own
steps; faults are finite by their bound, and `WalFlush`, `Publish`, `Stop` and all
faults are not fair.  `ExternalTables` assumes weak fairness of poll's own steps (its loop
comes back to the checks every six hours) and that a load begun by hand goes on;
nobody is obliged to begin one.  `ImportPipeline` assumes weak fairness of each thread and of the
barrier's completion: threads are scheduled by the operating system, and each
wait is ended by a notify (`push`, `pop`, `shutdown`, `std::barrier`) or polls.

## 4. Proofs

One module per component (section 2) holds its theorems; `InductionLemmas` what three of them
share.  Each proof has one inductive invariant, a conjunction of named parts, which has been
checked with TLC before it was proved, and one lemma per action.
The theorems hold for every value of the constants that the named assumptions
allow, so they remove the bounds of section 3 from the safety properties.

**NodeStore**, from `NodeStoreAssumption` only (ids, `-n` values, ceiling, floor and
number of crashes are arbitrary): `TypeCorrect`, `BitHasDataHolds`,
`SelectNeverStaleHolds`, `UntornStoreIsExactHolds`, `CapacityNeverLostHolds`.  The
properties speak of moments between records and say nothing about the half-done
ones, so they are not inductive.  `IInv` adds: the mapped sizes are the file sizes
while a process runs (`SizesMapped`); without a torn crash the bitmap is exactly as long as the
data need, except just after `GrowData` (`BitmapFits`); a set bit, and every position owed, lies within
the files (`RecordsInFiles`); what each program point has established about the record in
hand (`StepFacts`); the ids the pass has come to, or the diff does not touch, read as owed (`Settled`); the
others hold the old position, one of this diff, or half a record (`Pending`); and what the histories say, in particular
that the pass has still to come to every half record (`Owed`).  The arithmetic lemmas (`BitmapCovers`,
`GrownSizeFacts` and others) are what makes the rounding matter.

**Replication**, from `ReplicationAssumption` only: `TypeCorrect`, `NeverStaleHolds`,
`CaughtUpIsExactHolds`, `GeometryAsOfWayHolds`, `NoSkippedDiffHolds`.  `IInv` adds that every
stamp belongs to its entity and has been begun (`StampsSound`), that the geometry
property also holds of the durable copy (`GeometryInv`), and `LoopInv`: how far the
inner loop, its diff and its position may be ahead of the stored sequence, and that
the stores cover the changes applied so far.  `NeverStale` alone is not inductive since
nothing in it says why `SetSequence` may advance.  The rollback of a `-Q` restart is the
one case in which `nodes.dat` falls behind the sequence, hence the `undone` history.

**ReplicationMirror**, from `ReplicationAssumption` only: `PollIsAMirror`, that
`Spec` implies `Mirror!MirrorSpec`.  A step maps to a step of the mirror or to a stutter, by the cases
of `Next`.  The mapping needs, beside `IInv`, that the stored and the flushed sequence are within the published diffs
and that the tables, when `Settled`, are the snapshot of the stored
sequence; the latter is `CaughtUpExact` of `ReplicationProofs` together with the uniqueness of the latest change
(`LatestUnique`).  The applying steps leave the mirror's contents empty because a
change beyond the stored sequence has been begun (`InHandUnsettled`, `ApplyStays`).  The fairness of the
mirror (`Mirror!FairMirror`, checked as `ImplementsMirror`) stays with TLC.

**ImportPipeline**, from `ImportAssumption` and `FilesAssumption` (what the PBF format
guarantees: kinds in order, and a blob that does not start after its entries): `ImportTypes`,
`WaysReadCompleteNodes`, `RelationsReadCompleteWays`, `ImportsAreComplete`,
`PhasesAreResumable`, `OffsetsAreSafe`.  They hold for any file, any number of node and way threads
and any queue, chunk and buffer sizes.  The properties speak of what a
thread sees at one moment; that nothing has been lost on the way there is a statement about
everything in flight.  The first half of `IInv` follows nodes: where the reader is (`Reader`),
what a node thread past its loop has left (`NodeBarrier`: nothing), and that every node of
the file is merged, waiting in a queue, or in a shard or its tail that the merge has still to read
(`NodesKept`, `NodeRowsKept`, `MergedWhole`).  The second half follows ways and relations: `way_q` keeps the
order of the file (`WayOrder`), which is why a thread that meets its first relation knows that
every way has been popped (`WaysRead`); a thread at the barrier has flushed (`WayStages`); each entry
is still flowing, or its row of the reference import is buffered or stored (`WaysKept`,
`RelsKept`); behind the barrier the tables have all the ways (`WaysStored`).

**RegionalDelta**, from `RegionalAssumption` only (`None` is neither a position nor a
geometry, the installed worlds have their types): `RegionalTypes`, `NodeRowsAreExact`, `WaysInOneTable`,
`NoRowsOfDeleted`, `NewVerticesResolve`, `OverlaysAreNeeded`, for any entities, region and members, diffs of any length,
any number of crashes and replays.  The properties hold between diffs; `RInv` says
what holds in the middle of one.  It relates the diff to the world it was made from (`LastIsWorld`: the last change of an
entity is its state in the world; `CreatedAnew`: a node is created only when it does not exist), gives the calls left of the
handler begun (`Calls`), and states the rows for entities whose changes have all been handled
(`Settled`, `NodeRows`, `WayRows`, `RelRows`), so that a replay, which handles them all
again, needs no case of its own.  `createNode` makes no call for an untagged or outside
node; that the table has no row to remove needs `DeletedRows` and `SilentRows`.  `Located`,
`PendingIsNew` and `OverlayIsCurrent` are the coordinates.

**RegionalBundle**, from `BundleAssumption` only: `BundleTypes`,
`InstalledRegionsAreExact`, `RegisteredRegionsAreUsable`, for any regions, margin and
number of bundles, installs and breaks.  They are about `BundleSpec` itself, in which the master, the
installs and poll interleave freely, so they do not rest on the order (`MasterFirst`) and the
cut (`SequenceTrusted`) that keep the run small.  `BInv` says: what an export has read, each
member at a time of its own, is current for the members that did not change since the base
(`Sound`, `Exporting`, `BundlesSound`); where an install is determines what is usable and
which bundles wait for their sequence (`Usable`, `Unseeded`); rows belong to a region that is kept
(`RowsKept`), or are kept because their region's registration was skipped.  While no flaw is recorded, a feature with no diff left to apply, neither by poll nor after
a bundle that is still to be seeded, has its exact row and tags (`SettledExact`), poll applies the diff after the
sequence (`PollInStep`), and it has taken no row of a bundle whose region it does not know
(`RowsLeft`).  Only the last of these makes the seed preserve `SettledExact`; the attempt to prove
it showed that the history had to include deletions (section 2).

**Declination**, from `WmmAssumption`: `DeclinationResumes`, `DeclinationBands`.
`WmmIInv` adds that two programs at work have been noticed (`CrossedWhenBoth`), how many rows a
cell can have by how many programs have still to compute it (`CellRows`, likewise `BandRows`), who will create the
function once the globe is covered, unless it has been left out (`FunctionOnItsWay`), and how far the only program at work
has come with the bands (`BandProgress`).

**Terrain**, from `TerrainAssumption` (a pool has at least one thread): `TerrainLoadedOnce`,
`TerrainComplete`.  `TerrainIInv` says in which phase which threads work (`Phases`), that the batches
in hand are different ones below the shared counter (`Batches`), what
each stage has done to the copies of its tiles, those in `torn` apart (`Copies`), that `total_loaded` counts the recorded
tiles of the run (`Counted`), and that in a run without failures every published tile is recorded,
in hand or still to be taken, and threads stop only for want of batches (`NothingForgotten`).

**ExternalTables**, from `ExternalAssumption` (the jitter of a timestamp is at most the
tolerance, and publications are further apart than both): `TablesNotDoubled`,
`IncompleteTablesAreDue`, `StaleTablesAreDue` and the action property `NoSpuriousReloads`.  `ExternalIInv` adds what each stage of a load has done to
the tables (`Stages`, `Progress`), that overlapping loads have been noticed (`OverlapsNoticed`), that a
stamp in the database is one the server reported (`StampsReported`), and what a trusted stamp says about the rows (`Trusted`).  `AeronauticalTypes`
puts the three side by side.

The installed provers cannot instantiate an induction theorem with an operator.  Where a
proof needs induction it takes a minimal counterexample: `LeastElement` of `InductionLemmas`
follows from well-foundedness, which is a statement about a relation, and the set of
counterexamples is an ordinary set.  `GreatestElement` gives the last change of an entity, `FlattenType` and
`FlattenDefined` the types of assembled geometries.

Only model-checked: liveness (`EventuallyCaughtUp`, `Termination`, `TablesEventuallyFresh`) and
the fairness of the mirror, which are outside the prover's reach; and the violations of the
six runs that expect one.

## 5. Disagreements between code and documentation

1. `growMergedIfNeeded` says no cross-file atomicity is needed; a crash between the
   two ftruncates makes later updates of the new ids invisible (`NoLostUpdate`).
2. `PlanetDownloader.h` calls the replay of included changes harmless; a replayed
   way is rebuilt from rewound node positions and not refreshed (`ReplayIsHarmless`).
3. The README says that at `-R merge` the nodes are already in the shards; the tails
   are not (`ShardsComplete`).
4. `buildMultipolygon` promises no geometry rather than a wrong one; missing inner
   members are skipped (`PolygonCompleteOrAbsent`).
5. `createNode` of the regional applier says a buffered node is resolved at once by
   later ways; for a node the installed map or `overlay_` has, `pending_` is never
   asked (`SameDiffPositionUsed`).
6. The README calls `regional_install` safe to run again with other regions; the sequence
   of a newer bundle makes poll skip diffs the first region needs (`SecondInstallIsSafe`).
7. `Replicator.h` says the declination is recomputed every three months;
   `WMMLoader::load` never recomputes a cell that `wmm_cells` names, so only the bands are cut again.

The models also had to set some behaviours apart, as exceptions named in the properties'
comments and histories: an install that breaks after its script leaves the rows
without a sequence to repair them; a first copy of `nodes.dat` that is cut off makes every later
install fail in the merge; poll that runs during an install deletes rows of the new region;
`--small-staging-dir` writes a later export time than the rows have (`LateHeader`); a
failed page of OpenAIP counts as success when an earlier page had rows; a timestamp that cannot be
read makes a check reload what is up to date; a declination run that ends between its last cell and
`createDeclinationFunction`, or in which that call fails, leaves the function out for good; terrain
tiles that `psql` committed and nobody recorded, because the process or the connection was lost,
because `psql` failed after its commit or because it outlived the process, are appended again; a `psql`
that creates `terrain` after the next run found none makes that run fail; a bundle without its slice of `nodes.dat`, or
with a slice whose count was not written, is installed, registered and seeded without coordinates;
a merge that loses the count of its result leaves no coordinates to any region.

## 6. Plan

In this order:

1. Entity-level delta (`DeltaEntities`): ways and areas, `isArea` at import against
   closedness at update, the early return on an empty geometry, roads, tag diffs.
2. Import tags: rows that the server rejects, their tags, `area_tags` after `-R relations`.
3. The choice of applier when the regions cannot be read.
4. Ring stitching and `isArea` as operators checked against reference definitions.
5. Planet download: resumption across a new weekly file.

## 7. Not modelled

PBF, OSC, CSV and JSON decoding, the regional export's file formats (`PgCopyBinary`,
`WkbDecode`) and computational geometry, the spherical harmonics and raster decoding are data
transformations without protocol.  The options of the loaders' command-line tools that load
a part of the tables are left out: a tool runs the whole load and records nothing.  Schema, index and vacuum statements have no state
of their own.  The LZ4 framing of shards and the chunk-border carry are reduced to "in the
file" and "still buffered".  Loss of dirty pages in a machine crash is left out of all
models; of PostgreSQL only the loss of recent commits is kept.
