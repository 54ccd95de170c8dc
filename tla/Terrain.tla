------------------------------ MODULE Terrain ------------------------------
(***************************************************************************)
(* TerrainLoader::load: the elevation raster of a bounding box.            *)
(*                                                                         *)
(* The tiles that terrain_tiles does not name are cut into batches.  A     *)
(* batch is downloaded, loaded into the table terrain by psql, in a        *)
(* session of its own, and then recorded in terrain_tiles.  The batch that *)
(* creates the table runs alone; after it a pool of threads takes the      *)
(* batches from a shared counter.  A batch that fails is tried once more,  *)
(* then the process ends itself.  The program is run again by hand.        *)
(*                                                                         *)
(* psql is a child process: its status can be an error after its commit,   *)
(* and the end of the program does not end it.                             *)
(***************************************************************************)
EXTENDS Naturals, FiniteSets

CONSTANTS
    TileCount,         \* tiles of the bounding box, in load order
    Published,         \* those the source has (no ocean, no foreign land)
    BatchSize,         \* kBatchSize
    Pool,              \* the worker threads
    MaxTerrainFaults   \* bound on failures and crashes

ASSUME TerrainAssumption ==
    /\ TileCount \in Nat /\ Published \subseteq 1..TileCount
    /\ BatchSize \in Nat \ {0} /\ IsFiniteSet(Pool) /\ Pool # {} /\ "main" \notin Pool
    /\ MaxTerrainFaults \in Nat

VARIABLES
    terrain,         \* copies of each tile in the table terrain
    terrain_exists,  \* the table has been created
    terrain_tiles,   \* the tiles recorded as loaded
    functions,       \* the elevation functions have been created
    load,            \* the run under way, or how the last one ended
    worker,          \* its threads; "main" is the calling thread
    orphans,         \* psql processes of runs that have died
    torn,            \* history: tiles committed by a psql nobody recorded
    terrain_faults

rvars == <<terrain, terrain_exists, terrain_tiles, functions, load, worker, orphans,
           torn, terrain_faults>>

Tiles == 1..TileCount
Threads == Pool \cup {"main"}

NoWork == [pc |-> "done", batch |-> 0, have |-> {}, tried |-> FALSE]

\* The import's initializeSchema has created the table; terrain_load finds none
\* in a database that is not from an import.
TerrainInit ==
    /\ terrain = [t \in Tiles |-> 0] /\ terrain_exists \in BOOLEAN
    /\ terrain_tiles = {} /\ functions = FALSE
    /\ load = [pc |-> "none", to_load |-> {}, next |-> 1, loaded |-> 0, clean |-> TRUE]
    /\ worker = [w \in Threads |-> NoWork]
    /\ orphans = {} /\ torn = {} /\ terrain_faults = 0

Running == load.pc \in {"bootstrap", "pool"}

TerrainFault ==
    /\ terrain_faults < MaxTerrainFaults
    /\ terrain_faults' = terrain_faults + 1

----------------------------------------------------------------------------
(* load *)

\* Mutant of n_batches: a last batch that is not full is forgotten.
n_batchesFloor == Cardinality(load.to_load) \div BatchSize

n_batches == (Cardinality(load.to_load) + BatchSize - 1) \div BatchSize

\* The vector to_load is a set here: its order is that of the tiles.
position(t) == Cardinality({u \in load.to_load : u <= t})

Batch(b) ==
    {t \in load.to_load : (b - 1) * BatchSize < position(t) /\ position(t) <= b * BatchSize}

Ready == [NoWork EXCEPT !.pc = "connect"]

\* createElevationFunctions: an error is printed and forgotten.
createElevationFunctions ==
    \/ functions' = TRUE /\ UNCHANGED terrain_faults
    \/ functions' = functions /\ TerrainFault

\* The tiles to load; the functions are made anew where the table exists.
SelectTiles ==
    /\ ~Running
    /\ IF terrain_exists THEN createElevationFunctions
                         ELSE UNCHANGED <<functions, terrain_faults>>
    /\ LET missing == Tiles \ terrain_tiles
       IN  load' = [pc |-> CASE missing = {} -> "ok"
                             [] missing # {} /\ ~terrain_exists -> "bootstrap"
                             [] OTHER -> "pool",
                    to_load |-> missing, next |-> 1, loaded |-> 0,
                    clean |-> terrain_faults' = terrain_faults]
    /\ worker' = [w \in Threads |->
                     IF ~Running' \/ (w = "main") # (load'.pc = "bootstrap") THEN NoWork ELSE Ready]
    /\ UNCHANGED <<terrain, terrain_exists, terrain_tiles, orphans, torn>>

\* The next batch: next_batch.fetch_add, or the bootstrap's loop.
TakeBatch(w) ==
    /\ worker[w].pc \in {"connect", "take"}
    /\ IF load.next > n_batches
       THEN worker' = [worker EXCEPT ![w] = NoWork] /\ UNCHANGED load
       ELSE /\ worker' = [worker EXCEPT ![w] = [NoWork EXCEPT !.pc = "download", !.batch = load.next]]
            /\ load' = [load EXCEPT !.next = @ + 1]
    /\ UNCHANGED <<terrain, terrain_exists, terrain_tiles, functions, orphans, torn, terrain_faults>>

\* A tile that cannot be downloaded is left out, for want of coverage or of a
\* connection alike; a batch without tiles is not an error.
DownloadBatch(w) ==
    /\ worker[w].pc = "download"
    /\ \E have \in SUBSET (Batch(worker[w].batch) \cap Published) :
          /\ IF have = Batch(worker[w].batch) \cap Published
             THEN UNCHANGED <<terrain_faults, load>>
             ELSE TerrainFault /\ load' = [load EXCEPT !.clean = FALSE]
          /\ worker' = [worker EXCEPT ![w].have = have,
                                      ![w].pc = IF have = {} THEN "take" ELSE "load"]
    /\ UNCHANGED <<terrain, terrain_exists, terrain_tiles, functions, orphans, torn>>

\* raster2pgsql writes either CREATE TABLE or appending statements, and psql
\* runs them in one transaction: only the right kind can succeed.
use_append == load.pc = "pool"

\* psql commits the pixels of the tiles.
Commit(have) ==
    /\ terrain_exists' = TRUE
    /\ terrain' = [t \in Tiles |-> IF t \in have THEN terrain[t] + 1 ELSE terrain[t]]

LoadBatch(w) ==
    /\ worker[w].pc = "load" /\ use_append = terrain_exists
    /\ Commit(worker[w].have)
    /\ worker' = [worker EXCEPT ![w].pc = "record"]
    /\ UNCHANGED <<terrain_tiles, functions, load, orphans, torn, terrain_faults>>

\* The process is gone, with every thread; what threads other than w had psql
\* load may go on without it.
Unrecorded == UNION {worker[w].have : w \in {v \in Threads : worker[v].pc = "record"}}

Die(clean, others) ==
    /\ load' = [load EXCEPT !.pc = "died", !.clean = clean]
    /\ worker' = [w \in Threads |-> NoWork]
    /\ \E left \in SUBSET {v \in others : worker[v].pc = "load"} :
          orphans' = orphans \cup
              {[have |-> worker[v].have, append |-> use_append, died |-> terrain_faults'] : v \in left}

\* One retry, from the downloads on; then _exit(1).
RetryOrDie(w, clean, unrecorded) ==
    IF worker[w].tried
    THEN /\ Die(clean, Threads \ {w})
         /\ torn' = torn \cup unrecorded \cup Unrecorded
    ELSE /\ worker' = [worker EXCEPT ![w].pc = "download", ![w].tried = TRUE]
         /\ load' = [load EXCEPT !.clean = clean]
         /\ torn' = torn \cup unrecorded
         /\ UNCHANGED orphans

\* raster2pgsql fails, or psql fails and leaves nothing behind.
LoadFails(w) ==
    /\ worker[w].pc = "load"
    /\ IF use_append = terrain_exists THEN TerrainFault ELSE UNCHANGED terrain_faults
    /\ RetryOrDie(w, load.clean /\ use_append # terrain_exists, {})
    /\ UNCHANGED <<terrain, terrain_exists, terrain_tiles, functions>>

\* psql fails after its commit: the answer is lost, or the VACUUM of -M fails.
LoadFailsLate(w) ==
    /\ worker[w].pc = "load" /\ use_append = terrain_exists
    /\ TerrainFault
    /\ Commit(worker[w].have)
    /\ RetryOrDie(w, FALSE, worker[w].have)
    /\ UNCHANGED <<terrain_tiles, functions>>

\* A psql that outlived its program, before or during a later run.  When it
\* creates the table under a run that found none, that run cannot succeed.
OrphanCommits(o) ==
    /\ o.append = terrain_exists
    /\ Commit(o.have)
    /\ load' = [load EXCEPT !.clean = @ /\ load.pc # "bootstrap"]
    /\ orphans' = orphans \ {o} /\ torn' = torn \cup o.have
    /\ UNCHANGED <<terrain_tiles, functions, worker, terrain_faults>>

OrphanFails(o) ==
    /\ orphans' = orphans \ {o}
    /\ UNCHANGED <<terrain, terrain_exists, terrain_tiles, functions, load, worker, torn,
                   terrain_faults>>

\* Mutant of RecordBatch: the tiles that were not downloaded are recorded too.
RecordWholeBatch(w) ==
    /\ worker[w].pc = "record"
    /\ terrain_tiles' = terrain_tiles \cup Batch(worker[w].batch)
    /\ load' = [load EXCEPT !.loaded = @ + Cardinality(worker[w].have), !.pc = "pool"]
    /\ worker' = IF load.pc = "bootstrap"
                 THEN [v \in Threads |-> IF v = "main" THEN NoWork ELSE Ready]
                 ELSE [worker EXCEPT ![w].pc = "take"]
    /\ UNCHANGED <<terrain, terrain_exists, functions, orphans, torn, terrain_faults>>

\* After the first batch that loads, the pool starts on the rest.
RecordBatch(w) ==
    /\ worker[w].pc = "record"
    /\ terrain_tiles' = terrain_tiles \cup worker[w].have
    /\ load' = [load EXCEPT !.loaded = @ + Cardinality(worker[w].have), !.pc = "pool"]
    /\ worker' = IF load.pc = "bootstrap"
                 THEN [v \in Threads |-> IF v = "main" THEN NoWork ELSE Ready]
                 ELSE [worker EXCEPT ![w].pc = "take"]
    /\ UNCHANGED <<terrain, terrain_exists, functions, orphans, torn, terrain_faults>>

\* A lost connection: a worker drops its share of the work, the calling
\* thread takes the program with it.
WorkerError(w) ==
    /\ worker[w].pc = "record" \/ (worker[w].pc = "connect" /\ w \in Pool)
    /\ TerrainFault
    /\ IF w = "main"
       THEN Die(FALSE, {}) /\ torn' = torn \cup Unrecorded
       ELSE /\ worker' = [worker EXCEPT ![w] = NoWork]
            /\ load' = [load EXCEPT !.clean = FALSE]
            /\ torn' = IF worker[w].pc = "record" THEN torn \cup worker[w].have ELSE torn
            /\ UNCHANGED orphans
    /\ UNCHANGED <<terrain, terrain_exists, terrain_tiles, functions>>

\* The threads have been joined.
LoadReturns ==
    /\ Running /\ \A w \in Threads : worker[w].pc = "done"
    /\ IF load.loaded > 0 THEN createElevationFunctions
                          ELSE UNCHANGED <<functions, terrain_faults>>
    /\ load' = [load EXCEPT !.pc = IF @ = "pool" /\ load.loaded > 0 THEN "ok" ELSE "nothing",
                            !.clean = @ /\ terrain_faults' = terrain_faults]
    /\ UNCHANGED <<terrain, terrain_exists, terrain_tiles, worker, orphans, torn>>

TerrainCrash ==
    /\ Running /\ TerrainFault
    /\ Die(FALSE, Threads) /\ torn' = torn \cup Unrecorded
    /\ UNCHANGED <<terrain, terrain_exists, terrain_tiles, functions>>

ThreadStep(w) ==
    \/ TakeBatch(w) \/ DownloadBatch(w) \/ LoadBatch(w) \/ LoadFails(w) \/ LoadFailsLate(w)
    \/ RecordBatch(w) \/ WorkerError(w)

TerrainNext ==
    \/ SelectTiles
    \/ \E w \in Threads : ThreadStep(w)
    \/ \E o \in orphans : OrphanCommits(o) \/ OrphanFails(o)
    \/ LoadReturns
    \/ TerrainCrash

TerrainSpec == TerrainInit /\ [][TerrainNext]_rvars

----------------------------------------------------------------------------
(* Properties *)

TerrainTypeOK ==
    /\ terrain \in [Tiles -> Nat]
    /\ terrain_exists \in BOOLEAN /\ functions \in BOOLEAN
    /\ terrain_tiles \subseteq Tiles /\ torn \subseteq Tiles
    /\ load.pc \in {"none", "bootstrap", "pool", "ok", "nothing", "died"}
    /\ load.next \in 1..(TileCount + 1) /\ load.loaded \in 0..TileCount
    /\ \A w \in Threads : worker[w].pc \in {"connect", "take", "download", "load", "record", "done"}
    /\ \A o \in orphans : o.have \subseteq Tiles /\ o.append \in BOOLEAN
    /\ terrain_faults \in 0..MaxTerrainFaults

\* terrain_tiles names a tile only when the raster holds it, and the raster
\* holds it once: no batch of another thread, retry or later run loads it
\* again.  The exceptions are tiles psql committed and the program did not
\* record: the process or its connection was lost before the record, psql
\* reported a failure after its commit, or psql outlived the process.  The
\* retry or the next run appends those a second time.
TileLoadedOnce ==
    \A t \in Tiles : /\ t \in terrain_tiles => terrain[t] >= 1
                     /\ terrain[t] > 1 => t \in torn

\* A run in which no download, command or connection fails ends with every
\* published tile recorded and the functions in place, however its threads
\* interleave and whatever earlier runs left behind, a raster with tiles nobody
\* recorded and psql processes still appending included: the table is not
\* created twice, which would make the process end itself.  Only when a psql of
\* a dead run creates the table after this run found none is that bound to fail.
CleanRunIsComplete ==
    load.clean /\ ~Running /\ load.pc # "none" =>
        /\ Published \subseteq terrain_tiles
        /\ load.pc # "died"
        /\ Published # {} => functions
=============================================================================
