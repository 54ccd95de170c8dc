--------------------------- MODULE RegionalBundle ---------------------------
(***************************************************************************)
(* Regional databases: build_regional_bundles.sh with regional_db_export   *)
(* and regional_export on the master, regional_install on a target, and    *)
(* poll mode on both.                                                      *)
(*                                                                         *)
(*  - The export takes its time while the master's poll goes on: the       *)
(*    manifest gets the time, then the rows are read chunk by chunk, after *)
(*    them their tags, after them nodes.dat.                               *)
(*  - The install drops the spatial indexes, adds the missing rows and     *)
(*    their tags in one transaction, rebuilds the indexes, merges the node *)
(*    coordinates the bundle has, registers the region if the bundle says  *)
(*    how and sets the replication sequence to the export time less a      *)
(*    margin.                                                              *)
(*  - The target's poll replays the diffs from there, for the regions that *)
(*    were registered when it started.                                     *)
(*                                                                         *)
(* One diff is published per unit of time, so a time is also a sequence    *)
(* number, and each diff changes one feature.  A feature is a tagged node: *)
(* a row, its tags and its coordinates.  Its version is the number of the  *)
(* diff that last changed it; it keeps its place.  Neither database fails  *)
(* within a diff here (see Replication).                                   *)
(***************************************************************************)
EXTENDS Integers, Sequences, FiniteSets

CONSTANTS
    Regions, Features,
    InRegion,       \* the features of each region
    Margin,         \* kSafetyMarginSeconds
    LateHeader,     \* --small-staging-dir: the manifest is written anew at the end
    MaxDiffs,       \* bound on the diffs published
    MaxExports,     \* bound on the bundles built
    MaxInstalls,    \* bound on the installs started
    MaxBreaks       \* bound on failures and crashes of an install

ASSUME BundleAssumption ==
    /\ InRegion \in [Regions -> SUBSET Features] /\ IsFiniteSet(Features)
    /\ Margin \in Nat /\ LateHeader \in BOOLEAN
    /\ MaxDiffs \in Nat /\ MaxExports \in Nat /\ MaxInstalls \in Nat /\ MaxBreaks \in Nat

Absent == -1

VARIABLES
    diffs,       \* the published diffs: which feature, and whether it is deleted
    master,      \* the diff the master's poll has applied last
    export,      \* the bundle being built
    bundles,     \* the finished bundles, latest last
    row,         \* target: version of each feature's row
    tags,        \* target: the tag sets stored for each feature, by version
    nodes_file,  \* target: nodes.dat, its features or "torn" or missing
    gist,        \* target: the spatial indexes exist
    installed_regions,
    sequence,    \* target: replication sequence, Absent for none
    install,     \* the install under way
    poll,        \* the target's poll process
    installs, breaks,
    unseeded,    \* history: bundles whose rows went in without the sequence after them
    bare,        \* history: regions whose coordinates did not all reach nodes.dat, or were lost
    flaw         \* history: what makes the sequence too high for some rows

bvars == <<diffs, master, export, bundles, row, tags, nodes_file, gist, installed_regions,
           sequence, install, poll, installs, breaks, unseeded, bare, flaw>>

worldVars == <<diffs, master>>
exportVars == <<export, bundles>>
dataVars == <<row, tags, sequence>>
targetVars == <<nodes_file, gist, installed_regions, install, installs, breaks, unseeded, bare, flaw>>

tip == Len(diffs)

Max0(S) == CHOOSE x \in S \cup {0} : \A y \in S : x >= y

\* The version of f in a database that has applied the first s diffs.
Version(f, s) ==
    LET last == Max0({i \in 1..s : diffs[i].of = f})
    IN  IF last > 0 /\ diffs[last].deleted THEN Absent ELSE last

NoExport == [pc |-> "idle", of |-> CHOOSE r \in Regions : TRUE, exported_at |-> 0, base |-> 0,
             read |-> 0, row |-> <<>>, tags |-> <<>>]
NoInstall == [pc |-> "idle", of |-> 0]
NoPoll == [pc |-> "stopped", regions |-> {}, seq |-> 0, remote |-> 0]

BundleInit ==
    /\ diffs = <<>> /\ master = 0
    /\ export = NoExport /\ bundles = <<>>
    /\ row = [f \in Features |-> Absent] /\ tags = [f \in Features |-> <<>>]
    /\ nodes_file = [state |-> "none", has |-> {}]
    /\ gist = TRUE /\ installed_regions = {} /\ sequence = Absent
    /\ install = NoInstall /\ poll = NoPoll
    /\ installs = 0 /\ breaks = 0
    /\ unseeded = {} /\ bare = {} /\ flaw = {}

----------------------------------------------------------------------------
(* OpenStreetMap and the master *)

PublishDiff(f, deleted) ==
    /\ tip < MaxDiffs
    /\ deleted => Version(f, tip) # Absent
    /\ diffs' = Append(diffs, [of |-> f, deleted |-> deleted])
    /\ UNCHANGED <<master, exportVars, dataVars, targetVars, poll>>

MasterPolls ==
    /\ master < tip
    /\ master' = master + 1
    /\ UNCHANGED <<diffs, exportVars, dataVars, targetVars, poll>>

----------------------------------------------------------------------------
(* build_regional_bundles.sh *)

Members == InRegion[export.of]

\* regional_db_export --big-tables-only: the header is written before the
\* rows are read.
WriteManifest(r) ==
    /\ export.pc = "idle" /\ Len(bundles) < MaxExports
    /\ export' = [NoExport EXCEPT !.pc = "rows", !.of = r, !.exported_at = tip, !.base = master]
    /\ UNCHANGED <<worldVars, bundles, dataVars, targetVars, poll>>

\* The times at which the chunks that hold the members are read, from t on.
ReadTimes(t) == [Members -> t..master]

\* processPair, parent pass: every chunk is read at a time of its own; a row
\* beyond the range of ids that was read first counts as read then.
ReadRows ==
    /\ export.pc = "rows"
    /\ \E at \in ReadTimes(export.base) :
           export' = [export EXCEPT !.pc = "tags", !.read = master,
                                    !.row = [f \in Members |-> Version(f, at[f])]]
    /\ UNCHANGED <<worldVars, bundles, dataVars, targetVars, poll>>

\* The parent pass has matched f.
lookupBitmask(f) == export.row[f] # Absent

\* processPair, child pass: only the tags of the rows that were matched.
ReadTags ==
    /\ export.pc = "tags"
    /\ \E at \in ReadTimes(export.read) :
           export' = [export EXCEPT !.pc = "nodes",
                                    !.tags = [f \in Members |-> IF lookupBitmask(f) THEN Version(f, at[f])
                                                                ELSE Absent]]
    /\ UNCHANGED <<worldVars, bundles, dataVars, targetVars, poll>>

\* What may become of a slice of nodes.dat: the file has its records; the count
\* in its header was not written, and it reads as empty; or there is no file,
\* and the script only warns.
Slices == {"whole", "empty", "none"}

\* regional_export, then regional_db_export --small-tables-only and tar.
Bundle ==
    /\ export.pc = "nodes"
    /\ \E slice \in Slices :
           bundles' = Append(bundles,
              [of |-> export.of, base |-> export.base, row |-> export.row, tags |-> export.tags,
               nodes |-> {f \in Members : Version(f, master) # Absent}, slice |-> slice,
               exported_at |-> IF LateHeader THEN tip ELSE export.exported_at])
    /\ export' = NoExport
    /\ UNCHANGED <<worldVars, dataVars, targetVars, poll>>

----------------------------------------------------------------------------
(* regional_install *)

bundle == bundles[install.of]
region == bundle.of

At(step) == install.pc = step

Proceed(step) ==
    /\ install' = IF step = "done" THEN NoInstall ELSE [install EXCEPT !.pc = step]
    /\ UNCHANGED <<worldVars, exportVars, poll, installs, breaks>>

dropGistIndexes == gist' = FALSE
createGistIndexes == gist' = TRUE

\* ensureSchema, dropGistIndexes, the table terrain.
PrepareSchema(b) ==
    /\ At("idle") /\ installs < MaxInstalls
    /\ installs' = installs + 1
    /\ install' = [pc |-> "script", of |-> b]
    /\ dropGistIndexes
    /\ UNCHANGED <<worldVars, exportVars, dataVars, nodes_file, installed_regions, poll,
                   breaks, unseeded, bare, flaw>>

\* Mutant of NewIds: every row of the bundle counts as new.
NewIdsAll == {f \in DOMAIN bundle.row : bundle.row[f] # Absent}

\* appendParentGroup and appendChildGroup: the rows whose id is not there,
\* and the tags of those rows.
NewIds == {f \in DOMAIN bundle.row : bundle.row[f] # Absent /\ row[f] = Absent}

RunScript ==
    /\ At("script")
    /\ row' = [f \in Features |-> IF f \in NewIds THEN bundle.row[f] ELSE row[f]]
    /\ tags' = [f \in Features |-> IF f \in NewIds /\ bundle.tags[f] # Absent
                                   THEN Append(tags[f], bundle.tags[f]) ELSE tags[f]]
    /\ unseeded' = unseeded \cup {install.of}
    /\ Proceed("index")
    /\ UNCHANGED <<sequence, nodes_file, gist, installed_regions, bare, flaw>>

\* createGistIndexes and the query functions.
CreateIndexes ==
    /\ At("index")
    /\ createGistIndexes
    /\ Proceed("nodes")
    /\ UNCHANGED <<dataVars, nodes_file, installed_regions, unseeded, bare, flaw>>

\* RegionalNodeMap::merge: the coordinates of both files.  Writer::finalize does
\* not look at what its calls return: a result whose count is not written reads
\* as empty.
merge(has, nodes, counted) == [state |-> "whole", has |-> IF counted THEN has \cup nodes ELSE {}]

nodesRest == <<dataVars, gist, installed_regions, unseeded, flaw>>

\* The records in the bundle's slice.
region_nodes == IF bundle.slice = "whole" THEN bundle.nodes ELSE {}

\* Mutant of InstallNodes: an error of the merge is only reported.
InstallNodesReportsOnly ==
    /\ At("nodes") /\ bundle.slice # "none"
    /\ nodes_file' = IF nodes_file.state = "torn" THEN nodes_file
                     ELSE merge(nodes_file.has, region_nodes, TRUE)
    /\ bare' = IF bundle.slice = "whole" THEN bare \ {region} ELSE bare \cup {region}
    /\ Proceed("register")
    /\ UNCHANGED nodesRest

\* The first install copies the file in place, the others merge it aside and
\* rename; a torn file makes the merge throw.
InstallNodes ==
    /\ At("nodes") /\ bundle.slice # "none" /\ nodes_file.state # "torn"
    /\ \E counted \in BOOLEAN :
          /\ counted \/ nodes_file.state = "whole"
          /\ nodes_file' = merge(nodes_file.has, region_nodes, counted)
          /\ bare' = IF ~counted THEN bare \cup installed_regions \cup {region}
                     ELSE IF bundle.slice = "whole" THEN bare \ {region}
                     ELSE bare \cup {region}
    /\ Proceed("register")
    /\ UNCHANGED nodesRest

\* Without a slice in the bundle nodes.dat stays as it is, if there is one.
SkipNodes ==
    /\ At("nodes") /\ bundle.slice = "none"
    /\ bare' = bare \cup {region}
    /\ Proceed("register")
    /\ UNCHANGED <<nodes_file, nodesRest>>

registerInstalledRegion(r) == installed_regions' = installed_regions \cup {r}

Register ==
    /\ At("register")
    /\ registerInstalledRegion(region)
    /\ Proceed("seed")
    /\ UNCHANGED <<dataVars, nodes_file, gist, unseeded, bare, flaw>>

\* Neither the bundle nor --regions-dir has the region's polygon, or the
\* manifest no bounding box: poll will not know of the region.
SkipRegister ==
    /\ At("register")
    /\ Proceed("seed")
    /\ UNCHANGED <<dataVars, nodes_file, gist, installed_regions, unseeded, bare, flaw>>

\* Mutant of estimated: without the safety margin.
estimatedNoMargin == bundle.exported_at

\* estimateBundleReplicationSequence: back from the tip to the export time,
\* and the margin further.
estimated ==
    LET back == (tip - bundle.exported_at) + Margin
    IN  IF tip - back > 0 THEN tip - back ELSE 0

Seed ==
    /\ At("seed")
    /\ sequence' = estimated
    /\ unseeded' = unseeded \ {install.of}
    /\ flaw' = flaw \cup {x \in {"lag", "skipped", "overlap"} :
                             \/ x = "lag" /\ bundle.exported_at - Margin > bundle.base
                             \/ x = "skipped" /\ sequence # Absent /\ estimated > sequence
                             \/ x = "overlap" /\ poll.pc # "stopped"
                                  /\ (poll.pc = "apply" \/ poll.regions # installed_regions)}
    /\ Proceed("done")
    /\ UNCHANGED <<row, tags, nodes_file, gist, installed_regions, bare>>

\* The replication state cannot be fetched: no sequence is set.
SeedFails ==
    /\ At("seed") /\ breaks < MaxBreaks
    /\ breaks' = breaks + 1
    /\ install' = NoInstall
    /\ UNCHANGED <<worldVars, exportVars, dataVars, nodes_file, gist, installed_regions, poll,
                   installs, unseeded, bare, flaw>>

\* The script fails, a step throws, or the process is killed; a copy that is
\* cut off leaves a file that cannot be read.
InstallBreaks ==
    /\ install.pc # "idle" /\ breaks < MaxBreaks
    /\ breaks' = breaks + 1
    /\ install' = NoInstall
    /\ \/ UNCHANGED nodes_file
       \/ /\ At("nodes") /\ nodes_file.state = "none"
          /\ nodes_file' = [state |-> "torn", has |-> {}]
    /\ UNCHANGED <<worldVars, exportVars, dataVars, gist, installed_regions, poll, installs,
                   unseeded, bare, flaw>>

\* The file an earlier install left torn stops this one.
MergeThrows ==
    /\ At("nodes") /\ bundle.slice # "none" /\ nodes_file.state = "torn"
    /\ Proceed("done")
    /\ UNCHANGED <<dataVars, nodes_file, gist, installed_regions, unseeded, bare, flaw>>

----------------------------------------------------------------------------
(* Poll mode on the target *)

pollRest == <<worldVars, exportVars, targetVars>>

loadInstalledRegions == installed_regions

\* runDelta loads the regions once.
PollStarts ==
    /\ poll.pc = "stopped" /\ loadInstalledRegions # {} /\ nodes_file.state = "whole"
    /\ sequence # Absent
    /\ poll' = [NoPoll EXCEPT !.pc = "head", !.regions = loadInstalledRegions]
    /\ UNCHANGED <<dataVars, pollRest>>

\* The head of the loop reads both sequences.
PollReads ==
    /\ poll.pc = "head" /\ sequence < tip
    /\ poll' = [poll EXCEPT !.pc = "apply", !.seq = sequence + 1, !.remote = tip]
    /\ UNCHANGED <<dataVars, pollRest>>

Covered(f) == \E r \in poll.regions : f \in InRegion[r]

\* History: the diff changes or deletes a row of a region that this process does
\* not know of, so that what follows of that feature is lost.
OverwritesInstall ==
    LET f == diffs[poll.seq].of
    IN  row[f] # Absent /\ ~Covered(f)

\* createNode leaves a feature elsewhere alone, modifyNode deletes its row.
PollApplies ==
    /\ poll.pc = "apply"
    /\ LET f == diffs[poll.seq].of
           new == Version(f, poll.seq - 1) = Absent
           v == IF diffs[poll.seq].deleted \/ ~Covered(f) THEN Absent ELSE poll.seq
       IN  IF new /\ ~Covered(f)
           THEN UNCHANGED <<row, tags>>
           ELSE /\ row' = [row EXCEPT ![f] = v]
                /\ tags' = [tags EXCEPT ![f] = IF v = Absent THEN <<>> ELSE <<v>>]
    /\ flaw' = flaw \cup (IF OverwritesInstall THEN {"overlap"} ELSE {})
    /\ sequence' = poll.seq
    /\ poll' = IF poll.seq = poll.remote THEN [poll EXCEPT !.pc = "head", !.seq = 0, !.remote = 0]
               ELSE [poll EXCEPT !.seq = @ + 1]
    /\ UNCHANGED <<worldVars, exportVars, nodes_file, gist, installed_regions, install, installs,
                   breaks, unseeded, bare>>

PollStops ==
    /\ poll.pc # "stopped"
    /\ poll' = NoPoll
    /\ UNCHANGED <<dataVars, pollRest>>

BundleNext ==
    \/ \E f \in Features, d \in BOOLEAN : PublishDiff(f, d)
    \/ MasterPolls
    \/ \E r \in Regions : WriteManifest(r)
    \/ ReadRows \/ ReadTags \/ Bundle
    \/ \E b \in 1..Len(bundles) : PrepareSchema(b)
    \/ RunScript \/ CreateIndexes \/ InstallNodes \/ SkipNodes \/ Register \/ SkipRegister \/ Seed
    \/ SeedFails \/ InstallBreaks \/ MergeThrows
    \/ PollStarts \/ PollReads \/ PollApplies \/ PollStops

BundleSpec == BundleInit /\ [][BundleNext]_bvars

----------------------------------------------------------------------------
(* Properties *)

Versions == Absent..MaxDiffs

BundleTypeOK ==
    /\ master \in 0..tip /\ tip <= MaxDiffs
    /\ row \in [Features -> Versions] /\ \A f \in Features : Len(tags[f]) <= 1
    /\ nodes_file.state \in {"none", "torn", "whole"} /\ nodes_file.has \subseteq Features
    /\ gist \in BOOLEAN /\ installed_regions \subseteq Regions /\ sequence \in Versions
    /\ install.pc \in {"idle", "script", "index", "nodes", "register", "seed"}
    /\ poll.pc \in {"stopped", "head", "apply"} /\ poll.regions \subseteq Regions
    /\ unseeded \subseteq 1..Len(bundles) /\ bare \subseteq Regions
    /\ flaw \subseteq {"lag", "skipped", "overlap"}

CaughtUp ==
    /\ poll.pc = "head" /\ poll.regions = installed_regions /\ sequence = tip
    /\ At("idle")

\* Once the target's poll has caught up, the rows and the tags of every
\* installed region are those of OpenStreetMap, each stored once, although
\* rows and tags were read at different times from a database that was being
\* updated, rows of one region were not replaced by another's, and installs
\* broke off and were run again.  Exceptions: the last install of a bundle put its
\* rows in and did not get to the sequence; the margin did not cover the export; a newer
\* bundle raised the sequence over the first one's; poll ran during an install.
InstalledRegionIsExact ==
    CaughtUp /\ flaw = {} /\ unseeded = {} =>
        \A r \in installed_regions : \A f \in InRegion[r] :
            LET v == Version(f, tip)
            IN  row[f] = v /\ tags[f] = IF v = Absent THEN <<>> ELSE <<v>>

\* A registered region has its coordinates in a node file that can be read, those
\* of a bundle of it and, while one is being registered, of that one; and the
\* indexes have been rebuilt since its rows went in, wherever earlier installs
\* broke off.  Exceptions, of the region alone: its last bundle came without a
\* readable slice of nodes.dat; of every region there: a merge lost the count
\* of its result.  A region of either kind is whole again with its next complete
\* install.  An install under way is the only time, beside a broken one, without
\* the indexes.
RegisteredIsUsable ==
    /\ \A r \in installed_regions \ bare :
          /\ nodes_file.state = "whole"
          /\ \E b \in 1..Len(bundles) : bundles[b].of = r /\ bundles[b].nodes \subseteq nodes_file.has
    /\ At("seed") => gist /\ (region \notin bare => bundle.nodes \subseteq nodes_file.has)
    /\ At("idle") /\ ~gist => breaks > 0

\* "Idempotent and safe to run more than once against the same target,
\* including with different or overlapping regions" (README.md): with the
\* margin respected and poll stopped, a caught-up target is exact.
SecondInstallIsSafe ==
    CaughtUp /\ "lag" \notin flaw /\ "overlap" \notin flaw /\ unseeded = {} =>
        \A r \in installed_regions : \A f \in InRegion[r] : row[f] = Version(f, tip)
=============================================================================
