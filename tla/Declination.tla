---------------------------- MODULE Declination ----------------------------
(***************************************************************************)
(* WMMLoader::load and buildBands: the magnetic declination of the globe   *)
(* as one raster row per cell, and the band polygons derived from it.      *)
(*                                                                         *)
(* A cell's raster and its row of wmm_cells are one transaction.  The      *)
(* bands are dropped in one transaction, cut into a staging table in a     *)
(* second and put back one by one.  The loader runs in poll mode           *)
(* (checkWMMRefresh), in the bulk import and as wmm_load; two of them may  *)
(* run at the same time, and share the staging table.  The threads of a    *)
(* run take cells and bands from a counter and share nothing else: a step  *)
(* handles any cell or band that is left.                                  *)
(***************************************************************************)
EXTENDS Naturals, Sequences, FiniteSets

CONSTANTS
    Cells, Bands,
    WmmPeriod,      \* kWMMRefreshSeconds
    MaxWmmTime,     \* bound on the clock
    MaxWmmRuns,     \* bound on the runs started by hand
    MaxWmmFaults    \* bound on failures and crashes

ASSUME WmmAssumption ==
    /\ IsFiniteSet(Cells) /\ IsFiniteSet(Bands) /\ Cells # {}
    /\ WmmPeriod \in Nat \ {0} /\ MaxWmmTime \in Nat \ {0} /\ MaxWmmRuns \in Nat /\ MaxWmmFaults \in Nat

\* Poll mode, and a program started by hand: the import or wmm_load.
Runners == {"poll", "hand"}

VARIABLES
    wmm,          \* raster rows of each cell
    wmm_cells,    \* the cells recorded as computed
    wmm_bands,    \* each band's polygons: the rows of wmm they were cut from
    staging,      \* the contents of wmm_frags_staging, <<>> when there is no such table
    declination,  \* declination_at_point has been created
    wrun,         \* what each program is doing
    wmm_known,    \* the row "wmm" of external_data_state, 0 for none
    wmm_clock, wmm_runs, wmm_faults,
    crossed,      \* history: two runs have overlapped
    left_out      \* history: a run covered the globe and did not make the function

wvars == <<wmm, wmm_cells, wmm_bands, staging, declination, wrun, wmm_known,
           wmm_clock, wmm_runs, wmm_faults, crossed, left_out>>

AtRest == [pc |-> "idle", to_load |-> {}, loaded |-> 0, left |-> {}, now |-> 0, clean |-> TRUE]

WmmInit ==
    /\ wmm = [c \in Cells |-> 0] /\ wmm_cells = {}
    /\ wmm_bands = [b \in Bands |-> <<>>] /\ staging = <<>>
    /\ declination = FALSE
    /\ wrun = [p \in Runners |-> AtRest]
    /\ wmm_known = 0 /\ wmm_clock = 1 /\ wmm_runs = 0 /\ wmm_faults = 0
    /\ crossed = FALSE /\ left_out = FALSE

Busy(p) == wrun[p].pc # "idle"

Go(p, r) == wrun' = [wrun EXCEPT ![p] = r]

WmmFault ==
    /\ wmm_faults < MaxWmmFaults
    /\ wmm_faults' = wmm_faults + 1

WmmTick ==
    /\ wmm_clock < MaxWmmTime
    /\ wmm_clock' = wmm_clock + 1
    /\ UNCHANGED <<wmm, wmm_cells, wmm_bands, staging, declination, wrun, wmm_known,
                   wmm_faults, wmm_runs, crossed, left_out>>

----------------------------------------------------------------------------
(* load *)

refreshed(now) == wmm_known > 0 /\ now - wmm_known < WmmPeriod

\* checkWMMRefresh returns at once.
StillFresh == ~Busy("poll") /\ refreshed(wmm_clock) /\ UNCHANGED wvars

\* Mutant of SelectCells: every cell is computed again.
SelectAllCells(p) ==
    /\ ~Busy(p)
    /\ IF p = "poll"
       THEN UNCHANGED wmm_runs /\ IF refreshed(wmm_clock) THEN WmmFault ELSE UNCHANGED wmm_faults
       ELSE wmm_runs < MaxWmmRuns /\ wmm_runs' = wmm_runs + 1 /\ UNCHANGED wmm_faults
    /\ Go(p, [AtRest EXCEPT !.pc = "cells", !.to_load = Cells, !.now = wmm_clock])
    /\ crossed' = (crossed \/ \E q \in Runners : Busy(q))
    /\ UNCHANGED <<wmm, wmm_cells, wmm_bands, staging, declination, wmm_known,
                   wmm_clock, left_out>>

\* The cells that wmm_cells does not name; with none, straight to the bands.
\* Poll comes here when a refresh is due, or when it fails to read the time of
\* the last one, which getExternalDataTimestamp answers with -1.
SelectCells(p) ==
    /\ ~Busy(p)
    /\ IF p = "poll"
       THEN UNCHANGED wmm_runs /\ IF refreshed(wmm_clock) THEN WmmFault ELSE UNCHANGED wmm_faults
       ELSE wmm_runs < MaxWmmRuns /\ wmm_runs' = wmm_runs + 1 /\ UNCHANGED wmm_faults
    /\ LET missing == Cells \ wmm_cells
       IN  Go(p, [AtRest EXCEPT !.pc = IF missing = {} THEN "truncate" ELSE "cells",
                                !.to_load = missing, !.now = wmm_clock])
    /\ crossed' = (crossed \/ \E q \in Runners : Busy(q))
    /\ UNCHANGED <<wmm, wmm_cells, wmm_bands, staging, declination, wmm_known,
                   wmm_clock, left_out>>

\* Raster row and record in one transaction.
ComputeCell(p, c) ==
    /\ wrun[p].pc = "cells" /\ c \in wrun[p].to_load
    /\ wmm' = [wmm EXCEPT ![c] = @ + 1]
    /\ wmm_cells' = wmm_cells \cup {c}
    /\ Go(p, [wrun[p] EXCEPT !.to_load = @ \ {c}, !.loaded = @ + 1])
    /\ UNCHANGED <<wmm_bands, staging, declination, wmm_known, wmm_clock, wmm_faults, wmm_runs, crossed, left_out>>

\* The commit goes through and its answer is lost: the row is not counted.
CellInDoubt(p, c) ==
    /\ wrun[p].pc = "cells" /\ c \in wrun[p].to_load
    /\ WmmFault
    /\ wmm' = [wmm EXCEPT ![c] = @ + 1]
    /\ wmm_cells' = wmm_cells \cup {c}
    /\ Go(p, [wrun[p] EXCEPT !.to_load = @ \ {c}, !.clean = FALSE])
    /\ UNCHANGED <<wmm_bands, staging, declination, wmm_known, wmm_clock, wmm_runs, crossed, left_out>>

\* One cell's transaction fails, or every worker has lost its connection.
CellsFail(p, lost) ==
    /\ wrun[p].pc = "cells" /\ lost # {} /\ lost \subseteq wrun[p].to_load
    /\ Cardinality(lost) = 1 \/ lost = wrun[p].to_load
    /\ WmmFault
    /\ Go(p, [wrun[p] EXCEPT !.to_load = @ \ lost, !.clean = FALSE])
    /\ UNCHANGED <<wmm, wmm_cells, wmm_bands, staging, declination, wmm_known, wmm_clock, wmm_runs, crossed, left_out>>

\* Nothing computed: load returns false.  Otherwise the function, then the
\* bands.
CellsJoined(p) ==
    /\ wrun[p].pc = "cells" /\ wrun[p].to_load = {}
    /\ IF wrun[p].loaded = 0
       THEN Go(p, AtRest) /\ UNCHANGED declination /\ left_out' = (left_out \/ wmm_cells = Cells)
       ELSE Go(p, [wrun[p] EXCEPT !.pc = "truncate"]) /\ declination' = TRUE /\ UNCHANGED left_out
    /\ UNCHANGED <<wmm, wmm_cells, wmm_bands, staging, wmm_known, wmm_clock, wmm_faults, wmm_runs, crossed>>

\* createDeclinationFunction fails, says so, and the run goes on to the bands.
FunctionFails(p) ==
    /\ wrun[p].pc = "cells" /\ wrun[p].to_load = {} /\ wrun[p].loaded > 0
    /\ WmmFault
    /\ Go(p, [wrun[p] EXCEPT !.pc = "truncate", !.clean = FALSE])
    /\ left_out' = (left_out \/ wmm_cells = Cells)
    /\ UNCHANGED <<wmm, wmm_cells, wmm_bands, staging, declination, wmm_known, wmm_clock, wmm_runs, crossed>>

----------------------------------------------------------------------------
(* buildBands: what it returns is not looked at *)

\* Mutant of TruncateBands: the polygons of the run before stay.
TruncateNoBands(p) ==
    /\ wrun[p].pc = "truncate"
    /\ Go(p, [wrun[p] EXCEPT !.pc = "stage"])
    /\ UNCHANGED <<wmm, wmm_cells, wmm_bands, staging, declination, wmm_known, wmm_clock, wmm_faults,
                   wmm_runs, crossed, left_out>>

\* A transaction of its own, so a failure later leaves no bands.
TruncateBands(p) ==
    /\ wrun[p].pc = "truncate"
    /\ wmm_bands' = [b \in Bands |-> <<>>]
    /\ Go(p, [wrun[p] EXCEPT !.pc = "stage"])
    /\ UNCHANGED <<wmm, wmm_cells, staging, declination, wmm_known, wmm_clock, wmm_faults, wmm_runs, crossed, left_out>>

\* DROP, CREATE and INSERT in one transaction.
StageFragments(p) ==
    /\ wrun[p].pc = "stage"
    /\ staging' = <<wmm>>
    /\ Go(p, [wrun[p] EXCEPT !.pc = "bands", !.left = Bands])
    /\ UNCHANGED <<wmm, wmm_cells, wmm_bands, declination, wmm_known, wmm_clock, wmm_faults, wmm_runs, crossed, left_out>>

InsertBand(p, b) ==
    /\ wrun[p].pc = "bands" /\ b \in wrun[p].left /\ staging # <<>>
    /\ wmm_bands' = [wmm_bands EXCEPT ![b] = Append(@, staging[1])]
    /\ Go(p, [wrun[p] EXCEPT !.left = @ \ {b}])
    /\ UNCHANGED <<wmm, wmm_cells, staging, declination, wmm_known, wmm_clock, wmm_faults, wmm_runs, crossed, left_out>>

\* A statement fails: its band is left out.  It does so for want of the table
\* when another run has dropped it.
BandFails(p, b) ==
    /\ wrun[p].pc = "bands" /\ b \in wrun[p].left
    /\ IF staging = <<>> THEN UNCHANGED wmm_faults ELSE WmmFault
    /\ Go(p, [wrun[p] EXCEPT !.left = @ \ {b}, !.clean = FALSE])
    /\ UNCHANGED <<wmm, wmm_cells, wmm_bands, staging, declination, wmm_known, wmm_clock, wmm_runs, crossed, left_out>>

\* The truncation or the staging fails, and buildBands returns.
BuildFails(p) ==
    /\ wrun[p].pc \in {"truncate", "stage"}
    /\ WmmFault
    /\ Go(p, [wrun[p] EXCEPT !.pc = "record", !.clean = FALSE])
    /\ UNCHANGED <<wmm, wmm_cells, wmm_bands, staging, declination, wmm_known, wmm_clock, wmm_runs, crossed, left_out>>

DropStaging(p) ==
    /\ wrun[p].pc = "bands" /\ wrun[p].left = {}
    /\ staging' = <<>>
    /\ Go(p, [wrun[p] EXCEPT !.pc = "record"])
    /\ UNCHANGED <<wmm, wmm_cells, wmm_bands, declination, wmm_known, wmm_clock, wmm_faults, wmm_runs, crossed, left_out>>

\* The staging table cannot be dropped; the run is recorded all the same.
StagingStays(p) ==
    /\ wrun[p].pc = "bands" /\ wrun[p].left = {}
    /\ WmmFault
    /\ Go(p, [wrun[p] EXCEPT !.pc = "record", !.clean = FALSE])
    /\ UNCHANGED <<wmm, wmm_cells, wmm_bands, staging, declination, wmm_known, wmm_clock, wmm_runs, crossed, left_out>>

----------------------------------------------------------------------------
(* After load: poll records the time of its check, the import the present  *)
(* and wmm_load nothing                                                    *)

RecordRefresh(p) ==
    /\ wrun[p].pc = "record"
    /\ wmm_known' \in IF p = "poll" THEN {wrun[p].now} ELSE {wmm_clock, wmm_known}
    /\ Go(p, AtRest)
    /\ UNCHANGED <<wmm, wmm_cells, wmm_bands, staging, declination, wmm_clock, wmm_faults, wmm_runs, crossed, left_out>>

\* A crash, or an exception that ends load.
WmmCrash(p) ==
    /\ Busy(p) /\ WmmFault
    /\ Go(p, AtRest)
    /\ left_out' = (left_out \/ (wrun[p].pc = "cells" /\ wmm_cells = Cells))
    /\ UNCHANGED <<wmm, wmm_cells, wmm_bands, staging, declination, wmm_known, wmm_clock, wmm_runs, crossed>>

WmmNext ==
    \/ WmmTick
    \/ StillFresh
    \/ \E p \in Runners :
          \/ SelectCells(p) \/ CellsJoined(p) \/ FunctionFails(p) \/ TruncateBands(p) \/ StageFragments(p)
          \/ BuildFails(p) \/ DropStaging(p) \/ StagingStays(p) \/ RecordRefresh(p) \/ WmmCrash(p)
          \/ \E c \in Cells : ComputeCell(p, c) \/ CellInDoubt(p, c)
          \/ \E lost \in SUBSET Cells : CellsFail(p, lost)
          \/ \E b \in Bands : InsertBand(p, b) \/ BandFails(p, b)

WmmSpec == WmmInit /\ [][WmmNext]_wvars

----------------------------------------------------------------------------
(* Properties *)

WmmTypeOK ==
    /\ wmm \in [Cells -> 0..2] /\ wmm_cells \subseteq Cells
    /\ \A b \in Bands : Len(wmm_bands[b]) <= 2
    /\ Len(staging) <= 1
    /\ declination \in BOOLEAN /\ crossed \in BOOLEAN /\ left_out \in BOOLEAN
    /\ \A p \in Runners : wrun[p].to_load \subseteq Cells /\ wrun[p].left \subseteq Bands
    /\ wmm_known \in 0..MaxWmmTime /\ wmm_clock \in 1..MaxWmmTime
    /\ wmm_runs \in 0..MaxWmmRuns /\ wmm_faults \in 0..MaxWmmFaults

\* wmm_cells names exactly the cells that have a raster row, and each has one,
\* through failures, crashes and resumed runs; once the globe is covered and no
\* run is under way, the query function exists.  Overlapping runs may double
\* a row.  The function stays out, and no later run creates it, when the run
\* that completed the cells ended before createDeclinationFunction, counted no
\* cell because the answers of its commits were lost, or had that call fail,
\* which load does not notice.
DeclinationResumable ==
    /\ \A c \in Cells : /\ c \in wmm_cells <=> wmm[c] > 0
                        /\ wmm[c] > 1 => crossed
    /\ (\A p \in Runners : ~Busy(p)) /\ wmm_cells = Cells => declination \/ left_out

\* When a run without failures is about to be recorded, wmm_bands holds every
\* band exactly once, cut from the whole raster as it stands: the failures of
\* earlier runs, bands left out and a staging table left behind included.
BandsFollowRaster ==
    \A p \in Runners :
        wrun[p].pc = "record" /\ wrun[p].clean /\ ~crossed =>
            wmm_bands = [b \in Bands |-> <<wmm>>] /\ staging = <<>>
=============================================================================
