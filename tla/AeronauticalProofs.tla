------------------------ MODULE AeronauticalProofs ------------------------
(***************************************************************************)
(* Proofs about the loaders of aeronautical data: Declination, Terrain and *)
(* ExternalTables, each on its own specification, and then side by side.   *)
(*                                                                         *)
(* They hold for every set of cells, bands, tiles and threads, every batch *)
(* size, every tolerance and period, and every number of failures, crashes *)
(* and runs started by hand.                                               *)
(***************************************************************************)
EXTENDS MCAeronautical, FiniteSetTheorems, TLAPS

----------------------------------------------------------------------------
(* Declination: the inductive invariant *)

Rasters == [Cells -> Nat]

WmmRuns ==
    [pc : {"idle", "cells", "truncate", "stage", "bands", "record"},
     to_load : SUBSET Cells, loaded : Nat, left : SUBSET Bands,
     now : 0..MaxWmmTime, clean : BOOLEAN]

WmmTypes ==
    /\ wmm \in Rasters /\ wmm_cells \subseteq Cells
    /\ wmm_bands \in [Bands -> Seq(Rasters)]
    /\ staging = <<>> \/ \E w \in Rasters : staging = <<w>>
    /\ declination \in BOOLEAN /\ crossed \in BOOLEAN /\ left_out \in BOOLEAN
    /\ wrun \in [Runners -> WmmRuns]
    /\ wmm_known \in 0..MaxWmmTime /\ wmm_clock \in 1..MaxWmmTime
    /\ wmm_runs \in 0..MaxWmmRuns /\ wmm_faults \in 0..MaxWmmFaults

\* Two programs at work at once have been noticed.
CrossedWhenBoth == \A p, q \in Runners : p # q /\ Busy(p) /\ Busy(q) => crossed

\* Only the cell phase has cells to compute, and it selected them while they
\* had no row: of two programs that both have one to compute, one is about to
\* write its first row.
CellRows ==
    /\ \A p \in Runners : wrun[p].pc # "cells" => wrun[p].to_load = {}
    /\ \A c \in Cells :
          /\ c \in wmm_cells <=> wmm[c] > 0
          /\ wmm[c] <= 2 /\ (wmm[c] > 1 => crossed)
          /\ \A p \in Runners : c \in wrun[p].to_load => wmm[c] <= 1 /\ (wmm[c] = 1 => crossed)
          /\ (\A p \in Runners : c \in wrun[p].to_load) => wmm[c] = 0

\* The globe is covered: the function exists, or a run in its cell phase is on
\* its way to it, or such a run has ended without it.
FunctionOnItsWay ==
    wmm_cells = Cells =>
        declination \/ left_out \/ \E p \in Runners : wrun[p].pc = "cells"

\* A program between its truncation and band b adds one polygon to it.
WillInsert(p, b) == wrun[p].pc = "stage" \/ (wrun[p].pc = "bands" /\ b \in wrun[p].left)

BandRows ==
    \A b \in Bands :
        /\ Len(wmm_bands[b]) <= 2
        /\ \A p \in Runners : WillInsert(p, b) => Len(wmm_bands[b]) <= 1
        /\ (\A p \in Runners : WillInsert(p, b)) => Len(wmm_bands[b]) = 0

\* How far the only program at work has come with the bands.
BandProgress ==
    \A p \in Runners : ~crossed =>
        /\ wrun[p].pc = "stage" => \A b \in Bands : wmm_bands[b] = <<>>
        /\ wrun[p].pc = "bands" =>
              /\ staging = <<wmm>>
              /\ \A b \in Bands : /\ b \in wrun[p].left => wmm_bands[b] = <<>>
                                  /\ b \notin wrun[p].left /\ wrun[p].clean => wmm_bands[b] = <<wmm>>
        /\ wrun[p].pc = "record" /\ wrun[p].clean =>
              wmm_bands = [b \in Bands |-> <<wmm>>] /\ staging = <<>>

WmmIInv ==
    WmmTypes /\ CrossedWhenBoth /\ CellRows /\ FunctionOnItsWay /\ BandRows /\ BandProgress

\* A step of one program leaves the other where it was.
LEMMA GoTyped ==
    ASSUME wrun \in [Runners -> WmmRuns], NEW p \in Runners, NEW r \in WmmRuns, Go(p, r)
    PROVE  /\ wrun' \in [Runners -> WmmRuns] /\ wrun'[p] = r
           /\ \A q \in Runners : q # p => wrun'[q] = wrun[q]
  BY DEF Go

\* What a program keeps.
LEMMA RunTypes ==
    ASSUME wrun \in [Runners -> WmmRuns], NEW p \in Runners
    PROVE  /\ wrun[p].pc \in {"idle", "cells", "truncate", "stage", "bands", "record"}
           /\ wrun[p].to_load \subseteq Cells /\ wrun[p].left \subseteq Bands
           /\ wrun[p].loaded \in Nat /\ wrun[p].clean \in BOOLEAN
  BY DEF WmmRuns

\* The passing of time keeps the invariant.
LEMMA WmmTickKeeps ==
    ASSUME WmmIInv, WmmTick
    PROVE  WmmIInv'
  BY WmmAssumption DEF WmmIInv, WmmTypes, CrossedWhenBoth, CellRows, FunctionOnItsWay,
                      BandRows, WillInsert, BandProgress, Busy, WmmTick

\* The selection of the cells left keeps the invariant.
LEMMA SelectCellsKeeps ==
    ASSUME NEW p \in Runners, WmmIInv, SelectCells(p)
    PROVE  WmmIInv'
  <1> DEFINE r == [AtRest EXCEPT !.pc = IF Cells \ wmm_cells = {} THEN "truncate" ELSE "cells",
                            !.to_load = Cells \ wmm_cells, !.now = wmm_clock]
  <1> USE DEF WmmIInv
  <1>1. r \in WmmRuns /\ Go(p, r)
    <2>1. AtRest \in WmmRuns /\ wmm_clock \in 0..MaxWmmTime
          BY WmmAssumption DEF WmmTypes, WmmRuns, AtRest
    <2>2. r \in WmmRuns
          BY <2>1 DEF WmmRuns
    <2> QED
        BY <2>2 DEF SelectCells
  <1>2. /\ r.to_load = Cells \ wmm_cells
        /\ r.loaded = 0
        /\ r.left = {}
        /\ r.clean = TRUE
        /\ r.pc \in {"truncate", "cells"} /\ (r.to_load # {} => r.pc = "cells")
        BY DEF WmmTypes, WmmRuns, SelectCells, AtRest
  <1> HIDE DEF r
  <1>3. /\ wrun' \in [Runners -> WmmRuns] /\ wrun'[p] = r
        /\ \A q \in Runners : q # p => wrun'[q] = wrun[q]
        BY <1>1, GoTyped DEF WmmTypes
  <1>4. WmmTypes'
        BY <1>3, WmmAssumption DEF WmmTypes, Rasters, SelectCells, WmmFault
  <1>5. wmm \in [Cells -> Nat] /\ wmm_cells \subseteq Cells /\ wmm_bands \in [Bands -> Seq(Rasters)]
        BY DEF WmmTypes, Rasters
  <1>6. CrossedWhenBoth'
        BY <1>2, <1>3, <1>5, RunTypes DEF WmmTypes, SelectCells, CrossedWhenBoth, Busy
  <1>7. CellRows'
        BY <1>2, <1>3, <1>5, RunTypes DEF WmmTypes, SelectCells, CrossedWhenBoth, CellRows, Busy, Runners
  <1>8. FunctionOnItsWay'
        BY <1>2, <1>3, <1>5, RunTypes DEF WmmTypes, SelectCells, Busy, FunctionOnItsWay
  <1>9. BandRows'
        BY <1>2, <1>3, <1>5, RunTypes DEF WmmTypes, SelectCells, BandRows, WillInsert, Runners
  <1>10. BandProgress'
        BY <1>2, <1>3, <1>5, RunTypes DEF WmmTypes, SelectCells, CrossedWhenBoth, Busy, BandProgress
  <1> QED
      BY <1>4, <1>6, <1>7, <1>8, <1>9, <1>10

\* A cell's transaction keeps the invariant.
LEMMA ComputeCellKeeps ==
    ASSUME NEW p \in Runners, NEW c \in Cells, WmmIInv, ComputeCell(p, c)
    PROVE  WmmIInv'
  <1> DEFINE r == [wrun[p] EXCEPT !.to_load = @ \ {c}, !.loaded = @ + 1]
  <1> USE DEF WmmIInv
  <1>1. r \in WmmRuns /\ Go(p, r)
    <2>1. wrun[p] \in WmmRuns /\ wrun[p].loaded + 1 \in Nat
          BY RunTypes DEF WmmTypes
    <2>2. r \in WmmRuns
          BY <2>1 DEF WmmRuns
    <2> QED
        BY <2>2 DEF ComputeCell
  <1>2. /\ r.pc = "cells"
        /\ r.to_load = wrun[p].to_load \ {c}
        /\ r.loaded = wrun[p].loaded + 1
        /\ r.left = wrun[p].left
        /\ r.clean = wrun[p].clean
        BY DEF WmmTypes, WmmRuns, ComputeCell
  <1> HIDE DEF r
  <1>3. /\ wrun' \in [Runners -> WmmRuns] /\ wrun'[p] = r
        /\ \A q \in Runners : q # p => wrun'[q] = wrun[q]
        BY <1>1, GoTyped DEF WmmTypes
  <1>4. WmmTypes'
        BY <1>3, WmmAssumption DEF WmmTypes, Rasters, ComputeCell
  <1>5. wmm \in [Cells -> Nat] /\ wmm_cells \subseteq Cells /\ wmm_bands \in [Bands -> Seq(Rasters)]
        BY DEF WmmTypes, Rasters
  <1>6. CrossedWhenBoth'
        BY <1>2, <1>3, <1>5, RunTypes DEF WmmTypes, ComputeCell, CrossedWhenBoth, Busy
  <1>7. CellRows'
        BY <1>2, <1>3, <1>5, RunTypes DEF WmmTypes, ComputeCell, CrossedWhenBoth, CellRows, Busy, Runners
  <1>8. FunctionOnItsWay'
        BY <1>2, <1>3, <1>5, RunTypes DEF WmmTypes, ComputeCell, CellRows, FunctionOnItsWay
  <1>9. BandRows'
        BY <1>2, <1>3, <1>5, RunTypes DEF WmmTypes, ComputeCell, BandRows, WillInsert, Runners
  <1>10. BandProgress'
        BY <1>2, <1>3, <1>5, RunTypes DEF WmmTypes, ComputeCell, CrossedWhenBoth, Busy, BandProgress
  <1> QED
      BY <1>4, <1>6, <1>7, <1>8, <1>9, <1>10

\* A commit whose answer is lost keeps the invariant.
LEMMA CellInDoubtKeeps ==
    ASSUME NEW p \in Runners, NEW c \in Cells, WmmIInv, CellInDoubt(p, c)
    PROVE  WmmIInv'
  <1> DEFINE r == [wrun[p] EXCEPT !.to_load = @ \ {c}, !.clean = FALSE]
  <1> USE DEF WmmIInv
  <1>1. r \in WmmRuns /\ Go(p, r)
    <2>1. wrun[p] \in WmmRuns
          BY RunTypes DEF WmmTypes
    <2>2. r \in WmmRuns
          BY <2>1 DEF WmmRuns
    <2> QED
        BY <2>2 DEF CellInDoubt
  <1>2. /\ r.pc = "cells"
        /\ r.to_load = wrun[p].to_load \ {c}
        /\ r.loaded = wrun[p].loaded
        /\ r.left = wrun[p].left
        /\ r.clean = FALSE
        BY DEF WmmTypes, WmmRuns, CellInDoubt
  <1> HIDE DEF r
  <1>3. /\ wrun' \in [Runners -> WmmRuns] /\ wrun'[p] = r
        /\ \A q \in Runners : q # p => wrun'[q] = wrun[q]
        BY <1>1, GoTyped DEF WmmTypes
  <1>4. WmmTypes'
        BY <1>3, WmmAssumption DEF WmmTypes, Rasters, CellInDoubt, WmmFault
  <1>5. wmm \in [Cells -> Nat] /\ wmm_cells \subseteq Cells /\ wmm_bands \in [Bands -> Seq(Rasters)]
        BY DEF WmmTypes, Rasters
  <1>6. CrossedWhenBoth'
        BY <1>2, <1>3, <1>5, RunTypes DEF WmmTypes, CellInDoubt, CrossedWhenBoth, Busy
  <1>7. CellRows'
        BY <1>2, <1>3, <1>5, RunTypes DEF WmmTypes, CellInDoubt, CrossedWhenBoth, CellRows, Busy, Runners
  <1>8. FunctionOnItsWay'
        BY <1>2, <1>3, <1>5, RunTypes DEF WmmTypes, CellInDoubt, CellRows, FunctionOnItsWay
  <1>9. BandRows'
        BY <1>2, <1>3, <1>5, RunTypes DEF WmmTypes, CellInDoubt, BandRows, WillInsert, Runners
  <1>10. BandProgress'
        BY <1>2, <1>3, <1>5, RunTypes DEF WmmTypes, CellInDoubt, CrossedWhenBoth, Busy, BandProgress
  <1> QED
      BY <1>4, <1>6, <1>7, <1>8, <1>9, <1>10

\* Cells that fail keeps the invariant.
LEMMA CellsFailKeeps ==
    ASSUME NEW p \in Runners, NEW lost \in SUBSET Cells, WmmIInv, CellsFail(p, lost)
    PROVE  WmmIInv'
  <1> DEFINE r == [wrun[p] EXCEPT !.to_load = @ \ lost, !.clean = FALSE]
  <1> USE DEF WmmIInv
  <1>1. r \in WmmRuns /\ Go(p, r)
        BY WmmAssumption DEF WmmTypes, WmmRuns, CellsFail, WmmFault
  <1>2. /\ r.pc = "cells"
        /\ r.to_load = wrun[p].to_load \ lost
        /\ r.loaded = wrun[p].loaded
        /\ r.left = wrun[p].left
        /\ r.clean = FALSE
        BY DEF WmmTypes, WmmRuns, CellsFail, WmmFault
  <1> HIDE DEF r
  <1>3. /\ wrun' \in [Runners -> WmmRuns] /\ wrun'[p] = r
        /\ \A q \in Runners : q # p => wrun'[q] = wrun[q]
        BY <1>1, GoTyped DEF WmmTypes
  <1>4. WmmTypes'
        BY <1>3, WmmAssumption DEF WmmTypes, Rasters, CellsFail, WmmFault
  <1>5. wmm \in [Cells -> Nat] /\ wmm_cells \subseteq Cells /\ wmm_bands \in [Bands -> Seq(Rasters)]
        BY DEF WmmTypes, Rasters
  <1>6. CrossedWhenBoth'
        BY <1>2, <1>3, <1>5, RunTypes DEF WmmTypes, CellsFail, WmmFault, CrossedWhenBoth, Busy
  <1>7. CellRows'
        BY <1>2, <1>3, <1>5, RunTypes DEF WmmTypes, CellsFail, WmmFault, CrossedWhenBoth, CellRows, Busy, Runners
  <1>8. FunctionOnItsWay'
        BY <1>2, <1>3, <1>5, RunTypes DEF WmmTypes, CellsFail, WmmFault, CellRows, FunctionOnItsWay
  <1>9. BandRows'
        BY <1>2, <1>3, <1>5, RunTypes DEF WmmTypes, CellsFail, WmmFault, BandRows, WillInsert, Runners
  <1>10. BandProgress'
        BY <1>2, <1>3, <1>5, RunTypes DEF WmmTypes, CellsFail, WmmFault, CrossedWhenBoth, Busy, BandProgress
  <1> QED
      BY <1>4, <1>6, <1>7, <1>8, <1>9, <1>10

\* The end of the cell phase keeps the invariant.
LEMMA CellsJoinedKeeps ==
    ASSUME NEW p \in Runners, WmmIInv, CellsJoined(p)
    PROVE  WmmIInv'
  <1> DEFINE r == IF wrun[p].loaded = 0 THEN AtRest ELSE [wrun[p] EXCEPT !.pc = "truncate"]
  <1> USE DEF WmmIInv
  <1>1. r \in WmmRuns /\ Go(p, r)
    <2>1. AtRest \in WmmRuns /\ wrun[p] \in WmmRuns
          BY WmmAssumption DEF WmmTypes, WmmRuns, AtRest
    <2>2. [wrun[p] EXCEPT !.pc = "truncate"] \in WmmRuns
          BY <2>1 DEF WmmRuns
    <2> QED
        BY <2>1, <2>2 DEF CellsJoined
  <1>2. /\ r.pc = IF wrun[p].loaded = 0 THEN "idle" ELSE "truncate"
        /\ r.to_load = {}
        BY DEF WmmTypes, WmmRuns, CellsJoined, AtRest
  <1> HIDE DEF r
  <1>3. /\ wrun' \in [Runners -> WmmRuns] /\ wrun'[p] = r
        /\ \A q \in Runners : q # p => wrun'[q] = wrun[q]
        BY <1>1, GoTyped DEF WmmTypes
  <1>4. WmmTypes'
        BY <1>3, WmmAssumption DEF WmmTypes, Rasters, CellsJoined
  <1>5. wmm \in [Cells -> Nat] /\ wmm_cells \subseteq Cells /\ wmm_bands \in [Bands -> Seq(Rasters)]
        BY DEF WmmTypes, Rasters
  <1>6. CrossedWhenBoth'
        BY <1>2, <1>3, <1>5, RunTypes DEF WmmTypes, CellsJoined, CrossedWhenBoth, Busy
  <1>7. CellRows'
        BY <1>2, <1>3, <1>5, RunTypes DEF WmmTypes, CellsJoined, CrossedWhenBoth, CellRows, Busy, Runners
  <1>8. FunctionOnItsWay'
        BY <1>2, <1>3, <1>5, RunTypes DEF WmmTypes, CellsJoined, CellRows, FunctionOnItsWay
  <1>9. BandRows'
        BY <1>2, <1>3, <1>5, RunTypes DEF WmmTypes, CellsJoined, BandRows, WillInsert, Runners
  <1>10. BandProgress'
        BY <1>2, <1>3, <1>5, RunTypes DEF WmmTypes, CellsJoined, CrossedWhenBoth, Busy, BandProgress
  <1> QED
      BY <1>4, <1>6, <1>7, <1>8, <1>9, <1>10

\* A failure to create the function keeps the invariant.
LEMMA FunctionFailsKeeps ==
    ASSUME NEW p \in Runners, WmmIInv, FunctionFails(p)
    PROVE  WmmIInv'
  <1> DEFINE r == [wrun[p] EXCEPT !.pc = "truncate", !.clean = FALSE]
  <1> USE DEF WmmIInv
  <1>1. r \in WmmRuns /\ Go(p, r)
        BY WmmAssumption DEF WmmTypes, WmmRuns, FunctionFails, WmmFault
  <1>2. r.pc = "truncate" /\ r.to_load = {}
        BY DEF WmmTypes, WmmRuns, FunctionFails
  <1> HIDE DEF r
  <1>3. /\ wrun' \in [Runners -> WmmRuns] /\ wrun'[p] = r
        /\ \A q \in Runners : q # p => wrun'[q] = wrun[q]
        BY <1>1, GoTyped DEF WmmTypes
  <1>4. WmmTypes'
        BY <1>3, WmmAssumption DEF WmmTypes, Rasters, FunctionFails, WmmFault
  <1>5. wmm \in [Cells -> Nat] /\ wmm_cells \subseteq Cells /\ wmm_bands \in [Bands -> Seq(Rasters)]
        BY DEF WmmTypes, Rasters
  <1>6. CrossedWhenBoth'
        BY <1>2, <1>3, <1>5, RunTypes DEF WmmTypes, FunctionFails, WmmFault, CrossedWhenBoth, Busy
  <1>7. CellRows'
        BY <1>2, <1>3, <1>5, RunTypes DEF WmmTypes, FunctionFails, WmmFault, CrossedWhenBoth, CellRows, Busy, Runners
  <1>8. FunctionOnItsWay'
        BY <1>2, <1>3, <1>5, RunTypes DEF WmmTypes, FunctionFails, WmmFault, CellRows, FunctionOnItsWay
  <1>9. BandRows'
        BY <1>2, <1>3, <1>5, RunTypes DEF WmmTypes, FunctionFails, WmmFault, BandRows, WillInsert, Runners
  <1>10. BandProgress'
        BY <1>2, <1>3, <1>5, RunTypes DEF WmmTypes, FunctionFails, WmmFault, CrossedWhenBoth, Busy, BandProgress
  <1> QED
      BY <1>4, <1>6, <1>7, <1>8, <1>9, <1>10

\* The truncation keeps the invariant.
LEMMA TruncateBandsKeeps ==
    ASSUME NEW p \in Runners, WmmIInv, TruncateBands(p)
    PROVE  WmmIInv'
  <1> DEFINE r == [wrun[p] EXCEPT !.pc = "stage"]
  <1> USE DEF WmmIInv
  <1>1. r \in WmmRuns /\ Go(p, r)
        BY WmmAssumption DEF WmmTypes, WmmRuns, TruncateBands
  <1>2. /\ r.pc = "stage"
        /\ r.to_load = wrun[p].to_load
        /\ r.loaded = wrun[p].loaded
        /\ r.left = wrun[p].left
        /\ r.clean = wrun[p].clean
        BY DEF WmmTypes, WmmRuns, TruncateBands
  <1> HIDE DEF r
  <1>3. /\ wrun' \in [Runners -> WmmRuns] /\ wrun'[p] = r
        /\ \A q \in Runners : q # p => wrun'[q] = wrun[q]
        BY <1>1, GoTyped DEF WmmTypes
  <1>4. WmmTypes'
        BY <1>3, WmmAssumption DEF WmmTypes, Rasters, TruncateBands
  <1>5. wmm \in [Cells -> Nat] /\ wmm_cells \subseteq Cells /\ wmm_bands \in [Bands -> Seq(Rasters)]
        BY DEF WmmTypes, Rasters
  <1>6. CrossedWhenBoth'
        BY <1>2, <1>3, <1>5, RunTypes DEF WmmTypes, TruncateBands, CrossedWhenBoth, Busy
  <1>7. CellRows'
        BY <1>2, <1>3, <1>5, RunTypes DEF WmmTypes, TruncateBands, CrossedWhenBoth, CellRows, Busy, Runners
  <1>8. FunctionOnItsWay'
        BY <1>2, <1>3, <1>5, RunTypes DEF WmmTypes, TruncateBands, CellRows, FunctionOnItsWay
  <1>9. BandRows'
        BY <1>2, <1>3, <1>5, RunTypes DEF WmmTypes, TruncateBands, BandRows, WillInsert, Runners
  <1>10. BandProgress'
        BY <1>2, <1>3, <1>5, RunTypes DEF WmmTypes, TruncateBands, CrossedWhenBoth, Busy, BandProgress
  <1> QED
      BY <1>4, <1>6, <1>7, <1>8, <1>9, <1>10

\* The staging keeps the invariant.
LEMMA StageFragmentsKeeps ==
    ASSUME NEW p \in Runners, WmmIInv, StageFragments(p)
    PROVE  WmmIInv'
  <1> DEFINE r == [wrun[p] EXCEPT !.pc = "bands", !.left = Bands]
  <1> USE DEF WmmIInv
  <1>1. r \in WmmRuns /\ Go(p, r)
        BY WmmAssumption DEF WmmTypes, WmmRuns, StageFragments
  <1>2. /\ r.pc = "bands"
        /\ r.to_load = wrun[p].to_load
        /\ r.loaded = wrun[p].loaded
        /\ r.left = Bands
        /\ r.clean = wrun[p].clean
        BY DEF WmmTypes, WmmRuns, StageFragments
  <1> HIDE DEF r
  <1>3. /\ wrun' \in [Runners -> WmmRuns] /\ wrun'[p] = r
        /\ \A q \in Runners : q # p => wrun'[q] = wrun[q]
        BY <1>1, GoTyped DEF WmmTypes
  <1>4. WmmTypes'
        BY <1>3, WmmAssumption DEF WmmTypes, Rasters, StageFragments
  <1>5. wmm \in [Cells -> Nat] /\ wmm_cells \subseteq Cells /\ wmm_bands \in [Bands -> Seq(Rasters)]
        BY DEF WmmTypes, Rasters
  <1>6. CrossedWhenBoth'
        BY <1>2, <1>3, <1>5, RunTypes DEF WmmTypes, StageFragments, CrossedWhenBoth, Busy
  <1>7. CellRows'
        BY <1>2, <1>3, <1>5, RunTypes DEF WmmTypes, StageFragments, CrossedWhenBoth, CellRows, Busy, Runners
  <1>8. FunctionOnItsWay'
        BY <1>2, <1>3, <1>5, RunTypes DEF WmmTypes, StageFragments, CellRows, FunctionOnItsWay
  <1>9. BandRows'
        BY <1>2, <1>3, <1>5, RunTypes DEF WmmTypes, StageFragments, BandRows, WillInsert, Runners
  <1>10. BandProgress'
        BY <1>2, <1>3, <1>5, RunTypes DEF WmmTypes, StageFragments, CrossedWhenBoth, Busy, BandProgress
  <1> QED
      BY <1>4, <1>6, <1>7, <1>8, <1>9, <1>10

\* A band keeps the invariant.
LEMMA InsertBandKeeps ==
    ASSUME NEW p \in Runners, NEW b \in Bands, WmmIInv, InsertBand(p, b)
    PROVE  WmmIInv'
  <1> DEFINE r == [wrun[p] EXCEPT !.left = @ \ {b}]
  <1> USE DEF WmmIInv
  <1>1. r \in WmmRuns /\ Go(p, r)
        BY WmmAssumption DEF WmmTypes, WmmRuns, InsertBand
  <1>2. /\ r.pc = "bands"
        /\ r.to_load = wrun[p].to_load
        /\ r.loaded = wrun[p].loaded
        /\ r.left = wrun[p].left \ {b}
        /\ r.clean = wrun[p].clean
        BY DEF WmmTypes, WmmRuns, InsertBand
  <1> HIDE DEF r
  <1>3. /\ wrun' \in [Runners -> WmmRuns] /\ wrun'[p] = r
        /\ \A q \in Runners : q # p => wrun'[q] = wrun[q]
        BY <1>1, GoTyped DEF WmmTypes
  <1>4. WmmTypes'
    <2>1. staging[1] \in Rasters /\ wmm_bands[b] \in Seq(Rasters)
          BY DEF WmmTypes, InsertBand
    <2>2. Append(wmm_bands[b], staging[1]) \in Seq(Rasters)
          BY <2>1
    <2>3. wmm_bands' \in [Bands -> Seq(Rasters)]
          BY <2>2 DEF WmmTypes, InsertBand
    <2> QED
        BY <1>3, <2>3 DEF WmmTypes, InsertBand
  <1>5. wmm \in [Cells -> Nat] /\ wmm_cells \subseteq Cells /\ wmm_bands \in [Bands -> Seq(Rasters)]
        BY DEF WmmTypes, Rasters
  <1>6. CrossedWhenBoth'
        BY <1>2, <1>3, <1>5, RunTypes DEF WmmTypes, InsertBand, CrossedWhenBoth, Busy
  <1>7. CellRows'
        BY <1>2, <1>3, <1>5, RunTypes DEF WmmTypes, InsertBand, CrossedWhenBoth, CellRows, Busy, Runners
  <1>8. FunctionOnItsWay'
        BY <1>2, <1>3, <1>5, RunTypes DEF WmmTypes, InsertBand, CellRows, FunctionOnItsWay
  <1>a. /\ staging[1] \in Rasters /\ staging = <<staging[1]>>
        /\ wmm_bands'[b] = Append(wmm_bands[b], staging[1])
        /\ Len(wmm_bands'[b]) = Len(wmm_bands[b]) + 1
        /\ \A d \in Bands : d # b => wmm_bands'[d] = wmm_bands[d]
    <2>1. \E w \in Rasters : staging = <<w>>
          BY DEF WmmTypes, InsertBand
    <2> QED
        BY <2>1, <1>5 DEF InsertBand
  <1>9. BandRows'
        BY <1>a, <1>2, <1>3, <1>5, RunTypes DEF WmmTypes, InsertBand, BandRows, WillInsert, Runners
  <1>10. BandProgress'
    <2>1. wmm_bands[b] = <<>> => wmm_bands'[b] = <<staging[1]>>
          BY <1>a
    <2>2. staging = <<wmm>> => staging[1] = wmm
          OBVIOUS
    <2>3. wrun[p].pc = "bands" /\ b \in wrun[p].left
          BY DEF InsertBand
    <2>4. ASSUME ~crossed, NEW q \in Runners, q # p PROVE wrun'[q].pc = "idle"
          BY <2>3, <2>4, <1>3 DEF CrossedWhenBoth, Busy
    <2>5. ASSUME ~crossed
          PROVE  /\ staging' = <<wmm'>>
                 /\ \A d \in Bands : /\ d \in wrun'[p].left => wmm_bands'[d] = <<>>
                                     /\ d \notin wrun'[p].left /\ wrun'[p].clean => wmm_bands'[d] = <<wmm'>>
          BY <2>5, <2>3, <1>a, <2>1, <2>2, <1>2, <1>3 DEF InsertBand, BandProgress
    <2> QED
        BY <2>4, <2>5, <1>2, <1>3 DEF InsertBand, BandProgress
  <1> QED
      BY <1>4, <1>6, <1>7, <1>8, <1>9, <1>10

\* A band that fails keeps the invariant.
LEMMA BandFailsKeeps ==
    ASSUME NEW p \in Runners, NEW b \in Bands, WmmIInv, BandFails(p, b)
    PROVE  WmmIInv'
  <1> DEFINE r == [wrun[p] EXCEPT !.left = @ \ {b}, !.clean = FALSE]
  <1> USE DEF WmmIInv
  <1>1. r \in WmmRuns /\ Go(p, r)
        BY WmmAssumption DEF WmmTypes, WmmRuns, BandFails, WmmFault
  <1>2. /\ r.pc = "bands"
        /\ r.to_load = wrun[p].to_load
        /\ r.loaded = wrun[p].loaded
        /\ r.left = wrun[p].left \ {b}
        /\ r.clean = FALSE
        BY DEF WmmTypes, WmmRuns, BandFails, WmmFault
  <1> HIDE DEF r
  <1>3. /\ wrun' \in [Runners -> WmmRuns] /\ wrun'[p] = r
        /\ \A q \in Runners : q # p => wrun'[q] = wrun[q]
        BY <1>1, GoTyped DEF WmmTypes
  <1>4. WmmTypes'
        BY <1>3, WmmAssumption DEF WmmTypes, Rasters, BandFails, WmmFault
  <1>5. wmm \in [Cells -> Nat] /\ wmm_cells \subseteq Cells /\ wmm_bands \in [Bands -> Seq(Rasters)]
        BY DEF WmmTypes, Rasters
  <1>6. CrossedWhenBoth'
        BY <1>2, <1>3, <1>5, RunTypes DEF WmmTypes, BandFails, WmmFault, CrossedWhenBoth, Busy
  <1>7. CellRows'
        BY <1>2, <1>3, <1>5, RunTypes DEF WmmTypes, BandFails, WmmFault, CrossedWhenBoth, CellRows, Busy, Runners
  <1>8. FunctionOnItsWay'
        BY <1>2, <1>3, <1>5, RunTypes DEF WmmTypes, BandFails, WmmFault, CellRows, FunctionOnItsWay
  <1>9. BandRows'
        BY <1>2, <1>3, <1>5, RunTypes DEF WmmTypes, BandFails, WmmFault, BandRows, WillInsert, Runners
  <1>10. BandProgress'
        BY <1>2, <1>3, <1>5, RunTypes DEF WmmTypes, BandFails, WmmFault, CrossedWhenBoth, Busy, BandProgress
  <1> QED
      BY <1>4, <1>6, <1>7, <1>8, <1>9, <1>10

\* A truncation or staging that fails keeps the invariant.
LEMMA BuildFailsKeeps ==
    ASSUME NEW p \in Runners, WmmIInv, BuildFails(p)
    PROVE  WmmIInv'
  <1> DEFINE r == [wrun[p] EXCEPT !.pc = "record", !.clean = FALSE]
  <1> USE DEF WmmIInv
  <1>1. r \in WmmRuns /\ Go(p, r)
        BY WmmAssumption DEF WmmTypes, WmmRuns, BuildFails, WmmFault
  <1>2. /\ r.pc = "record"
        /\ r.to_load = wrun[p].to_load
        /\ r.loaded = wrun[p].loaded
        /\ r.left = wrun[p].left
        /\ r.clean = FALSE
        BY DEF WmmTypes, WmmRuns, BuildFails, WmmFault
  <1> HIDE DEF r
  <1>3. /\ wrun' \in [Runners -> WmmRuns] /\ wrun'[p] = r
        /\ \A q \in Runners : q # p => wrun'[q] = wrun[q]
        BY <1>1, GoTyped DEF WmmTypes
  <1>4. WmmTypes'
        BY <1>3, WmmAssumption DEF WmmTypes, Rasters, BuildFails, WmmFault
  <1>5. wmm \in [Cells -> Nat] /\ wmm_cells \subseteq Cells /\ wmm_bands \in [Bands -> Seq(Rasters)]
        BY DEF WmmTypes, Rasters
  <1>6. CrossedWhenBoth'
        BY <1>2, <1>3, <1>5, RunTypes DEF WmmTypes, BuildFails, WmmFault, CrossedWhenBoth, Busy
  <1>7. CellRows'
        BY <1>2, <1>3, <1>5, RunTypes DEF WmmTypes, BuildFails, WmmFault, CrossedWhenBoth, CellRows, Busy, Runners
  <1>8. FunctionOnItsWay'
        BY <1>2, <1>3, <1>5, RunTypes DEF WmmTypes, BuildFails, WmmFault, CellRows, FunctionOnItsWay
  <1>9. BandRows'
        BY <1>2, <1>3, <1>5, RunTypes DEF WmmTypes, BuildFails, WmmFault, BandRows, WillInsert, Runners
  <1>10. BandProgress'
        BY <1>2, <1>3, <1>5, RunTypes DEF WmmTypes, BuildFails, WmmFault, CrossedWhenBoth, Busy, BandProgress
  <1> QED
      BY <1>4, <1>6, <1>7, <1>8, <1>9, <1>10

\* The end of the staging table keeps the invariant.
LEMMA DropStagingKeeps ==
    ASSUME NEW p \in Runners, WmmIInv, DropStaging(p)
    PROVE  WmmIInv'
  <1> DEFINE r == [wrun[p] EXCEPT !.pc = "record"]
  <1> USE DEF WmmIInv
  <1>1. r \in WmmRuns /\ Go(p, r)
        BY WmmAssumption DEF WmmTypes, WmmRuns, DropStaging
  <1>2. /\ r.pc = "record"
        /\ r.to_load = wrun[p].to_load
        /\ r.loaded = wrun[p].loaded
        /\ r.left = wrun[p].left
        /\ r.clean = wrun[p].clean
        BY DEF WmmTypes, WmmRuns, DropStaging
  <1> HIDE DEF r
  <1>3. /\ wrun' \in [Runners -> WmmRuns] /\ wrun'[p] = r
        /\ \A q \in Runners : q # p => wrun'[q] = wrun[q]
        BY <1>1, GoTyped DEF WmmTypes
  <1>4. WmmTypes'
        BY <1>3, WmmAssumption DEF WmmTypes, Rasters, DropStaging
  <1>5. wmm \in [Cells -> Nat] /\ wmm_cells \subseteq Cells /\ wmm_bands \in [Bands -> Seq(Rasters)]
        BY DEF WmmTypes, Rasters
  <1>6. CrossedWhenBoth'
        BY <1>2, <1>3, <1>5, RunTypes DEF WmmTypes, DropStaging, CrossedWhenBoth, Busy
  <1>7. CellRows'
        BY <1>2, <1>3, <1>5, RunTypes DEF WmmTypes, DropStaging, CrossedWhenBoth, CellRows, Busy, Runners
  <1>8. FunctionOnItsWay'
        BY <1>2, <1>3, <1>5, RunTypes DEF WmmTypes, DropStaging, CellRows, FunctionOnItsWay
  <1>9. BandRows'
        BY <1>2, <1>3, <1>5, RunTypes DEF WmmTypes, DropStaging, BandRows, WillInsert, Runners
  <1>10. BandProgress'
        BY <1>2, <1>3, <1>5, RunTypes DEF WmmTypes, DropStaging, CrossedWhenBoth, Busy, BandProgress
  <1> QED
      BY <1>4, <1>6, <1>7, <1>8, <1>9, <1>10

\* A staging table that cannot be dropped keeps the invariant.
LEMMA StagingStaysKeeps ==
    ASSUME NEW p \in Runners, WmmIInv, StagingStays(p)
    PROVE  WmmIInv'
  <1> DEFINE r == [wrun[p] EXCEPT !.pc = "record", !.clean = FALSE]
  <1> USE DEF WmmIInv
  <1>1. r \in WmmRuns /\ Go(p, r)
        BY WmmAssumption DEF WmmTypes, WmmRuns, StagingStays
  <1>2. /\ r.pc = "record"
        /\ r.to_load = wrun[p].to_load
        /\ r.loaded = wrun[p].loaded
        /\ r.left = wrun[p].left
        /\ r.clean = FALSE
        BY DEF WmmTypes, WmmRuns, StagingStays
  <1> HIDE DEF r
  <1>3. /\ wrun' \in [Runners -> WmmRuns] /\ wrun'[p] = r
        /\ \A q \in Runners : q # p => wrun'[q] = wrun[q]
        BY <1>1, GoTyped DEF WmmTypes
  <1>4. WmmTypes'
        BY <1>3, WmmAssumption DEF WmmTypes, Rasters, StagingStays, WmmFault
  <1>5. wmm \in [Cells -> Nat] /\ wmm_cells \subseteq Cells /\ wmm_bands \in [Bands -> Seq(Rasters)]
        BY DEF WmmTypes, Rasters
  <1>6. CrossedWhenBoth'
        BY <1>2, <1>3, <1>5, RunTypes DEF WmmTypes, StagingStays, CrossedWhenBoth, Busy
  <1>7. CellRows'
        BY <1>2, <1>3, <1>5, RunTypes DEF WmmTypes, StagingStays, CrossedWhenBoth, CellRows, Busy, Runners
  <1>8. FunctionOnItsWay'
        BY <1>2, <1>3, <1>5, RunTypes DEF WmmTypes, StagingStays, CellRows, FunctionOnItsWay
  <1>9. BandRows'
        BY <1>2, <1>3, <1>5, RunTypes DEF WmmTypes, StagingStays, BandRows, WillInsert, Runners
  <1>10. BandProgress'
        BY <1>2, <1>3, <1>5, RunTypes DEF WmmTypes, StagingStays, CrossedWhenBoth, Busy, BandProgress
  <1> QED
      BY <1>4, <1>6, <1>7, <1>8, <1>9, <1>10

\* The record of the refresh keeps the invariant.
LEMMA RecordRefreshKeeps ==
    ASSUME NEW p \in Runners, WmmIInv, RecordRefresh(p)
    PROVE  WmmIInv'
  <1> DEFINE r == AtRest
  <1> USE DEF WmmIInv
  <1>1. r \in WmmRuns /\ Go(p, r)
        BY WmmAssumption DEF WmmTypes, WmmRuns, RecordRefresh, AtRest
  <1>2. /\ r.pc = "idle"
        /\ r.to_load = {}
        /\ r.loaded = 0
        /\ r.left = {}
        /\ r.clean = TRUE
        BY DEF WmmTypes, WmmRuns, RecordRefresh, AtRest
  <1> HIDE DEF r
  <1>3. /\ wrun' \in [Runners -> WmmRuns] /\ wrun'[p] = r
        /\ \A q \in Runners : q # p => wrun'[q] = wrun[q]
        BY <1>1, GoTyped DEF WmmTypes
  <1>4. WmmTypes'
    <2>1. wrun[p].now \in 0..MaxWmmTime
          BY DEF WmmTypes, WmmRuns
    <2> QED
        BY <1>3, <2>1, WmmAssumption DEF WmmTypes, RecordRefresh
  <1>5. wmm \in [Cells -> Nat] /\ wmm_cells \subseteq Cells /\ wmm_bands \in [Bands -> Seq(Rasters)]
        BY DEF WmmTypes, Rasters
  <1>6. CrossedWhenBoth'
        BY <1>2, <1>3, <1>5, RunTypes DEF WmmTypes, RecordRefresh, CrossedWhenBoth, Busy
  <1>7. CellRows'
        BY <1>2, <1>3, <1>5, RunTypes DEF WmmTypes, RecordRefresh, CrossedWhenBoth, CellRows, Busy, Runners
  <1>8. FunctionOnItsWay'
        BY <1>2, <1>3, <1>5, RunTypes DEF WmmTypes, RecordRefresh, CellRows, FunctionOnItsWay
  <1>9. BandRows'
        BY <1>2, <1>3, <1>5, RunTypes DEF WmmTypes, RecordRefresh, BandRows, WillInsert, Runners
  <1>10. BandProgress'
        BY <1>2, <1>3, <1>5, RunTypes DEF WmmTypes, RecordRefresh, CrossedWhenBoth, Busy, BandProgress
  <1> QED
      BY <1>4, <1>6, <1>7, <1>8, <1>9, <1>10

\* A crash keeps the invariant.
LEMMA WmmCrashKeeps ==
    ASSUME NEW p \in Runners, WmmIInv, WmmCrash(p)
    PROVE  WmmIInv'
  <1> DEFINE r == AtRest
  <1> USE DEF WmmIInv
  <1>1. r \in WmmRuns /\ Go(p, r)
        BY WmmAssumption DEF WmmTypes, WmmRuns, WmmCrash, WmmFault, AtRest
  <1>2. /\ r.pc = "idle"
        /\ r.to_load = {}
        /\ r.loaded = 0
        /\ r.left = {}
        /\ r.clean = TRUE
        BY DEF WmmTypes, WmmRuns, WmmCrash, WmmFault, AtRest
  <1> HIDE DEF r
  <1>3. /\ wrun' \in [Runners -> WmmRuns] /\ wrun'[p] = r
        /\ \A q \in Runners : q # p => wrun'[q] = wrun[q]
        BY <1>1, GoTyped DEF WmmTypes
  <1>4. WmmTypes'
        BY <1>3, WmmAssumption DEF WmmTypes, Rasters, WmmCrash, WmmFault
  <1>5. wmm \in [Cells -> Nat] /\ wmm_cells \subseteq Cells /\ wmm_bands \in [Bands -> Seq(Rasters)]
        BY DEF WmmTypes, Rasters
  <1>6. CrossedWhenBoth'
        BY <1>2, <1>3, <1>5, RunTypes DEF WmmTypes, WmmCrash, WmmFault, CrossedWhenBoth, Busy
  <1>7. CellRows'
        BY <1>2, <1>3, <1>5, RunTypes DEF WmmTypes, WmmCrash, WmmFault, CrossedWhenBoth, CellRows, Busy, Runners
  <1>8. FunctionOnItsWay'
        BY <1>2, <1>3, <1>5, RunTypes DEF WmmTypes, WmmCrash, WmmFault, CellRows, FunctionOnItsWay
  <1>9. BandRows'
        BY <1>2, <1>3, <1>5, RunTypes DEF WmmTypes, WmmCrash, WmmFault, BandRows, WillInsert, Runners
  <1>10. BandProgress'
        BY <1>2, <1>3, <1>5, RunTypes DEF WmmTypes, WmmCrash, WmmFault, CrossedWhenBoth, Busy, BandProgress
  <1> QED
      BY <1>4, <1>6, <1>7, <1>8, <1>9, <1>10

\* The empty tables satisfy the invariant.
LEMMA WmmInitIInv == WmmInit => WmmIInv
  <1> SUFFICES ASSUME WmmInit PROVE WmmIInv
      OBVIOUS
  <1>1. AtRest \in WmmRuns
        BY WmmAssumption DEF WmmRuns, AtRest
  <1>2. wrun \in [Runners -> WmmRuns] /\ \A p \in Runners : wrun[p] = AtRest
        BY <1>1 DEF WmmInit
  <1>3. WmmTypes
    <2>1. wmm \in Rasters /\ wmm_bands \in [Bands -> Seq(Rasters)]
          BY DEF WmmInit, Rasters
    <2>2. wmm_known \in 0..MaxWmmTime /\ wmm_clock \in 1..MaxWmmTime
          BY WmmAssumption DEF WmmInit
    <2>3. wmm_runs \in 0..MaxWmmRuns /\ wmm_faults \in 0..MaxWmmFaults
          BY WmmAssumption DEF WmmInit
    <2> QED
        BY <1>2, <2>1, <2>2, <2>3 DEF WmmInit, WmmTypes
  <1>4. CrossedWhenBoth /\ CellRows /\ FunctionOnItsWay
        BY <1>2, WmmAssumption DEF WmmInit, CrossedWhenBoth, CellRows, FunctionOnItsWay, Busy,
                                   AtRest, Runners
  <1>5. BandRows /\ BandProgress
        BY <1>2 DEF WmmInit, BandRows, BandProgress, WillInsert, AtRest
  <1> QED
      BY <1>3, <1>4, <1>5 DEF WmmIInv

\* A step of the declination loader, or of another one.
LEMMA WmmNextIInv == WmmIInv /\ [WmmNext]_wvars => WmmIInv'
  <1> SUFFICES ASSUME WmmIInv, [WmmNext]_wvars PROVE WmmIInv'
      OBVIOUS
  <1>1. CASE UNCHANGED wvars
        BY <1>1 DEF wvars, WmmIInv, WmmTypes, CrossedWhenBoth, CellRows, FunctionOnItsWay, BandRows,
                    WillInsert, BandProgress, Busy
  <1>2. CASE StillFresh
        BY <1>1, <1>2 DEF StillFresh
  <1>3. CASE WmmTick
        BY <1>3, WmmTickKeeps
  <1>4. ASSUME NEW p \in Runners,
               \/ SelectCells(p) \/ CellsJoined(p) \/ FunctionFails(p) \/ TruncateBands(p)
               \/ StageFragments(p) \/ BuildFails(p) \/ DropStaging(p) \/ StagingStays(p)
               \/ RecordRefresh(p) \/ WmmCrash(p)
        PROVE  WmmIInv'
        BY <1>4, SelectCellsKeeps, CellsJoinedKeeps, FunctionFailsKeeps, TruncateBandsKeeps,
           StageFragmentsKeeps, BuildFailsKeeps, DropStagingKeeps, StagingStaysKeeps,
           RecordRefreshKeeps, WmmCrashKeeps
  <1>5. ASSUME NEW p \in Runners,
               \/ \E c \in Cells : ComputeCell(p, c) \/ CellInDoubt(p, c)
               \/ \E lost \in SUBSET Cells : CellsFail(p, lost)
               \/ \E b \in Bands : InsertBand(p, b) \/ BandFails(p, b)
        PROVE  WmmIInv'
        BY <1>5, ComputeCellKeeps, CellInDoubtKeeps, CellsFailKeeps, InsertBandKeeps, BandFailsKeeps
  <1> QED
      BY <1>1, <1>2, <1>3, <1>4, <1>5 DEF WmmNext

\* Part by part, the invariant gives the properties.
LEMMA WmmIInvImplies == WmmIInv => WmmTypeOK /\ DeclinationResumable /\ BandsFollowRaster
  <1> SUFFICES ASSUME WmmIInv PROVE WmmTypeOK /\ DeclinationResumable /\ BandsFollowRaster
      OBVIOUS
  <1>1. /\ wmm \in [Cells -> 0..2]
        /\ \A b \in Bands : Len(wmm_bands[b]) <= 2
        BY DEF WmmIInv, WmmTypes, Rasters, CellRows, BandRows
  <1>2. \A p \in Runners : wrun[p].to_load \subseteq Cells /\ wrun[p].left \subseteq Bands
        BY RunTypes DEF WmmIInv, WmmTypes
  <1>6. Len(staging) <= 1
    <2>1. ASSUME NEW w \in Rasters, staging = <<w>> PROVE Len(staging) <= 1
          BY <2>1
    <2>2. ASSUME staging = <<>> PROVE Len(staging) <= 1
          BY <2>2
    <2> QED
        BY <2>1, <2>2, Zenon DEF WmmIInv, WmmTypes
  <1>3. WmmTypeOK
        BY <1>1, <1>2, <1>6 DEF WmmIInv, WmmTypes, WmmTypeOK
  <1>4. DeclinationResumable
        BY DEF WmmIInv, CellRows, FunctionOnItsWay, DeclinationResumable, Busy
  <1>5. BandsFollowRaster
        BY DEF WmmIInv, BandProgress, BandsFollowRaster
  <1> QED
      BY <1>3, <1>4, <1>5

\* The inductive invariant holds in every state of the declination loader.
THEOREM DeclinationInvariant == WmmSpec => []WmmIInv
  BY WmmInitIInv, WmmNextIInv, PTL DEF WmmSpec

\* However runs, failures and crashes interleave, wmm_cells names the cells
\* with a raster row, a row is doubled only by overlapping runs, and the query
\* function is there once the globe is covered, unless a run that had covered
\* it ended without a working createDeclinationFunction.
THEOREM DeclinationResumes == WmmSpec => []DeclinationResumable
  BY DeclinationInvariant, WmmIInvImplies, PTL

\* A run without failures is recorded only with every band cut once from the
\* raster as it stands, whatever the runs before it left behind.
THEOREM DeclinationBands == WmmSpec => []BandsFollowRaster
  BY DeclinationInvariant, WmmIInvImplies, PTL

----------------------------------------------------------------------------
(* Terrain: the inductive invariant *)

LoadRuns ==
    [pc : {"none", "bootstrap", "pool", "ok", "nothing", "died"},
     to_load : SUBSET Tiles, next : Nat \ {0}, loaded : Nat, clean : BOOLEAN]

WorkerStates ==
    [pc : {"connect", "take", "download", "load", "record", "done"},
     batch : Nat, have : SUBSET Tiles, tried : BOOLEAN]

\* psql processes that a dead run has left.
Strays == [have : SUBSET Tiles, append : BOOLEAN, died : Nat]

TerrainTypes ==
    /\ terrain \in [Tiles -> Nat]
    /\ terrain_exists \in BOOLEAN /\ functions \in BOOLEAN
    /\ terrain_tiles \subseteq Tiles /\ torn \subseteq Tiles
    /\ load \in LoadRuns
    /\ worker \in [Threads -> WorkerStates]
    /\ orphans \subseteq Strays
    /\ terrain_faults \in 0..MaxTerrainFaults

\* Batch and n_batches as functions of the set they divide.
Share(S, b) ==
    {t \in S : /\ (b - 1) * BatchSize < Cardinality({u \in S : u <= t})
              /\ Cardinality({u \in S : u <= t}) <= b * BatchSize}

Shares(S) == (Cardinality(S) + BatchSize - 1) \div BatchSize

\* Who works in which phase.  The table exists from the batch on that creates
\* it, and that batch is the only one not to append.  While a run without
\* failures has not created the table, nobody else has.
Phases ==
    /\ ~Running => \A w \in Threads : worker[w].pc = "done"
    /\ load.pc = "bootstrap" => /\ \A w \in Pool : worker[w].pc = "done"
                                /\ worker["main"].pc = "record" => terrain_exists
                                /\ load.clean /\ terrain_exists => worker["main"].pc = "record"
    /\ load.pc = "pool" => worker["main"].pc = "done" /\ terrain_exists
    /\ terrain_tiles # {} => terrain_exists

\* w has taken a batch and not finished it.
AtWork(w) == worker[w].pc \in {"download", "load", "record"}

\* Batches are taken once and in order; none that is at work or still to be
\* taken has a recorded tile.
Batches ==
    /\ load.next <= Shares(load.to_load) + 1
    /\ \A b \in Nat : b >= load.next => Share(load.to_load, b) \cap terrain_tiles = {}
    /\ \A w \in Threads : AtWork(w) =>
          /\ worker[w].batch \in Nat /\ worker[w].batch < load.next
          /\ Share(load.to_load, worker[w].batch) \cap terrain_tiles = {}
          /\ worker[w].pc # "download" => worker[w].have \subseteq Share(load.to_load, worker[w].batch)
    /\ \A v, w \in Threads : v # w /\ AtWork(v) /\ AtWork(w) => worker[v].batch # worker[w].batch

\* The tile's pixels are committed, its record is not.
InFlight(t) == \E w \in Threads : worker[w].pc = "record" /\ t \in worker[w].have

\* A tile has one copy when it is recorded or about to be, and none before,
\* plus those that psql has committed for nobody.
Copies ==
    \A t \in Tiles :
        /\ t \in terrain_tiles \/ InFlight(t) => terrain[t] >= 1
        /\ t \notin torn =>
               terrain[t] = IF t \in terrain_tiles \/ InFlight(t) THEN 1 ELSE 0

\* total_loaded counts the recorded tiles of this run, and a run without
\* failures that found no table found no record.
Counted ==
    /\ load.loaded = Cardinality(terrain_tiles \cap load.to_load)
    /\ Running /\ load.clean /\ ~functions => terrain_tiles \subseteq load.to_load

\* In a run without failures a published tile is recorded, in a batch not yet
\* taken or in the hands of a thread, and threads stop only for want of batches.
Accounted(t) ==
    \/ t \in terrain_tiles
    \/ \E b \in Nat : b >= load.next /\ t \in Share(load.to_load, b)
    \/ \E w \in Threads : worker[w].pc = "download" /\ t \in Share(load.to_load, worker[w].batch)
    \/ \E w \in Threads : worker[w].pc \in {"load", "record"} /\ t \in worker[w].have

NothingForgotten ==
    load.clean /\ Running =>
        /\ \A t \in Published : Accounted(t)
        /\ \A w \in Threads : worker[w].pc = "done" /\ (w \in Pool <=> load.pc = "pool") =>
               load.next > Shares(load.to_load)

TerrainIInv ==
    TerrainTypes /\ Phases /\ Batches /\ Copies /\ Counted /\ NothingForgotten /\ CleanRunIsComplete

----------------------------------------------------------------------------
(* Terrain: the batches are a partition of the tiles to load *)

\* Every set of tiles is finite and no larger than the bounding box.
LEMMA TileSets ==
    ASSUME NEW S \in SUBSET Tiles
    PROVE  IsFiniteSet(S) /\ Cardinality(S) \in 0..TileCount
  <1>1. IsFiniteSet(Tiles) /\ Cardinality(Tiles) = TileCount
        BY FS_Interval, TerrainAssumption DEF Tiles
  <1>2. IsFiniteSet(S) /\ Cardinality(S) <= Cardinality(Tiles)
        BY <1>1, FS_Subset
  <1> QED
      BY <1>1, <1>2, FS_CardinalityType

\* The batches of the model are these shares.
LEMMA BatchIsShare ==
    /\ n_batches = Shares(load.to_load)
    /\ \A b : Batch(b) = Share(load.to_load, b)
  BY DEF n_batches, Shares, Batch, Share, position

\* An index into to_load lies within the vector.
LEMMA PositionInside ==
    ASSUME NEW S \in SUBSET Tiles, NEW t \in S
    PROVE  Cardinality({u \in S : u <= t}) \in 1..Cardinality(S)
  <1> DEFINE upTo == {u \in S : u <= t}
  <1>1. IsFiniteSet(S) /\ Cardinality(S) \in Nat
        BY TileSets
  <1>2. IsFiniteSet(upTo) /\ Cardinality(upTo) <= Cardinality(S)
        BY <1>1, FS_Subset
  <1>3. t \in upTo
        BY TerrainAssumption DEF Tiles
  <1>4. Cardinality(upTo) \in Nat /\ Cardinality(upTo) # 0
        BY <1>2, <1>3, FS_CardinalityType, FS_EmptySet
  <1> QED
      BY <1>1, <1>2, <1>4

\* Multiplication by the batch size keeps the order.
LEMMA BatchOrder ==
    ASSUME NEW a \in Int, NEW b \in Int, a <= b
    PROVE  a * BatchSize <= b * BatchSize
  BY TerrainAssumption

\* The division of n_batches rounds up.
LEMMA RoundUp ==
    ASSUME NEW n \in Nat
    PROVE  LET q == (n + BatchSize - 1) \div BatchSize
           IN  q \in Nat /\ n <= q * BatchSize /\ (q - 1) * BatchSize < n /\ q <= n
  <1> DEFINE q == (n + BatchSize - 1) \div BatchSize
  <1>1. BatchSize \in Nat /\ BatchSize >= 1
        BY TerrainAssumption
  <1>2. q \in Int /\ q * BatchSize <= n + BatchSize - 1 /\ n + BatchSize - 1 < (q + 1) * BatchSize
        BY <1>1
  <1> QED
      BY <1>1, <1>2

\* No tile is in two batches.
LEMMA SharesDisjoint ==
    ASSUME NEW S \in SUBSET Tiles, NEW a \in Nat, NEW b \in Nat, a # b
    PROVE  Share(S, a) \cap Share(S, b) = {}
  <1> SUFFICES ASSUME NEW c \in Nat, NEW d \in Nat, c < d, NEW t \in S,
                      t \in Share(S, c), t \in Share(S, d)
               PROVE  FALSE
      BY DEF Share
  <1> DEFINE k == Cardinality({u \in S : u <= t})
  <1>1. k \in Int /\ k <= c * BatchSize /\ (d - 1) * BatchSize < k
    <2>1. k \in 1..Cardinality(S) /\ Cardinality(S) \in Nat
          BY PositionInside, TileSets
    <2> QED
        BY <2>1 DEF Share
  <1>2. c * BatchSize <= (d - 1) * BatchSize
        BY BatchOrder
  <1>3. c * BatchSize \in Int /\ (d - 1) * BatchSize \in Int
        BY TerrainAssumption
  <1> HIDE DEF k
  <1> QED
      BY <1>1, <1>2, <1>3

\* Every tile to load is in a batch, and the number of batches is no larger
\* than that of the tiles.
LEMMA SharesCover ==
    ASSUME NEW S \in SUBSET Tiles
    PROVE  /\ Shares(S) \in Nat /\ Shares(S) <= TileCount
           /\ \A t \in S : \E b \in Nat : 1 <= b /\ b <= Shares(S) /\ t \in Share(S, b)
           /\ \A b \in Nat : b > Shares(S) => Share(S, b) = {}
           /\ \A b : Share(S, b) \subseteq S
           /\ S = {} => Shares(S) = 0
  <1>1. Cardinality(S) \in Nat /\ Cardinality(S) <= TileCount
        BY TileSets, TerrainAssumption
  <1>2. Shares(S) \in Nat /\ Cardinality(S) <= Shares(S) * BatchSize /\ Shares(S) <= Cardinality(S)
        BY <1>1, RoundUp DEF Shares
  <1>3. ASSUME NEW t \in S
        PROVE  \E b \in Nat : 1 <= b /\ b <= Shares(S) /\ t \in Share(S, b)
    <2> DEFINE k == Cardinality({u \in S : u <= t})
               b == (k + BatchSize - 1) \div BatchSize
    <2>1. k \in 1..Cardinality(S)
          BY PositionInside
    <2>2. b \in Nat /\ k <= b * BatchSize /\ (b - 1) * BatchSize < k
          BY <2>1, <1>1, RoundUp
    <2>3. t \in Share(S, b)
          BY <2>2 DEF Share
    <2> HIDE DEF k, b
    <2>4. b >= 1
          BY <2>1, <2>2, <1>1, TerrainAssumption
    <2>5. b <= Shares(S)
      <3> SUFFICES ASSUME Shares(S) <= b - 1 PROVE FALSE
          BY <2>2, <1>2
      <3>1. Shares(S) * BatchSize <= (b - 1) * BatchSize
            BY <2>2, <1>2, BatchOrder
      <3>2. Shares(S) * BatchSize \in Int /\ (b - 1) * BatchSize \in Int
            BY <2>2, <1>2, TerrainAssumption
      <3> QED
          BY <3>1, <3>2, <2>1, <2>2, <1>1, <1>2
    <2> QED
        BY <2>2, <2>3, <2>4, <2>5
  <1>4. ASSUME NEW b \in Nat, b > Shares(S), NEW t \in Share(S, b)
        PROVE  FALSE
    <2> DEFINE k == Cardinality({u \in S : u <= t})
    <2>1. t \in S /\ k \in 1..Cardinality(S) /\ (b - 1) * BatchSize < k
          BY <1>4, PositionInside DEF Share
    <2> HIDE DEF k
    <2>2. Shares(S) * BatchSize <= (b - 1) * BatchSize
          BY <1>4, <1>2, BatchOrder
    <2>3. Shares(S) * BatchSize \in Int /\ (b - 1) * BatchSize \in Int
          BY <1>2, TerrainAssumption
    <2> QED
        BY <2>1, <2>2, <2>3, <1>1, <1>2
  <1>5. S = {} => Cardinality(S) = 0
        BY FS_EmptySet
  <1>6. \A b : Share(S, b) \subseteq S
        BY DEF Share
  <1>7. \A b \in Nat : b > Shares(S) => Share(S, b) = {}
        BY <1>4
  <1>8. \A t \in S : \E b \in Nat : 1 <= b /\ b <= Shares(S) /\ t \in Share(S, b)
        BY <1>3
  <1> QED
      BY <1>1, <1>2, <1>5, <1>6, <1>7, <1>8, TerrainAssumption

----------------------------------------------------------------------------
(* Terrain: every action keeps the invariant *)

\* What a thread and a run keep.
LEMMA WorkerTypes ==
    ASSUME worker \in [Threads -> WorkerStates], NEW w \in Threads
    PROVE  /\ worker[w].pc \in {"connect", "take", "download", "load", "record", "done"}
           /\ worker[w].batch \in Nat /\ worker[w].have \subseteq Tiles
           /\ worker[w].tried \in BOOLEAN
  BY DEF WorkerStates

LEMMA LoadTypes ==
    ASSUME load \in LoadRuns
    PROVE  /\ load.pc \in {"none", "bootstrap", "pool", "ok", "nothing", "died"}
           /\ load.to_load \subseteq Tiles /\ load.next \in Nat /\ load.next >= 1
           /\ load.loaded \in Nat /\ load.clean \in BOOLEAN
  BY DEF LoadRuns

\* The first run starts from empty tables.
LEMMA TerrainInitIInv == TerrainInit => TerrainIInv
  <1> SUFFICES ASSUME TerrainInit PROVE TerrainIInv
      OBVIOUS
  <1> USE TerrainAssumption
  <1>1. NoWork \in WorkerStates
        BY DEF NoWork, WorkerStates
  <1>2. worker \in [Threads -> WorkerStates] /\ \A w \in Threads : worker[w].pc = "done"
        BY <1>1 DEF TerrainInit, NoWork
  <1>3. load \in LoadRuns /\ load.pc = "none" /\ load.to_load = {} /\ load.next = 1 /\ load.loaded = 0
        BY DEF TerrainInit, LoadRuns
  <1>4. TerrainTypes
    <2>1. terrain \in [Tiles -> Nat] /\ terrain_faults \in 0..MaxTerrainFaults
          BY DEF TerrainInit
    <2> QED
        BY <1>2, <1>3, <2>1 DEF TerrainInit, TerrainTypes
  <1>5. Phases /\ NothingForgotten /\ CleanRunIsComplete
        BY <1>2, <1>3 DEF TerrainInit, Phases, NothingForgotten, CleanRunIsComplete, Running
  <1>6. Batches
        BY <1>2, <1>3, SharesCover DEF TerrainInit, Batches, AtWork
  <1>7. Copies
        BY <1>2 DEF TerrainInit, Copies, InFlight
  <1>8. Counted
        BY <1>3, FS_EmptySet DEF TerrainInit, Counted, Running
  <1> QED
      BY <1>4, <1>5, <1>6, <1>7, <1>8 DEF TerrainIInv

\* The functions are created, or a failure is counted.
LEMMA FunctionsCreated ==
    ASSUME TerrainTypes, createElevationFunctions
    PROVE  /\ functions' \in BOOLEAN /\ terrain_faults' \in 0..MaxTerrainFaults
           /\ terrain_faults' = terrain_faults => functions'
  <1>1. CASE functions' = TRUE /\ terrain_faults' = terrain_faults
        BY <1>1 DEF TerrainTypes
  <1>2. CASE functions' = functions /\ TerrainFault
    <2>1. terrain_faults' \in 0..MaxTerrainFaults /\ terrain_faults' # terrain_faults
          BY <1>2, TerrainAssumption DEF TerrainFault, TerrainTypes
    <2> QED
        BY <1>2, <2>1 DEF TerrainTypes
  <1> QED
      BY <1>1, <1>2 DEF createElevationFunctions

\* A new run divides the tiles without a record.
LEMMA SelectTilesKeeps == TerrainIInv /\ SelectTiles => TerrainIInv'
  <1> SUFFICES ASSUME TerrainIInv, SelectTiles PROVE TerrainIInv'
      OBVIOUS
  <1> USE TerrainAssumption DEF TerrainIInv
  <1>1. /\ load'.to_load = Tiles \ terrain_tiles /\ load'.next = 1 /\ load'.loaded = 0
        /\ load'.clean <=> terrain_faults' = terrain_faults
        /\ load'.pc = "ok" => load'.to_load = {}
        /\ load'.pc = "bootstrap" => ~terrain_exists
        /\ load'.pc = "pool" => terrain_exists
        /\ load'.pc \in {"ok", "bootstrap", "pool"}
        /\ load' \in LoadRuns
    <2> DEFINE missing == Tiles \ terrain_tiles
    <2>1. PICK c \in BOOLEAN :
             /\ c <=> terrain_faults' = terrain_faults
             /\ load' = [pc |-> CASE missing = {} -> "ok"
                                  [] missing # {} /\ ~terrain_exists -> "bootstrap"
                                  [] OTHER -> "pool",
                         to_load |-> missing, next |-> 1, loaded |-> 0, clean |-> c]
          BY Zenon DEF SelectTiles
    <2>2. missing \in SUBSET Tiles
          OBVIOUS
    <2> HIDE DEF missing
    <2>6. /\ load'.to_load = missing /\ load'.next = 1 /\ load'.loaded = 0
          /\ load'.clean <=> terrain_faults' = terrain_faults
          /\ load'.pc = "ok" => load'.to_load = {}
          /\ load'.pc = "bootstrap" => ~terrain_exists
          /\ load'.pc = "pool" => terrain_exists
          /\ load'.pc \in {"ok", "bootstrap", "pool"}
          /\ load' \in LoadRuns
      <3>1. CASE missing = {}
            BY <2>1, <2>2, <3>1 DEF LoadRuns
      <3>2. CASE missing # {} /\ ~terrain_exists
            BY <2>1, <2>2, <3>2 DEF LoadRuns
      <3>3. CASE missing # {} /\ terrain_exists
            BY <2>1, <2>2, <3>3 DEF LoadRuns
      <3> QED
          BY <3>1, <3>2, <3>3
    <2> QED
        BY <2>6 DEF missing
  <1>2. /\ worker' \in [Threads -> WorkerStates]
        /\ \A w \in Threads : worker'[w].pc \in {"done", "connect"}
        /\ \A w \in Threads : ~Running' => worker'[w].pc = "done"
        /\ \A w \in Threads : Running' /\ (w = "main" <=> load'.pc = "bootstrap") => worker'[w].pc = "connect"
        /\ \A w \in Threads : Running' /\ (w = "main" <=> load'.pc # "bootstrap") => worker'[w].pc = "done"
    <2>1. NoWork \in WorkerStates /\ Ready \in WorkerStates /\ NoWork.pc = "done" /\ Ready.pc = "connect"
          BY DEF NoWork, Ready, WorkerStates
    <2> QED
        BY <2>1 DEF SelectTiles
  <1>3. /\ ~Running /\ functions' \in BOOLEAN /\ terrain_faults' \in 0..MaxTerrainFaults
        /\ load'.clean /\ terrain_exists => functions'
        /\ UNCHANGED <<terrain, terrain_exists, terrain_tiles, orphans, torn>>
    <2>1. CASE terrain_exists
      <3>1. createElevationFunctions
            BY <2>1 DEF SelectTiles
      <3>2. ~Running /\ UNCHANGED <<terrain, terrain_exists, terrain_tiles, orphans, torn>>
            BY DEF SelectTiles
      <3> QED
          BY <1>1, <3>1, <3>2, FunctionsCreated
    <2>2. CASE ~terrain_exists
          BY <2>2 DEF SelectTiles, TerrainTypes
    <2> QED
        BY <2>1, <2>2
  <1>4. TerrainTypes'
        BY <1>1, <1>2, <1>3 DEF TerrainTypes
  <1>5. Phases'
    <2>1. "main" \in Threads /\ Pool \subseteq Threads /\ "main" \notin Pool
          BY DEF Threads
    <2>2. Running' <=> load'.pc \in {"bootstrap", "pool"}
          BY DEF Running
    <2>3. (terrain_tiles # {} => terrain_exists)'
          BY <1>3 DEF Phases
    <2>4. (~Running => \A w \in Threads : worker[w].pc = "done")'
          BY <1>2
    <2>5. (load.pc = "bootstrap" => /\ \A w \in Pool : worker[w].pc = "done"
                                    /\ worker["main"].pc = "record" => terrain_exists
                                    /\ load.clean /\ terrain_exists => worker["main"].pc = "record")'
          BY <2>1, <2>2, <1>1, <1>2, <1>3
    <2>6. (load.pc = "pool" => worker["main"].pc = "done" /\ terrain_exists)'
          BY <2>1, <2>2, <1>1, <1>2, <1>3
    <2> QED
        BY <2>3, <2>4, <2>5, <2>6 DEF Phases
  <1>6. Batches'
    <2>1. \A w \in Threads : ~AtWork(w)'
          BY <1>2 DEF AtWork
    <2>2. \A b : Share(load'.to_load, b) \cap terrain_tiles = {}
          BY <1>1 DEF Share
    <2>3. load'.next <= Shares(load'.to_load) + 1
          BY <1>1, SharesCover
    <2> QED
        BY <2>1, <2>2, <2>3, <1>3 DEF Batches
  <1>7. Copies'
        BY <1>2, <1>3 DEF Copies, Phases, InFlight
  <1>8. Counted'
        BY <1>1, <1>3, FS_EmptySet DEF Counted, Phases
  <1>9. NothingForgotten'
    <2>1. \A t \in Published : t \in terrain_tiles \/ t \in load'.to_load
          BY <1>1 DEF Tiles
    <2>2. \A t \in load'.to_load : \E b \in Nat : b >= load'.next /\ t \in Share(load'.to_load, b)
          BY <1>1, SharesCover
    <2>3. \A t \in Published : Accounted(t)'
          BY <2>1, <2>2, <1>3 DEF Accounted
    <2>4. ASSUME Running', NEW w \in Threads, w \in Pool <=> load'.pc = "pool"
          PROVE  worker'[w].pc = "connect"
          BY <2>4, <1>1, <1>2 DEF Running, Threads
    <2> QED
        BY <2>3, <2>4, <1>2 DEF NothingForgotten
  <1>10. CleanRunIsComplete'
        BY <1>1, <1>3 DEF CleanRunIsComplete, Running, Phases, Tiles
  <1> QED
      BY <1>4, <1>5, <1>6, <1>7, <1>8, <1>9, <1>10

\* What psql commits for nobody, and the end of the process, leave no tile
\* unaccounted for: lost are the tiles of a commit without a record.
Stray(lost) ==
    /\ terrain' \in [Tiles -> Nat] /\ terrain_exists' \in BOOLEAN
    /\ terrain_exists => terrain_exists'
    /\ \A t \in Tiles : /\ terrain'[t] >= terrain[t]
                        /\ t \notin lost => terrain'[t] = terrain[t]

LEMMA NothingStrays ==
    ASSUME TerrainTypes, UNCHANGED <<terrain, terrain_exists>>
    PROVE  Stray({})
  BY DEF Stray, TerrainTypes

LEMMA CommitStrays ==
    ASSUME TerrainTypes, NEW have \in SUBSET Tiles, Commit(have)
    PROVE  Stray(have)
  <1>1. /\ terrain' \in [Tiles -> Nat]
        /\ \A t \in Tiles : terrain'[t] = IF t \in have THEN terrain[t] + 1 ELSE terrain[t]
        BY DEF Commit, TerrainTypes
  <1>2. \A t \in Tiles : terrain[t] \in Nat
        BY DEF TerrainTypes
  <1>3. terrain_exists' = TRUE
        BY DEF Commit
  <1> QED
      BY <1>1, <1>2, <1>3 DEF Stray

\* The copies are right again when what was committed or in flight without a
\* record has been noticed.
LEMMA StrayCopies ==
    ASSUME TerrainTypes, Copies, NEW lost \in SUBSET Tiles, Stray(lost),
           torn \subseteq torn', lost \subseteq torn', UNCHANGED terrain_tiles,
           \A t \in Tiles : InFlight(t)' => InFlight(t),
           \A t \in Tiles : InFlight(t) /\ ~InFlight(t)' => t \in torn'
    PROVE  Copies'
  <1> SUFFICES ASSUME NEW t \in Tiles PROVE Copies!(t)'
      BY DEF Copies
  <1>1. terrain[t] \in Nat /\ terrain'[t] \in Nat
        BY DEF TerrainTypes, Stray
  <1>2. terrain'[t] >= terrain[t] /\ (t \notin lost => terrain'[t] = terrain[t])
        BY DEF Stray
  <1>3. /\ t \in terrain_tiles \/ InFlight(t) => terrain[t] >= 1
        /\ t \notin torn => terrain[t] = IF t \in terrain_tiles \/ InFlight(t) THEN 1 ELSE 0
        BY DEF Copies
  <1> QED
      BY <1>1, <1>2, <1>3

\* The end of the process: the records in flight are lost, and the psql of
\* other threads may go on.
LEMMA DieKeeps ==
    ASSUME TerrainIInv, NEW others \in SUBSET Threads, NEW lost \in SUBSET Tiles,
           NEW clean \in BOOLEAN, ~clean, Die(clean, others), Stray(lost),
           torn' = torn \cup lost \cup Unrecorded,
           terrain_faults' \in 0..MaxTerrainFaults, UNCHANGED <<terrain_tiles, functions>>
    PROVE  TerrainIInv'
  <1> USE TerrainAssumption DEF TerrainIInv
  <1>1. /\ load' \in LoadRuns /\ load'.pc = "died" /\ ~load'.clean
        /\ load'.to_load = load.to_load /\ load'.next = load.next /\ load'.loaded = load.loaded
        BY DEF Die, TerrainTypes, LoadRuns
  <1>2. worker' \in [Threads -> WorkerStates] /\ \A w \in Threads : worker'[w].pc = "done"
    <2>1. NoWork \in WorkerStates /\ NoWork.pc = "done"
          BY DEF NoWork, WorkerStates
    <2> QED
        BY <2>1 DEF Die
  <1>3. \A t \in Tiles : t \in torn' <=> t \in torn \/ t \in lost \/ InFlight(t)
        BY DEF Unrecorded, InFlight
  <1>4. torn' \subseteq Tiles
        BY WorkerTypes DEF Unrecorded, TerrainTypes
  <1>5. orphans' \subseteq Strays
    <2>1. PICK left \in SUBSET others :
             orphans' = orphans \cup
                 {[have |-> worker[v].have, append |-> use_append, died |-> terrain_faults'] : v \in left}
          BY DEF Die
    <2>2. ASSUME NEW v \in left
          PROVE  [have |-> worker[v].have, append |-> use_append, died |-> terrain_faults'] \in Strays
      <3>1. worker[v].have \subseteq Tiles /\ use_append \in BOOLEAN /\ terrain_faults' \in Nat
            BY WorkerTypes DEF TerrainTypes, use_append
      <3> QED
          BY <3>1 DEF Strays
    <2> QED
        BY <2>1, <2>2 DEF TerrainTypes
  <1>6. TerrainTypes'
        BY <1>1, <1>2, <1>4, <1>5 DEF TerrainTypes, Stray
  <1>7. Phases' /\ NothingForgotten' /\ CleanRunIsComplete'
        BY <1>1, <1>2 DEF Phases, NothingForgotten, CleanRunIsComplete, Running, Stray
  <1>8. Batches'
        BY <1>1, <1>2 DEF Batches, AtWork
  <1>9. Copies'
    <2>1. \A t : ~InFlight(t)'
          BY <1>2 DEF InFlight
    <2> QED
        BY <2>1, <1>3, StrayCopies
  <1>10. Counted'
        BY <1>1 DEF Counted, Running
  <1> QED
      BY <1>6, <1>7, <1>8, <1>9, <1>10

\* A thread that finds no batch left ends; another one takes the next batch.
LEMMA TakeBatchKeeps ==
    ASSUME TerrainIInv, NEW w \in Threads, TakeBatch(w)
    PROVE  TerrainIInv'
  <1> USE TerrainAssumption DEF TerrainIInv
  <1>1. /\ worker[w].pc \in {"connect", "take"}
        /\ UNCHANGED <<terrain, terrain_exists, terrain_tiles, functions, orphans, torn, terrain_faults>>
        BY DEF TakeBatch
  <1>2. /\ load.pc \in {"bootstrap", "pool"} /\ (w \in Pool <=> load.pc = "pool")
        /\ load.pc = "bootstrap" => w = "main" /\ ~(load.clean /\ terrain_exists)
        BY <1>1, LoadTypes DEF Phases, Running, Threads, TerrainTypes
  <1>3. /\ load' \in LoadRuns /\ load'.pc = load.pc /\ load'.to_load = load.to_load
        /\ load'.loaded = load.loaded /\ load'.clean = load.clean
        /\ load'.next = IF load.next > Shares(load.to_load) THEN load.next ELSE load.next + 1
    <2>1. load \in LoadRuns /\ load.next + 1 \in Nat \ {0}
          BY LoadTypes DEF TerrainTypes
    <2>2. CASE load.next > n_batches
          BY <2>1, <2>2, BatchIsShare DEF TakeBatch
    <2>3. CASE ~(load.next > n_batches)
      <3>1. load' = [load EXCEPT !.next = load.next + 1]
            BY <2>3 DEF TakeBatch
      <3>2. load' \in LoadRuns
            BY <2>1, <3>1 DEF LoadRuns
      <3> QED
          BY <2>1, <2>3, <3>1, <3>2, BatchIsShare DEF LoadRuns
    <2> QED
        BY <2>2, <2>3
  <1>4. /\ worker' \in [Threads -> WorkerStates]
        /\ \A v \in Threads : v # w => worker'[v] = worker[v]
        /\ worker'[w].pc = IF load.next > Shares(load.to_load) THEN "done" ELSE "download"
        /\ worker'[w].batch = IF load.next > Shares(load.to_load) THEN 0 ELSE load.next
    <2> DEFINE taken == [NoWork EXCEPT !.pc = "download", !.batch = load.next]
    <2>1. /\ NoWork \in WorkerStates /\ NoWork.pc = "done" /\ NoWork.batch = 0
          /\ taken \in WorkerStates /\ taken.pc = "download" /\ taken.batch = load.next
          BY LoadTypes DEF NoWork, WorkerStates, TerrainTypes
    <2>2. CASE load.next > n_batches
          BY <2>1, <2>2, BatchIsShare DEF TakeBatch, TerrainTypes
    <2>3. CASE ~(load.next > n_batches)
          BY <2>1, <2>3, BatchIsShare DEF TakeBatch, TerrainTypes
    <2> QED
        BY <2>2, <2>3
  <1>5. TerrainTypes'
        BY <1>1, <1>3, <1>4 DEF TerrainTypes
  <1>6. Phases'
        BY <1>1, <1>2, <1>3, <1>4 DEF Phases, Running, Threads
  <1>7. /\ load.next \in Nat /\ load.next >= 1 /\ Shares(load.to_load) \in Nat
        /\ load.to_load \subseteq Tiles
        BY LoadTypes, SharesCover DEF TerrainTypes
  <1>8. Batches'
    <2>1. load'.next <= Shares(load'.to_load) + 1
          BY <1>3, <1>7 DEF Batches
    <2>2. \A b \in Nat : b >= load'.next => Share(load.to_load, b) \cap terrain_tiles = {}
          BY <1>3, <1>7 DEF Batches
    <2>3. ASSUME NEW v \in Threads, AtWork(v)'
          PROVE  /\ worker'[v].batch \in Nat /\ worker'[v].batch < load'.next
                 /\ Share(load.to_load, worker'[v].batch) \cap terrain_tiles = {}
                 /\ worker'[v].pc # "download" => worker'[v].have \subseteq Share(load.to_load, worker'[v].batch)
                 /\ v # w => AtWork(v) /\ worker'[v].batch < load.next
                 /\ v = w => worker'[v].batch = load.next
      <3>1. CASE v # w
            BY <3>1, <2>3, <1>3, <1>4, <1>7 DEF Batches, AtWork
      <3>2. CASE v = w
            BY <3>2, <2>3, <1>3, <1>4, <1>7 DEF Batches, AtWork
      <3> QED
          BY <3>1, <3>2
    <2>4. ASSUME NEW v \in Threads, NEW u \in Threads, v # u, AtWork(v)', AtWork(u)'
          PROVE  worker'[v].batch # worker'[u].batch
      <3>1. /\ v # w => AtWork(v) /\ worker'[v].batch = worker[v].batch /\ worker[v].batch < load.next
            /\ u # w => AtWork(u) /\ worker'[u].batch = worker[u].batch /\ worker[u].batch < load.next
            BY <2>3, <2>4, <1>4
      <3>2. (v = w => worker'[v].batch = load.next) /\ (u = w => worker'[u].batch = load.next)
            BY <2>3, <2>4
      <3>3. worker[v].batch \in Nat /\ worker[u].batch \in Nat
            BY WorkerTypes DEF TerrainTypes
      <3> QED
          BY <2>4, <3>1, <3>2, <3>3, <1>7 DEF Batches
    <2> QED
        BY <2>1, <2>2, <2>3, <2>4, <1>1, <1>3 DEF Batches
  <1>9. Copies'
    <2>1. \A t : InFlight(t)' <=> InFlight(t)
          BY <1>1, <1>4 DEF InFlight
    <2> QED
        BY <2>1, <1>1 DEF Copies
  <1>10. Counted'
        BY <1>1, <1>3 DEF Counted, Running
  <1>11. NothingForgotten'
    <2> SUFFICES ASSUME load.clean
                 PROVE  /\ \A t \in Published : Accounted(t)'
                        /\ \A v \in Threads : worker'[v].pc = "done" /\ (v \in Pool <=> load.pc = "pool") =>
                               load'.next > Shares(load.to_load)
        BY <1>3 DEF NothingForgotten
    <2>1. ASSUME NEW t \in Published PROVE Accounted(t)'
      <3>1. Accounted(t)
            BY <1>2 DEF NothingForgotten, Running
      <3>2. CASE t \in terrain_tiles
            BY <3>2, <1>1 DEF Accounted
      <3>3. ASSUME NEW b \in Nat, b >= load.next, t \in Share(load.to_load, b) PROVE Accounted(t)'
        <4>1. b <= Shares(load.to_load) 
              BY <3>3, <1>7, SharesCover
        <4>2. CASE b = load.next
              BY <3>3, <4>1, <4>2, <1>3, <1>4, <1>7 DEF Accounted
        <4>3. CASE b > load.next
              BY <3>3, <4>3, <1>3, <1>7 DEF Accounted
        <4> QED
            BY <4>2, <4>3, <3>3, <1>7
      <3>4. ASSUME NEW v \in Threads, \/ worker[v].pc = "download" /\ t \in Share(load.to_load, worker[v].batch)
                                      \/ worker[v].pc \in {"load", "record"} /\ t \in worker[v].have
            PROVE  Accounted(t)'
        <4>1. v # w
              BY <3>4, <1>1
        <4> QED
            BY <3>4, <4>1, <1>3, <1>4 DEF Accounted
      <3> QED
          BY <3>1, <3>2, <3>3, <3>4 DEF Accounted
    <2>2. ASSUME NEW v \in Threads, worker'[v].pc = "done", v \in Pool <=> load.pc = "pool"
          PROVE  load'.next > Shares(load.to_load)
          BY <2>2, <1>2, <1>3, <1>4, <1>7 DEF NothingForgotten, Running
    <2> QED
        BY <2>1, <2>2
  <1>12. CleanRunIsComplete'
        BY <1>2, <1>3 DEF CleanRunIsComplete, Running
  <1> QED
      BY <1>5, <1>6, <1>8, <1>9, <1>10, <1>11, <1>12

\* A download, complete or not.
LEMMA DownloadBatchKeeps ==
    ASSUME TerrainIInv, NEW w \in Threads, DownloadBatch(w)
    PROVE  TerrainIInv'
  <1> USE TerrainAssumption DEF TerrainIInv
  <1> DEFINE mine == Share(load.to_load, worker[w].batch)
  <1>1. /\ worker[w].pc = "download"
        /\ UNCHANGED <<terrain, terrain_exists, terrain_tiles, functions, orphans, torn>>
        BY DEF DownloadBatch
  <1>2. PICK have \in SUBSET (mine \cap Published) :
          /\ IF have = mine \cap Published
             THEN UNCHANGED <<terrain_faults, load>>
             ELSE TerrainFault /\ load' = [load EXCEPT !.clean = FALSE]
          /\ worker' = [worker EXCEPT ![w].have = have,
                                      ![w].pc = IF have = {} THEN "take" ELSE "load"]
        BY BatchIsShare DEF DownloadBatch
  <1>3. /\ load' \in LoadRuns /\ load'.pc = load.pc /\ load'.to_load = load.to_load
        /\ load'.loaded = load.loaded /\ load'.next = load.next
        /\ load'.clean => load.clean /\ have = mine \cap Published
        BY <1>2 DEF TerrainTypes, LoadRuns
  <1>4. /\ terrain_faults' \in 0..MaxTerrainFaults /\ terrain_faults \in Nat
        /\ terrain_faults' >= terrain_faults
        BY <1>2 DEF TerrainTypes, TerrainFault
  <1>5. /\ worker' \in [Threads -> WorkerStates]
        /\ \A v \in Threads : v # w => worker'[v] = worker[v]
        /\ worker'[w].pc = (IF have = {} THEN "take" ELSE "load")
        /\ worker'[w].batch = worker[w].batch /\ worker'[w].have = have
    <2>1. have \subseteq Tiles
          BY <1>2 DEF Tiles
    <2>2. worker'[w] = [worker[w] EXCEPT !.have = have, !.pc = IF have = {} THEN "take" ELSE "load"]
          BY <1>2 DEF TerrainTypes
    <2>3. worker[w] \in WorkerStates
          BY DEF TerrainTypes
    <2>4. worker'[w] \in WorkerStates
          BY <2>1, <2>2, <2>3 DEF WorkerStates
    <2>5. worker' = [worker EXCEPT ![w] = worker'[w]] /\ worker \in [Threads -> WorkerStates]
          BY <1>2, <2>2 DEF TerrainTypes
    <2>6. worker'[w].pc = (IF have = {} THEN "take" ELSE "load") /\ worker'[w].batch = worker[w].batch
          /\ worker'[w].have = have
          BY <2>2, <2>3 DEF WorkerStates
    <2> QED
        BY <2>4, <2>5, <2>6
  <1>6. load.pc \in {"bootstrap", "pool"} /\ (w \in Pool <=> load.pc = "pool")
        BY <1>1, LoadTypes DEF Phases, Running, Threads, TerrainTypes
  <1>7. TerrainTypes'
        BY <1>1, <1>3, <1>4, <1>5 DEF TerrainTypes
  <1>8. Phases'
        BY <1>1, <1>3, <1>5, <1>6 DEF Phases, Running, Threads
  <1>9. Batches'
    <2>1. ASSUME NEW v \in Threads, AtWork(v)'
          PROVE  /\ AtWork(v) /\ worker'[v].batch = worker[v].batch
                 /\ worker'[v].pc # "download" => worker'[v].have \subseteq Share(load.to_load, worker[v].batch)
          BY <2>1, <1>1, <1>2, <1>5 DEF AtWork, Batches
    <2> QED
        BY <2>1, <1>1, <1>3 DEF Batches
  <1>10. Copies'
    <2>1. \A t : InFlight(t)' <=> InFlight(t)
          BY <1>1, <1>5 DEF InFlight
    <2>2. \A t \in Tiles : terrain[t] \in Nat
          BY DEF TerrainTypes
    <2> QED
        BY <2>1, <2>2, <1>1, <1>4 DEF Copies
  <1>11. Counted'
        BY <1>1, <1>3 DEF Counted, Running
  <1>12. NothingForgotten'
    <2> SUFFICES ASSUME load'.clean
                 PROVE  /\ \A t \in Published : Accounted(t)'
                        /\ \A v \in Threads : worker'[v].pc = "done" /\ (v \in Pool <=> load.pc = "pool") =>
                               load.next > Shares(load.to_load)
        BY <1>3 DEF NothingForgotten
    <2>1. \A t \in Published : Accounted(t)
          BY <1>3, <1>6 DEF NothingForgotten, Running
    <2>2. \A t \in Published : Accounted(t)'
          BY <2>1, <1>1, <1>3, <1>5 DEF Accounted
    <2>3. ASSUME NEW v \in Threads, worker'[v].pc = "done"
          PROVE  v # w /\ worker[v].pc = "done"
          BY <2>3, <1>5
    <2> QED
        BY <2>2, <2>3, <1>3, <1>6 DEF NothingForgotten, Running
  <1>13. CleanRunIsComplete'
        BY <1>3, <1>6 DEF CleanRunIsComplete, Running
  <1> QED
      BY <1>7, <1>8, <1>9, <1>10, <1>11, <1>12, <1>13

\* psql commits the tiles of a batch.
LEMMA LoadBatchKeeps ==
    ASSUME TerrainIInv, NEW w \in Threads, LoadBatch(w)
    PROVE  TerrainIInv'
  <1> USE TerrainAssumption DEF TerrainIInv
  <1>1. /\ worker[w].pc = "load" /\ terrain_exists' = TRUE
        /\ UNCHANGED <<terrain_tiles, functions, load, orphans, torn, terrain_faults>>
        BY DEF LoadBatch, Commit
  <1>2. \A t \in Tiles : terrain'[t] = IF t \in worker[w].have THEN terrain[t] + 1 ELSE terrain[t]
        BY DEF LoadBatch, Commit
  <1>3. /\ worker' \in [Threads -> WorkerStates]
        /\ \A v \in Threads : v # w => worker'[v] = worker[v]
        /\ worker'[w].pc = "record" /\ worker'[w].batch = worker[w].batch
        /\ worker'[w].have = worker[w].have
        BY DEF LoadBatch, TerrainTypes, WorkerStates
  <1>4. load.pc \in {"bootstrap", "pool"} /\ (w \in Pool <=> load.pc = "pool")
        BY <1>1, LoadTypes DEF Phases, Running, Threads, TerrainTypes
  <1>5. terrain' \in [Tiles -> Nat]
        BY DEF LoadBatch, Commit, TerrainTypes
  <1>6. TerrainTypes'
        BY <1>1, <1>3, <1>5 DEF TerrainTypes
  <1>7. Phases'
        BY <1>1, <1>3, <1>4 DEF Phases, Running, Threads
  <1>8. Batches'
    <2>1. ASSUME NEW v \in Threads
          PROVE  /\ AtWork(v)' <=> AtWork(v)
                 /\ worker'[v].batch = worker[v].batch /\ worker'[v].have = worker[v].have
                 /\ worker'[v].pc = "download" <=> worker[v].pc = "download"
          BY <1>1, <1>3 DEF AtWork
    <2> QED
        BY <2>1, <1>1 DEF Batches
  <1>9. Copies'
    <2> SUFFICES ASSUME NEW t \in Tiles PROVE Copies!(t)'
        BY DEF Copies
    <2>1. terrain[t] \in Nat /\ terrain_faults \in Nat
          BY DEF TerrainTypes
    <2>2. CASE t \in worker[w].have
      <3>1. t \notin terrain_tiles
            BY <2>2, <1>1 DEF Batches, AtWork
      <3>2. ~InFlight(t)
        <4> SUFFICES ASSUME NEW v \in Threads, worker[v].pc = "record", t \in worker[v].have
                     PROVE  FALSE
            BY DEF InFlight
        <4>1. AtWork(v) /\ AtWork(w) /\ v # w
              BY <1>1 DEF AtWork
        <4>2. /\ worker[v].batch # worker[w].batch /\ worker[v].batch \in Nat /\ worker[w].batch \in Nat
              /\ t \in Share(load.to_load, worker[v].batch) /\ t \in Share(load.to_load, worker[w].batch)
              BY <4>1, <2>2, <1>1 DEF Batches
        <4> QED
            BY <4>2, SharesDisjoint, LoadTypes DEF TerrainTypes
      <3>3. InFlight(t)'
            BY <2>2, <1>3 DEF InFlight
      <3> QED
          BY <3>1, <3>2, <3>3, <2>1, <2>2, <1>1, <1>2 DEF Copies
    <2>3. CASE t \notin worker[w].have
      <3>1. InFlight(t)' <=> InFlight(t)
            BY <2>3, <1>1, <1>3 DEF InFlight
      <3> QED
          BY <3>1, <2>3, <1>1, <1>2 DEF Copies
    <2> QED
        BY <2>2, <2>3
  <1>10. Counted'
        BY <1>1 DEF Counted, Running
  <1>11. NothingForgotten'
    <2>1. \A t : Accounted(t) => Accounted(t)'
          BY <1>1, <1>3 DEF Accounted
    <2> QED
        BY <2>1, <1>1, <1>3 DEF NothingForgotten, Running
  <1>12. CleanRunIsComplete'
        BY <1>1, <1>4 DEF CleanRunIsComplete, Running
  <1> QED
      BY <1>6, <1>7, <1>8, <1>9, <1>10, <1>11, <1>12

\* A command that fails, before its commit or after it: the batch again, or the
\* end of the process.
LEMMA RetryOrDieKeeps ==
    ASSUME TerrainIInv, NEW w \in Threads, worker[w].pc = "load",
           NEW lost \in SUBSET Tiles, NEW clean \in BOOLEAN, ~clean,
           RetryOrDie(w, clean, lost), Stray(lost),
           terrain_faults' \in 0..MaxTerrainFaults, UNCHANGED <<terrain_tiles, functions>>
    PROVE  TerrainIInv'
  <1> USE TerrainAssumption DEF TerrainIInv
  <1>1. load.pc \in {"bootstrap", "pool"} /\ (w \in Pool <=> load.pc = "pool")
        BY LoadTypes DEF Phases, Running, Threads, TerrainTypes
  <1>2. CASE worker[w].tried
        BY <1>2, DieKeeps DEF RetryOrDie
  <1>3. CASE ~worker[w].tried
    <2>1. /\ load' \in LoadRuns /\ load'.pc = load.pc /\ load'.to_load = load.to_load
          /\ load'.loaded = load.loaded /\ load'.next = load.next /\ ~load'.clean
          /\ torn' = torn \cup lost /\ orphans' = orphans
          BY <1>3 DEF RetryOrDie, TerrainTypes, LoadRuns
    <2>2. /\ worker' \in [Threads -> WorkerStates]
          /\ \A v \in Threads : v # w => worker'[v] = worker[v]
          /\ worker'[w].pc = "download" /\ worker'[w].batch = worker[w].batch
          BY <1>3 DEF RetryOrDie, TerrainTypes, WorkerStates
    <2>3. TerrainTypes'
          BY <2>1, <2>2 DEF TerrainTypes, Stray
    <2>4. Phases'
          BY <1>1, <2>1, <2>2 DEF Phases, Running, Threads, Stray
    <2>5. Batches'
      <3>1. ASSUME NEW v \in Threads
            PROVE  /\ AtWork(v)' <=> AtWork(v)
                   /\ worker'[v].batch = worker[v].batch
                   /\ worker'[v].pc # "download" => worker'[v] = worker[v]
            BY <2>2 DEF AtWork
      <3> QED
          BY <3>1, <2>1 DEF Batches
    <2>6. Copies'
      <3>1. \A t : InFlight(t)' <=> InFlight(t)
            BY <2>2 DEF InFlight
      <3> QED
          BY <3>1, <2>1, StrayCopies
    <2>7. Counted'
          BY <2>1 DEF Counted, Running
    <2>8. NothingForgotten' /\ CleanRunIsComplete'
          BY <2>1 DEF NothingForgotten, CleanRunIsComplete
    <2> QED
        BY <2>3, <2>4, <2>5, <2>6, <2>7, <2>8
  <1> QED
      BY <1>2, <1>3

LEMMA LoadFailsKeeps ==
    ASSUME TerrainIInv, NEW w \in Threads, LoadFails(w)
    PROVE  TerrainIInv'
  <1> USE TerrainAssumption DEF TerrainIInv
  <1> DEFINE clean == load.clean /\ use_append # terrain_exists
  <1>1. /\ worker[w].pc = "load" /\ RetryOrDie(w, clean, {})
        /\ UNCHANGED <<terrain, terrain_exists, terrain_tiles, functions>>
        BY DEF LoadFails
  <1>2. load.pc \in {"bootstrap", "pool"} /\ (w \in Pool <=> load.pc = "pool")
        BY <1>1, LoadTypes DEF Phases, Running, Threads, TerrainTypes
  <1>3. clean \in BOOLEAN /\ ~clean
        BY <1>1, <1>2 DEF use_append, Phases, TerrainTypes, Threads
  <1>4. terrain_faults' \in 0..MaxTerrainFaults
        BY DEF LoadFails, TerrainFault, TerrainTypes
  <1>5. Stray({})
        BY <1>1, NothingStrays
  <1> HIDE DEF clean
  <1> QED
      BY <1>1, <1>3, <1>4, <1>5, RetryOrDieKeeps

LEMMA LoadFailsLateKeeps ==
    ASSUME TerrainIInv, NEW w \in Threads, LoadFailsLate(w)
    PROVE  TerrainIInv'
  <1>1. /\ worker[w].pc = "load" /\ RetryOrDie(w, FALSE, worker[w].have)
        /\ Commit(worker[w].have) /\ UNCHANGED <<terrain_tiles, functions>>
        BY DEF LoadFailsLate
  <1>2. worker[w].have \in SUBSET Tiles
        BY WorkerTypes DEF TerrainIInv, TerrainTypes
  <1>3. terrain_faults' \in 0..MaxTerrainFaults
        BY TerrainAssumption DEF LoadFailsLate, TerrainFault, TerrainIInv, TerrainTypes
  <1>4. Stray(worker[w].have)
        BY <1>1, <1>2, CommitStrays DEF TerrainIInv
  <1> QED
      BY <1>1, <1>2, <1>3, <1>4, RetryOrDieKeeps

\* A psql that has outlived its program commits, or ends without.
LEMMA OrphanCommitsKeeps ==
    ASSUME TerrainIInv, NEW o \in orphans, OrphanCommits(o)
    PROVE  TerrainIInv'
  <1> USE TerrainAssumption DEF TerrainIInv
  <1>1. /\ terrain_exists' = TRUE /\ torn' = torn \cup o.have /\ orphans' \subseteq orphans
        /\ UNCHANGED <<terrain_tiles, functions, worker, terrain_faults>>
        BY DEF OrphanCommits, Commit
  <1>2. /\ load' \in LoadRuns /\ load'.pc = load.pc /\ load'.to_load = load.to_load
        /\ load'.loaded = load.loaded /\ load'.next = load.next
        /\ load'.clean => load.clean /\ load.pc # "bootstrap"
        BY DEF OrphanCommits, TerrainTypes, LoadRuns
  <1>3. o.have \in SUBSET Tiles
        BY DEF TerrainTypes, Strays
  <1>4. Stray(o.have)
        BY <1>3, CommitStrays DEF OrphanCommits
  <1>5. TerrainTypes'
        BY <1>1, <1>2, <1>3, <1>4 DEF TerrainTypes, Stray
  <1>6. Phases'
        BY <1>1, <1>2 DEF Phases, Running
  <1>7. Batches'
        BY <1>1, <1>2 DEF Batches, AtWork
  <1>8. Copies'
    <2>1. \A t : InFlight(t)' <=> InFlight(t)
          BY <1>1 DEF InFlight
    <2> QED
        BY <2>1, <1>1, <1>3, <1>4, StrayCopies
  <1>9. Counted' /\ NothingForgotten'
    <2>1. \A t : Accounted(t)' <=> Accounted(t)
          BY <1>1, <1>2 DEF Accounted
    <2> QED
        BY <2>1, <1>1, <1>2 DEF Counted, NothingForgotten, Running
  <1>10. CleanRunIsComplete'
        BY <1>1, <1>2 DEF CleanRunIsComplete, Running
  <1> QED
      BY <1>5, <1>6, <1>7, <1>8, <1>9, <1>10

LEMMA OrphanFailsKeeps ==
    ASSUME TerrainIInv, NEW o \in orphans, OrphanFails(o)
    PROVE  TerrainIInv'
  <1>1. /\ orphans' \subseteq orphans
        /\ UNCHANGED <<terrain, terrain_exists, terrain_tiles, functions, load, worker, torn,
                       terrain_faults>>
        BY DEF OrphanFails
  <1>2. TerrainTypes' /\ Phases' /\ Counted' /\ CleanRunIsComplete'
        BY <1>1 DEF TerrainIInv, TerrainTypes, Phases, Running, Counted, CleanRunIsComplete
  <1>3. Batches' /\ Copies' /\ NothingForgotten'
        BY <1>1 DEF TerrainIInv, Batches, AtWork, Copies, InFlight, NothingForgotten, Accounted, Running
  <1> QED
      BY <1>2, <1>3 DEF TerrainIInv

\* The tiles of a batch are recorded; after the first batch the pool starts.
LEMMA RecordBatchKeeps ==
    ASSUME TerrainIInv, NEW w \in Threads, RecordBatch(w)
    PROVE  TerrainIInv'
  <1> USE TerrainAssumption DEF TerrainIInv
  <1> DEFINE have == worker[w].have
  <1>1. /\ worker[w].pc = "record" /\ terrain_tiles' = terrain_tiles \cup have
        /\ UNCHANGED <<terrain, terrain_exists, functions, orphans, torn, terrain_faults>>
        BY DEF RecordBatch
  <1>2. /\ load.pc \in {"bootstrap", "pool"} /\ (w \in Pool <=> load.pc = "pool")
        /\ terrain_exists
        BY <1>1, LoadTypes DEF Phases, Running, Threads, TerrainTypes
  <1>3. /\ load.to_load \subseteq Tiles /\ have \subseteq Tiles
        /\ have \subseteq Share(load.to_load, worker[w].batch) /\ have \subseteq load.to_load
        /\ have \cap terrain_tiles = {} /\ AtWork(w)
        /\ worker[w].batch \in Nat /\ worker[w].batch < load.next /\ load.next \in Nat
        BY <1>1, WorkerTypes, LoadTypes, SharesCover DEF Batches, AtWork, TerrainTypes
  <1>4. Cardinality(have) \in Nat
        BY <1>3, TileSets, FS_CardinalityType
  <1>5. /\ load' \in LoadRuns /\ load'.pc = "pool" /\ load'.to_load = load.to_load
        /\ load'.loaded = load.loaded + Cardinality(have)
        /\ load'.next = load.next /\ load'.clean = load.clean
    <2>1. load \in LoadRuns /\ load.loaded + Cardinality(have) \in Nat
          BY <1>4, LoadTypes DEF TerrainTypes
    <2>2. load' = [load EXCEPT !.loaded = load.loaded + Cardinality(have), !.pc = "pool"]
          BY DEF RecordBatch
    <2> QED
        BY <2>1, <2>2 DEF LoadRuns
  <1>6. /\ worker' \in [Threads -> WorkerStates]
        /\ \A v \in Threads : AtWork(v)' => v # w /\ AtWork(v) /\ worker'[v] = worker[v]
        /\ \A v \in Threads : v # w /\ AtWork(v) => worker'[v] = worker[v]
        /\ worker'["main"].pc = "done"
        /\ \A v \in Pool : worker'[v].pc = "done" => load.pc = "pool" /\ v # w /\ worker[v].pc = "done"
    <2>1. CASE load.pc = "bootstrap"
      <3>1. NoWork \in WorkerStates /\ Ready \in WorkerStates /\ NoWork.pc = "done" /\ Ready.pc = "connect"
            BY DEF NoWork, Ready, WorkerStates
      <3>2. worker' = [v \in Threads |-> IF v = "main" THEN NoWork ELSE Ready]
            BY <2>1 DEF RecordBatch
      <3>3. \A v \in Threads : v # w => ~AtWork(v)
            BY <2>1, <1>2 DEF Phases, AtWork, Threads
      <3> QED
          BY <3>1, <3>2, <3>3, <2>1 DEF AtWork, Threads
    <2>2. CASE load.pc = "pool"
      <3>1. worker' = [worker EXCEPT ![w].pc = "take"]
            BY <2>2 DEF RecordBatch
      <3>2. worker' \in [Threads -> WorkerStates] /\ worker'[w].pc = "take"
            /\ \A v \in Threads : v # w => worker'[v] = worker[v]
            BY <3>1 DEF TerrainTypes, WorkerStates
      <3>3. worker["main"].pc = "done" /\ w # "main" /\ "main" \in Threads
            BY <2>2, <1>2 DEF Phases, Threads
      <3> QED
          BY <3>2, <3>3, <2>2 DEF AtWork, Threads
    <2> QED
        BY <2>1, <2>2, <1>2
  <1>7. TerrainTypes'
        BY <1>1, <1>3, <1>5, <1>6 DEF TerrainTypes
  <1>8. Phases'
        BY <1>1, <1>2, <1>5, <1>6 DEF Phases, Running
  <1>9. Batches'
    <2>1. ASSUME NEW b \in Nat, b # worker[w].batch PROVE Share(load.to_load, b) \cap have = {}
          BY <2>1, <1>3, SharesDisjoint
    <2>2. \A b \in Nat : b >= load.next => Share(load.to_load, b) \cap terrain_tiles' = {}
          BY <2>1, <1>1, <1>3 DEF Batches
    <2>3. ASSUME NEW v \in Threads, AtWork(v)'
          PROVE  /\ worker[v].batch \in Nat /\ worker[v].batch < load.next
                 /\ Share(load.to_load, worker[v].batch) \cap terrain_tiles' = {}
                 /\ worker[v].pc # "download" => worker[v].have \subseteq Share(load.to_load, worker[v].batch)
      <3>1. v # w /\ AtWork(v) /\ worker[v].batch # worker[w].batch
            BY <2>3, <1>3, <1>6 DEF Batches
      <3> QED
          BY <3>1, <2>1, <1>1 DEF Batches
    <2> QED
        BY <2>2, <2>3, <1>5, <1>6 DEF Batches
  <1>10. Copies'
    <2> SUFFICES ASSUME NEW t \in Tiles PROVE Copies!(t)'
        BY DEF Copies
    <2>1. CASE t \in have
          BY <2>1, <1>1, <1>3 DEF Copies, InFlight
    <2>2. CASE t \notin have
      <3>1. InFlight(t)' <=> InFlight(t)
            BY <2>2, <1>1, <1>6 DEF InFlight, AtWork
      <3> QED
          BY <3>1, <2>2, <1>1 DEF Copies
    <2> QED
        BY <2>1, <2>2
  <1>11. Counted'
    <2> DEFINE old == terrain_tiles \cap load.to_load
    <2>1. terrain_tiles' \cap load.to_load = old \cup have /\ old \cap have = {}
          BY <1>1, <1>3
    <2>2. IsFiniteSet(old) /\ IsFiniteSet(have) /\ Cardinality(old) \in Nat
          BY <1>3, TileSets
    <2>3. Cardinality(old \cup have) = Cardinality(old) + Cardinality(have)
      <3> HIDE DEF old, have
      <3>1. Cardinality(old \cup have) = Cardinality(old) + Cardinality(have) - Cardinality(old \cap have)
            BY <2>2, FS_Union
      <3>2. Cardinality(old \cap have) = 0
            BY <2>1, FS_EmptySet
      <3> QED
          BY <3>1, <3>2, <2>2, <1>4
    <2>4. load'.loaded = Cardinality(terrain_tiles' \cap load'.to_load)
          BY <2>1, <2>3, <1>5 DEF Counted
    <2>5. load.clean /\ ~functions => terrain_tiles' \subseteq load.to_load
          BY <1>1, <1>2, <1>3 DEF Counted, Running
    <2> QED
        BY <2>4, <2>5, <1>1, <1>5 DEF Counted
  <1>12. NothingForgotten'
    <2> SUFFICES ASSUME load.clean
                 PROVE  /\ \A t \in Published : Accounted(t)'
                        /\ \A v \in Pool : worker'[v].pc = "done" => load.next > Shares(load.to_load)
        BY <1>5 DEF NothingForgotten, Threads
    <2>1. \A t \in Published : Accounted(t)
          BY <1>2 DEF NothingForgotten, Running
    <2>2. \A t \in Published : Accounted(t)'
          BY <2>1, <1>1, <1>5, <1>6 DEF Accounted, AtWork
    <2> QED
        BY <2>2, <1>6 DEF NothingForgotten, Running, Threads
  <1>13. CleanRunIsComplete'
        BY <1>5 DEF CleanRunIsComplete, Running
  <1> QED
      BY <1>7, <1>8, <1>9, <1>10, <1>11, <1>12, <1>13

\* A connection is lost.
LEMMA WorkerErrorKeeps ==
    ASSUME TerrainIInv, NEW w \in Threads, WorkerError(w)
    PROVE  TerrainIInv'
  <1> USE TerrainAssumption DEF TerrainIInv
  <1>1. /\ worker[w].pc \in {"record", "connect"} /\ TerrainFault
        /\ UNCHANGED <<terrain, terrain_exists, terrain_tiles, functions>>
        BY DEF WorkerError
  <1>2. CASE w = "main"
    <2>1. Die(FALSE, {}) /\ torn' = torn \cup {} \cup Unrecorded
          BY <1>2 DEF WorkerError
    <2>2. terrain_faults' \in 0..MaxTerrainFaults
          BY <1>1 DEF TerrainFault, TerrainTypes
    <2>3. Stray({})
          BY <1>1, NothingStrays
    <2> QED
        BY <1>1, <2>1, <2>2, <2>3, DieKeeps
  <1>3. CASE w # "main"
    <2>1. load.pc = "pool" /\ w \in Pool
          BY <1>1, <1>3, LoadTypes DEF Phases, Running, Threads, TerrainTypes
    <2>2. /\ load' \in LoadRuns /\ load'.pc = load.pc /\ load'.to_load = load.to_load
          /\ load'.loaded = load.loaded /\ load'.next = load.next /\ load'.clean = FALSE
          BY <1>3 DEF WorkerError, TerrainTypes, LoadRuns
    <2>3. /\ worker' \in [Threads -> WorkerStates] /\ worker'[w].pc = "done"
          /\ \A v \in Threads : v # w => worker'[v] = worker[v]
      <3>1. NoWork \in WorkerStates /\ NoWork.pc = "done"
            BY DEF NoWork, WorkerStates
      <3> QED
          BY <1>3, <3>1 DEF WorkerError, TerrainTypes
    <2>4. /\ torn' \subseteq Tiles /\ torn \subseteq torn' /\ orphans' = orphans
          /\ worker[w].pc = "record" => worker[w].have \subseteq torn'
          BY <1>3, WorkerTypes DEF WorkerError, TerrainTypes
    <2>5. terrain_faults \in Nat /\ terrain_faults' = terrain_faults + 1
          BY <1>1 DEF TerrainTypes, TerrainFault
    <2>6. TerrainTypes'
          BY <1>1, <2>2, <2>3, <2>4, <2>5 DEF TerrainTypes, TerrainFault
    <2>7. Phases'
          BY <1>1, <2>1, <2>2, <2>3 DEF Phases, Running, Threads
    <2>8. Batches'
      <3>1. \A v \in Threads : AtWork(v)' => v # w /\ AtWork(v) /\ worker'[v] = worker[v]
            BY <2>3 DEF AtWork
      <3> QED
          BY <3>1, <1>1, <2>2 DEF Batches
    <2>9. Copies'
      <3>1. ASSUME NEW t \in Tiles
            PROVE  /\ InFlight(t)' => InFlight(t)
                   /\ InFlight(t) /\ ~InFlight(t)' => t \in torn'
            BY <2>3, <2>4 DEF InFlight
      <3>2. Stray({})
            BY <1>1, NothingStrays
      <3> QED
          BY <3>1, <3>2, <1>1, <2>4, StrayCopies
    <2>10. Counted'
          BY <1>1, <2>2 DEF Counted, Running
    <2>11. NothingForgotten' /\ CleanRunIsComplete'
          BY <2>2 DEF NothingForgotten, CleanRunIsComplete
    <2> QED
        BY <2>6, <2>7, <2>8, <2>9, <2>10, <2>11
  <1> QED
      BY <1>2, <1>3

\* The threads are joined and load returns.
LEMMA LoadReturnsKeeps ==
    ASSUME TerrainIInv, LoadReturns
    PROVE  TerrainIInv'
  <1> USE TerrainAssumption DEF TerrainIInv
  <1>1. /\ Running /\ \A w \in Threads : worker[w].pc = "done"
        /\ UNCHANGED <<terrain, terrain_exists, terrain_tiles, worker, orphans, torn>>
        BY DEF LoadReturns
  <1>2. /\ load' \in LoadRuns /\ load'.pc \in {"ok", "nothing"} /\ load'.to_load = load.to_load
        /\ load'.loaded = load.loaded /\ load'.next = load.next
        /\ load'.clean <=> load.clean /\ terrain_faults' = terrain_faults
    <2>1. PICK e \in {"ok", "nothing"} :
             load' = [load EXCEPT !.pc = e, !.clean = load.clean /\ terrain_faults' = terrain_faults]
          BY DEF LoadReturns
    <2> QED
        BY <2>1 DEF TerrainTypes, LoadRuns
  <1>11. /\ functions' \in BOOLEAN /\ terrain_faults' \in 0..MaxTerrainFaults
         /\ load.loaded > 0 /\ terrain_faults' = terrain_faults => functions'
         /\ functions /\ terrain_faults' = terrain_faults => functions'
    <2>1. CASE load.loaded > 0
      <3>1. createElevationFunctions
            BY <2>1 DEF LoadReturns
      <3> QED
          BY <3>1, FunctionsCreated
    <2>2. CASE ~(load.loaded > 0)
          BY <2>2 DEF LoadReturns, TerrainTypes
    <2> QED
        BY <2>1, <2>2
  <1>3. TerrainTypes'
        BY <1>1, <1>2, <1>11 DEF TerrainTypes
  <1>4. Phases' /\ NothingForgotten'
        BY <1>1, <1>2 DEF Phases, Running, NothingForgotten
  <1>5. Batches'
        BY <1>1, <1>2 DEF Batches, AtWork
  <1>6. Copies'
        BY <1>1 DEF Copies, InFlight
  <1>7. Counted'
        BY <1>1, <1>2 DEF Counted, Running
  <1>8. CleanRunIsComplete'
    <2> SUFFICES ASSUME load.clean, terrain_faults' = terrain_faults
                 PROVE  Published \subseteq terrain_tiles /\ (Published # {} => functions')
        BY <1>1, <1>2 DEF CleanRunIsComplete
    <2>1. load.next > Shares(load.to_load)
      <3>1. \E w \in Threads : w \in Pool <=> load.pc = "pool"
            BY DEF Threads
      <3> QED
          BY <3>1, <1>1 DEF NothingForgotten
    <2>2. \A b \in Nat : b >= load.next => Share(load.to_load, b) = {}
          BY <2>1, SharesCover, LoadTypes DEF TerrainTypes
    <2>3. Published \subseteq terrain_tiles
          BY <2>2, <1>1 DEF NothingForgotten, Accounted
    <2>4. ASSUME NEW t \in Published, ~functions PROVE load.loaded > 0
      <3>1. t \in terrain_tiles \cap load.to_load
            BY <2>3, <2>4, <1>1 DEF Counted
      <3>2. IsFiniteSet(terrain_tiles \cap load.to_load) /\ Cardinality(terrain_tiles \cap load.to_load) \in Nat
            BY TileSets DEF TerrainTypes
      <3>3. Cardinality(terrain_tiles \cap load.to_load) # 0
            BY <3>1, <3>2, FS_EmptySet
      <3> QED
          BY <3>2, <3>3 DEF Counted
    <2> QED
        BY <2>3, <2>4, <1>11
  <1> QED
      BY <1>3, <1>4, <1>5, <1>6, <1>7, <1>8

\* Every step of the terrain loader, or of another program.
LEMMA TerrainNextIInv == TerrainIInv /\ [TerrainNext]_rvars => TerrainIInv'
  <1> SUFFICES ASSUME TerrainIInv, [TerrainNext]_rvars PROVE TerrainIInv'
      OBVIOUS
  <1>1. CASE UNCHANGED rvars
    <2>1. TerrainTypes' /\ Phases' /\ Counted' /\ CleanRunIsComplete'
          BY <1>1 DEF rvars, TerrainIInv, TerrainTypes, Phases, Running, Counted, CleanRunIsComplete
    <2>2. Batches' /\ Copies' /\ NothingForgotten'
          BY <1>1 DEF rvars, TerrainIInv, Batches, AtWork, Copies, InFlight, NothingForgotten, Accounted,
                      Running
    <2> QED
        BY <2>1, <2>2 DEF TerrainIInv
  <1>2. CASE SelectTiles
        BY <1>2, SelectTilesKeeps
  <1>3. ASSUME NEW w \in Threads, ThreadStep(w) PROVE TerrainIInv'
        BY <1>3, TakeBatchKeeps, DownloadBatchKeeps, LoadBatchKeeps, LoadFailsKeeps, LoadFailsLateKeeps,
           RecordBatchKeeps, WorkerErrorKeeps DEF ThreadStep
  <1>4. CASE LoadReturns
        BY <1>4, LoadReturnsKeeps
  <1>5. CASE TerrainCrash
    <2>1. /\ Die(FALSE, Threads) /\ torn' = torn \cup {} \cup Unrecorded
          /\ UNCHANGED <<terrain, terrain_exists, terrain_tiles, functions>>
          BY <1>5 DEF TerrainCrash
    <2>2. terrain_faults' \in 0..MaxTerrainFaults
          BY <1>5, TerrainAssumption DEF TerrainCrash, TerrainFault, TerrainIInv, TerrainTypes
    <2>3. Stray({})
          BY <2>1, NothingStrays DEF TerrainIInv
    <2> QED
        BY <2>1, <2>2, <2>3, DieKeeps
  <1>6. ASSUME NEW o \in orphans, OrphanCommits(o) \/ OrphanFails(o) PROVE TerrainIInv'
        BY <1>6, OrphanCommitsKeeps, OrphanFailsKeeps
  <1> QED
      BY <1>1, <1>2, <1>3, <1>4, <1>5, <1>6 DEF TerrainNext

\* Part by part, the invariant gives the properties.
LEMMA TerrainIInvImplies == TerrainIInv => TerrainTypeOK /\ TileLoadedOnce /\ CleanRunIsComplete
  <1> SUFFICES ASSUME TerrainIInv PROVE TerrainTypeOK /\ TileLoadedOnce
      BY DEF TerrainIInv
  <1> USE TerrainAssumption DEF TerrainIInv
  <1>1. \A o \in orphans : o.have \subseteq Tiles /\ o.append \in BOOLEAN
        BY DEF TerrainTypes, Strays
  <1>3. load.next \in 1..(TileCount + 1)
        BY SharesCover, LoadTypes DEF TerrainTypes, Batches
  <1>4. load.loaded \in 0..TileCount
        BY TileSets DEF TerrainTypes, Counted
  <1>5. TerrainTypeOK
        BY <1>1, <1>3, <1>4, LoadTypes, WorkerTypes DEF TerrainTypes, TerrainTypeOK
  <1>6. TileLoadedOnce
        BY DEF TileLoadedOnce, Copies, TerrainTypes
  <1> QED
      BY <1>5, <1>6

\* The inductive invariant holds in every state of the terrain loader.
THEOREM TerrainInvariant == TerrainSpec => []TerrainIInv
  BY TerrainInitIInv, TerrainNextIInv, PTL DEF TerrainSpec

\* For any number of threads, any batch size and any failures, a recorded tile
\* is in the raster, and a tile is there twice only when psql had committed its
\* pixels and the program did not record them: killed, cut off, or told that
\* psql had failed.
THEOREM TerrainLoadedOnce == TerrainSpec => []TileLoadedOnce
  BY TerrainInvariant, TerrainIInvImplies, PTL

\* A run without failures ends with every published tile recorded and the
\* functions created, whatever psql processes earlier runs have left behind; it
\* never ends the process.
THEOREM TerrainComplete == TerrainSpec => []CleanRunIsComplete
  BY TerrainInvariant, TerrainIInvImplies, PTL

----------------------------------------------------------------------------
(* ExternalTables: the inductive invariant *)

Loads == [of : 0..MaxPubs, whole : BOOLEAN]
LastStamp == Gap * MaxPubs + Jitter + MaxTime

\* Positions in the plan, downloaded files, timestamps.
Places == 0..2
Files == Seq(0..MaxPubs)
Times == -1..LastStamp

Jobs ==
    [pc : {"idle", "check", "fetch", "truncate", "insert", "record"},
     at : Places, got : Files, seen : Times, due : BOOLEAN, ok : BOOLEAN]

ExternalTypes ==
    /\ source \in Sources /\ pub \in 0..MaxPubs /\ clock \in 0..MaxTime
    /\ rows \in [Tables -> Seq(Loads)]
    /\ known \in -1..LastStamp
    /\ job \in [Loaders -> Jobs]
    /\ runs \in 0..MaxRuns /\ faults \in 0..MaxFaults
    /\ flaw \subseteq {"overlap", "abandoned", "shortPages", "seededLate"}

LastAt == Len(Plan[source])

\* How many files a load has in each of its steps, none of them newer than the
\* server's.
Stages ==
    \A p \in Loaders :
        /\ ~Active(p) => job[p].got = <<>>
        /\ Active(p) => job[p].at \in 1..LastAt
        /\ IsStamped /\ job[p].pc = "fetch" => Len(job[p].got) = job[p].at - 1
        /\ IsStamped /\ job[p].pc = "truncate" => Len(job[p].got) = LastAt /\ job[p].at = 1
        /\ IsStamped /\ job[p].pc = "insert" => Len(job[p].got) = LastAt
        /\ IsStamped /\ job[p].pc = "record" => Len(job[p].got) = LastAt /\ job[p].at = LastAt
        /\ ~IsStamped => Len(job[p].got) <= 1
        /\ ~IsStamped /\ job[p].pc \in {"truncate", "insert"} => Len(job[p].got) = 1
        /\ \A i \in 1..Len(job[p].got) : job[p].got[i] <= pub

\* Two loads at once have been noticed.
OverlapsNoticed == \A p, q \in Loaders : p # q /\ Active(p) /\ Active(q) => "overlap" \in flaw

\* What a load alone at work has put into the tables so far.
Filled(p, i) == rows[Plan[source][i]] = <<[of |-> job[p].got[i], whole |-> TRUE]>>

LoadProgress(p) ==
    /\ IsStamped /\ job[p].pc = "insert" =>
          \A i \in 1..LastAt : /\ i >= job[p].at => rows[Plan[source][i]] = <<>>
                               /\ i < job[p].at => Filled(p, i)
    /\ IsStamped /\ job[p].pc = "record" => \A i \in 1..LastAt : Filled(p, i)
    /\ ~IsStamped /\ job[p].pc = "insert" => rows[table(p)] = <<>>

Progress ==
    "overlap" \notin flaw =>
        /\ \A t \in Tables : Len(rows[t]) <= 1
        /\ \A p \in Loaders : LoadProgress(p)

\* A Last-Modified of publication k.
StampOf(s, k) == \E j \in 0..Jitter : s = Gap * k + j

\* What has been recorded, or is about to be, was once reported, and no file
\* of the load is older.
StampsReported ==
    /\ IsStamped => known = -1 \/ \E k \in 0..pub : StampOf(known, k)
    /\ ~IsStamped => known <= clock
    /\ Active("poll") => IF IsStamped
                         THEN \E k \in 0..pub : /\ StampOf(job["poll"].seen, k)
                                                /\ \A i \in 1..Len(job["poll"].got) : job["poll"].got[i] >= k
                         ELSE job["poll"].seen \in 0..clock

\* The next check finds nothing to do.
Settled == IF IsStamped THEN StampOf(known, pub) ELSE young(clock)

\* A load that a check found due is due still; and what is recorded as current
\* is current, unless a load by hand, or one of poll that could not read the
\* record, is putting the same publication there once more.
Trusted ==
    "overlap" \notin flaw =>
        /\ \A p \in Loaders : Active(p) /\ job[p].due => ~Settled
        /\ IsStamped /\ Settled =>
              \A p \in Loaders : \A i \in 1..Len(job[p].got) : job[p].got[i] = pub
        /\ IsStamped /\ Settled /\ flaw = {} /\ (\A p \in Loaders : job[p].pc \notin {"insert", "record"}) =>
              \A t \in Tables : rows[t] = <<[of |-> pub, whole |-> TRUE]>>
        /\ ~IsStamped /\ Settled /\ flaw = {} /\ Resting => ~Incomplete

ExternalIInv ==
    ExternalTypes /\ Stages /\ OverlapsNoticed /\ Progress /\ StampsReported /\ Trusted

----------------------------------------------------------------------------
(* ExternalTables: the plan of a load and the arithmetic of its stamps *)

\* A load has one or two tables, all different.
LEMMA PlanFacts ==
    ASSUME source \in Sources
    PROVE  /\ LastAt \in {1, 2}
           /\ Tables = {Plan[source][i] : i \in 1..LastAt}
           /\ \A i, j \in 1..LastAt : i # j => Plan[source][i] # Plan[source][j]
  <1>1. CASE source = "airports"
        BY <1>1 DEF Plan, LastAt, Tables
  <1>2. CASE source = "faa_obstacles"
        BY <1>2 DEF Plan, LastAt, Tables
  <1>3. CASE source = "airspace" /\ HaveKey
        BY <1>3 DEF Plan, LastAt, Tables
  <1>4. CASE source = "airspace" /\ ~HaveKey
        BY <1>4 DEF Plan, LastAt, Tables
  <1> QED
      BY <1>1, <1>2, <1>3, <1>4 DEF Sources, Stamped

\* Publications are Gap apart.
LEMMA Apart ==
    ASSUME NEW k \in Nat, NEW m \in Nat, k < m
    PROVE  Gap * k \in Nat /\ Gap * m \in Nat /\ Gap * k + Gap <= Gap * m
  BY ExternalAssumption

\* A recorded stamp is within the tolerance of what a HEAD request reports
\* exactly when it is a stamp of the publication on the server.
LEMMA ToleranceSettles ==
    ASSUME pub \in Nat, known \in Int, known = -1 \/ \E k \in 0..pub : StampOf(known, k),
           NEW remote \in remoteLastModified
    PROVE  upToDate(remote) <=> StampOf(known, pub)
  <1> USE ExternalAssumption
  <1>1. Gap * pub \in Nat /\ remote \in Int /\ remote >= Gap * pub /\ remote <= Gap * pub + Jitter
        BY DEF remoteLastModified
  <1>2. CASE known = -1
        BY <1>1, <1>2 DEF StampOf, upToDate
  <1>3. CASE StampOf(known, pub)
        BY <1>1, <1>3 DEF StampOf, upToDate, Abs
  <1>4. ASSUME NEW k \in 0..pub, StampOf(known, k), ~StampOf(known, pub) PROVE ~upToDate(remote)
    <2>1. k \in Nat /\ k < pub
          BY <1>4
    <2>2. Gap * k \in Nat /\ Gap * k + Gap <= Gap * pub
          BY <2>1, Apart
    <2>3. known <= Gap * k + Jitter
          BY <1>4, <2>2 DEF StampOf
    <2> QED
        BY <1>1, <2>2, <2>3 DEF upToDate, Abs
  <1> QED
      BY <1>2, <1>3, <1>4

\* A new publication makes every recorded stamp old.
LEMMA PublishUnsettles ==
    ASSUME pub \in Nat, known = -1 \/ \E k \in 0..pub : StampOf(known, k)
    PROVE  ~StampOf(known, pub + 1)
  <1> USE ExternalAssumption
  <1> SUFFICES ASSUME StampOf(known, pub + 1) PROVE FALSE
      OBVIOUS
  <1>1. Gap * (pub + 1) \in Nat /\ known \in Int /\ known >= Gap * (pub + 1)
        BY DEF StampOf
  <1>2. ASSUME NEW k \in 0..pub, StampOf(known, k) PROVE FALSE
    <2>1. Gap * k \in Nat /\ Gap * k + Gap <= Gap * (pub + 1)
          BY Apart
    <2>2. known <= Gap * k + Jitter
          BY <1>2, <2>1 DEF StampOf
    <2> QED
        BY <1>1, <2>1, <2>2
  <1> QED
      BY <1>1, <1>2

\* A step of one process leaves the jobs of the others alone.
LEMMA SetTyped ==
    ASSUME job \in [Loaders -> Jobs], NEW p \in Loaders, NEW j \in Jobs, Set(p, j)
    PROVE  /\ job' \in [Loaders -> Jobs] /\ job'[p] = j
           /\ \A q \in Loaders : q # p => job'[q] = job[q]
  BY DEF Set

\* What a job keeps.
LEMMA JobTypes ==
    ASSUME job \in [Loaders -> Jobs], NEW p \in Loaders
    PROVE  /\ job[p].pc \in {"idle", "check", "fetch", "truncate", "insert", "record"}
           /\ job[p].at \in 0..2 /\ job[p].got \in Seq(0..MaxPubs)
           /\ job[p].seen \in -1..LastStamp /\ job[p].ok \in BOOLEAN /\ job[p].due \in BOOLEAN
  BY DEF Jobs, Places, Files, Times

\* A process that rests.
LEMMA IdleJob ==
    /\ Idle \in Jobs /\ Idle.pc = "idle" /\ Idle.got = <<>>
    /\ LastStamp \in Nat /\ Gap * MaxPubs \in Nat
  <1>1. Gap * MaxPubs \in Nat /\ LastStamp \in Nat
        BY ExternalAssumption DEF LastStamp
  <1> QED
      BY <1>1 DEF Idle, Jobs, Places, Files, Times

\* Every stamp fits below the last.
LEMMA StampBound ==
    ASSUME NEW s, NEW k \in 0..MaxPubs, StampOf(s, k)
    PROVE  s \in 0..LastStamp
  <1> USE ExternalAssumption
  <1>1. Gap * k \in Nat /\ Gap * MaxPubs \in Nat /\ Gap * k <= Gap * MaxPubs
        OBVIOUS
  <1> QED
      BY <1>1 DEF StampOf, LastStamp

----------------------------------------------------------------------------
(* ExternalTables: every action keeps the invariant *)

\* A load that ends, or a check that finds nothing to do, keeps the invariant
\* provided that what it leaves behind is complete, due or marked in flaw.
LEMMA LeaveKeeps ==
    ASSUME ExternalIInv, NEW p \in Loaders, Set(p, Idle),
           UNCHANGED <<source, pub, clock, rows, runs>>, faults' \in 0..MaxFaults,
           known' \in -1..LastStamp, known' = known \/ Active(p),
           IsStamped => known' = -1 \/ \E k \in 0..pub : StampOf(known', k),
           ~IsStamped => known' <= clock,
           flaw' \subseteq {"overlap", "abandoned", "shortPages", "seededLate"},
           "overlap" \in flaw => "overlap" \in flaw',
           flaw' = {} /\ Settled' /\ IsStamped
               /\ (\A q \in Loaders : q # p => job[q].pc \notin {"insert", "record"}) =>
                   \A t \in Tables : rows[t] = <<[of |-> pub, whole |-> TRUE]>>,
           flaw' = {} /\ Settled' /\ ~IsStamped /\ (\A q \in Loaders : q # p => ~Active(q)) => ~Incomplete
    PROVE  ExternalIInv'
  <1> USE DEF ExternalIInv
  <1>1. /\ job' \in [Loaders -> Jobs] /\ job'[p].pc = "idle" /\ job'[p].got = <<>>
        /\ \A q \in Loaders : q # p => job'[q] = job[q]
        BY IdleJob, SetTyped DEF ExternalTypes
  <1>2. /\ Tables' = Tables /\ LastAt' = LastAt /\ IsStamped' = IsStamped /\ Incomplete' = Incomplete
        BY DEF Tables, LastAt, IsStamped, Incomplete
  <1>3. /\ ~Active(p)'
        /\ \A q \in Loaders : q # p => Active(q)' = Active(q)
        BY <1>1 DEF Active
  <1>4. ExternalTypes'
        BY <1>1, <1>2 DEF ExternalTypes
  <1>5. Stages'
    <2> SUFFICES ASSUME NEW q \in Loaders PROVE Stages!(q)'
        BY DEF Stages
    <2>1. CASE q = p
          BY <2>1, <1>1, <1>3 DEF Stages
    <2>2. CASE q # p
          BY <2>2, <1>1, <1>2, <1>3 DEF Stages
    <2> QED
        BY <2>1, <2>2
  <1>6. OverlapsNoticed'
        BY <1>3 DEF OverlapsNoticed
  <1>7. Progress'
    <2>1. \A q \in Loaders : job'[q].pc \in {"insert", "record"} => job'[q] = job[q]
          BY <1>1
    <2>2. "overlap" \notin flaw' => \A t \in Tables : Len(rows[t]) <= 1
          BY DEF Progress
    <2>3. ASSUME "overlap" \notin flaw', NEW q \in Loaders PROVE LoadProgress(q)'
      <3>1. CASE job'[q].pc \in {"insert", "record"}
        <4>1. LoadProgress(q)
              BY <2>3 DEF Progress
        <4> QED
            BY <2>1, <3>1, <4>1, <1>2 DEF LoadProgress, Filled, table
      <3>2. CASE job'[q].pc \notin {"insert", "record"}
            BY <3>2 DEF LoadProgress
      <3> QED
          BY <3>1, <3>2
    <2> QED
        BY <2>2, <2>3, <1>2 DEF Progress
  <1>8. StampsReported'
    <2>1. Active("poll")' => p # "poll" /\ Active("poll") /\ job'["poll"] = job["poll"]
          BY <1>1, <1>3 DEF Loaders
    <2> QED
        BY <2>1, <1>2 DEF StampsReported
  <1>9. Trusted'
    <2> SUFFICES ASSUME "overlap" \notin flaw', "overlap" \notin flaw PROVE Trusted'
        BY DEF Trusted
    <2>1. \A q \in Loaders : q # p /\ known' # known => ~Active(q) /\ job[q].got = <<>>
          BY DEF OverlapsNoticed, Stages
    <2>2. known' = known => Settled' = Settled
          BY <1>2 DEF Settled, young
    <2>3. \A q \in Loaders : Active(q)' /\ job'[q].due => ~Settled'
          BY <2>1, <2>2, <1>1, <1>3 DEF Trusted
    <2>4. IsStamped /\ Settled' =>
              \A q \in Loaders : \A i \in 1..Len(job'[q].got) : job'[q].got[i] = pub
      <3> SUFFICES ASSUME IsStamped, Settled', NEW q \in Loaders, q # p, NEW i \in 1..Len(job[q].got)
                   PROVE  job[q].got[i] = pub
          BY <1>1
      <3>1. CASE known' = known
            BY <3>1, <2>2 DEF Trusted
      <3>2. CASE known' # known
            BY <3>2, <2>1
      <3> QED
          BY <3>1, <3>2
    <2>5. (\A q \in Loaders : job'[q].pc \notin {"insert", "record"}) =>
              \A q \in Loaders : q # p => job[q].pc \notin {"insert", "record"}
          BY <1>1
    <2>6. Resting' => \A q \in Loaders : q # p => ~Active(q)
          BY <1>3 DEF Resting
    <2> QED
        BY <2>3, <2>4, <2>5, <2>6, <1>2 DEF Trusted
  <1> QED
      BY <1>4, <1>5, <1>6, <1>7, <1>8, <1>9

\* A step of an airspace load that goes on.
LEMMA AirspaceMoves ==
    ASSUME ExternalIInv, ~IsStamped, NEW p \in Loaders, Active(p), NEW j \in Jobs, Set(p, j),
           UNCHANGED <<source, pub, clock, known, runs, flaw>>, faults' \in 0..MaxFaults,
           j.pc \in {"fetch", "truncate", "insert", "record"}, j.at \in 1..LastAt, j.seen = job[p].seen /\ j.due = job[p].due,
           Len(j.got) <= 1, j.pc \in {"truncate", "insert"} => Len(j.got) = 1,
           \A i \in 1..Len(j.got) : j.got[i] <= pub,
           rows' \in [Tables -> Seq(Loads)],
           "overlap" \notin flaw =>
               /\ \A t \in Tables : Len(rows'[t]) <= 1
               /\ j.pc = "insert" => rows'[Plan[source][j.at]] = <<>>
    PROVE  ExternalIInv'
  <1> USE DEF ExternalIInv
  <1>1. /\ job' \in [Loaders -> Jobs] /\ job'[p] = j
        /\ \A q \in Loaders : q # p => job'[q] = job[q]
        BY SetTyped DEF ExternalTypes
  <1>2. /\ Tables' = Tables /\ LastAt' = LastAt /\ IsStamped' = IsStamped /\ Settled' = Settled
        BY DEF Tables, LastAt, IsStamped, Settled, young
  <1>3. \A q \in Loaders : Active(q)' = Active(q)
        BY <1>1 DEF Active
  <1>4. ExternalTypes'
        BY <1>1, <1>2 DEF ExternalTypes
  <1>5. Stages'
    <2> SUFFICES ASSUME NEW q \in Loaders PROVE Stages!(q)'
        BY DEF Stages
    <2>1. CASE q = p
          BY <2>1, <1>1, <1>2, <1>3 DEF Stages
    <2>2. CASE q # p
          BY <2>2, <1>1, <1>2, <1>3 DEF Stages
    <2> QED
        BY <2>1, <2>2
  <1>6. OverlapsNoticed'
        BY <1>3 DEF OverlapsNoticed
  <1>7. Progress'
    <2> SUFFICES ASSUME "overlap" \notin flaw, NEW q \in Loaders, job'[q].pc = "insert"
                 PROVE  rows'[table(q)'] = <<>>
        BY <1>2 DEF Progress, LoadProgress
    <2>1. q = p
          BY <1>1 DEF OverlapsNoticed, Active
    <2> QED
        BY <2>1, <1>1 DEF table
  <1>8. StampsReported'
    <2>1. job'["poll"].seen = job["poll"].seen
          BY <1>1 DEF Loaders
    <2> QED
        BY <2>1, <1>2, <1>3 DEF StampsReported, Loaders
  <1>9. Trusted'
    <2>1. ~Resting'
          BY <1>3 DEF Resting
    <2>2. \A q \in Loaders : job'[q].due = job[q].due
          BY <1>1
    <2> QED
        BY <2>1, <2>2, <1>2, <1>3 DEF Trusted
  <1> QED
      BY <1>4, <1>5, <1>6, <1>7, <1>8, <1>9

\* A step of a load of a stamped source that goes on.  Its files are those it
\* had, and perhaps one more that is on the server now.
LEMMA StampedMoves ==
    ASSUME ExternalIInv, IsStamped, NEW p \in Loaders, Active(p), NEW j \in Jobs, Set(p, j),
           UNCHANGED <<source, pub, clock, known, runs, faults, flaw>>,
           j.pc \in {"fetch", "truncate", "insert", "record"}, j.at \in 1..LastAt, j.seen = job[p].seen /\ j.due = job[p].due,
           j.pc = "fetch" => Len(j.got) = j.at - 1,
           j.pc # "fetch" => Len(j.got) = LastAt,
           j.pc = "truncate" => j.at = 1,
           j.pc = "record" => j.at = LastAt,
           \A i \in 1..Len(j.got) :
               j.got[i] = pub \/ (i \in 1..Len(job[p].got) /\ j.got[i] = job[p].got[i]),
           rows' \in [Tables -> Seq(Loads)],
           j.pc \in {"fetch", "truncate"} => rows' = rows /\ job[p].pc \notin {"insert", "record"},
           "overlap" \notin flaw =>
               /\ \A t \in Tables : Len(rows'[t]) <= 1
               /\ j.pc = "insert" =>
                     \A i \in 1..LastAt :
                        /\ i >= j.at => rows'[Plan[source][i]] = <<>>
                        /\ i < j.at => rows'[Plan[source][i]] = <<[of |-> j.got[i], whole |-> TRUE]>>
               /\ j.pc = "record" =>
                     \A i \in 1..LastAt : rows'[Plan[source][i]] = <<[of |-> j.got[i], whole |-> TRUE]>>
    PROVE  ExternalIInv'
  <1> USE DEF ExternalIInv
  <1>1. /\ job' \in [Loaders -> Jobs] /\ job'[p] = j
        /\ \A q \in Loaders : q # p => job'[q] = job[q]
        BY SetTyped DEF ExternalTypes
  <1>2. /\ Tables' = Tables /\ LastAt' = LastAt /\ IsStamped' = IsStamped /\ Settled' = Settled
        BY DEF Tables, LastAt, IsStamped, Settled, young
  <1>3. \A q \in Loaders : Active(q)' = Active(q)
        BY <1>1 DEF Active
  <1>4. ExternalTypes'
        BY <1>1, <1>2 DEF ExternalTypes
  <1>5. Stages'
    <2> SUFFICES ASSUME NEW q \in Loaders PROVE Stages!(q)'
        BY DEF Stages
    <2>1. CASE q = p
      <3>1. (\A i \in 1..Len(job[p].got) : job[p].got[i] <= pub) /\ pub <= pub
            BY ExternalAssumption DEF Stages, ExternalTypes
      <3>2. \A i \in 1..Len(j.got) : j.got[i] <= pub
            BY <3>1
      <3> QED
          BY <2>1, <3>2, <1>1, <1>2, <1>3 DEF Stages
    <2>2. CASE q # p
          BY <2>2, <1>1, <1>2, <1>3 DEF Stages
    <2> QED
        BY <2>1, <2>2
  <1>6. OverlapsNoticed'
        BY <1>3 DEF OverlapsNoticed
  <1>7. Progress'
    <2> SUFFICES ASSUME "overlap" \notin flaw PROVE Progress'
        BY DEF Progress
    <2>1. \A q \in Loaders : job'[q].pc \in {"insert", "record"} => q = p
          BY <1>1 DEF OverlapsNoticed, Active
    <2> QED
        BY <2>1, <1>1, <1>2 DEF Progress, LoadProgress, Filled
  <1>8. StampsReported'
    <2> SUFFICES ASSUME Active("poll"), p = "poll"
                 PROVE  \E k \in 0..pub : /\ StampOf(job'["poll"].seen, k)
                                          /\ \A i \in 1..Len(job'["poll"].got) : job'["poll"].got[i] >= k
        BY <1>1, <1>2, <1>3 DEF StampsReported, Loaders
    <2>1. PICK k \in 0..pub : /\ StampOf(job["poll"].seen, k)
                              /\ \A i \in 1..Len(job["poll"].got) : job["poll"].got[i] >= k
          BY DEF StampsReported
    <2>2. pub >= k
          BY ExternalAssumption DEF ExternalTypes
    <2>3. \A i \in 1..Len(j.got) : j.got[i] >= k
          BY <2>1, <2>2
    <2> QED
        BY <2>1, <2>3, <1>1
  <1>9. Trusted'
    <2> SUFFICES ASSUME "overlap" \notin flaw PROVE Trusted'
        BY DEF Trusted
    <2>1. \A q \in Loaders : Active(q)' /\ job'[q].due => ~Settled'
          BY <1>1, <1>2, <1>3 DEF Trusted
    <2>2. Settled' => \A q \in Loaders : \A i \in 1..Len(job'[q].got) : job'[q].got[i] = pub
      <3> SUFFICES ASSUME Settled, NEW q \in Loaders, NEW i \in 1..Len(job'[q].got)
                   PROVE  job'[q].got[i] = pub
          BY <1>2
      <3>1. \A r \in Loaders : \A m \in 1..Len(job[r].got) : job[r].got[m] = pub
            BY DEF Trusted
      <3> QED
          BY <3>1, <1>1
    <2>3. ASSUME \A q \in Loaders : job'[q].pc \notin {"insert", "record"}
          PROVE  rows' = rows /\ \A q \in Loaders : job[q].pc \notin {"insert", "record"}
          BY <2>3, <1>1
    <2> QED
        BY <2>1, <2>2, <2>3, <1>2 DEF Trusted
  <1> QED
      BY <1>4, <1>5, <1>6, <1>7, <1>8, <1>9

\* A new publication makes every source with a stamp due.
LEMMA PublishKeeps == ExternalIInv /\ Publish => ExternalIInv'
  <1> SUFFICES ASSUME ExternalIInv, Publish PROVE ExternalIInv'
      OBVIOUS
  <1> USE ExternalAssumption DEF ExternalIInv
  <1>1. /\ IsStamped /\ pub < MaxPubs /\ pub' = pub + 1 /\ pub \in Nat
        /\ UNCHANGED <<source, clock, rows, known, job, runs, faults, flaw>>
        BY DEF Publish, ExternalTypes
  <1>2. Tables' = Tables /\ LastAt' = LastAt /\ IsStamped' = IsStamped
        BY <1>1 DEF Tables, LastAt, IsStamped
  <1>3. \A p \in Loaders : Active(p)' = Active(p)
        BY <1>1 DEF Active
  <1>4. ExternalTypes'
        BY <1>1, <1>2 DEF ExternalTypes
  <1>5. Stages'
    <2> SUFFICES ASSUME NEW p \in Loaders PROVE Stages!(p)'
        BY DEF Stages
    <2>1. \A i \in 1..Len(job[p].got) : job[p].got[i] \in 0..MaxPubs /\ job[p].got[i] <= pub
          BY JobTypes DEF Stages, ExternalTypes
    <2>2. \A i \in 1..Len(job'[p].got) : job'[p].got[i] <= pub'
          BY <2>1, <1>1
    <2> QED
        BY <2>2, <1>1, <1>2, <1>3 DEF Stages
  <1>6. OverlapsNoticed' /\ Progress'
        BY <1>1, <1>2, <1>3 DEF OverlapsNoticed, Progress, LoadProgress, Filled
  <1>7. StampsReported'
    <2>1. \A k \in 0..pub : k \in 0..pub'
          BY <1>1
    <2>2. (known = -1 \/ \E k \in 0..pub : StampOf(known, k))'
          BY <2>1, <1>1 DEF StampsReported
    <2>3. ASSUME Active("poll")
          PROVE  \E k \in 0..pub' : /\ StampOf(job["poll"].seen, k)
                                    /\ \A i \in 1..Len(job["poll"].got) : job["poll"].got[i] >= k
          BY <2>1, <2>3, <1>1 DEF StampsReported
    <2> QED
        BY <2>2, <2>3, <1>1, <1>2, <1>3 DEF StampsReported, Loaders
  <1>8. ~Settled'
        BY <1>1, <1>2, PublishUnsettles DEF Settled, StampsReported
  <1>9. Trusted'
        BY <1>8 DEF Trusted
  <1> QED
      BY <1>4, <1>5, <1>6, <1>7, <1>9

\* Time passes: what was due stays due.
LEMMA TickKeeps == ExternalIInv /\ Tick => ExternalIInv'
  <1> SUFFICES ASSUME ExternalIInv, Tick PROVE ExternalIInv'
      OBVIOUS
  <1> USE ExternalAssumption DEF ExternalIInv
  <1>1. /\ ~IsStamped /\ clock < MaxTime /\ clock' = clock + 1 /\ clock \in Nat /\ known \in Int
        /\ UNCHANGED <<source, pub, rows, known, job, runs, faults, flaw>>
        BY IdleJob DEF Tick, ExternalTypes
  <1>2. /\ Tables' = Tables /\ LastAt' = LastAt /\ IsStamped' = IsStamped /\ Incomplete' = Incomplete
        BY <1>1 DEF Tables, LastAt, IsStamped, Incomplete
  <1>3. \A p \in Loaders : Active(p)' = Active(p)
        BY <1>1 DEF Active
  <1>4. ExternalTypes'
        BY <1>1, <1>2 DEF ExternalTypes
  <1>5. Stages' /\ OverlapsNoticed' /\ Progress'
        BY <1>1, <1>2, <1>3 DEF Stages, OverlapsNoticed, Progress, LoadProgress, table
  <1>6. StampsReported'
        BY <1>1, <1>2, <1>3 DEF StampsReported, Loaders
  <1>7. Settled' => Settled
        BY <1>1, <1>2 DEF Settled, young
  <1>8. Resting' = Resting
        BY <1>3 DEF Resting
  <1>9. Trusted'
        BY <1>1, <1>2, <1>3, <1>7, <1>8 DEF Trusted, Loaders
  <1> QED
      BY <1>4, <1>5, <1>6, <1>9

\* A process comes to its check.
LEMMA StartKeeps ==
    ASSUME ExternalIInv, NEW p \in Loaders, Start(p)
    PROVE  ExternalIInv'
  <1> USE ExternalAssumption DEF ExternalIInv
  <1> DEFINE j == [Idle EXCEPT !.pc = "check"]
  <1>1. /\ job[p].pc = "idle" /\ Set(p, j) /\ runs' \in 0..MaxRuns
        /\ UNCHANGED <<source, pub, clock, rows, known, faults, flaw>>
        BY DEF Start, ExternalTypes
  <1>2. j \in Jobs /\ j.pc = "check" /\ j.got = <<>>
        BY IdleJob DEF Idle, Jobs
  <1> HIDE DEF j
  <1>3. /\ job' \in [Loaders -> Jobs] /\ job'[p].pc = "check" /\ job'[p].got = <<>>
        /\ \A q \in Loaders : q # p => job'[q] = job[q]
        BY <1>1, <1>2, SetTyped DEF ExternalTypes
  <1>4. /\ Tables' = Tables /\ LastAt' = LastAt /\ IsStamped' = IsStamped /\ Incomplete' = Incomplete
        /\ Settled' = Settled
        BY <1>1 DEF Tables, LastAt, IsStamped, Incomplete, Settled, young
  <1>5. /\ ~Active(p) /\ ~Active(p)'
        /\ \A q \in Loaders : Active(q)' = Active(q)
        BY <1>1, <1>3 DEF Active
  <1>6. ExternalTypes'
        BY <1>1, <1>3, <1>4 DEF ExternalTypes
  <1>7. Stages'
    <2> SUFFICES ASSUME NEW q \in Loaders PROVE Stages!(q)'
        BY DEF Stages
    <2>1. CASE q = p
          BY <2>1, <1>3, <1>5 DEF Stages
    <2>2. CASE q # p
          BY <2>2, <1>1, <1>3, <1>4, <1>5 DEF Stages
    <2> QED
        BY <2>1, <2>2
  <1>8. OverlapsNoticed'
        BY <1>1, <1>5 DEF OverlapsNoticed
  <1>9. Progress'
    <2>1. ASSUME NEW q \in Loaders, LoadProgress(q) PROVE LoadProgress(q)'
      <3>1. CASE q = p
            BY <3>1, <1>3 DEF LoadProgress
      <3>2. CASE q # p
            BY <3>2, <2>1, <1>1, <1>3, <1>4 DEF LoadProgress, Filled, table
      <3> QED
          BY <3>1, <3>2
    <2> QED
        BY <2>1, <1>1, <1>4 DEF Progress
  <1>10. StampsReported'
    <2>1. Active("poll")' => p # "poll" /\ Active("poll") /\ job'["poll"] = job["poll"]
          BY <1>3, <1>5 DEF Loaders
    <2> QED
        BY <2>1, <1>1, <1>4 DEF StampsReported
  <1>11. Trusted'
    <2> SUFFICES ASSUME "overlap" \notin flaw PROVE Trusted'
        BY <1>1 DEF Trusted
    <2>1. \A q \in Loaders : Active(q)' /\ job'[q].due => ~Settled'
          BY <1>3, <1>4, <1>5 DEF Trusted
    <2>2. IsStamped /\ Settled => \A q \in Loaders : \A i \in 1..Len(job'[q].got) : job'[q].got[i] = pub
          BY <1>3 DEF Trusted
    <2>3. /\ (\A q \in Loaders : job'[q].pc \notin {"insert", "record"}) =>
                 \A q \in Loaders : job[q].pc \notin {"insert", "record"}
          /\ Resting' = Resting
          BY <1>1, <1>3, <1>5 DEF Resting
    <2> QED
        BY <2>1, <2>2, <2>3, <1>1, <1>4 DEF Trusted
  <1> QED
      BY <1>6, <1>7, <1>8, <1>9, <1>10, <1>11

\* A load begins.
LEMMA EnterKeeps ==
    ASSUME ExternalIInv, NEW p \in Loaders, job[p].pc = "check", NEW seen \in -1..LastStamp,
           NEW due \in BOOLEAN, Enter(p, seen, due), due => ~Settled,
           UNCHANGED <<source, pub, clock, rows, known, runs>>, faults' \in 0..MaxFaults,
           p = "poll" => /\ IsStamped => StampOf(seen, pub)
                         /\ ~IsStamped => seen = clock
    PROVE  ExternalIInv'
  <1> USE ExternalAssumption DEF ExternalIInv
  <1> DEFINE j == [job[p] EXCEPT !.pc = "fetch", !.at = 1, !.seen = seen, !.due = due]
  <1>1. /\ Set(p, j) /\ (flaw = flaw' \/ flaw' = flaw \cup {"overlap"})
        /\ (\E q \in Loaders : q # p /\ Active(q)) => "overlap" \in flaw'
        BY DEF Enter
  <1>2. ~Active(p) /\ job[p].got = <<>>
        BY DEF Active, Stages
  <1>3. j \in Jobs /\ j.pc = "fetch" /\ j.at = 1 /\ j.seen = seen /\ j.due = due /\ j.got = <<>>
    <2>1. job[p] \in Jobs
          BY DEF ExternalTypes
    <2>2. 1 \in Places /\ seen \in Times
          BY DEF Places, Times
    <2>3. j \in Jobs
          BY <2>1, <2>2 DEF Jobs
    <2> QED
        BY <1>2, <2>1, <2>3 DEF Jobs
  <1> HIDE DEF j
  <1>4. /\ job' \in [Loaders -> Jobs] /\ job'[p] = j
        /\ \A q \in Loaders : q # p => job'[q] = job[q]
        BY <1>1, <1>3, SetTyped DEF ExternalTypes
  <1>5. /\ Tables' = Tables /\ LastAt' = LastAt /\ IsStamped' = IsStamped /\ Settled' = Settled
        BY DEF Tables, LastAt, IsStamped, Settled, young
  <1>6. Active(p)' /\ \A q \in Loaders : q # p => Active(q)' = Active(q)
        BY <1>3, <1>4 DEF Active
  <1>7. ExternalTypes'
        BY <1>1, <1>4, <1>5 DEF ExternalTypes
  <1>8. Stages'
    <2> SUFFICES ASSUME NEW q \in Loaders PROVE Stages!(q)'
        BY DEF Stages
    <2>1. CASE q = p
      <3>1. 1 \in 1..LastAt
            BY PlanFacts DEF ExternalTypes
      <3> QED
          BY <2>1, <3>1, <1>3, <1>4, <1>5, <1>6 DEF Stages
    <2>2. CASE q # p
          BY <2>2, <1>4, <1>5, <1>6 DEF Stages
    <2> QED
        BY <2>1, <2>2
  <1>9. OverlapsNoticed'
        BY <1>1, <1>6 DEF OverlapsNoticed
  <1>10. Progress'
    <2>1. ASSUME NEW q \in Loaders, LoadProgress(q) PROVE LoadProgress(q)'
      <3>1. CASE q = p
            BY <3>1, <1>3, <1>4 DEF LoadProgress
      <3>2. CASE q # p
            BY <3>2, <2>1, <1>4, <1>5 DEF LoadProgress, Filled, table
      <3> QED
          BY <3>1, <3>2
    <2> QED
        BY <2>1, <1>1, <1>5 DEF Progress
  <1>11. StampsReported'
    <2>1. ASSUME p # "poll", Active("poll")' PROVE Active("poll") /\ job'["poll"] = job["poll"]
          BY <2>1, <1>4, <1>6 DEF Loaders
    <2>2. CASE p # "poll"
          BY <2>1, <2>2, <1>5 DEF StampsReported
    <2>3. CASE p = "poll"
      <3>1. pub \in 0..pub /\ clock \in 0..clock
            BY DEF ExternalTypes
      <3>2. \A k : \A i \in 1..Len(job'["poll"].got) : job'["poll"].got[i] >= k
            BY <2>3, <1>3, <1>4
      <3>3. job'["poll"].seen = seen
            BY <2>3, <1>3, <1>4
      <3>4. IsStamped => StampOf(job'["poll"].seen, pub)
            BY <2>3, <3>3
      <3>5. ~IsStamped => job'["poll"].seen = clock
            BY <2>3, <3>3
      <3> QED
          BY <3>1, <3>2, <3>4, <3>5, <1>5 DEF StampsReported
    <2> QED
        BY <2>2, <2>3
  <1>12. Trusted'
    <2> SUFFICES ASSUME "overlap" \notin flaw', "overlap" \notin flaw, flaw' = flaw PROVE Trusted'
        BY <1>1 DEF Trusted
    <2>1. \A q \in Loaders : Active(q)' /\ job'[q].due => ~Settled'
          BY <1>3, <1>4, <1>5, <1>6 DEF Trusted
    <2>2. IsStamped /\ Settled => \A q \in Loaders : \A i \in 1..Len(job'[q].got) : job'[q].got[i] = pub
          BY <1>3, <1>4 DEF Trusted
    <2>3. /\ (\A q \in Loaders : job'[q].pc \notin {"insert", "record"}) =>
                 \A q \in Loaders : job[q].pc \notin {"insert", "record"}
          /\ ~Resting'
          BY <1>4, <1>6 DEF Resting
    <2> QED
        BY <2>1, <2>2, <2>3, <1>5 DEF Trusted
  <1> QED
      BY <1>7, <1>8, <1>9, <1>10, <1>11, <1>12

\* Nothing is due, or nothing could be downloaded: no table has been touched.
LEMMA SkipKeeps ==
    ASSUME ExternalIInv, NEW p \in Loaders, Skip(p), job[p].pc = "check" \/ (job[p].pc = "fetch" /\ IsStamped),
           UNCHANGED <<source, pub, clock, rows, known, runs>>, faults' \in 0..MaxFaults
    PROVE  ExternalIInv'
  <1> USE DEF ExternalIInv
  <1>1. Set(p, Idle) /\ flaw' = flaw
        BY DEF Skip
  <1>2. Settled' = Settled
        BY DEF Settled, IsStamped, young
  <1>3. flaw = {} /\ Settled /\ IsStamped
            /\ (\A q \in Loaders : q # p => job[q].pc \notin {"insert", "record"}) =>
                \A t \in Tables : rows[t] = <<[of |-> pub, whole |-> TRUE]>>
        BY DEF Trusted
  <1>4. flaw = {} /\ Settled /\ ~IsStamped /\ (\A q \in Loaders : q # p => ~Active(q)) => ~Incomplete
    <2>1. ~IsStamped => ~Active(p)
          BY DEF Active
    <2> QED
        BY <2>1 DEF Trusted, Resting
  <1> QED
      BY <1>1, <1>2, <1>3, <1>4, LeaveKeeps DEF ExternalTypes, StampsReported

\* A stamp belongs to one publication.
LEMMA StampUnique ==
    ASSUME NEW s, NEW k \in Nat, NEW m \in Nat, StampOf(s, k), StampOf(s, m)
    PROVE  k = m
  <1> USE ExternalAssumption
  <1>1. ASSUME NEW a \in Nat, NEW b \in Nat, a < b, StampOf(s, a), StampOf(s, b) PROVE FALSE
    <2>1. Gap * a \in Nat /\ Gap * b \in Nat /\ Gap * a + Gap <= Gap * b
          BY <1>1, Apart
    <2>2. s \in Int /\ s <= Gap * a + Jitter /\ s >= Gap * b
          BY <1>1, <2>1 DEF StampOf
    <2> QED
        BY <2>1, <2>2
  <1> QED
      BY <1>1

\* The tables of a load that has come to its end, when what is recorded now is
\* a stamp of the publication on the server.
LEMMA FilledIsCurrent ==
    ASSUME ExternalIInv, NEW p \in Loaders, IsStamped, job[p].pc = "record", "overlap" \notin flaw,
           \A i \in 1..LastAt : job[p].got[i] = pub
    PROVE  \A t \in Tables : rows[t] = <<[of |-> pub, whole |-> TRUE]>>
  <1>1. \A i \in 1..LastAt : Filled(p, i)
        BY DEF ExternalIInv, Progress, LoadProgress
  <1>2. ASSUME NEW i \in 1..LastAt PROVE rows[Plan[source][i]] = <<[of |-> pub, whole |-> TRUE]>>
        BY <1>1 DEF Filled
  <1>3. \A t \in Tables : \E i \in 1..LastAt : t = Plan[source][i]
        BY PlanFacts DEF ExternalIInv, ExternalTypes
  <1> QED
      BY <1>2, <1>3

\* A load that breaks off: one that was due is due again, another one is marked
\* unless the tables are whole.
LEMMA AbandonKeeps ==
    ASSUME ExternalIInv, NEW p \in Loaders, Active(p), Set(p, Idle), Abandon(p),
           UNCHANGED <<source, pub, clock, rows, known, runs>>, faults' \in 0..MaxFaults
    PROVE  ExternalIInv'
  <1> USE DEF ExternalIInv
  <1>1. /\ flaw \subseteq flaw' /\ flaw' \subseteq {"overlap", "abandoned", "shortPages", "seededLate"}
        /\ ~job[p].due /\ flaw' = {} => ~Incomplete
        BY DEF Abandon, ExternalTypes
  <1>2. Settled' = Settled
        BY DEF Settled, IsStamped, young
  <1>3. ASSUME flaw' = {}, Settled PROVE ~Incomplete /\ "overlap" \notin flaw /\ flaw = {}
        BY <1>1, <1>3 DEF Trusted
  <1>4. ASSUME flaw' = {}, Settled, IsStamped,
               \A q \in Loaders : q # p => job[q].pc \notin {"insert", "record"}
        PROVE  \A t \in Tables : rows[t] = <<[of |-> pub, whole |-> TRUE]>>
    <2>1. CASE job[p].pc \in {"fetch", "truncate"}
          BY <2>1, <1>3, <1>4 DEF Trusted
    <2>2. CASE job[p].pc = "insert"
      <3>1. job[p].at \in 1..LastAt /\ job[p].at >= job[p].at
            BY <2>2, PlanFacts DEF Stages, Active, ExternalTypes
      <3>2. rows[Plan[source][job[p].at]] = <<>>
            BY <3>1, <2>2, <1>3, <1>4 DEF Progress, LoadProgress
      <3>3. Plan[source][job[p].at] \in Tables
            BY <3>1, PlanFacts DEF ExternalTypes
      <3>4. ~Complete(<<>>)
            BY DEF Complete
      <3> QED
          BY <3>2, <3>3, <3>4, <1>3, <1>4 DEF Incomplete
    <2>3. CASE job[p].pc = "record"
      <3>1. \A i \in 1..LastAt : job[p].got[i] = pub
            BY <2>3, <1>3, <1>4 DEF Trusted, Stages
      <3> QED
          BY <3>1, <2>3, <1>3, <1>4, FilledIsCurrent
    <2> QED
        BY <2>1, <2>2, <2>3 DEF Active
  <1> QED
      BY <1>1, <1>2, <1>3, <1>4, LeaveKeeps DEF ExternalTypes, StampsReported

\* A load is recorded.
LEMMA RecordKeeps ==
    ASSUME ExternalIInv, NEW p \in Loaders, Record(p)
    PROVE  ExternalIInv'
  <1> USE ExternalAssumption DEF ExternalIInv
  <1>1. /\ job[p].pc = "record" /\ known' \in Stamps(p) /\ flaw' = Hidden(p) /\ Set(p, Idle)
        /\ UNCHANGED <<source, pub, clock, rows, runs, faults>>
        BY DEF Record
  <1>2. Active(p) /\ pub \in 0..MaxPubs /\ pub \in Nat /\ clock \in 0..MaxTime /\ MaxTime <= LastStamp
        /\ LastStamp \in Nat /\ known \in -1..LastStamp
    <2>1. Gap * MaxPubs \in Nat /\ LastStamp \in Nat /\ MaxTime <= LastStamp
          BY IdleJob DEF LastStamp
    <2> QED
        BY <1>1, <2>1 DEF Active, ExternalTypes
  <1>3. /\ "overlap" \in flaw => "overlap" \in flaw'
        /\ flaw' \subseteq {"overlap", "abandoned", "shortPages", "seededLate"}
        /\ ~IsStamped /\ Incomplete => "shortPages" \in flaw'
        /\ p = "import" /\ IsStamped /\ (\E i \in 1..Len(job[p].got) : job[p].got[i] < pub) =>
               "seededLate" \in flaw'
        BY <1>1 DEF Hidden
  <1>4. /\ IsStamped' = IsStamped /\ (IsStamped => Settled' = StampOf(known', pub))
        BY <1>1 DEF IsStamped, Settled
  <1>5. ASSUME IsStamped
        PROVE  \A i \in 1..LastAt : i \in 1..Len(job[p].got) /\ job[p].got[i] \in Nat /\ job[p].got[i] <= pub
    <2>1. Len(job[p].got) = LastAt /\ job[p].got \in Seq(0..MaxPubs)
          BY <1>1, <1>5, JobTypes DEF Stages, ExternalTypes
    <2>2. \A i \in 1..Len(job[p].got) : job[p].got[i] <= pub
          BY DEF Stages
    <2> QED
        BY <2>1, <2>2
  <1>6. CASE p = "poll" /\ IsStamped
    <2>1. known' = job[p].seen
          BY <1>1, <1>6 DEF Stamps
    <2>2. PICK k \in 0..pub : /\ StampOf(known', k)
                              /\ \A i \in 1..Len(job[p].got) : job[p].got[i] >= k
          BY <2>1, <1>2, <1>6 DEF StampsReported
    <2>3. k \in 0..MaxPubs /\ k \in Nat
          BY <1>2
    <2>4. known' \in -1..LastStamp
      <3>1. known' \in 0..LastStamp
            BY <2>2, <2>3, StampBound
      <3> QED
          BY <3>1, <1>2
    <2>5. ASSUME Settled', "overlap" \notin flaw PROVE \A t \in Tables : rows[t] = <<[of |-> pub, whole |-> TRUE]>>
      <3>1. k = pub
            BY <2>2, <2>3, <2>5, <1>2, <1>4, <1>6, StampUnique
      <3>2. \A i \in 1..LastAt : job[p].got[i] = pub
            BY <3>1, <2>2, <1>2, <1>5, <1>6
      <3> QED
          BY <3>2, <2>5, <1>1, <1>6, FilledIsCurrent
    <2> QED
        BY <1>1, <1>2, <1>3, <1>6, <2>2, <2>4, <2>5, LeaveKeeps DEF ExternalTypes
  <1>7. CASE p = "tool"
    <2>1. known' = known
          BY <1>1, <1>7 DEF Stamps
    <2>2. Settled' = Settled
          BY <1>1, <2>1 DEF Settled, IsStamped, young
    <2>3. ASSUME Settled', IsStamped, "overlap" \notin flaw
          PROVE  \A t \in Tables : rows[t] = <<[of |-> pub, whole |-> TRUE]>>
      <3>1. \A i \in 1..LastAt : job[p].got[i] = pub
            BY <2>2, <2>3, <1>5 DEF Trusted
      <3> QED
          BY <3>1, <2>3, <1>1, FilledIsCurrent
    <2> QED
        BY <1>1, <1>2, <1>3, <2>1, <2>3, LeaveKeeps DEF ExternalTypes, StampsReported
  <1>8. CASE p = "import" /\ IsStamped
    <2>1. StampOf(known', pub)
          BY <1>1, <1>8 DEF Stamps, remoteLastModified, StampOf
    <2>2. known' \in -1..LastStamp
      <3>1. known' \in 0..LastStamp
            BY <2>1, <1>2, StampBound
      <3> QED
          BY <3>1, <1>2
    <2>3. ASSUME flaw' = {} PROVE \A t \in Tables : rows[t] = <<[of |-> pub, whole |-> TRUE]>>
      <3>1. \A i \in 1..LastAt : ~(job[p].got[i] < pub)
            BY <2>3, <1>3, <1>5, <1>8
      <3>2. \A i \in 1..LastAt : job[p].got[i] = pub
            BY <3>1, <1>2, <1>5, <1>8
      <3> QED
          BY <3>2, <2>3, <1>1, <1>3, <1>8, FilledIsCurrent
    <2>4. pub \in 0..pub
          BY <1>2
    <2> QED
        BY <1>1, <1>2, <1>3, <1>8, <2>1, <2>2, <2>3, <2>4, LeaveKeeps DEF ExternalTypes
  <1>9. CASE p # "tool" /\ ~IsStamped
    <2>1. known' = clock \/ (known' = job[p].seen /\ p = "poll")
      <3>1. CASE p = "poll"
            BY <3>1, <1>1 DEF Stamps
      <3>2. CASE p = "import"
            BY <3>2, <1>1, <1>9 DEF Stamps
      <3> QED
          BY <3>1, <3>2, <1>9 DEF Loaders
    <2>2. known' \in 0..clock
          BY <2>1, <1>2, <1>9 DEF StampsReported
    <2>3. known' \in -1..LastStamp /\ known' <= clock
          BY <2>2, <1>2
    <2> QED
        BY <1>1, <1>2, <1>3, <1>9, <2>3, LeaveKeeps DEF ExternalTypes
  <1> QED
      BY <1>6, <1>7, <1>8, <1>9 DEF Loaders

\* The import cannot ask for a stamp.
LEMMA SeedFailsKeeps == ExternalIInv /\ SeedFails => ExternalIInv'
  <1> SUFFICES ASSUME ExternalIInv, SeedFails PROVE ExternalIInv'
      OBVIOUS
  <1> USE ExternalAssumption DEF ExternalIInv
  <1> DEFINE p == "import"
  <1>1. /\ job[p].pc = "record" /\ IsStamped /\ flaw' = Hidden(p) \ {"seededLate"} /\ Set(p, Idle)
        /\ UNCHANGED <<source, pub, clock, rows, known, runs>> /\ faults' \in 0..MaxFaults
        BY DEF SeedFails, Fault, ExternalTypes
  <1>2. /\ "overlap" \in flaw => "overlap" \in flaw'
        /\ flaw' \subseteq {"overlap", "abandoned", "shortPages", "seededLate"}
        BY <1>1 DEF Hidden
  <1>3. Settled' = Settled /\ p \in Loaders
        BY <1>1 DEF Settled, IsStamped, young, Loaders
  <1>4. ASSUME Settled, "overlap" \notin flaw
        PROVE  \A t \in Tables : rows[t] = <<[of |-> pub, whole |-> TRUE]>>
    <2>1. \A i \in 1..LastAt : job[p].got[i] = pub
          BY <1>1, <1>3, <1>4 DEF Trusted, Stages
    <2> QED
        BY <2>1, <1>1, <1>3, <1>4, FilledIsCurrent
  <1> QED
      BY <1>1, <1>2, <1>3, <1>4, LeaveKeeps DEF ExternalTypes, StampsReported

\* A check skips the source or begins a load; poll begins one that is due.
LEMMA CheckKeeps ==
    ASSUME ExternalIInv, NEW p \in Loaders, Check(p)
    PROVE  ExternalIInv'
  <1> USE ExternalAssumption DEF ExternalIInv
  <1>1. /\ job[p].pc = "check"
        /\ UNCHANGED <<source, pub, clock, rows, known, runs, faults>>
        BY DEF Check
  <1>2. /\ faults' \in 0..MaxFaults /\ pub \in 0..MaxPubs /\ pub \in Nat /\ known \in Int
        /\ -1 \in -1..LastStamp /\ clock \in -1..LastStamp
    <2>1. Gap * MaxPubs \in Nat /\ LastStamp \in Nat /\ MaxTime <= LastStamp
          BY IdleJob DEF LastStamp
    <2> QED
        BY <1>1, <2>1 DEF ExternalTypes
  <1>3. CASE p # "poll" /\ Enter(p, -1, FALSE)
        BY <1>1, <1>2, <1>3, EnterKeeps
  <1>4. ASSUME p = "poll", IsStamped, NEW remote \in remoteLastModified,
               IF upToDate(remote) THEN Skip(p) ELSE Enter(p, remote, TRUE)
        PROVE  ExternalIInv'
    <2>1. upToDate(remote) <=> Settled
          BY <1>2, <1>4, ToleranceSettles DEF Settled, StampsReported
    <2>2. StampOf(remote, pub)
          BY DEF remoteLastModified, StampOf
    <2>3. remote \in -1..LastStamp
      <3>1. remote \in 0..LastStamp
            BY <2>2, <1>2, StampBound
      <3> QED
          BY <3>1, IdleJob
    <2>4. CASE Settled
          BY <2>1, <2>4, <1>1, <1>2, <1>4, SkipKeeps
    <2>5. CASE ~Settled
      <3>1. Enter(p, remote, TRUE) /\ TRUE \in BOOLEAN
            BY <2>1, <2>5, <1>4
      <3> QED
          BY <2>2, <2>3, <2>5, <3>1, <1>1, <1>2, <1>4, EnterKeeps
    <2> QED
        BY <2>4, <2>5
  <1>5. CASE p = "poll" /\ ~IsStamped /\ IF young(clock) THEN Skip(p) ELSE Enter(p, clock, TRUE)
    <2>1. CASE young(clock)
          BY <2>1, <1>1, <1>2, <1>5, SkipKeeps
    <2>2. CASE ~young(clock)
          BY <2>2, <1>1, <1>2, <1>5, EnterKeeps DEF Settled
    <2> QED
        BY <2>1, <2>2
  <1> QED
      BY <1>3, <1>4, <1>5 DEF Check

\* A check that cannot read the record begins a load of what is up to date.
LEMMA CheckBlindKeeps == ExternalIInv /\ CheckBlind => ExternalIInv'
  <1> SUFFICES ASSUME ExternalIInv, CheckBlind PROVE ExternalIInv'
      OBVIOUS
  <1> USE ExternalAssumption DEF ExternalIInv
  <1>1. /\ "poll" \in Loaders /\ job["poll"].pc = "check" /\ faults' \in 0..MaxFaults
        /\ UNCHANGED <<source, pub, clock, rows, known, runs>>
        BY DEF CheckBlind, Fault, Loaders, ExternalTypes
  <1>2. pub \in 0..MaxPubs /\ clock \in -1..LastStamp
    <2>1. Gap * MaxPubs \in Nat /\ LastStamp \in Nat /\ MaxTime <= LastStamp
          BY IdleJob DEF LastStamp
    <2> QED
        BY <2>1 DEF ExternalTypes
  <1>3. ASSUME IsStamped, NEW remote \in remoteLastModified, Enter("poll", remote, FALSE)
        PROVE  ExternalIInv'
    <2>1. StampOf(remote, pub)
          BY DEF remoteLastModified, StampOf
    <2>2. remote \in -1..LastStamp
      <3>1. remote \in 0..LastStamp
            BY <2>1, <1>2, StampBound
      <3> QED
          BY <3>1, IdleJob
    <2> QED
        BY <2>1, <2>2, <1>1, <1>3, EnterKeeps
  <1>4. CASE ~IsStamped /\ Enter("poll", clock, FALSE)
        BY <1>1, <1>2, <1>4, EnterKeeps
  <1> QED
      BY <1>3, <1>4 DEF CheckBlind

\* One more file is downloaded.
LEMMA DownloadKeeps ==
    ASSUME ExternalIInv, NEW p \in Loaders, Download(p)
    PROVE  ExternalIInv'
  <1> USE ExternalAssumption DEF ExternalIInv
  <1>1. /\ job[p].pc = "fetch" /\ IsStamped /\ Active(p)
        /\ UNCHANGED <<source, pub, clock, rows, known, runs, faults, flaw>>
        BY DEF Download, Active
  <1>2. /\ job[p] \in Jobs /\ job[p].got \in Seq(0..MaxPubs) /\ pub \in 0..MaxPubs
        /\ job[p].at \in 1..LastAt /\ Len(job[p].got) = job[p].at - 1 /\ LastAt \in {1, 2}
        BY <1>1, JobTypes, PlanFacts DEF ExternalTypes, Stages
  <1> DEFINE g == Append(job[p].got, pub)
  <1>3. /\ g \in Files /\ Len(g) = job[p].at
        /\ \A i \in 1..Len(g) : g[i] = pub \/ (i \in 1..Len(job[p].got) /\ g[i] = job[p].got[i])
        BY <1>2 DEF Files
  <1> HIDE DEF g
  <1>4. CASE LastTable(p)
    <2> DEFINE j == [job[p] EXCEPT !.got = g, !.pc = "truncate", !.at = 1]
    <2>1. 1 \in Places /\ 1 \in 1..LastAt /\ job[p].at = LastAt
          BY <1>2, <1>4 DEF Places, LastTable, LastAt
    <2>2. j \in Jobs /\ j.pc = "truncate" /\ j.at = 1 /\ j.seen = job[p].seen /\ j.due = job[p].due /\ j.got = g
          BY <1>2, <1>3, <2>1 DEF Jobs
    <2>3. Set(p, j)
          BY <1>2, <1>4 DEF Download, Set, g, Jobs
    <2> HIDE DEF j
    <2> QED
        BY <1>1, <1>3, <2>1, <2>2, <2>3, StampedMoves DEF ExternalTypes, Progress
  <1>5. CASE ~LastTable(p)
    <2> DEFINE j == [job[p] EXCEPT !.got = g, !.at = job[p].at + 1]
    <2>1. job[p].at + 1 \in Places /\ job[p].at + 1 \in 1..LastAt /\ job[p].at = job[p].at + 1 - 1
      <3>1. job[p].at # LastAt
            BY <1>5 DEF LastTable, LastAt
      <3> QED
          BY <3>1, <1>2 DEF Places
    <2>2. j \in Jobs /\ j.pc = "fetch" /\ j.at = job[p].at + 1 /\ j.seen = job[p].seen /\ j.due = job[p].due /\ j.got = g
          BY <1>1, <1>2, <1>3, <2>1 DEF Jobs
    <2>3. Set(p, j)
          BY <1>2, <1>5 DEF Download, Set, g, Jobs
    <2> HIDE DEF j
    <2>4. Len(j.got) = j.at - 1 /\ j.at \in 1..LastAt
          BY <1>3, <2>1, <2>2
    <2>5. \A i \in 1..Len(j.got) : j.got[i] = pub \/ (i \in 1..Len(job[p].got) /\ j.got[i] = job[p].got[i])
          BY <1>3, <2>2
    <2>6. rows' \in [Tables -> Seq(Loads)] /\ ("overlap" \notin flaw => \A t \in Tables : Len(rows'[t]) <= 1)
          BY <1>1 DEF ExternalTypes, Progress
    <2> QED
        BY <1>1, <2>2, <2>3, <2>4, <2>5, <2>6, StampedMoves
  <1> QED
      BY <1>4, <1>5

\* All tables of the source are emptied.
LEMMA TruncateKeeps ==
    ASSUME ExternalIInv, NEW p \in Loaders, Truncate(p)
    PROVE  ExternalIInv'
  <1> USE ExternalAssumption DEF ExternalIInv
  <1> DEFINE j == [job[p] EXCEPT !.pc = "insert"]
  <1>1. /\ job[p].pc = "truncate" /\ IsStamped /\ Active(p) /\ Set(p, j)
        /\ UNCHANGED <<source, pub, clock, known, runs, faults, flaw>>
        BY DEF Truncate, Active
  <1>2. rows' \in [Tables -> Seq(Loads)] /\ \A t \in Tables : rows'[t] = <<>>
        BY DEF Truncate
  <1>3. /\ j \in Jobs /\ j.pc = "insert" /\ j.at = job[p].at /\ j.seen = job[p].seen /\ j.due = job[p].due /\ j.got = job[p].got
        BY DEF ExternalTypes, Jobs
  <1> HIDE DEF j
  <1>4. Len(j.got) = LastAt /\ j.at = 1 /\ LastAt \in {1, 2}
        BY <1>1, <1>3, PlanFacts DEF Stages, ExternalTypes
  <1>5. \A i \in 1..LastAt : rows'[Plan[source][i]] = <<>> /\ ~(i < j.at)
        BY <1>2, <1>4, PlanFacts DEF ExternalTypes
  <1>6. \A t \in Tables : Len(rows'[t]) <= 1
        BY <1>2
  <1>7. \A i \in 1..Len(j.got) : i \in 1..Len(job[p].got) /\ j.got[i] = job[p].got[i]
        BY <1>3
  <1>8. j.at \in 1..LastAt
        BY <1>4
  <1> QED
      BY <1>1, <1>2, <1>3, <1>4, <1>5, <1>6, <1>7, <1>8, StampedMoves

\* One table is filled from its file.
LEMMA FillKeeps ==
    ASSUME ExternalIInv, NEW p \in Loaders, job[p].pc = "insert", IsStamped, Fill(p)
    PROVE  ExternalIInv'
  <1> USE ExternalAssumption DEF ExternalIInv
  <1>1. Active(p) /\ UNCHANGED <<source, pub, clock, known, runs, faults, flaw>>
        BY DEF Fill, Active
  <1>2. /\ job[p] \in Jobs /\ job[p].at \in 1..LastAt /\ Len(job[p].got) = LastAt /\ LastAt \in {1, 2}
        /\ job[p].got \in Seq(0..MaxPubs)
        BY <1>1, JobTypes, PlanFacts DEF ExternalTypes, Stages
  <1> DEFINE e == [of |-> job[p].got[job[p].at], whole |-> TRUE]
  <1>3. e \in Loads
        BY <1>2 DEF Loads
  <1>4. /\ rows \in [Tables -> Seq(Loads)] /\ table(p) = Plan[source][job[p].at] /\ table(p) \in Tables
        /\ rows' = [rows EXCEPT ![table(p)] = Append(rows[table(p)], e)]
        BY <1>2, PlanFacts DEF Fill, table, ExternalTypes
  <1>5. /\ rows' \in [Tables -> Seq(Loads)]
        /\ rows'[table(p)] = Append(rows[table(p)], e)
        /\ \A t \in Tables : t # table(p) => rows'[t] = rows[t]
    <2> HIDE DEF e
    <2> QED
        BY <1>3, <1>4
  <1>6. ASSUME "overlap" \notin flaw
        PROVE  /\ \A t \in Tables : Len(rows'[t]) <= 1
               /\ \A i \in 1..LastAt :
                    /\ i > job[p].at => rows'[Plan[source][i]] = <<>>
                    /\ i <= job[p].at => rows'[Plan[source][i]] = <<[of |-> job[p].got[i], whole |-> TRUE]>>
    <2>1. LoadProgress(p) /\ \A t \in Tables : Len(rows[t]) <= 1
          BY <1>6 DEF Progress
    <2>2. rows[table(p)] = <<>>
          BY <2>1, <1>2, <1>4 DEF LoadProgress
    <2>3. rows'[table(p)] = <<e>> /\ Len(rows'[table(p)]) = 1
          BY <2>2, <1>5
    <2>4. ASSUME NEW i \in 1..LastAt, i # job[p].at
          PROVE  rows'[Plan[source][i]] = rows[Plan[source][i]]
          BY <2>4, <1>2, <1>4, <1>5, PlanFacts DEF ExternalTypes
    <2>5. \A i \in 1..LastAt :
             /\ i > job[p].at => rows'[Plan[source][i]] = <<>>
             /\ i < job[p].at => rows'[Plan[source][i]] = <<[of |-> job[p].got[i], whole |-> TRUE]>>
      <3> SUFFICES ASSUME NEW i \in 1..LastAt
                   PROVE  /\ i > job[p].at => rows'[Plan[source][i]] = <<>>
                          /\ i < job[p].at => Filled(p, i) /\ rows'[Plan[source][i]] = rows[Plan[source][i]]
          BY DEF Filled
      <3>1. i > job[p].at => i >= job[p].at /\ i # job[p].at
            BY <1>2
      <3>2. i < job[p].at => i # job[p].at
            BY <1>2
      <3> QED
          BY <2>1, <2>4, <3>1, <3>2 DEF LoadProgress
    <2>6. \A i \in 1..LastAt : i <= job[p].at => i < job[p].at \/ i = job[p].at
          BY <1>2
    <2>7. \A t \in Tables : Len(rows'[t]) <= 1
      <3>1. 1 <= 1
            OBVIOUS
      <3> QED
          BY <2>1, <2>3, <3>1, <1>5
    <2> QED
        BY <2>3, <2>5, <2>6, <2>7, <1>4
  <1> HIDE DEF e
  <1>7. CASE LastTable(p)
    <2> DEFINE j == [job[p] EXCEPT !.pc = "record"]
    <2>1. Set(p, j) /\ job[p].at = LastAt
          BY <1>7 DEF Fill, LastTable, LastAt
    <2>2. j \in Jobs /\ j.pc = "record" /\ j.at = job[p].at /\ j.seen = job[p].seen /\ j.due = job[p].due /\ j.got = job[p].got
          BY <1>2 DEF Jobs
    <2> HIDE DEF j
    <2>3. \A i \in 1..LastAt : i <= job[p].at
          BY <2>1, <1>2
    <2> QED
        BY <2>1, <2>2, <2>3, <1>1, <1>2, <1>5, <1>6, StampedMoves
  <1>8. CASE ~LastTable(p)
    <2> DEFINE j == [job[p] EXCEPT !.at = job[p].at + 1]
    <2>1. Set(p, j)
          BY <1>8 DEF Fill
    <2>2. job[p].at + 1 \in Places /\ job[p].at + 1 \in 1..LastAt
      <3>1. job[p].at # LastAt
            BY <1>8 DEF LastTable, LastAt
      <3> QED
          BY <3>1, <1>2 DEF Places
    <2>3. j \in Jobs /\ j.pc = "insert" /\ j.at = job[p].at + 1 /\ j.seen = job[p].seen /\ j.due = job[p].due /\ j.got = job[p].got
          BY <1>2, <2>2 DEF Jobs
    <2> HIDE DEF j
    <2>4. \A i \in 1..LastAt : (i >= j.at => i > job[p].at) /\ (i < j.at => i <= job[p].at)
          BY <2>3, <1>2
    <2> QED
        BY <2>1, <2>2, <2>3, <2>4, <1>1, <1>2, <1>5, <1>6, StampedMoves
  <1> QED
      BY <1>7, <1>8

\* The next sub-loader, or the end of the load.
LEMMA NextTableJob ==
    ASSUME ExternalIInv, ~IsStamped, NEW p \in Loaders, Active(p), NEW result \in BOOLEAN, NextTable(p, result)
    PROVE  \E j \in Jobs : /\ Set(p, j) /\ j.pc \in {"fetch", "record"} /\ j.at \in 1..LastAt
                           /\ j.seen = job[p].seen /\ j.due = job[p].due /\ Len(j.got) <= 1
                           /\ \A i \in 1..Len(j.got) : j.got[i] <= pub
  <1> USE DEF ExternalIInv
  <1>1. /\ job[p] \in Jobs /\ job[p].at \in 1..LastAt /\ LastAt \in {1, 2} /\ Len(job[p].got) <= 1
        /\ \A i \in 1..Len(job[p].got) : job[p].got[i] <= pub
        BY PlanFacts DEF ExternalTypes, Stages
  <1> DEFINE b == job[p].ok /\ result
             done == [job[p] EXCEPT !.ok = b, !.pc = "record"]
             more == [job[p] EXCEPT !.ok = b, !.pc = "fetch", !.at = job[p].at + 1, !.got = <<>>]
  <1>2. b \in BOOLEAN
        OBVIOUS
  <1>3. NextTable(p, result) <=> Set(p, IF LastTable(p) THEN done ELSE more)
        BY <1>1 DEF NextTable, Set, Jobs
  <1> HIDE DEF b
  <1>4. CASE LastTable(p)
    <2>1. /\ done \in Jobs /\ done.pc = "record" /\ done.at = job[p].at
          /\ done.seen = job[p].seen /\ done.due = job[p].due /\ done.got = job[p].got
          BY <1>1, <1>2 DEF Jobs
    <2> QED
        BY <2>1, <1>1, <1>3, <1>4
  <1>5. CASE ~LastTable(p)
    <2>1. job[p].at + 1 \in Places /\ job[p].at + 1 \in 1..LastAt /\ <<>> \in Files
      <3>1. job[p].at # LastAt
            BY <1>5 DEF LastTable, LastAt
      <3> QED
          BY <3>1, <1>1 DEF Places, Files
    <2>2. /\ more \in Jobs /\ more.pc = "fetch" /\ more.at = job[p].at + 1
          /\ more.seen = job[p].seen /\ more.due = job[p].due /\ more.got = <<>>
          BY <1>1, <1>2, <2>1 DEF Jobs
    <2>3. Set(p, more)
          BY <1>3, <1>5
    <2> HIDE DEF more
    <2>4. Len(more.got) <= 1 /\ \A i \in 1..Len(more.got) : more.got[i] <= pub
          BY <2>2
    <2> QED
        BY <2>1, <2>2, <2>3, <2>4
  <1> QED
      BY <1>4, <1>5

\* A sub-loader ends with its table as it was, or with one load in it that it
\* had emptied before.
LEMMA NextTableKeeps ==
    ASSUME ExternalIInv, ~IsStamped, NEW p \in Loaders, Active(p), NEW result \in BOOLEAN, NextTable(p, result),
           UNCHANGED <<source, pub, clock, known, runs, flaw>>, faults' \in 0..MaxFaults,
           \/ rows' = rows
           \/ /\ job[p].pc = "insert"
              /\ \E e \in Loads : rows' = [rows EXCEPT ![table(p)] = Append(rows[table(p)], e)]
    PROVE  ExternalIInv'
  <1>1. PICK j \in Jobs : /\ Set(p, j) /\ j.pc \in {"fetch", "record"} /\ j.at \in 1..LastAt
                          /\ j.seen = job[p].seen /\ j.due = job[p].due /\ Len(j.got) <= 1
                          /\ \A i \in 1..Len(j.got) : j.got[i] <= pub
        BY NextTableJob
  <1>2. /\ rows \in [Tables -> Seq(Loads)]
        /\ "overlap" \notin flaw => \A t \in Tables : Len(rows[t]) <= 1
        BY DEF ExternalIInv, ExternalTypes, Progress
  <1>3. CASE rows' = rows
        BY <1>1, <1>2, <1>3, AirspaceMoves
  <1>4. ASSUME job[p].pc = "insert", NEW e \in Loads,
               rows' = [rows EXCEPT ![table(p)] = Append(rows[table(p)], e)]
        PROVE  ExternalIInv'
    <2>1. table(p) \in Tables
          BY PlanFacts DEF table, ExternalIInv, ExternalTypes, Stages
    <2>2. /\ rows' \in [Tables -> Seq(Loads)] /\ rows'[table(p)] = Append(rows[table(p)], e)
          /\ \A t \in Tables : t # table(p) => rows'[t] = rows[t]
          BY <1>2, <1>4, <2>1
    <2>3. "overlap" \notin flaw => Len(rows'[table(p)]) <= 1
      <3> SUFFICES ASSUME "overlap" \notin flaw PROVE Len(rows'[table(p)]) <= 1
          OBVIOUS
      <3>1. rows[table(p)] = <<>>
            BY <1>4 DEF ExternalIInv, Progress, LoadProgress
      <3> QED
          BY <3>1, <2>2
    <2>4. "overlap" \notin flaw => \A t \in Tables : Len(rows'[t]) <= 1
          BY <2>2, <2>3, <1>2
    <2> QED
        BY <1>1, <2>2, <2>4, AirspaceMoves
  <1> QED
      BY <1>3, <1>4

\* The steps of AirspaceLoader's sub-loaders.
LEMMA AirspaceKeeps ==
    ASSUME ExternalIInv, NEW p \in Loaders,
           \/ AirspaceFetch(p) \/ AirspaceFetchFails(p) \/ AirspaceTruncate(p)
           \/ AirspaceInsert(p) \/ AirspaceNoFeatures(p) \/ PagesBreakOff(p)
    PROVE  ExternalIInv'
  <1> USE ExternalAssumption DEF ExternalIInv
  <1>1. /\ ~IsStamped /\ Active(p) /\ UNCHANGED <<source, pub, clock, known, runs, flaw>>
        /\ faults' \in 0..MaxFaults
    <2>1. faults \in 0..MaxFaults /\ (Fault => faults' \in 0..MaxFaults)
          BY DEF Fault, ExternalTypes
    <2>2. CASE AirspaceFetch(p) \/ AirspaceTruncate(p) \/ AirspaceInsert(p)
          BY <2>1, <2>2 DEF AirspaceFetch, AirspaceTruncate, AirspaceInsert, Active
    <2>3. CASE AirspaceFetchFails(p) \/ AirspaceNoFeatures(p) \/ PagesBreakOff(p)
          BY <2>1, <2>3 DEF AirspaceFetchFails, AirspaceNoFeatures, PagesBreakOff, Active
    <2> QED
        BY <2>2, <2>3
  <1>2. /\ job[p] \in Jobs /\ job[p].at \in 1..LastAt /\ pub \in 0..MaxPubs /\ pub <= pub
        /\ rows \in [Tables -> Seq(Loads)]
        /\ job[p].got \in Seq(0..MaxPubs)
        /\ "overlap" \notin flaw => \A t \in Tables : Len(rows[t]) <= 1
        BY <1>1, JobTypes DEF ExternalTypes, Stages, Progress
  <1>3. table(p) \in Tables /\ table(p) = Plan[source][job[p].at]
        BY <1>2, PlanFacts DEF table, ExternalTypes
  <1>4. CASE AirspaceFetch(p)
    <2> DEFINE j == [job[p] EXCEPT !.pc = "truncate", !.got = <<pub>>]
    <2>1. <<pub>> \in Files
          BY <1>2 DEF Files
    <2>2. j \in Jobs /\ j.pc = "truncate" /\ j.at = job[p].at /\ j.seen = job[p].seen /\ j.due = job[p].due /\ j.got = <<pub>>
          BY <1>2, <2>1 DEF Jobs
    <2>3. Set(p, j) /\ rows' = rows
          BY <1>4 DEF AirspaceFetch
    <2> HIDE DEF j
    <2>4. Len(j.got) = 1 /\ Len(j.got) <= 1 /\ \A i \in 1..Len(j.got) : j.got[i] <= pub
          BY <2>2, <1>2
    <2> QED
        BY <2>2, <2>3, <2>4, <1>1, <1>2, AirspaceMoves
  <1>5. CASE AirspaceTruncate(p)
    <2> DEFINE j == [job[p] EXCEPT !.pc = "insert"]
    <2>1. /\ j \in Jobs /\ j.pc = "insert" /\ j.at = job[p].at /\ j.seen = job[p].seen /\ j.due = job[p].due
          /\ j.got = job[p].got
          BY <1>2 DEF Jobs
    <2>2. /\ Set(p, j) /\ rows' = [rows EXCEPT ![table(p)] = <<>>] /\ job[p].pc = "truncate"
          BY <1>5 DEF AirspaceTruncate
    <2> HIDE DEF j
    <2>3. /\ rows' \in [Tables -> Seq(Loads)] /\ rows'[table(p)] = <<>>
          /\ \A t \in Tables : t # table(p) => rows'[t] = rows[t]
          BY <2>2, <1>2, <1>3
    <2>4. Len(j.got) <= 1 /\ Len(j.got) = 1 /\ \A i \in 1..Len(j.got) : j.got[i] <= pub
          BY <2>1, <2>2, <1>1 DEF Stages
    <2>5. "overlap" \notin flaw => \A t \in Tables : Len(rows'[t]) <= 1
      <3>1. Len(rows'[table(p)]) <= 1
            BY <2>3
      <3> QED
          BY <3>1, <2>3, <1>2
    <2> QED
        BY <2>1, <2>2, <2>3, <2>4, <2>5, <1>1, <1>2, <1>3, AirspaceMoves
  <1>6. CASE AirspaceFetchFails(p) \/ AirspaceNoFeatures(p)
    <2>1. NextTable(p, FALSE) /\ rows' = rows
          BY <1>6 DEF AirspaceFetchFails, AirspaceNoFeatures
    <2> QED
        BY <2>1, <1>1, NextTableKeeps
  <1>7. CASE AirspaceInsert(p)
    <2> DEFINE e == [of |-> IF table(p) = "class" THEN job[p].got[1] ELSE pub, whole |-> TRUE]
    <2>1. NextTable(p, TRUE) /\ job[p].pc = "insert"
          /\ rows' = [rows EXCEPT ![table(p)] = Append(rows[table(p)], e)]
          BY <1>7 DEF AirspaceInsert
    <2>2. job[p].got[1] \in 0..MaxPubs
      <3>1. Len(job[p].got) = 1
            BY <2>1, <1>1 DEF Stages
      <3> QED
          BY <3>1, <1>2
    <2>3. e \in Loads
          BY <2>2, <1>2 DEF Loads
    <2> HIDE DEF e
    <2> QED
        BY <2>1, <2>3, <1>1, NextTableKeeps
  <1>8. CASE PagesBreakOff(p)
    <2> DEFINE e == [of |-> pub, whole |-> FALSE]
    <2>1. NextTable(p, TRUE) /\ job[p].pc = "insert"
          /\ rows' = [rows EXCEPT ![table(p)] = Append(rows[table(p)], e)]
          BY <1>8 DEF PagesBreakOff
    <2>2. e \in Loads
          BY <1>2 DEF Loads
    <2> HIDE DEF e
    <2> QED
        BY <2>1, <2>2, <1>1, NextTableKeeps
  <1> QED
      BY <1>4, <1>5, <1>6, <1>7, <1>8

\* Empty tables without a record satisfy the invariant.
LEMMA ExternalInitIInv == ExternalInit => ExternalIInv
  <1> SUFFICES ASSUME ExternalInit PROVE ExternalIInv
      OBVIOUS
  <1> USE ExternalAssumption
  <1>1. /\ job \in [Loaders -> Jobs] /\ \A p \in Loaders : job[p].pc = "idle" /\ job[p].got = <<>>
        BY IdleJob DEF ExternalInit
  <1>2. \A p \in Loaders : ~Active(p)
        BY <1>1 DEF Active
  <1>3. known = -1 /\ known \in -1..LastStamp /\ flaw = {}
        BY IdleJob DEF ExternalInit
  <1>4. ~Settled
    <2>1. Gap * pub \in Nat
          BY DEF ExternalInit
    <2> QED
        BY <1>3, <2>1 DEF Settled, StampOf, young
  <1>5. ExternalTypes
    <2>1. rows \in [Tables -> Seq(Loads)]
          BY DEF ExternalInit
    <2>2. pub \in 0..MaxPubs /\ clock \in 0..MaxTime /\ runs \in 0..MaxRuns /\ faults \in 0..MaxFaults
          BY DEF ExternalInit
    <2> QED
        BY <2>1, <2>2, <1>1, <1>3 DEF ExternalInit, ExternalTypes
  <1>6. Stages /\ OverlapsNoticed
        BY <1>1, <1>2 DEF Stages, OverlapsNoticed
  <1>7. Progress
    <2>1. \A t \in Tables : Len(rows[t]) <= 1
          BY DEF ExternalInit
    <2>2. \A p \in Loaders : LoadProgress(p)
          BY <1>1 DEF LoadProgress
    <2> QED
        BY <2>1, <2>2 DEF Progress
  <1>8. StampsReported
        BY <1>2, <1>3 DEF StampsReported, Loaders, ExternalInit
  <1>9. Trusted
        BY <1>2, <1>4 DEF Trusted
  <1> QED
      BY <1>5, <1>6, <1>7, <1>8, <1>9 DEF ExternalIInv

\* Every step of a loader, of the world, or of another component.
LEMMA ExternalNextIInv == ExternalIInv /\ [ExternalNext]_tvars => ExternalIInv'
  <1> SUFFICES ASSUME ExternalIInv, [ExternalNext]_tvars PROVE ExternalIInv'
      OBVIOUS
  <1>1. CASE UNCHANGED tvars
    <2>1. /\ UNCHANGED <<source, pub, clock, rows, known, job, runs, faults, flaw>>
          BY <1>1 DEF tvars
    <2>2. /\ Tables' = Tables /\ LastAt' = LastAt /\ IsStamped' = IsStamped /\ Settled' = Settled
          /\ Resting' = Resting /\ Incomplete' = Incomplete
          /\ \A p \in Loaders : Active(p)' = Active(p) /\ LoadProgress(p)' = LoadProgress(p)
          BY <2>1 DEF Tables, LastAt, IsStamped, Settled, young, Resting, Incomplete, Active, LoadProgress,
                      Filled, table
    <2>3. ExternalTypes' /\ Stages' /\ OverlapsNoticed' /\ Progress'
          BY <2>1, <2>2 DEF ExternalIInv, ExternalTypes, Stages, OverlapsNoticed, Progress
    <2>4. StampsReported' /\ Trusted'
          BY <2>1, <2>2 DEF ExternalIInv, StampsReported, Trusted, Loaders
    <2> QED
        BY <2>3, <2>4 DEF ExternalIInv
  <1>2. ASSUME Fault PROVE faults' \in 0..MaxFaults
        BY <1>2, ExternalAssumption DEF Fault, ExternalIInv, ExternalTypes
  <1>3. faults \in 0..MaxFaults
        BY DEF ExternalIInv, ExternalTypes
  <1>4. CASE Publish \/ Tick \/ SeedFails \/ CheckBlind
        BY <1>4, PublishKeeps, TickKeeps, SeedFailsKeeps, CheckBlindKeeps
  <1>5. CASE CheckFails
        BY <1>2, <1>5, SkipKeeps DEF CheckFails, Loaders
  <1>6. ASSUME NEW p \in Loaders, LoadStep(p) PROVE ExternalIInv'
    <2>1. CASE InsertConflicts(p) \/ RecordNothing(p)
          BY <2>1, <1>3, AbandonKeeps DEF InsertConflicts, RecordNothing, Active
    <2>2. CASE InsertKeyed(p) \/ InsertUnkeyed(p)
          BY <2>2, FillKeeps DEF InsertKeyed, InsertUnkeyed
    <2> QED
        BY <1>6, <2>1, <2>2, StartKeeps, CheckKeeps, DownloadKeeps, TruncateKeeps, AirspaceKeeps, RecordKeeps
        DEF LoadStep
  <1>7. ASSUME NEW p \in Loaders, LoadFault(p) PROVE ExternalIInv'
    <2>1. CASE DownloadFails(p)
          BY <2>1, <1>2, SkipKeeps DEF DownloadFails
    <2>2. CASE Fail(p)
          BY <2>2, <1>2, AbandonKeeps DEF Fail
    <2> QED
        BY <1>7, <2>1, <2>2, AirspaceKeeps DEF LoadFault
  <1> QED
      BY <1>1, <1>4, <1>5, <1>6, <1>7 DEF ExternalNext

\* What is settled is all that is not due.
LEMMA UnsettledIsDue == ExternalIInv /\ ~Settled => Due
  <1> SUFFICES ASSUME ExternalIInv, ~Settled PROVE Due
      OBVIOUS
  <1>1. CASE IsStamped
    <2>1. /\ pub \in Nat /\ known \in Int /\ (known = -1 \/ \E k \in 0..pub : StampOf(known, k))
          /\ ~StampOf(known, pub)
          BY <1>1, ExternalAssumption DEF ExternalIInv, ExternalTypes, StampsReported, Settled
    <2> QED
        BY <1>1, <2>1, ToleranceSettles DEF Due
  <1>2. CASE ~IsStamped
        BY <1>2 DEF Due, Settled
  <1> QED
      BY <1>1, <1>2

\* The invariant gives the type invariant of the module.
LEMMA ExternalIInvTypes == ExternalIInv => ExternalTypeOK
  <1> SUFFICES ASSUME ExternalIInv PROVE ExternalTypeOK
      OBVIOUS
  <1>1. \A t \in Tables : \A i \in 1..Len(rows[t]) : rows[t][i] \in Loads
        BY DEF ExternalIInv, ExternalTypes
  <1>2. ASSUME NEW p \in Loaders PROVE job[p].at \in 0..2 /\ Len(job[p].got) <= 2
    <2>1. LastAt \in {1, 2} /\ job[p].at \in 0..2
          BY PlanFacts, JobTypes DEF ExternalIInv, ExternalTypes
    <2>2. CASE ~Active(p)
      <3>1. job[p].got = <<>>
            BY <2>2 DEF ExternalIInv, Stages
      <3> QED
          BY <2>1, <3>1
    <2>3. CASE Active(p) /\ ~IsStamped
      <3>1. Len(job[p].got) <= 1 /\ Len(job[p].got) \in Nat
            BY <2>3, JobTypes DEF ExternalIInv, ExternalTypes, Stages
      <3> QED
          BY <2>1, <3>1
    <2>4. CASE Active(p) /\ IsStamped
      <3>1. Len(job[p].got) = LastAt \/ (Len(job[p].got) = job[p].at - 1 /\ job[p].at \in 1..LastAt)
            BY <2>4 DEF ExternalIInv, Stages, Active
      <3> QED
          BY <2>1, <3>1
    <2> QED
        BY <2>2, <2>3, <2>4
  <1> QED
      BY <1>1, <1>2 DEF ExternalIInv, ExternalTypes, ExternalTypeOK, Loads, LastStamp

\* Part by part, the invariant gives the properties of the tables.
LEMMA ExternalIInvImplies == ExternalIInv => NoDoubledRows /\ IncompleteIsDue /\ StaleIsDue
  <1> SUFFICES ASSUME ExternalIInv PROVE NoDoubledRows /\ IncompleteIsDue /\ StaleIsDue
      OBVIOUS
  <1>1. NoDoubledRows
        BY DEF ExternalIInv, Progress, NoDoubledRows
  <1>2. ASSUME Resting, flaw = {}, Settled, IsStamped
        PROVE  \A t \in Tables : rows[t] = <<[of |-> pub, whole |-> TRUE]>>
    <2>1. \A p \in Loaders : job[p].pc \notin {"insert", "record"}
          BY <1>2 DEF Resting, Active
    <2> QED
        BY <2>1, <1>2 DEF ExternalIInv, Trusted
  <1>3. IncompleteIsDue
    <2> SUFFICES ASSUME Resting, flaw = {}, Settled PROVE ~Incomplete
        BY UnsettledIsDue DEF IncompleteIsDue
    <2>1. CASE IsStamped
      <3> DEFINE e == [of |-> pub, whole |-> TRUE]
      <3>1. Complete(<<e>>)
            BY DEF Complete
      <3> QED
          BY <3>1, <1>2, <2>1 DEF Incomplete
    <2>2. CASE ~IsStamped
          BY <2>2 DEF ExternalIInv, Trusted
    <2> QED
        BY <2>1, <2>2
  <1>4. StaleIsDue
    <2> SUFFICES ASSUME Resting, flaw = {}, Settled, IsStamped,
                        NEW t \in Tables, NEW i \in 1..Len(rows[t]), rows[t][i].of < pub
                 PROVE  FALSE
        BY UnsettledIsDue DEF StaleIsDue, Outdated
    <2>1. rows[t] = <<[of |-> pub, whole |-> TRUE]>>
          BY <1>2
    <2>2. i = 1
          BY <2>1
    <2>3. rows[t][1].of = pub /\ pub \in Nat
          BY <2>1, ExternalAssumption DEF ExternalIInv, ExternalTypes
    <2> QED
        BY <2>2, <2>3
  <1> QED
      BY <1>1, <1>3, <1>4

\* Only a check begins poll's load, and it looks at the stamp if it can.
LEMMA CheckLooks ==
    ASSUME ExternalIInv, [ExternalNext]_tvars, IsStamped,
           job["poll"].pc = "check", job'["poll"].pc = "fetch"
    PROVE  known \notin remoteLastModified \/ faults' > faults
  <1> SUFFICES ASSUME ~CheckBlind PROVE known \notin remoteLastModified
    <2>1. Fault => faults' > faults
          BY ExternalAssumption DEF Fault, ExternalIInv, ExternalTypes
    <2> QED
        BY <2>1 DEF CheckBlind
  <1>1. "poll" \in Loaders /\ job["poll"] \in Jobs /\ job \in [Loaders -> Jobs]
        BY DEF Loaders, ExternalIInv, ExternalTypes
  <1>2. \A p \in Loaders : \A j : Set(p, j) /\ p # "poll" => job'["poll"] = job["poll"]
        BY <1>1 DEF Set
  <1>3. \A p \in Loaders : Skip(p) => FALSE
        BY <1>1, <1>2, IdleJob DEF Skip, Set
  <1>4. ~UNCHANGED job
        OBVIOUS
  <1>5. ~Publish /\ ~Tick /\ ~CheckFails /\ ~UNCHANGED tvars
        BY <1>1, <1>3, <1>4 DEF Publish, Tick, CheckFails, tvars
  <1>6. ~SeedFails
        BY <1>2 DEF SeedFails, Loaders
  <1>7. PICK p \in Loaders : LoadStep(p) \/ LoadFault(p)
        BY <1>5, <1>6 DEF ExternalNext
  <1>8. p = "poll"
        BY <1>2, <1>7 DEF LoadStep, LoadFault, Start, Check, Enter, Skip, Download, Truncate, InsertKeyed,
             InsertUnkeyed, Fill, InsertConflicts, AirspaceFetch, AirspaceTruncate, AirspaceInsert,
             NextTable, Record, RecordNothing, DownloadFails, AirspaceFetchFails, AirspaceNoFeatures,
             PagesBreakOff, Fail
  <1>9. Check(p)
        BY <1>7, <1>8 DEF LoadStep, LoadFault, Start, Download, Truncate, InsertKeyed,
             InsertUnkeyed, InsertConflicts, AirspaceFetch, AirspaceTruncate, AirspaceInsert,
             Record, RecordNothing, DownloadFails, AirspaceFetchFails, AirspaceNoFeatures,
             PagesBreakOff, Fail, Active
  <1>10. PICK remote \in remoteLastModified : ~upToDate(remote)
        BY <1>3, <1>8, <1>9 DEF Check
  <1>11. ~StampOf(known, pub)
        BY <1>10, ToleranceSettles, ExternalAssumption DEF ExternalIInv, ExternalTypes, StampsReported
  <1> QED
      BY <1>11 DEF StampOf, remoteLastModified

\* The inductive invariant holds in every state of the loaders.
THEOREM ExternalInvariant == ExternalSpec => []ExternalIInv
  BY ExternalInitIInv, ExternalNextIInv, PTL DEF ExternalSpec

\* A table holds two loads only when two loads overlapped.
THEOREM TablesNotDoubled == ExternalSpec => []NoDoubledRows
  BY ExternalInvariant, ExternalIInvImplies, PTL

\* A load that broke off after its truncation is due at the next check, unless
\* no check had found it due or OpenAIP's pages broke off.
THEOREM IncompleteTablesAreDue == ExternalSpec => []IncompleteIsDue
  BY ExternalInvariant, ExternalIInvImplies, PTL

\* Tables with rows of an older publication are due at the next check.
THEOREM StaleTablesAreDue == ExternalSpec => []StaleIsDue
  BY ExternalInvariant, ExternalIInvImplies, PTL

\* For every jitter up to the tolerance, and every distance of publications
\* above tolerance and jitter, poll reloads only what has been published anew,
\* or what the database fails to say it has loaded.
THEOREM NoSpuriousReloads == ExternalSpec => NoSpuriousReload
  <1>1. ExternalIInv /\ [ExternalNext]_tvars =>
            [IsStamped /\ job["poll"].pc = "check" /\ job'["poll"].pc = "fetch"
                => known \notin remoteLastModified \/ faults' > faults]_tvars
        BY CheckLooks
  <1> QED
      BY <1>1, ExternalInvariant, PTL DEF ExternalSpec, NoSpuriousReload


----------------------------------------------------------------------------
(* The three components side by side *)

AeronauticalIInv == ExternalIInv /\ TerrainIInv /\ WmmIInv

\* A step of one component leaves the inductive invariants of the others alone.
LEMMA AeronauticalNextIInv == AeronauticalIInv /\ [Next]_vars => AeronauticalIInv'
  <1> SUFFICES ASSUME AeronauticalIInv, [Next]_vars PROVE AeronauticalIInv'
      OBVIOUS
  <1>1. [ExternalNext]_tvars /\ [TerrainNext]_rvars /\ [WmmNext]_wvars
    <2>1. CASE TablesStep
          BY <2>1, Zenon DEF TablesStep
    <2>2. CASE TerrainStep
          BY <2>2, Zenon DEF TerrainStep
    <2>3. CASE DeclinationStep
          BY <2>3, Zenon DEF DeclinationStep
    <2>4. CASE UNCHANGED vars
          BY <2>4, Zenon DEF vars
    <2> QED
        BY <2>1, <2>2, <2>3, <2>4 DEF Next
  <1> QED
      BY <1>1, ExternalNextIInv, TerrainNextIInv, WmmNextIInv DEF AeronauticalIInv

\* Every variable of the three loaders keeps its type: among others a plan has
\* at most two files, a table at most two loads, a band at most two copies, and
\* a thread takes no batch beyond the last.
THEOREM AeronauticalTypes == Spec => []AeronauticalTypeOK
  <1>1. Init => AeronauticalIInv
        BY ExternalInitIInv, TerrainInitIInv, WmmInitIInv DEF Init, AeronauticalIInv
  <1>2. AeronauticalIInv => AeronauticalTypeOK
        BY ExternalIInvTypes, TerrainIInvImplies, WmmIInvImplies
        DEF AeronauticalIInv, AeronauticalTypeOK
  <1> QED
      BY <1>1, <1>2, AeronauticalNextIInv, PTL DEF Spec
=============================================================================
