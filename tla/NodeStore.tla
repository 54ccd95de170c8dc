----------------------------- MODULE NodeStore -----------------------------
(***************************************************************************)
(* The merged node store of gpsxdb (OSMMMap, src/include/OSMMMap.h and     *)
(* src/src/OSMMMap.cpp) as a delta or poll process uses it.                *)
(*                                                                         *)
(* nodes.dat holds one 16-byte record (lon_m, lat_m) per node id and       *)
(* nodes.dat.bmp one "populated" bit per id.  Both files are mapped        *)
(* MAP_SHARED, both are grown in place when a diff brings an id past the   *)
(* capacity, and each growth is a separate ftruncate.  The process may die *)
(* between any two stores or system calls and is restarted with any of the *)
(* configured -n values.  Replicator stores the sequence of a diff only    *)
(* after all its records, so a restarted process applies the same diff     *)
(* again from its first record, over what the broken pass left behind.     *)
(*                                                                         *)
(* A dead process leaves its stores in the page cache: file contents       *)
(* survive Crash.  A machine crash that loses dirty pages is not modelled. *)
(***************************************************************************)
EXTENDS Integers, FiniteSets, Sequences

CONSTANTS
    Ids,             \* the node ids that occur in the diffs
    Points,          \* the coordinate pairs <<lon_m, lat_m>> they carry
    None,            \* "no record": std::nullopt
    MaxIds,          \* the values of -n (max_id) a process is started with
    kMaxSaneNodeId,  \* sanity ceiling of growMergedIfNeeded
    GrowFloor,       \* records in the growth floor (1'000'000 in the code)
    MaxRecords,      \* bound on the node records of a diff
    MaxCrashes       \* bound on the number of crashes

ASSUME NodeStoreAssumption ==
    /\ Ids \subseteq Nat
    /\ Points \subseteq Int \X Int
    /\ None \notin Int \X Int
    /\ MaxIds \subseteq Nat /\ MaxIds # {}
    /\ kMaxSaneNodeId \in Nat
    /\ GrowFloor \in Nat
    /\ MaxRecords \in Nat
    /\ MaxCrashes \in Nat

VARIABLES
    datSize,   \* bytes of nodes.dat on disk
    bmpSize,   \* bytes of nodes.dat.bmp on disk
    mapSize,   \* merged_size_ of the running process
    mapBmp,    \* merged_bm_size_ of the running process
    dat,       \* the records, <<0, 0>> where nothing was written
    bits,      \* the ids whose bit is set in nodes.dat.bmp
    pc,        \* where the process is
    openN,     \* the -n of the running process
    diff,      \* the node records of the diff being applied, <<>> between diffs
    at,        \* how many of them this pass has applied
    crashes,   \* crashes so far
    before,    \* history: what select() owes each id by the stored diffs
    want,      \* history: what it owes by these and the records of this pass
    half,      \* history: ids whose record a crash left half written
    torn       \* history: a crash left the bitmap shorter than the data

vars == <<datSize, bmpSize, mapSize, mapBmp, dat, bits, pc, openN, diff, at,
          crashes, before, want, half, torn>>

----------------------------------------------------------------------------
(* Sizes and offsets *)

REC_SIZE == 16

Origin == <<0, 0>>

DataBytes(maxId) == (maxId + 1) * REC_SIZE

BitmapBytes(maxId) == ((maxId + 1) + 7) \div 8

\* Mutant of BitmapFor: the byte count is not rounded up.
BitmapForTruncated(dataSz) == (dataSz \div REC_SIZE) \div 8

\* new_bm_sz: the bitmap that goes with a data file of the given size.
BitmapFor(dataSz) == (dataSz \div REC_SIZE + 7) \div 8

\* offset + REC_SIZE <= merged_size_
InData(id, dataSz) == id * REC_SIZE + REC_SIZE <= dataSz

\* byte < bm_size in bitmapSet and bitmapGet
InBitmap(id, bmSz) == id \div 8 < bmSz

Larger(a, b) == IF a >= b THEN a ELSE b

\* new_data_sz: the needed size, 25% more, or the floor, whichever is largest.
GrownSize(id, size) ==
    Larger(DataBytes(id), Larger(size + size \div 4, size + GrowFloor * REC_SIZE))

\* needed_data > merged_size_ for an id under the ceiling
MustGrow(id) == id <= kMaxSaneNodeId /\ DataBytes(id) > mapSize

bitmapSet(id) == IF InBitmap(id, mapBmp) THEN bits \cup {id} ELSE bits

bitmapGet(id) == InBitmap(id, mapBmp) /\ id \in bits

select(id) == IF bitmapGet(id) /\ InData(id, mapSize) THEN dat[id] ELSE None

----------------------------------------------------------------------------
(* The calls a diff makes *)

Updates == [kind : {"update"}, id : Ids, pt : Points]

Removes == [kind : {"remove"}, id : Ids, pt : {Origin}]

Records == Updates \cup Removes

Diffs == UNION {[1..n -> Records] : n \in 1..MaxRecords}

\* The record update() or remove() is working on.
op == diff[at + 1]

\* What a record says select() returns for its id.
Value(r) == IF r.kind = "update" THEN r.pt ELSE None

\* A record of the diff is about the id; one that this pass has applied is.
InDiff(id) == \E k \in DOMAIN diff : diff[k].id = id

Redone(id) == \E k \in 1..at : diff[k].id = id

Init ==
    /\ openN \in MaxIds
    /\ datSize = DataBytes(openN) /\ bmpSize = BitmapBytes(openN)
    /\ mapSize = datSize /\ mapBmp = bmpSize
    /\ dat = [id \in Ids |-> Origin]
    /\ bits = {}
    /\ pc = "ready"
    /\ diff = <<>> /\ at = 0
    /\ crashes = 0
    /\ before = [id \in Ids |-> None]
    /\ want = [id \in Ids |-> None]
    /\ half = {}
    /\ torn = FALSE

files == <<datSize, bmpSize>>
maps  == <<mapSize, mapBmp, openN>>
data  == <<dat, bits>>

pass  == <<diff, at, before, want, half>>

\* downloadAndApply: the next diff is fetched; applyFile starts on it.
Download ==
    /\ pc = "ready" /\ diff = <<>>
    /\ diff' \in Diffs
    /\ UNCHANGED <<files, maps, data, pc, at, crashes, before, want, half, torn>>

\* DeltaApplier calls update() or remove() for the next record of the diff.
Call ==
    /\ pc = "ready" /\ at < Len(diff)
    /\ pc' = "begin"
    /\ UNCHANGED <<files, maps, data, pass, crashes, torn>>

\* The call returns; the record counts as applied in this pass.
Return(value) ==
    /\ pc' = "ready"
    /\ at' = at + 1
    /\ want' = [want EXCEPT ![op.id] = value]
    /\ half' = half \ {op.id}
    /\ UNCHANGED <<diff, before>>

\* downloadAndApply: the whole diff is applied, setSequence records it.
SetSequence ==
    /\ pc = "ready" /\ diff # <<>> /\ at = Len(diff)
    /\ diff' = <<>> /\ at' = 0
    /\ before' = want
    /\ UNCHANGED <<files, maps, data, pc, crashes, want, half, torn>>

\* growMergedIfNeeded: ftruncate and remap nodes.dat.
GrowData ==
    /\ pc = "begin" /\ op.kind = "update"
    /\ MustGrow(op.id)
    /\ datSize' = GrownSize(op.id, mapSize)
    /\ mapSize' = datSize'
    /\ pc' = "growBitmap"
    /\ UNCHANGED <<bmpSize, mapBmp, openN, data, pass, crashes, torn>>

\* growMergedIfNeeded: then ftruncate and remap nodes.dat.bmp.
GrowBitmap ==
    /\ pc = "growBitmap"
    /\ bmpSize' = BitmapFor(mapSize)
    /\ mapBmp' = bmpSize'
    /\ pc' = "begin"
    /\ UNCHANGED <<datSize, mapSize, openN, data, pass, crashes, torn>>

\* Mutant of DropUpdate: the bit of a dropped record is set all the same.
DropUpdateSetsBit ==
    /\ pc = "begin" /\ op.kind = "update"
    /\ ~MustGrow(op.id) /\ ~InData(op.id, mapSize)
    /\ bits' = bitmapSet(op.id)
    /\ Return(want[op.id])
    /\ UNCHANGED <<files, maps, dat, crashes, torn>>

\* update: an id past the ceiling and past the capacity is dropped.
DropUpdate ==
    /\ pc = "begin" /\ op.kind = "update"
    /\ ~MustGrow(op.id) /\ ~InData(op.id, mapSize)
    /\ Return(want[op.id])
    /\ UNCHANGED <<files, maps, data, crashes, torn>>

\* update: dst[0] = lon_m
WriteLon ==
    /\ pc = "begin" /\ op.kind = "update"
    /\ ~MustGrow(op.id) /\ InData(op.id, mapSize)
    /\ dat' = [dat EXCEPT ![op.id] = <<op.pt[1], dat[op.id][2]>>]
    /\ pc' = "writeLat"
    /\ UNCHANGED <<files, maps, bits, pass, crashes, torn>>

\* update: dst[1] = lat_m
WriteLat ==
    /\ pc = "writeLat"
    /\ dat' = [dat EXCEPT ![op.id] = <<dat[op.id][1], op.pt[2]>>]
    /\ pc' = "setBit"
    /\ UNCHANGED <<files, maps, bits, pass, crashes, torn>>

\* update: bitmapSet, which ignores an id its bitmap has no byte for.
SetBit ==
    /\ pc = "setBit"
    /\ bits' = bitmapSet(op.id)
    /\ Return(Value(op))
    /\ UNCHANGED <<files, maps, dat, crashes, torn>>

\* remove: the early return for an id past the capacity.
RemoveOutside ==
    /\ pc = "begin" /\ op.kind = "remove"
    /\ ~InData(op.id, mapSize)
    /\ Return(Value(op))
    /\ UNCHANGED <<files, maps, data, crashes, torn>>

\* remove: memset of the record.
ZeroRecord ==
    /\ pc = "begin" /\ op.kind = "remove"
    /\ InData(op.id, mapSize)
    /\ dat' = [dat EXCEPT ![op.id] = Origin]
    /\ pc' = "clearBit"
    /\ UNCHANGED <<files, maps, bits, pass, crashes, torn>>

\* Mutant of ClearBit: the record is zeroed but stays marked as populated.
ClearBitLeavesIt ==
    /\ pc = "clearBit"
    /\ bits' = bits
    /\ Return(Value(op))
    /\ UNCHANGED <<files, maps, dat, crashes, torn>>

\* remove: clearing the bit.
ClearBit ==
    /\ pc = "clearBit"
    /\ bits' = IF InBitmap(op.id, mapBmp) THEN bits \ {op.id} ELSE bits
    /\ Return(Value(op))
    /\ UNCHANGED <<files, maps, dat, crashes, torn>>

\* poll ends between two diffs (g_stop), ~OSMMMap: sync, unmap, close.
Close ==
    /\ pc = "ready" /\ diff = <<>>
    /\ pc' = "down"
    /\ mapSize' = 0 /\ mapBmp' = 0
    /\ UNCHANGED <<files, openN, data, pass, crashes, torn>>

\* The mappings are gone; the id of a half-written record stays half written.
Dies ==
    /\ pc # "down"
    /\ crashes < MaxCrashes
    /\ crashes' = crashes + 1
    /\ pc' = "down"
    /\ mapSize' = 0 /\ mapBmp' = 0
    /\ half' = IF pc \in {"writeLat", "clearBit"} THEN half \cup {op.id} ELSE half
    /\ torn' = (torn \/ bmpSize < BitmapFor(datSize))
    /\ UNCHANGED <<files, openN, data, before>>

\* Mutant of Crash: the sequence was stored before the diff was applied.
CrashForgetsDiff ==
    /\ Dies
    /\ diff' = <<>> /\ at' = 0
    /\ want' = [id \in Ids |-> IF InDiff(id)
                                 THEN Value(diff[CHOOSE k \in DOMAIN diff :
                                    diff[k].id = id /\ \A l \in DOMAIN diff :
                                        diff[l].id = id => l <= k])
                                 ELSE before[id]]

\* The process dies, or an exception (an ftruncate or the database fails) ends
\* the apply and with it poll.  The sequence of the diff is not stored: the
\* next process applies it from its first record.
Crash ==
    /\ Dies
    /\ at' = 0
    /\ want' = before
    /\ UNCHANGED diff

\* Mutant of OpenData: nodes.dat is truncated to this process's -n.
OpenDataTruncates ==
    /\ pc = "down"
    /\ openN' \in MaxIds
    /\ datSize' = DataBytes(openN')
    /\ mapSize' = datSize'
    /\ pc' = "openBitmap"
    /\ UNCHANGED <<bmpSize, mapBmp, data, pass, crashes, torn>>

\* Mutant of OpenData: max_id is guessed from the file instead of taken from -n.
OpenDataGuessesMaxId ==
    /\ pc = "down"
    /\ openN' = datSize \div REC_SIZE
    /\ datSize' = Larger(DataBytes(openN'), datSize)
    /\ mapSize' = datSize'
    /\ pc' = "openBitmap"
    /\ UNCHANGED <<bmpSize, mapBmp, data, pass, crashes, torn>>

\* OSMMMap(...) without shards: growFileIfNeeded on nodes.dat ...
OpenData ==
    /\ pc = "down"
    /\ openN' \in MaxIds
    /\ datSize' = Larger(DataBytes(openN'), datSize)
    /\ mapSize' = datSize'
    /\ pc' = "openBitmap"
    /\ UNCHANGED <<bmpSize, mapBmp, data, pass, crashes, torn>>

\* ... then on nodes.dat.bmp.
OpenBitmap ==
    /\ pc = "openBitmap"
    /\ bmpSize' = Larger(BitmapBytes(openN), bmpSize)
    /\ mapBmp' = bmpSize'
    /\ pc' = "ready"
    /\ UNCHANGED <<datSize, mapSize, openN, data, pass, crashes, torn>>

Next ==
    \/ Download \/ Call \/ SetSequence
    \/ GrowData \/ GrowBitmap \/ DropUpdate
    \/ WriteLon \/ WriteLat \/ SetBit
    \/ RemoveOutside \/ ZeroRecord \/ ClearBit
    \/ Close \/ Crash \/ OpenData \/ OpenBitmap

Spec == Init /\ [][Next]_vars

----------------------------------------------------------------------------
(* Properties *)

\* Every variable has its type: sizes are byte counts, the populated ids and
\* the applied records range over the ids and points of the diffs.
TypeOK ==
    /\ datSize \in Nat /\ bmpSize \in Nat
    /\ mapSize \in Nat /\ mapBmp \in Nat
    /\ dat \in [Ids -> Int \X Int]
    /\ bits \subseteq Ids
    /\ pc \in {"down", "openBitmap", "ready", "begin", "growBitmap",
               "writeLat", "setBit", "clearBit"}
    /\ openN \in MaxIds
    /\ diff \in Seq(Records) /\ at \in 0..Len(diff)
    /\ crashes \in 0..MaxCrashes
    /\ before \in [Ids -> Points \cup {None}]
    /\ want \in [Ids -> Points \cup {None}]
    /\ half \subseteq Ids
    /\ torn \in BOOLEAN

\* Whatever call a crash interrupts, no bit is ever set on disk for an id
\* whose record nodes.dat does not hold (the reason growMergedIfNeeded gives
\* for growing .dat before .bmp).
BitHasData == \A id \in bits : InData(id, datSize)

\* Between two records, what select() returns for an id this pass has applied a
\* record of is that record's position or nothing, whatever earlier passes
\* broke off and wherever: never an older, a half-written or a zeroed record.
\* For the other ids it is the position from before the diff, one a broken pass
\* took from this same diff, or nothing - unless a crash left the record half
\* written, which only lasts until the replay comes to that id.
SelectNeverStale ==
    pc = "ready" => \A id \in Ids :
        \/ select(id) \in {None, want[id]}
        \/ /\ InDiff(id) /\ ~Redone(id)
           /\ \/ id \in half
              \/ \E k \in DOMAIN diff :
                     diff[k].id = id /\ select(id) = Value(diff[k])

\* As long as no crash fell between the growth of the two files, replays are
\* exact: select() returns precisely what the stored diffs and the records of
\* this pass say for every id the diff does not touch and every id the pass has
\* come to, so for every id once the pass is through; also for ids that were
\* past the capacity when they arrived and after restarts with a smaller -n.
UntornStoreIsExact ==
    pc = "ready" /\ ~torn =>
        \A id \in Ids : Redone(id) \/ ~InDiff(id) => select(id) = want[id]

\* The claim of growMergedIfNeeded's comment that no cross-file atomicity is
\* needed: once the diff is replayed, select() finds its records.
NoLostUpdate ==
    pc = "ready" /\ at = Len(diff) => \A id \in Ids : select(id) = want[id]

\* A file is never cut: no restart (stale, smaller -n included) and no growth
\* gives up capacity, or a set bit, that an earlier process had.
CapacityNeverLost ==
    [][datSize' >= datSize /\ bmpSize' >= bmpSize]_vars

=============================================================================
