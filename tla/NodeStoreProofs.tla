-------------------------- MODULE NodeStoreProofs --------------------------
(***************************************************************************)
(* Proofs about NodeStore, for every set of ids and points, every list of  *)
(* -n values and every number of crashes.                                  *)
(*                                                                         *)
(* The properties are not inductive by themselves.  IInv adds what the     *)
(* code relies on between its steps: the sizes the process has mapped are  *)
(* those of the files, the bitmap is exactly as long as the data needs     *)
(* except while one of the two files is being grown, every id this pass    *)
(* has come to (or the diff does not touch) reads as the histories say,    *)
(* and the others hold what a broken pass may have left of this diff.      *)
(***************************************************************************)
EXTENDS NodeStore, TLAPS

\* The process is running and has both files mapped.
Mapped == pc \notin {"down", "openBitmap"}

\* The mapped sizes are the file sizes.
SizesMapped ==
    /\ pc # "down" => mapSize = datSize
    /\ Mapped => mapBmp = bmpSize

\* The bitmap is never longer than the data file needs, and it is exactly that
\* long, unless a growth is half done or a crash tore one.
BitmapFits ==
    /\ bmpSize <= BitmapFor(datSize)
    /\ ~torn /\ pc \notin {"growBitmap", "openBitmap"} =>
           bmpSize = BitmapFor(datSize)
    /\ ~torn /\ pc = "openBitmap" =>
           Larger(BitmapBytes(openN), bmpSize) = BitmapFor(datSize)
    /\ pc = "openBitmap" => DataBytes(openN) <= datSize

\* Set bits have their byte and their record, and so do applied updates.
RecordsInFiles ==
    /\ \A id \in bits : InData(id, datSize) /\ InBitmap(id, bmpSize)
    /\ \A id \in Ids : want[id] # None => InData(id, datSize)
    /\ \A id \in Ids : before[id] # None => InData(id, datSize)

\* What each step of update() and remove() has established so far.
StepFacts ==
    /\ pc \in {"begin", "growBitmap", "writeLat", "setBit", "clearBit"} =>
           at < Len(diff)
    /\ pc \in {"down", "openBitmap"} => at = 0
    /\ pc \in {"growBitmap", "writeLat", "setBit"} => op.kind = "update"
    /\ pc \in {"writeLat", "setBit", "clearBit"} => InData(op.id, mapSize)
    /\ pc = "clearBit" => op.kind = "remove"
    /\ pc = "writeLat" => dat[op.id][1] = op.pt[1]
    /\ pc = "setBit" => dat[op.id] = op.pt

\* update() or remove() has begun to write the record of the id.
InFlight(id) == pc \in {"writeLat", "setBit", "clearBit"} /\ id = op.id

\* Ids the pass has come to, and ids the diff does not touch, read as owed.
Settled ==
    \A id \in Ids : (Redone(id) \/ ~InDiff(id)) /\ ~InFlight(id) =>
        /\ id \in bits => dat[id] = want[id]
        /\ id \notin bits /\ ~torn => want[id] = None

\* The others hold the old position, one of this diff, or half a record.
Pending ==
    \A id \in Ids : InDiff(id) /\ ~Redone(id) /\ ~InFlight(id) /\ id \in bits =>
        \/ id \in half
        \/ dat[id] = want[id]
        \/ \E k \in DOMAIN diff : diff[k].id = id /\ dat[id] = Value(diff[k])

\* What the histories say, and that a half record is one the pass has still to
\* come to.
Owed ==
    /\ \A id \in Ids : ~Redone(id) => want[id] = before[id]
    /\ \A id \in Ids :
           \/ want[id] = before[id]
           \/ \E k \in DOMAIN diff : diff[k].id = id /\ want[id] = Value(diff[k])
    /\ \A id \in half : InDiff(id) /\ ~Redone(id)

IInv ==
    /\ TypeOK
    /\ SizesMapped
    /\ BitmapFits
    /\ RecordsInFiles
    /\ StepFacts
    /\ Settled
    /\ Pending
    /\ Owed

----------------------------------------------------------------------------
(* Arithmetic of the sizes *)

\* Larger is an upper bound of its arguments and one of them.
LEMMA LargerFacts ==
    ASSUME NEW a \in Nat, NEW b \in Nat
    PROVE  /\ Larger(a, b) \in Nat
           /\ Larger(a, b) >= a /\ Larger(a, b) >= b
           /\ Larger(a, b) = a \/ Larger(a, b) = b
  BY DEF Larger

\* A data file of (maxId + 1) records needs the bitmap createFile gives it.
LEMMA BitmapOfRecords ==
    ASSUME NEW n \in Nat
    PROVE  /\ DataBytes(n) \in Nat
           /\ BitmapBytes(n) \in Nat
           /\ BitmapFor(DataBytes(n)) = BitmapBytes(n)
  BY DEF DataBytes, BitmapBytes, BitmapFor, REC_SIZE

\* A longer data file never needs a shorter bitmap.
LEMMA BitmapMonotone ==
    ASSUME NEW a \in Nat, NEW b \in Nat, a <= b
    PROVE  /\ BitmapFor(a) \in Nat
           /\ BitmapFor(b) \in Nat
           /\ BitmapFor(a) <= BitmapFor(b)
  BY DEF BitmapFor, REC_SIZE

\* The bitmap that goes with a data file has a byte for every record in it.
LEMMA BitmapCovers ==
    ASSUME NEW id \in Nat, NEW size \in Nat, InData(id, size)
    PROVE  InBitmap(id, BitmapFor(size))
  BY DEF InData, InBitmap, BitmapFor, REC_SIZE

\* Files that grow keep what they held.
LEMMA CoverMonotone ==
    ASSUME NEW id \in Nat, NEW a \in Nat, NEW b \in Nat, a <= b
    PROVE  /\ InData(id, a) => InData(id, b)
           /\ InBitmap(id, a) => InBitmap(id, b)
  BY DEF InData, InBitmap, REC_SIZE

\* Growth makes room for the id and never shrinks the file.
LEMMA GrownSizeFacts ==
    ASSUME NEW id \in Nat, NEW size \in Nat
    PROVE  /\ GrownSize(id, size) \in Nat
           /\ GrownSize(id, size) >= size
           /\ InData(id, GrownSize(id, size))
  BY NodeStoreAssumption DEF GrownSize, Larger, DataBytes, InData, REC_SIZE

----------------------------------------------------------------------------
(* The inductive invariant *)

\* A blank store, as createFile leaves it, satisfies the invariant.
LEMMA InitIInv == Init => IInv
  <1> SUFFICES ASSUME Init PROVE IInv
      OBVIOUS
  <1> USE NodeStoreAssumption
  <1>1. openN \in Nat /\ datSize \in Nat /\ bmpSize \in Nat
        BY BitmapOfRecords DEF Init
  <1>2. TypeOK
    <2>1. torn \in BOOLEAN
          BY Zenon DEF Init
    <2>2. diff \in Seq(Records) /\ at \in 0..Len(diff)
          BY DEF Init
    <2> QED
        BY <1>1, <2>1, <2>2 DEF Init, TypeOK, Origin
  <1>3. BitmapFits
        BY <1>1, BitmapOfRecords DEF Init, BitmapFits
  <1>4. RecordsInFiles /\ StepFacts
        BY DEF Init, RecordsInFiles, StepFacts
  <1>5. Settled /\ Pending /\ Owed
        BY DEF Init, Settled, Pending, Owed, InDiff, Redone
  <1> QED
      BY <1>1, <1>2, <1>3, <1>4, <1>5 DEF Init, IInv, SizesMapped, Mapped

\* The record in flight is one of the diff and names an id of the store.
LEMMA OpFacts ==
    ASSUME TypeOK, at < Len(diff)
    PROVE  /\ at + 1 \in DOMAIN diff
           /\ op \in Records
           /\ op.kind \in {"update", "remove"}
           /\ op.id \in Ids /\ op.id \in Nat
           /\ op.pt \in Int \X Int
           /\ op.kind = "update" => op.pt \in Points
           /\ Value(op) \in Points \cup {None}
           /\ InDiff(op.id)
  <1>1. at + 1 \in DOMAIN diff /\ op \in Records
        BY DEF TypeOK, op
  <1>2. /\ op.kind \in {"update", "remove"} /\ op.id \in Ids
        /\ op.kind = "update" => op.pt \in Points
        /\ op.pt \in Points \cup {Origin}
        BY <1>1 DEF Records, Updates, Removes
  <1>3. op.pt \in Int \X Int /\ op.id \in Nat
    <2>1. Origin \in Int \X Int
          BY DEF Origin
    <2> QED
        BY <1>2, <2>1, NodeStoreAssumption
  <1>4. InDiff(op.id)
        BY <1>1 DEF InDiff, op
  <1> QED
      BY <1>1, <1>2, <1>3, <1>4 DEF Value

\* A step that leaves the files and the maps alone keeps what relates them.
LEMMA FilesUntouched ==
    ASSUME SizesMapped, BitmapFits,
           UNCHANGED <<files, maps, torn>>,
           pc \notin {"down", "openBitmap", "growBitmap"},
           pc' \notin {"down", "openBitmap", "growBitmap"}
    PROVE  SizesMapped' /\ BitmapFits'
  BY DEF SizesMapped, Mapped, BitmapFits, files, maps

\* A step outside the stores of update() and remove() keeps the contents.
LEMMA QuietKeeps ==
    ASSUME IInv, UNCHANGED <<data, pass, torn>>,
           pc \notin {"writeLat", "setBit", "clearBit"},
           pc' \notin {"writeLat", "setBit", "clearBit"}
    PROVE  /\ Settled' /\ Pending' /\ Owed'
           /\ dat' = dat /\ bits' = bits /\ diff' = diff /\ at' = at
           /\ before' = before /\ want' = want /\ half' = half /\ op' = op
  <1>1. /\ dat' = dat /\ bits' = bits /\ diff' = diff /\ at' = at
        /\ before' = before /\ want' = want /\ half' = half /\ torn' = torn
        BY DEF data, pass
  <1>2. \A id : (Redone(id)' <=> Redone(id)) /\ (InDiff(id)' <=> InDiff(id))
                /\ ~InFlight(id) /\ ~InFlight(id)'
        BY <1>1 DEF Redone, InDiff, InFlight
  <1>3. Settled'
        BY <1>1, <1>2 DEF IInv, Settled
  <1>4. Pending'
        BY <1>1, <1>2 DEF IInv, Pending, Value
  <1>5. Owed'
        BY <1>1, <1>2 DEF IInv, Owed, Value
  <1> QED
      BY <1>1, <1>3, <1>4, <1>5 DEF op

\* A store into the record in flight disturbs no other id.
LEMMA StoreKeeps ==
    ASSUME IInv, UNCHANGED <<files, maps, bits, pass, torn>>,
           at < Len(diff),
           pc \in {"begin", "writeLat", "setBit", "clearBit"},
           pc' \in {"writeLat", "setBit", "clearBit"},
           \A id \in Ids : id # op.id => dat'[id] = dat[id]
    PROVE  /\ SizesMapped' /\ BitmapFits' /\ RecordsInFiles'
           /\ Settled' /\ Pending' /\ Owed'
           /\ diff' = diff /\ at' = at /\ op' = op /\ mapSize' = mapSize
  <1>1. /\ bits' = bits /\ diff' = diff /\ at' = at
        /\ before' = before /\ want' = want /\ half' = half /\ torn' = torn
        /\ datSize' = datSize /\ bmpSize' = bmpSize /\ mapSize' = mapSize
        BY DEF pass, files, maps
  <1>2. op' = op
        BY <1>1 DEF op
  <1>3. \A id : (Redone(id)' <=> Redone(id)) /\ (InDiff(id)' <=> InDiff(id))
                /\ (InFlight(id)' <=> id = op.id)
                /\ (id # op.id => ~InFlight(id))
        BY <1>1, <1>2 DEF Redone, InDiff, InFlight
  <1>4. SizesMapped' /\ BitmapFits'
        BY FilesUntouched DEF IInv
  <1>5. RecordsInFiles'
        BY <1>1 DEF IInv, RecordsInFiles
  <1>6. Settled'
        BY <1>1, <1>3 DEF IInv, Settled
  <1>7. Pending'
        BY <1>1, <1>3 DEF IInv, Pending, Value
  <1>8. Owed'
        BY <1>1, <1>3 DEF IInv, Owed, Value
  <1> QED
      BY <1>1, <1>2, <1>4, <1>5, <1>6, <1>7, <1>8

\* A call that returns v for its id, and leaves the store so, keeps the
\* invariant.
LEMMA ReturnKeeps ==
    ASSUME IInv, NEW v, Return(v),
           UNCHANGED <<files, maps, dat, crashes, torn>>,
           at < Len(diff),
           pc \in {"begin", "setBit", "clearBit"},
           v \in {want[op.id], Value(op)},
           bits' \subseteq Ids,
           \A id \in Ids : id # op.id => (id \in bits' <=> id \in bits),
           op.id \in bits' =>
               dat[op.id] = v /\ InData(op.id, datSize) /\ InBitmap(op.id, bmpSize),
           op.id \notin bits' /\ ~torn => v = None,
           v # None => InData(op.id, datSize)
    PROVE  IInv'
  <1> USE DEF IInv
  <1>1. /\ diff' = diff /\ at' = at + 1 /\ before' = before /\ torn' = torn
        /\ want' = [want EXCEPT ![op.id] = v] /\ half' = half \ {op.id}
        /\ datSize' = datSize /\ bmpSize' = bmpSize /\ dat' = dat
        /\ mapSize' = mapSize /\ mapBmp' = mapBmp /\ openN' = openN
        /\ crashes' = crashes /\ pc' = "ready"
        BY DEF Return, files, maps
  <1>2. op.id \in Ids /\ Value(op) \in Points \cup {None} /\ InDiff(op.id)
        /\ at + 1 \in DOMAIN diff
        BY OpFacts
  <1>3. want \in [Ids -> Points \cup {None}]
        BY DEF TypeOK
  <1>4. v \in Points \cup {None}
        BY <1>2, <1>3
  <1>5. /\ want' \in [Ids -> Points \cup {None}]
        /\ want'[op.id] = v
        /\ \A id \in Ids : id # op.id => want'[id] = want[id]
        BY <1>1, <1>2, <1>3, <1>4
  <1>6. TypeOK'
    <2>1. at' \in 0..Len(diff')
          BY <1>1 DEF TypeOK
    <2> QED
        BY <1>1, <1>5, <2>1 DEF TypeOK
  <1>7. SizesMapped' /\ BitmapFits'
        BY <1>1, FilesUntouched
  <1>8. RecordsInFiles'
        BY <1>1, <1>2, <1>5 DEF RecordsInFiles, TypeOK
  <1>9. StepFacts'
        BY <1>1 DEF StepFacts
  <1>10. \A id : /\ Redone(id)' <=> Redone(id) \/ id = op.id
                 /\ InDiff(id)' <=> InDiff(id)
                 /\ ~InFlight(id)'
                 /\ id # op.id => ~InFlight(id)
    <2>1. \A k : k \in 1..(at + 1) <=> k \in 1..at \/ k = at + 1
          BY DEF TypeOK
    <2> QED
        BY <1>1, <2>1 DEF Redone, InDiff, InFlight, op
  <1>11. Settled'
        BY <1>1, <1>5, <1>10 DEF Settled
  <1>12. Pending'
        BY <1>1, <1>5, <1>10 DEF Pending, Value
  <1>13. Owed'
    <2>1. \A id \in Ids :
              \/ want'[id] = before'[id]
              \/ \E k \in DOMAIN diff' : diff'[k].id = id /\ want'[id] = Value(diff[k])
      <3>1. Value(op) = Value(diff[at + 1]) /\ diff[at + 1].id = op.id
            BY DEF op
      <3> QED
          BY <1>1, <1>2, <1>5, <3>1 DEF Owed
    <2>2. \A id \in Ids : ~Redone(id)' => want'[id] = before'[id]
          BY <1>1, <1>5, <1>10 DEF Owed
    <2>3. \A id \in half' : InDiff(id)' /\ ~Redone(id)'
          BY <1>1, <1>10 DEF Owed
    <2> QED
        BY <1>1, <2>1, <2>2, <2>3 DEF Owed, Value
  <1> QED
      BY <1>6, <1>7, <1>8, <1>9, <1>11, <1>12, <1>13

\* Every step keeps the inductive invariant.
LEMMA NextIInv == IInv /\ [Next]_vars => IInv'
  <1> SUFFICES ASSUME IInv, [Next]_vars PROVE IInv'
      OBVIOUS
  <1> USE NodeStoreAssumption DEF IInv
  <1>0. CASE UNCHANGED vars
    <2>1. op' = op /\ \A id : (Redone(id)' <=> Redone(id))
              /\ (InDiff(id)' <=> InDiff(id)) /\ (InFlight(id)' <=> InFlight(id))
          BY <1>0 DEF vars, op, Redone, InDiff, InFlight
    <2>2. TypeOK' /\ SizesMapped' /\ BitmapFits' /\ RecordsInFiles'
          BY <1>0 DEF vars, TypeOK, SizesMapped, Mapped, BitmapFits, RecordsInFiles
    <2>3. StepFacts' /\ Settled'
          BY <1>0, <2>1 DEF vars, StepFacts, Settled
    <2>4. Pending' /\ Owed'
          BY <1>0, <2>1 DEF vars, Pending, Owed, Value
    <2> QED
        BY <2>2, <2>3, <2>4
  <1>1. at < Len(diff) =>
            /\ op \in Records /\ op.kind \in {"update", "remove"}
            /\ op.id \in Ids /\ op.id \in Nat /\ op.pt \in Int \X Int
            /\ op.kind = "update" => op.pt \in Points
            /\ InDiff(op.id)
        BY OpFacts
  <1>2. CASE Download
    <2>1. /\ diff = <<>> /\ at' = at /\ dat' = dat /\ bits' = bits
          /\ before' = before /\ want' = want /\ half' = half /\ torn' = torn
          /\ pc = "ready" /\ pc' = "ready" /\ crashes' = crashes
          /\ UNCHANGED <<files, maps, torn>>
          BY <1>2 DEF Download, data
    <2>2. at = 0
          BY <2>1 DEF TypeOK
    <2>3. diff' \in Seq(Records)
          BY <1>2 DEF Download, Diffs
    <2>4. at' \in 0..Len(diff')
          BY <2>1, <2>2, <2>3
    <2>5. TypeOK'
          BY <2>1, <2>3, <2>4 DEF files, maps, TypeOK
    <2>6. SizesMapped' /\ BitmapFits'
          BY <2>1, FilesUntouched
    <2>7. RecordsInFiles' /\ StepFacts'
          BY <2>1 DEF files, RecordsInFiles, StepFacts
    <2>8. \A id : ~Redone(id) /\ ~Redone(id)' /\ ~InDiff(id)
                  /\ ~InFlight(id) /\ ~InFlight(id)'
          BY <2>1, <2>2 DEF Redone, InDiff, InFlight
    <2>9. half' = {} /\ \A id \in Ids : want[id] = before[id]
          BY <2>1, <2>8 DEF Owed, TypeOK
    <2>10. Settled' /\ Pending' /\ Owed'
          BY <2>1, <2>8, <2>9 DEF Settled, Pending, Owed
    <2> QED
        BY <2>5, <2>6, <2>7, <2>10
  <1>3. CASE Call
    <2>1. SizesMapped' /\ BitmapFits'
          BY <1>3, FilesUntouched DEF Call
    <2>2. /\ Settled' /\ Pending' /\ Owed' /\ dat' = dat /\ bits' = bits
          /\ diff' = diff /\ at' = at /\ before' = before /\ want' = want
          /\ half' = half
          BY <1>3, QuietKeeps DEF Call
    <2>3. TypeOK' /\ RecordsInFiles' /\ StepFacts'
          BY <1>3, <2>2
          DEF Call, files, maps, TypeOK, RecordsInFiles, StepFacts
    <2> QED
        BY <2>1, <2>2, <2>3
  <1>4. CASE SetSequence
    <2>1. /\ at = Len(diff) /\ diff' = <<>> /\ at' = 0 /\ dat' = dat /\ bits' = bits
          /\ before' = want /\ want' = want /\ half' = half /\ torn' = torn
          /\ pc = "ready" /\ pc' = "ready" /\ crashes' = crashes
          /\ UNCHANGED <<files, maps, torn>>
          BY <1>4 DEF SetSequence, data
    <2>2. \A id : (InDiff(id) <=> Redone(id)) /\ ~Redone(id)' /\ ~InDiff(id)'
                  /\ ~InFlight(id) /\ ~InFlight(id)'
      <3>1. DOMAIN diff = 1..at /\ DOMAIN diff' = {} /\ 1..at' = {}
            BY <2>1 DEF TypeOK
      <3> QED
          BY <2>1, <3>1 DEF Redone, InDiff, InFlight
    <2>3. half = {}
          BY <2>2 DEF Owed
    <2>4. TypeOK'
          BY <2>1 DEF files, maps, TypeOK
    <2>5. SizesMapped' /\ BitmapFits'
          BY <2>1, FilesUntouched
    <2>6. RecordsInFiles' /\ StepFacts'
          BY <2>1 DEF files, RecordsInFiles, StepFacts
    <2>7. Settled' /\ Pending' /\ Owed'
          BY <2>1, <2>2, <2>3 DEF Settled, Pending, Owed
    <2> QED
        BY <2>4, <2>5, <2>6, <2>7
  <1>5. CASE GrowData
    <2>1. at < Len(diff) /\ op.kind = "update" /\ mapSize = datSize
          /\ op.id \in Nat
          BY <1>1, <1>5 DEF GrowData, StepFacts, SizesMapped
    <2>2. datSize' \in Nat /\ datSize <= datSize' /\ InData(op.id, datSize')
          BY <1>5, <2>1, GrownSizeFacts DEF GrowData, TypeOK
    <2>3. BitmapFor(datSize) <= BitmapFor(datSize')
          /\ BitmapFor(datSize) \in Nat /\ BitmapFor(datSize') \in Nat
          BY <2>2, BitmapMonotone DEF TypeOK
    <2>4. SizesMapped' /\ BitmapFits'
          BY <1>5, <2>3 DEF GrowData, TypeOK, SizesMapped, Mapped, BitmapFits
    <2>5. /\ Settled' /\ Pending' /\ Owed' /\ dat' = dat /\ bits' = bits
          /\ diff' = diff /\ at' = at /\ before' = before /\ want' = want
          /\ half' = half /\ op' = op
          BY <1>5, QuietKeeps DEF GrowData
    <2>6. RecordsInFiles'
          BY <1>5, <2>2, <2>5, CoverMonotone
          DEF GrowData, TypeOK, RecordsInFiles
    <2>7. TypeOK' /\ StepFacts'
          BY <1>5, <2>1, <2>2, <2>5 DEF GrowData, TypeOK, StepFacts
    <2> QED
        BY <2>4, <2>5, <2>6, <2>7
  <1>6. CASE GrowBitmap
    <2>1. mapSize = datSize /\ bmpSize' = BitmapFor(datSize)
          BY <1>6 DEF GrowBitmap, SizesMapped
    <2>2. bmpSize' \in Nat /\ bmpSize <= bmpSize'
          BY <2>1, BitmapMonotone DEF TypeOK, BitmapFits
    <2>3. SizesMapped' /\ BitmapFits'
          BY <1>6, <2>1, <2>2 DEF GrowBitmap, SizesMapped, Mapped, BitmapFits
    <2>4. /\ Settled' /\ Pending' /\ Owed' /\ dat' = dat /\ bits' = bits
          /\ diff' = diff /\ at' = at /\ before' = before /\ want' = want
          /\ half' = half
          BY <1>6, QuietKeeps DEF GrowBitmap
    <2>5. RecordsInFiles'
          BY <1>6, <2>2, <2>4, CoverMonotone
          DEF GrowBitmap, TypeOK, RecordsInFiles
    <2>6. TypeOK' /\ StepFacts'
          BY <1>6, <2>2, <2>4 DEF GrowBitmap, TypeOK, StepFacts
    <2> QED
        BY <2>3, <2>4, <2>5, <2>6
  <1>7. CASE DropUpdate
    <2>1. at < Len(diff) /\ op.id \in Ids /\ mapSize = datSize
          BY <1>1, <1>7 DEF DropUpdate, StepFacts, SizesMapped
    <2>2. op.id \notin bits /\ want[op.id] = None
          BY <1>7, <2>1 DEF DropUpdate, RecordsInFiles
    <2>3. bits' = bits /\ dat' = dat
          BY <1>7 DEF DropUpdate, data
    <2>4. Return(want[op.id]) /\ UNCHANGED <<files, maps, dat, crashes, torn>>
          BY <1>7, <2>3 DEF DropUpdate
    <2> QED
        BY <1>7, <2>1, <2>2, <2>3, <2>4, ReturnKeeps DEF DropUpdate, TypeOK
  <1>8. CASE WriteLon
    <2>1. at < Len(diff) /\ op.id \in Ids /\ op.pt \in Int \X Int
          /\ dat[op.id] \in Int \X Int /\ op.kind = "update"
          BY <1>1, <1>8 DEF WriteLon, StepFacts, TypeOK
    <2>2. dat' \in [Ids -> Int \X Int]
          /\ dat'[op.id] = <<op.pt[1], dat[op.id][2]>>
          /\ \A id \in Ids : id # op.id => dat'[id] = dat[id]
          BY <1>8, <2>1 DEF WriteLon, TypeOK
    <2>3. /\ SizesMapped' /\ BitmapFits' /\ RecordsInFiles'
          /\ Settled' /\ Pending' /\ Owed'
          /\ diff' = diff /\ at' = at /\ op' = op /\ mapSize' = mapSize
          BY <1>8, <2>1, <2>2, StoreKeeps DEF WriteLon
    <2>4. TypeOK'
          BY <1>8, <2>2 DEF WriteLon, files, maps, pass, TypeOK
    <2>5. StepFacts'
          BY <1>8, <2>1, <2>2, <2>3 DEF WriteLon, StepFacts
    <2> QED
        BY <2>3, <2>4, <2>5
  <1>9. CASE WriteLat
    <2>1. at < Len(diff) /\ op.id \in Ids /\ op.pt \in Int \X Int
          /\ dat[op.id] \in Int \X Int /\ op.kind = "update"
          /\ dat[op.id][1] = op.pt[1] /\ InData(op.id, mapSize)
          BY <1>1, <1>9 DEF WriteLat, StepFacts, TypeOK
    <2>2. dat' \in [Ids -> Int \X Int]
          /\ dat'[op.id] = <<dat[op.id][1], op.pt[2]>>
          /\ \A id \in Ids : id # op.id => dat'[id] = dat[id]
          BY <1>9, <2>1 DEF WriteLat, TypeOK
    <2>3. /\ SizesMapped' /\ BitmapFits' /\ RecordsInFiles'
          /\ Settled' /\ Pending' /\ Owed'
          /\ diff' = diff /\ at' = at /\ op' = op /\ mapSize' = mapSize
          BY <1>9, <2>1, <2>2, StoreKeeps DEF WriteLat
    <2>4. TypeOK'
          BY <1>9, <2>2 DEF WriteLat, files, maps, pass, TypeOK
    <2>5. dat'[op.id] = op.pt
          BY <2>1, <2>2
    <2>6. StepFacts'
          BY <1>9, <2>1, <2>3, <2>5 DEF WriteLat, StepFacts
    <2> QED
        BY <2>3, <2>4, <2>6
  <1>10. CASE SetBit
    <2>1. /\ at < Len(diff) /\ op.id \in Ids /\ op.id \in Nat
          /\ dat[op.id] = op.pt /\ Value(op) = op.pt
          BY <1>1, <1>10 DEF SetBit, StepFacts, Value
    <2>2. InData(op.id, datSize) /\ mapBmp = bmpSize
          BY <1>10 DEF SetBit, StepFacts, SizesMapped, Mapped
    <2>3. ~torn => InBitmap(op.id, mapBmp)
          BY <1>10, <2>1, <2>2, BitmapCovers DEF SetBit, BitmapFits, TypeOK
    <2>4. bits' = IF InBitmap(op.id, mapBmp) THEN bits \cup {op.id} ELSE bits
          BY <1>10 DEF SetBit, bitmapSet
    <2>5. op.id \in bits' => InBitmap(op.id, bmpSize)
          BY <2>2, <2>4 DEF RecordsInFiles
    <2>6. bits' \subseteq Ids
          /\ \A id \in Ids : id # op.id => (id \in bits' <=> id \in bits)
          BY <2>1, <2>4 DEF TypeOK
    <2>7. op.id \in bits' \/ torn
          BY <2>3, <2>4
    <2> QED
        BY <1>10, <2>1, <2>2, <2>5, <2>6, <2>7, ReturnKeeps DEF SetBit
  <1>11. CASE RemoveOutside
    <2>1. /\ at < Len(diff) /\ op.id \in Ids /\ mapSize = datSize
          /\ Value(op) = None
          BY <1>1, <1>11 DEF RemoveOutside, StepFacts, SizesMapped, Value
    <2>2. op.id \notin bits
          BY <1>11, <2>1 DEF RemoveOutside, RecordsInFiles
    <2>3. bits' = bits /\ dat' = dat
          BY <1>11 DEF RemoveOutside, data
    <2>4. Return(Value(op)) /\ UNCHANGED <<files, maps, dat, crashes, torn>>
          BY <1>11, <2>3 DEF RemoveOutside
    <2> QED
        BY <1>11, <2>1, <2>2, <2>3, <2>4, ReturnKeeps DEF RemoveOutside, TypeOK
  <1>12. CASE ZeroRecord
    <2>1. at < Len(diff) /\ op.id \in Ids /\ op.kind = "remove"
          /\ InData(op.id, mapSize)
          BY <1>1, <1>12 DEF ZeroRecord, StepFacts
    <2>2. dat' \in [Ids -> Int \X Int]
          /\ \A id \in Ids : id # op.id => dat'[id] = dat[id]
          BY <1>12, <2>1 DEF ZeroRecord, TypeOK, Origin
    <2>3. /\ SizesMapped' /\ BitmapFits' /\ RecordsInFiles'
          /\ Settled' /\ Pending' /\ Owed'
          /\ diff' = diff /\ at' = at /\ op' = op /\ mapSize' = mapSize
          BY <1>12, <2>1, <2>2, StoreKeeps DEF ZeroRecord
    <2>4. TypeOK'
          BY <1>12, <2>2 DEF ZeroRecord, files, maps, pass, TypeOK
    <2>5. StepFacts'
          BY <1>12, <2>1, <2>3 DEF ZeroRecord, StepFacts
    <2> QED
        BY <2>3, <2>4, <2>5
  <1>13. CASE ClearBit
    <2>1. /\ at < Len(diff) /\ op.id \in Ids /\ mapBmp = bmpSize
          /\ Value(op) = None
          BY <1>1, <1>13 DEF ClearBit, StepFacts, SizesMapped, Mapped, Value
    <2>2. op.id \notin bits'
          BY <1>13, <2>1 DEF ClearBit, RecordsInFiles
    <2>3. bits' \subseteq Ids
          /\ \A id \in Ids : id # op.id => (id \in bits' <=> id \in bits)
          BY <1>13 DEF ClearBit, TypeOK
    <2> QED
        BY <1>13, <2>1, <2>2, <2>3, ReturnKeeps DEF ClearBit
  <1>14. CASE Close
    <2>1. SizesMapped' /\ BitmapFits'
          BY <1>14 DEF Close, files, SizesMapped, Mapped, BitmapFits
    <2>2. /\ Settled' /\ Pending' /\ Owed' /\ dat' = dat /\ bits' = bits
          /\ diff' = diff /\ at' = at /\ before' = before /\ want' = want
          /\ half' = half
          BY <1>14, QuietKeeps DEF Close
    <2>3. at = 0
          BY <1>14 DEF Close, TypeOK
    <2>4. TypeOK' /\ RecordsInFiles' /\ StepFacts'
          BY <1>14, <2>2, <2>3 DEF Close, files, TypeOK, RecordsInFiles, StepFacts
    <2> QED
        BY <2>1, <2>2, <2>4
  <1>15. CASE Crash
    <2>1. bmpSize \in Nat /\ BitmapFor(datSize) \in Nat
      <3>1. bmpSize \in Nat /\ datSize \in Nat /\ datSize <= datSize
            BY DEF TypeOK
      <3> QED
          BY <3>1, BitmapMonotone
    <2>2. (~torn' => ~torn /\ bmpSize = BitmapFor(datSize)) /\ torn' \in BOOLEAN
      <3>1. ~torn' => ~torn /\ ~(bmpSize < BitmapFor(datSize))
            BY <1>15, Zenon DEF Crash, Dies
      <3>2. torn' \in BOOLEAN
            BY <1>15, Zenon DEF Crash, Dies
      <3> QED
          BY <2>1, <3>1, <3>2 DEF BitmapFits
    <2>3. /\ dat' = dat /\ bits' = bits /\ diff' = diff /\ at' = 0
          /\ before' = before /\ want' = before /\ pc' = "down"
          /\ half' = IF pc \in {"writeLat", "clearBit"} THEN half \cup {op.id}
                                                        ELSE half
          /\ datSize' = datSize /\ bmpSize' = bmpSize /\ openN' = openN
          /\ mapSize' = 0 /\ mapBmp' = 0
          /\ crashes' = crashes + 1 /\ crashes < MaxCrashes
          BY <1>15 DEF Crash, Dies, files, data
    <2>4. \A id : ~Redone(id)' /\ (InDiff(id)' <=> InDiff(id)) /\ ~InFlight(id)'
          BY <2>3 DEF Redone, InDiff, InFlight
    <2>5. half' \subseteq Ids /\ half \subseteq half'
          /\ (pc \in {"writeLat", "clearBit"} => op.id \in half')
          /\ \A id \in half' : InDiff(id)
          BY <1>1, <2>3 DEF TypeOK, StepFacts, Owed
    <2>6. TypeOK'
          BY <2>2, <2>3, <2>5 DEF TypeOK
    <2>7. SizesMapped' /\ BitmapFits'
          BY <2>2, <2>3 DEF SizesMapped, Mapped, BitmapFits
    <2>8. RecordsInFiles' /\ StepFacts'
          BY <2>3 DEF RecordsInFiles, StepFacts
    <2>9. Settled'
      <3> SUFFICES ASSUME NEW id \in Ids, ~InDiff(id)
                   PROVE  /\ id \in bits => dat[id] = before[id]
                          /\ id \notin bits /\ ~torn => before[id] = None
          BY <2>2, <2>3, <2>4 DEF Settled
      <3>1. ~Redone(id) /\ ~InFlight(id)
            BY <1>1 DEF Redone, InDiff, InFlight, StepFacts, TypeOK
      <3> QED
          BY <3>1 DEF Settled, Owed
    <2>10. Pending'
      <3> SUFFICES ASSUME NEW id \in Ids, InDiff(id), id \in bits, id \notin half'
                   PROVE  \/ dat[id] = before[id]
                          \/ \E k \in DOMAIN diff :
                                 diff[k].id = id /\ dat[id] = Value(diff[k])
          BY <2>3, <2>4 DEF Pending, Value
      <3>1. CASE InFlight(id)
        <4>1. pc = "setBit" /\ id = op.id
              BY <3>1, <2>5 DEF InFlight
        <4>2. at < Len(diff) /\ dat[id] = op.pt /\ op.kind = "update"
              BY <4>1 DEF StepFacts
        <4>3. at + 1 \in DOMAIN diff
              BY <4>2 DEF TypeOK
        <4> QED
            BY <4>1, <4>2, <4>3 DEF op, Value
      <3>2. CASE ~InFlight(id) /\ Redone(id)
            BY <3>2 DEF Settled, Owed
      <3>3. CASE ~InFlight(id) /\ ~Redone(id)
            BY <3>3, <2>5 DEF Pending, Owed
      <3> QED
          BY <3>1, <3>2, <3>3
    <2>11. Owed'
          BY <2>3, <2>4, <2>5 DEF Owed
    <2> QED
        BY <2>6, <2>7, <2>8, <2>9, <2>10, <2>11
  <1>16. CASE OpenData
    <2>1. openN' \in Nat /\ DataBytes(openN') \in Nat
          /\ BitmapBytes(openN') \in Nat
          /\ BitmapFor(DataBytes(openN')) = BitmapBytes(openN')
          BY <1>16, BitmapOfRecords DEF OpenData
    <2>2. datSize' \in Nat /\ datSize <= datSize' /\ DataBytes(openN') <= datSize'
          /\ (datSize' = datSize \/ datSize' = DataBytes(openN'))
          BY <1>16, <2>1, LargerFacts DEF OpenData, TypeOK
    <2>3. BitmapFor(datSize) <= BitmapFor(datSize')
          /\ BitmapBytes(openN') <= BitmapFor(datSize')
          /\ BitmapFor(datSize) \in Nat /\ BitmapFor(datSize') \in Nat
      <3>1. datSize \in Nat
            BY DEF TypeOK
      <3> QED
          BY <2>1, <2>2, <3>1, BitmapMonotone
    <2>4. SizesMapped' /\ BitmapFits'
          BY <1>16, <2>1, <2>2, <2>3
          DEF OpenData, TypeOK, SizesMapped, Mapped, BitmapFits, Larger
    <2>5. /\ Settled' /\ Pending' /\ Owed' /\ dat' = dat /\ bits' = bits
          /\ diff' = diff /\ at' = at /\ before' = before /\ want' = want
          /\ half' = half
          BY <1>16, QuietKeeps DEF OpenData
    <2>6. RecordsInFiles'
          BY <1>16, <2>2, <2>5, CoverMonotone DEF OpenData, TypeOK, RecordsInFiles
    <2>7. TypeOK' /\ StepFacts'
          BY <1>16, <2>2, <2>5 DEF OpenData, TypeOK, StepFacts
    <2> QED
        BY <2>4, <2>5, <2>6, <2>7
  <1>17. CASE OpenBitmap
    <2>1. bmpSize' \in Nat /\ bmpSize <= bmpSize'
          BY <1>17, BitmapOfRecords, LargerFacts DEF OpenBitmap, TypeOK
    <2>2. bmpSize' <= BitmapFor(datSize)
      <3>1. /\ openN \in Nat
            /\ BitmapFor(DataBytes(openN)) = BitmapBytes(openN)
            /\ DataBytes(openN) \in Nat /\ DataBytes(openN) <= datSize
            BY <1>17, BitmapOfRecords DEF OpenBitmap, BitmapFits, TypeOK
      <3>2. BitmapBytes(openN) <= BitmapFor(datSize)
            BY <3>1, BitmapMonotone DEF TypeOK
      <3> QED
          BY <1>17, <3>2 DEF OpenBitmap, BitmapFits, Larger
    <2>3. SizesMapped' /\ BitmapFits'
          BY <1>17, <2>1, <2>2 DEF OpenBitmap, SizesMapped, Mapped, BitmapFits
    <2>4. /\ Settled' /\ Pending' /\ Owed' /\ dat' = dat /\ bits' = bits
          /\ diff' = diff /\ at' = at /\ before' = before /\ want' = want
          /\ half' = half
          BY <1>17, QuietKeeps DEF OpenBitmap
    <2>5. RecordsInFiles'
          BY <1>17, <2>1, <2>4, CoverMonotone
          DEF OpenBitmap, TypeOK, RecordsInFiles
    <2>6. TypeOK' /\ StepFacts'
          BY <1>17, <2>1, <2>4 DEF OpenBitmap, TypeOK, StepFacts
    <2> QED
        BY <2>3, <2>4, <2>5, <2>6
  <1> QED
      BY <1>0, <1>2, <1>3, <1>4, <1>5, <1>6, <1>7, <1>8, <1>9, <1>10,
         <1>11, <1>12, <1>13, <1>14, <1>15, <1>16, <1>17
      DEF Next

----------------------------------------------------------------------------
(* The theorems *)

\* The invariant holds in every reachable state.
THEOREM Invariance == Spec => []IInv
  BY InitIInv, NextIInv, PTL DEF Spec

\* Types: sizes, records and history variables keep their types in every
\* reachable state of the store.
THEOREM TypeCorrect == Spec => []TypeOK
  <1>1. IInv => TypeOK
        BY DEF IInv
  <1> QED
      BY <1>1, Invariance, PTL

\* No bit is ever set for an id that nodes.dat does not cover
\* (growMergedIfNeeded, update and remove, with crashes anywhere).
THEOREM BitHasDataHolds == Spec => []BitHasData
  <1>1. IInv => BitHasData
        BY DEF IInv, RecordsInFiles, BitHasData
  <1> QED
      BY <1>1, Invariance, PTL

\* Between two records, select() returns the record of a set bit, and nothing
\* for the others.
LEMMA SelectValue ==
    ASSUME IInv, pc = "ready", NEW id \in Ids
    PROVE  /\ id \in bits => select(id) = dat[id]
           /\ id \notin bits => select(id) = None
           /\ ~InFlight(id)
  <1>1. mapSize = datSize /\ mapBmp = bmpSize
        BY DEF IInv, SizesMapped, Mapped
  <1>2. id \in bits => InData(id, mapSize) /\ InBitmap(id, mapBmp)
        BY <1>1 DEF IInv, RecordsInFiles
  <1> QED
      BY <1>1, <1>2 DEF select, bitmapGet, InFlight

\* Whatever passes over the diff broke off, select() never returns an outdated,
\* half-written or zeroed record for an id this pass has come to, and nothing
\* foreign to the diff for the others (update, remove, Replicator::applyFile).
THEOREM SelectNeverStaleHolds == Spec => []SelectNeverStale
  <1>1. IInv => SelectNeverStale
        BY SelectValue DEF SelectNeverStale, IInv, Settled, Pending
  <1> QED
      BY <1>1, Invariance, PTL

\* Without a crash inside a growth, a pass over a diff leaves select() exactly
\* as the stored diffs and its records say, however many passes broke off
\* before (growMergedIfNeeded, update, remove, Replicator::downloadAndApply).
THEOREM UntornStoreIsExactHolds == Spec => []UntornStoreIsExact
  <1>1. IInv => UntornStoreIsExact
        BY SelectValue DEF UntornStoreIsExact, IInv, Settled
  <1> QED
      BY <1>1, Invariance, PTL

\* No step, crash or restart gives up capacity of either file.
THEOREM CapacityNeverLostHolds == Spec => CapacityNeverLost
  <1> DEFINE Grows == datSize' >= datSize /\ bmpSize' >= bmpSize
  <1>1. IInv /\ [Next]_vars => [Grows]_vars
    <2> SUFFICES ASSUME IInv, Next PROVE Grows
        OBVIOUS
    <2> USE NodeStoreAssumption DEF IInv
    <2>1. datSize \in Nat /\ bmpSize \in Nat
          BY DEF TypeOK
    <2>2. CASE GrowData
      <3>1. op.id \in Nat /\ mapSize = datSize
            BY <2>2, OpFacts DEF GrowData, StepFacts, SizesMapped
      <3>2. datSize' >= datSize
            BY <2>1, <2>2, <3>1, GrownSizeFacts DEF GrowData
      <3> QED
          BY <2>1, <2>2, <3>2 DEF GrowData
    <2>3. CASE GrowBitmap
          BY <2>1, <2>3, BitmapMonotone DEF GrowBitmap, SizesMapped, BitmapFits
    <2>4. CASE OpenData
          BY <2>1, <2>4, BitmapOfRecords, LargerFacts DEF OpenData
    <2>5. CASE OpenBitmap
      <3>1. openN \in Nat
            BY DEF TypeOK
      <3>2. BitmapBytes(openN) \in Nat
            BY <3>1, BitmapOfRecords
      <3> QED
          BY <2>1, <2>5, <3>2, LargerFacts DEF OpenBitmap
    <2>6. CASE UNCHANGED files
          BY <2>1, <2>6 DEF files
    <2> QED
        BY <2>2, <2>3, <2>4, <2>5, <2>6
        DEF Next, Download, Call, SetSequence, DropUpdate, WriteLon, WriteLat, SetBit, RemoveOutside,
            ZeroRecord, ClearBit, Close, Crash, Dies, Return
  <1> QED
      BY <1>1, Invariance, PTL DEF Spec, CapacityNeverLost
=============================================================================
