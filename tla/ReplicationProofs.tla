------------------------- MODULE ReplicationProofs -------------------------
(***************************************************************************)
(* Proofs about Replication, for every change stream and every division of *)
(* it into diffs, and for any number of faults.                            *)
(*                                                                         *)
(* NeverStale is not inductive: it says nothing of a diff that is half     *)
(* applied.  LoopInv supplies that: while a diff is applied the stores     *)
(* cover everything up to the change reached, the connection still sees    *)
(* the sequence the loop started from, and what local or cur claim is      *)
(* covered by nodes.dat.  CaughtUpIsExact then follows because every stamp *)
(* belongs to its entity and none is above high.                           *)
(***************************************************************************)
EXTENDS Replication, TLAPS

\* A stamp is a change of its entity that was begun.
Sound(e, stamp) == stamp <= high /\ (stamp # 0 => Ent[stamp] = e)

StampsSound ==
    /\ \A n \in Nodes : Sound(n, nd[n])
    /\ \A e \in Ents : Sound(e, db[e]) /\ Sound(e, durable[1][e])

GeometryInv ==
    ~undone => GeomCovers(db, geom) /\ GeomCovers(durable[1], durable[2])

Applying == pc \in {"apply", "rows"}

\* What the variables of poll() stand for.
LoopInv ==
    /\ pc \in {"state", "compare"} /\ local >= 0 =>
           /\ conn => seq = local
           /\ ~undone => seq <= local
           /\ ~undone => NodesCover(nd, End[local])
    /\ pc = "download" \/ Applying =>
           /\ cur >= 1 /\ cur <= rem
           /\ conn => seq = cur - 1
           /\ ~undone => seq <= cur - 1
    /\ pc = "download" /\ ~undone => NodesCover(nd, End[cur - 1])
    /\ Applying =>
           /\ End[cur - 1] <= pos /\ pos <= End[cur]
           /\ conn => RowsCover(db, pos, high)
           /\ ~undone => NodesCover(nd, pos)
    /\ pc = "rows" =>
           /\ pos < End[cur] /\ pos + 1 <= high
           /\ Ent[pos + 1] \in Nodes => nd[Ent[pos + 1]] = pos + 1

StoreInv == StampsSound /\ NeverStale /\ GeometryInv

IInv == TypeOK /\ StoreInv /\ LoopInv

----------------------------------------------------------------------------
(* The change stream and the predicates over it *)

\* End maps diffs to positions of the stream, in order.
LEMMA EndFacts ==
    ASSUME NEW s \in 0..MaxSeq
    PROVE  /\ End[s] \in Nat /\ End[s] <= NChanges
           /\ \A t \in 0..MaxSeq : s <= t => End[s] <= End[t]
  BY ReplicationAssumption DEF Stamps

\* The entities of the stream.
LEMMA EntFacts ==
    ASSUME NEW p \in 1..NChanges
    PROVE  /\ Ent[p] \in Ents
           /\ Ent[p] \in Nodes <=> Ent[p] \notin Ways
           /\ p \in Untagged => Ent[p] \in Nodes
  BY ReplicationAssumption DEF Ents

\* Coverage of a prefix covers every shorter prefix.
LEMMA CoverShorter ==
    ASSUME NEW rows, NEW store, NEW m \in Nat, NEW n \in Nat, NEW top \in Nat,
           m <= n
    PROVE  /\ NodesCover(store, n) => NodesCover(store, m)
           /\ RowsCover(rows, n, top) => RowsCover(rows, m, top)
  BY DEF NodesCover, RowsCover

\* Beginning a change can only excuse more missing rows.
LEMMA CoverHigher ==
    ASSUME NEW rows, NEW n \in Nat, NEW top \in Nat, NEW top2 \in Nat,
           top <= top2, RowsCover(rows, n, top)
    PROVE  RowsCover(rows, n, top2)
  BY DEF RowsCover

----------------------------------------------------------------------------
(* Initial states *)

\* A fresh import satisfies the invariant.
LEMMA InitIInv == Init => IInv
  <1> SUFFICES ASSUME Init PROVE IInv
      OBVIOUS
  <1> USE ReplicationAssumption
  <1>1. conn \in BOOLEAN /\ undone \in BOOLEAN
        BY Zenon DEF Init
  <1>2. geom \in [Ways -> [Nodes -> Stamps]]
        BY DEF Init, buildWayGeom, Stamps
  <1>3. durable \in [Ents -> Stamps] \X [Ways -> [Nodes -> Stamps]] \X (0..MaxSeq)
        BY <1>2 DEF Init, tables
  <1>4. TypeOK
        BY <1>1, <1>2, <1>3 DEF Init, TypeOK, Stamps
  <1>5. durable[1] = db /\ durable[2] = geom /\ durable[3] = seq
        BY DEF Init, tables
  <1>6. StampsSound
        BY <1>5 DEF Init, StampsSound, Sound, IsLatest
  <1>7. NeverStale
    <2>1. End[seq] \in Nat /\ End[seq] <= cutoff /\ cutoff \in Nat
          BY EndFacts DEF Init, Stamps
    <2>2. NodesCover(nd, cutoff) /\ RowsCover(db, cutoff, high)
      <3> SUFFICES ASSUME NEW p \in 1..cutoff
                   PROVE  /\ Ent[p] \in Nodes => nd[Ent[p]] >= p
                          /\ db[Ent[p]] >= p
          BY DEF NodesCover, RowsCover
      <3>1. p \in 1..NChanges /\ p \in Int
            BY DEF Init, Stamps
      <3>2. Ent[p] \in Ents
            BY <3>1, EntFacts
      <3> QED
          BY <3>1, <3>2 DEF Init, IsLatest, Stamps
    <2> QED
        BY <1>5, <2>1, <2>2, CoverShorter DEF Init, NeverStale
  <1>8. GeometryInv
    <2> SUFFICES ASSUME NEW w \in Ways, NEW n \in Refs[w],
                        NEW p \in 1..db[w], Ent[p] = n
                 PROVE  geom[w][n] >= p
        BY <1>5 DEF GeometryInv, GeomCovers
    <2>1. n \in Nodes /\ geom[w][n] = nd[n]
          BY DEF Init, buildWayGeom
    <2>2. db[w] \in Nat /\ db[w] <= cutoff /\ nd[n] \in Nat /\ p \in 1..cutoff
          BY <2>1 DEF Init, IsLatest, Stamps, Ents
    <2> QED
        BY <2>1, <2>2 DEF Init, IsLatest
  <1>9. LoopInv
        BY DEF Init, LoopInv, Applying
  <1> QED
      BY <1>4, <1>6, <1>7, <1>8, <1>9 DEF IInv, StoreInv

----------------------------------------------------------------------------
(* Types *)

\* Every step keeps the types.
LEMMA TypePreserved == TypeOK /\ LoopInv /\ Next => TypeOK'
  <1> SUFFICES ASSUME TypeOK, LoopInv, Next PROVE TypeOK'
      OBVIOUS
  <1> USE ReplicationAssumption DEF TypeOK, Stamps, history, stores, tables, loop
  <1>1. CASE Publish
        BY <1>1 DEF Publish
  <1>2. CASE WalFlush
        BY <1>2 DEF WalFlush
  <1>3. CASE DbCrash
    <2>1. undone' \in BOOLEAN /\ conn' \in BOOLEAN
          BY <1>3, Zenon DEF DbCrash
    <2> QED
        BY <1>3, <2>1 DEF DbCrash, Fault
  <1>4. CASE Start
    <2>1. conn' \in BOOLEAN
          BY <1>4, Zenon DEF Start
    <2> QED
        BY <1>4, <2>1 DEF Start, Fault
  <1>5. CASE StartAt
    <2>1. conn' \in BOOLEAN
          BY <1>5, Zenon DEF StartAt
    <2> QED
        BY <1>5, <2>1 DEF StartAt, Fault
  <1>6. CASE ReadLocal
        BY <1>6 DEF ReadLocal, Fault
  <1>7. CASE ReadRemote
        BY <1>7 DEF ReadRemote
  <1>8. CASE Retry
        BY <1>8 DEF Retry, Fault
  <1>9. CASE NoSequence
        BY <1>9 DEF NoSequence, Exit
  <1>10. CASE UpToDate
        BY <1>10 DEF UpToDate
  <1>11. CASE Behind
        BY <1>11 DEF Behind
  <1>12. CASE Download
        BY EndFacts, <1>12 DEF Download, LoopInv
  <1>13. CASE ApplyNode
    <2>1. pos + 1 \in 1..NChanges
          BY <1>13, EndFacts DEF ApplyNode
    <2>2. high' \in 0..NChanges
          BY <1>13, <2>1 DEF ApplyNode, Begun
    <2>3. nd' \in [Nodes -> 0..NChanges]
          BY <1>13, <2>1, EntFacts DEF ApplyNode, Ents
    <2> QED
        BY <1>13, <2>2, <2>3 DEF ApplyNode
  <1>14. CASE ApplyWay
    <2>1. pos + 1 \in 1..NChanges
          BY <1>14, EndFacts DEF ApplyWay
    <2>2. high' \in 0..NChanges
          BY <1>14, <2>1 DEF ApplyWay, Begun
    <2>3. db' \in [Ents -> 0..NChanges]
      <3>1. PICK partial \in {0, db[Ent[pos + 1]]} :
                db' = [db EXCEPT ![Ent[pos + 1]] = partial]
            BY <1>14 DEF ApplyWay
      <3>2. partial \in 0..NChanges
            BY <2>1, EntFacts
      <3> QED
          BY <3>1, <3>2
    <2> QED
        BY <1>14, <2>2, <2>3 DEF ApplyWay
  <1>15. CASE CommitRows
    <2>1. pos + 1 \in 1..NChanges
          BY <1>15, EndFacts DEF CommitRows, LoopInv, Applying
    <2>2. db' \in [Ents -> 0..NChanges] /\ pos' \in 0..NChanges
          BY <1>15, <2>1 DEF CommitRows
    <2>3. geom' \in [Ways -> [Nodes -> 0..NChanges]]
          BY <1>15, <2>1 DEF CommitRows, buildWayGeom
    <2> QED
        BY <1>15, <2>2, <2>3 DEF CommitRows
  <1>16. CASE SetSequence
    <2>1. cur' \in 0..MaxSeq
          BY <1>16 DEF SetSequence
    <2>2. pc' \in {"download", "poll"}
          BY <1>16 DEF SetSequence
    <2> QED
        BY <1>16, <2>1, <2>2 DEF SetSequence
  <1>17. CASE StopOnError
        BY <1>17 DEF StopOnError, Fault, Exit
  <1>18. CASE Stop
        BY <1>18 DEF Stop, Fault, Exit
  <1>19. CASE Crash
        BY <1>19 DEF Crash, Fault, Exit
  <1> QED
      BY <1>1, <1>2, <1>3, <1>4, <1>5, <1>6, <1>7, <1>8, <1>9, <1>10,
         <1>11, <1>12, <1>13, <1>14, <1>15, <1>16, <1>17, <1>18, <1>19
      DEF Next, Poll, Apply

----------------------------------------------------------------------------
(* Steps that do not touch the stores *)

\* A step that leaves stores, sequence and history alone keeps StoreInv.
LEMMA StoresUntouched ==
    ASSUME StoreInv, UNCHANGED <<nd, db, geom, seq, durable, history>>
    PROVE  StoreInv'
  BY DEF StoreInv, StampsSound, Sound, NeverStale, GeometryInv, NodesCover,
         RowsCover, GeomCovers, history

\* Out of the loop nothing is claimed of its variables.
LEMMA LoopLeft ==
    ASSUME pc' \in {"down", "poll"}
    PROVE  LoopInv'
  BY DEF LoopInv, Applying

\* The steps of poll() outside the apply, and the ends of the process.
LEMMA ControlSteps ==
    ASSUME IInv,
           \/ Publish \/ Start \/ StartAt \/ ReadLocal \/ ReadRemote \/ Retry
           \/ NoSequence \/ UpToDate \/ Behind \/ Download
           \/ StopOnError \/ Stop \/ Crash
    PROVE  StoreInv' /\ LoopInv'
  <1> USE ReplicationAssumption DEF IInv
  <1>1. CASE Publish
    <2>1. StoreInv'
          BY <1>1, StoresUntouched DEF Publish, tables
    <2>2. LoopInv'
          BY <1>1 DEF Publish, tables, loop, history, LoopInv, Applying,
                      NodesCover, RowsCover
    <2> QED
        BY <2>1, <2>2
  <1>2. CASE Start
        BY <1>2, StoresUntouched, LoopLeft DEF Start, stores
  <1>3. CASE StartAt
    <2>1. PICK q \in 0..seq : seq' = q
          BY <1>3 DEF StartAt
    <2>2. End[q] \in Nat /\ End[seq] \in Nat /\ End[q] <= End[seq] /\ high \in Nat
          BY <2>1, EndFacts DEF TypeOK, Stamps
    <2>3. RowsCover(db, End[q], high) /\ (~undone => NodesCover(nd, End[q]))
          BY <2>2, CoverShorter DEF StoreInv, NeverStale
    <2>4. UNCHANGED <<nd, db, geom, durable, high, undone>>
          BY <1>3 DEF StartAt, stores, history
    <2>5. NeverStale'
          BY <2>1, <2>3, <2>4
          DEF StoreInv, NeverStale, NodesCover, RowsCover
    <2>6. StampsSound' /\ GeometryInv'
          BY <2>4 DEF StoreInv, StampsSound, Sound, GeometryInv, GeomCovers
    <2> QED
        BY <1>3, <2>5, <2>6, LoopLeft DEF StartAt, StoreInv
  <1>4. CASE ReadLocal
    <2>1. StoreInv'
          BY <1>4, StoresUntouched DEF ReadLocal, stores
    <2>2. local' = -1 \/ local' = seq
          BY <1>4 DEF ReadLocal
    <2>3. pc' = "state" /\ UNCHANGED <<nd, seq, conn, undone>>
          BY <1>4 DEF ReadLocal, stores, history
    <2>4. LoopInv'
          BY <2>2, <2>3 DEF LoopInv, Applying, StoreInv, NeverStale, NodesCover, TypeOK
    <2> QED
        BY <2>1, <2>4
  <1>5. CASE ReadRemote
    <2>1. StoreInv'
          BY <1>5, StoresUntouched DEF ReadRemote, stores
    <2>2. LoopInv'
          BY <1>5 DEF ReadRemote, stores, history, LoopInv, Applying, NodesCover
    <2> QED
        BY <2>1, <2>2
  <1>6. CASE Retry
        BY <1>6, StoresUntouched, LoopLeft DEF Retry, stores
  <1>7. CASE NoSequence
        BY <1>7, StoresUntouched, LoopLeft DEF NoSequence, Exit, stores
  <1>8. CASE UpToDate
        BY <1>8, StoresUntouched, LoopLeft DEF UpToDate, stores
  <1>9. CASE Behind
    <2>1. StoreInv'
          BY <1>9, StoresUntouched DEF Behind, stores
    <2>2. /\ pc = "compare" /\ local >= 0 /\ local < rem /\ cur' = local + 1
          /\ pc' = "download"
          /\ UNCHANGED <<nd, seq, conn, rem, undone>>
          BY <1>9 DEF Behind, stores, history
    <2>3. local \in Int /\ rem \in Int /\ cur' - 1 = local
          BY <2>2 DEF TypeOK
    <2>4. cur' >= 1 /\ cur' <= rem'
          BY <2>2, <2>3
    <2>5. (conn' => seq' = cur' - 1) /\ (~undone' => seq' <= cur' - 1)
          BY <2>2, <2>3 DEF LoopInv
    <2>6. ~undone' => NodesCover(nd', End[cur' - 1])
          BY <2>2, <2>3 DEF LoopInv, NodesCover
    <2>7. LoopInv'
          BY <2>2, <2>4, <2>5, <2>6 DEF LoopInv, Applying, NodesCover
    <2> QED
        BY <2>1, <2>7
  <1>10. CASE Download
    <2>1. StoreInv'
          BY <1>10, StoresUntouched DEF Download, stores
    <2>2. /\ pc = "download" /\ pc' = "apply" /\ pos' = End[cur - 1]
          /\ UNCHANGED <<nd, db, seq, conn, rem, cur, high, undone>>
          BY <1>10 DEF Download, stores, history
    <2>3. /\ cur >= 1 /\ cur <= rem
          /\ conn => seq = cur - 1
          /\ ~undone => seq <= cur - 1
          BY <2>2 DEF LoopInv
    <2>4. cur \in 0..MaxSeq /\ cur - 1 \in 0..MaxSeq
          BY <2>3 DEF TypeOK
    <2>5. End[cur - 1] <= pos' /\ pos' <= End[cur]
          BY <2>2, <2>4, EndFacts
    <2>6. conn => RowsCover(db, pos', high)
          BY <2>2, <2>3 DEF StoreInv, NeverStale
    <2>7. ~undone => NodesCover(nd, pos')
          BY <2>2 DEF LoopInv
    <2>8. LoopInv'
          BY <2>2, <2>3, <2>5, <2>6, <2>7 DEF LoopInv, Applying, NodesCover, RowsCover
    <2> QED
        BY <2>1, <2>8
  <1>11. CASE StopOnError
        BY <1>11, StoresUntouched, LoopLeft DEF StopOnError, Exit, stores
  <1>12. CASE Stop
        BY <1>12, StoresUntouched, LoopLeft DEF Stop, Exit, stores
  <1>13. CASE Crash
        BY <1>13, StoresUntouched, LoopLeft DEF Crash, Exit, stores
  <1> QED
      BY <1>1, <1>2, <1>3, <1>4, <1>5, <1>6, <1>7, <1>8, <1>9, <1>10, <1>11,
         <1>12, <1>13

----------------------------------------------------------------------------
(* Steps of the database server *)

\* A WAL flush makes durable what the tables already satisfy.
LEMMA FlushStep == IInv /\ WalFlush => StoreInv' /\ LoopInv'
  <1> SUFFICES ASSUME IInv, WalFlush PROVE StoreInv' /\ LoopInv'
      OBVIOUS
  <1> USE DEF IInv
  <1>1. durable'[1] = db /\ durable'[2] = geom /\ durable'[3] = seq
        BY DEF WalFlush, tables
  <1>2. /\ UNCHANGED <<nd, db, geom, seq, conn, pc, local, rem, cur, pos>>
        /\ UNCHANGED <<high, undone>>
        BY DEF WalFlush, tables, loop, history
  <1>3. StoreInv'
        BY <1>1, <1>2 DEF StoreInv, StampsSound, Sound, NeverStale, GeometryInv,
                          NodesCover, RowsCover, GeomCovers
  <1>4. LoopInv'
        BY <1>2 DEF LoopInv, Applying, NodesCover, RowsCover
  <1> QED
      BY <1>3, <1>4

\* After a Postgres crash the sequence and the tables are those last flushed;
\* nodes.dat still covers them unless the crash undid a -Q restart.
LEMMA DbCrashStep == IInv /\ DbCrash => StoreInv' /\ LoopInv'
  <1> SUFFICES ASSUME IInv, DbCrash PROVE StoreInv' /\ LoopInv'
      OBVIOUS
  <1> USE ReplicationAssumption DEF IInv
  <1>1. /\ db' = durable[1] /\ geom' = durable[2] /\ seq' = durable[3]
        /\ UNCHANGED <<nd, durable, pc, local, rem, cur, pos, high>>
        BY DEF DbCrash, loop
  <1>2. ~conn'
        BY Zenon DEF DbCrash
  <1>3. ~undone' => ~undone /\ ~(durable[3] > seq)
        BY Zenon DEF DbCrash
  <1>4. durable[3] \in 0..MaxSeq /\ seq \in 0..MaxSeq
        BY DEF TypeOK
  <1>5. ~undone' => NodesCover(nd, End[durable[3]])
    <2> SUFFICES ASSUME ~undone' PROVE NodesCover(nd, End[durable[3]])
        OBVIOUS
    <2>1. durable[3] <= seq /\ NodesCover(nd, End[seq])
          BY <1>3, <1>4 DEF StoreInv, NeverStale
    <2>2. End[durable[3]] <= End[seq] /\ End[durable[3]] \in Nat /\ End[seq] \in Nat
          BY <1>4, <2>1, EndFacts
    <2> QED
        BY <2>1, <2>2, CoverShorter
  <1>6. NeverStale'
        BY <1>1, <1>5 DEF StoreInv, NeverStale, RowsCover, NodesCover
  <1>7. StampsSound'
        BY <1>1 DEF StoreInv, StampsSound, Sound
  <1>8. GeometryInv'
        BY <1>1, <1>3 DEF StoreInv, GeometryInv, GeomCovers
  <1>9. LoopInv'
    <2>1. ~undone' => ~undone /\ seq' <= seq
          BY <1>1, <1>3, <1>4
    <2>2. local \in Int /\ cur \in Int /\ seq' \in Int /\ seq \in Int
          BY <1>1, <1>4 DEF TypeOK
    <2>3. (pc \in {"state", "compare"} /\ local >= 0 /\ ~undone') => seq' <= local
          BY <2>1, <2>2 DEF LoopInv
    <2>4. ((pc = "download" \/ Applying) /\ ~undone') => seq' <= cur - 1
          BY <2>1, <2>2 DEF LoopInv
    <2> QED
        BY <1>1, <1>2, <2>1, <2>3, <2>4 DEF LoopInv, Applying, NodesCover
  <1> QED
      BY <1>6, <1>7, <1>8, <1>9 DEF StoreInv

----------------------------------------------------------------------------
(* Steps of the apply *)

\* Where the loop is when it applies the next change.
LEMMA NextChange ==
    ASSUME IInv, pc = "apply" \/ pc = "rows", pos < End[cur]
    PROVE  /\ pos \in Nat /\ pos + 1 \in 1..NChanges /\ high \in Nat
           /\ Ent[pos + 1] \in Ents
           /\ Ent[pos + 1] \in Nodes <=> Ent[pos + 1] \notin Ways
           /\ seq \in 0..MaxSeq /\ End[seq] \in Nat
           /\ conn \/ ~undone => End[seq] <= pos
  <1> USE ReplicationAssumption DEF IInv
  <1>1. /\ cur \in 0..MaxSeq /\ cur >= 1 /\ seq \in 0..MaxSeq
        /\ conn \/ ~undone => seq <= cur - 1
        BY DEF TypeOK, LoopInv, Applying
  <1>2. End[cur] \in Nat /\ End[cur] <= NChanges
        BY <1>1, EndFacts
  <1>3. pos \in Nat /\ pos + 1 \in 1..NChanges /\ high \in Nat /\ seq \in 0..MaxSeq
        BY <1>2 DEF TypeOK, Stamps
  <1>4. End[seq] \in Nat
        BY <1>3, EndFacts
  <1>5. conn \/ ~undone => End[seq] <= pos
    <2>1. conn \/ ~undone => End[seq] <= End[cur - 1]
          BY <1>1, EndFacts
    <2>2. End[cur - 1] \in Nat /\ End[cur - 1] <= pos
          BY <1>1, EndFacts DEF LoopInv, Applying
    <2> QED
        BY <1>3, <1>4, <2>1, <2>2
  <1> QED
      BY <1>1, <1>3, <1>4, <1>5, EntFacts

\* The node store gets the node's position.
LEMMA ApplyNodeStep == IInv /\ ApplyNode => StoreInv' /\ LoopInv'
  <1> SUFFICES ASSUME IInv, ApplyNode PROVE StoreInv' /\ LoopInv'
      OBVIOUS
  <1> USE ReplicationAssumption DEF IInv
  <1> DEFINE p == pos + 1
             e == Ent[p]
  <1>1. /\ pc = "apply" /\ pos < End[cur] /\ pc' = "rows" /\ e \in Nodes
        /\ nd' = [nd EXCEPT ![e] = p]
        /\ UNCHANGED <<db, geom, seq, durable, conn, local, rem, cur, pos, undone>>
        BY DEF ApplyNode, tables, loop
  <1>2. /\ pos \in Nat /\ p \in 1..NChanges /\ high \in Nat
        /\ seq \in 0..MaxSeq /\ End[seq] \in Nat
        /\ conn \/ ~undone => End[seq] <= pos
        BY <1>1, NextChange
  <1>3. high' \in Nat /\ high <= high' /\ p <= high'
        BY <1>2 DEF ApplyNode, Begun
  <1>4. nd \in [Nodes -> Stamps]
        BY DEF TypeOK
  <1>5. ~undone => NodesCover(nd', pos)
        BY <1>1, <1>2, <1>4 DEF LoopInv, Applying, NodesCover, Stamps
  <1>6. ~undone => NodesCover(nd', End[seq])
    <2> SUFFICES ASSUME ~undone, NEW r \in 1..End[seq], Ent[r] \in Nodes
                 PROVE  nd'[Ent[r]] >= r
        BY DEF NodesCover
    <2>1. nd[Ent[r]] >= r
          BY DEF StoreInv, NeverStale, NodesCover
    <2>2. CASE Ent[r] # e
          BY <1>1, <1>4, <2>1, <2>2
    <2>3. CASE Ent[r] = e
          BY <1>1, <1>2, <1>4, <2>3
    <2> QED
        BY <2>2, <2>3
  <1>7. RowsCover(db, End[seq], high') /\ RowsCover(durable[1], End[durable[3]], high')
    <2>1. End[durable[3]] \in Nat
          BY EndFacts DEF TypeOK
    <2> QED
        BY <1>2, <1>3, <2>1, CoverHigher DEF StoreInv, NeverStale
  <1>8. conn => RowsCover(db, pos, high')
        BY <1>1, <1>2, <1>3, CoverHigher DEF LoopInv, Applying
  <1>9. NeverStale'
        BY <1>1, <1>6, <1>7 DEF NeverStale, RowsCover, NodesCover
  <1>10. StampsSound'
    <2>1. \A x \in Ents : db[x] \in Nat /\ durable[1][x] \in Nat
          BY DEF TypeOK, Stamps
    <2>2. \A n \in Nodes : nd[n] \in Nat
          BY <1>4 DEF Stamps
    <2>3. \A n \in Nodes : nd'[n] <= high' /\ (nd'[n] # 0 => Ent[nd'[n]] = n)
          BY <1>1, <1>2, <1>3, <1>4, <2>2 DEF StoreInv, StampsSound, Sound
    <2> QED
        BY <1>1, <1>2, <1>3, <2>1, <2>3 DEF StoreInv, StampsSound, Sound
  <1>11. GeometryInv'
        BY <1>1 DEF StoreInv, GeometryInv, GeomCovers
  <1>12. LoopInv'
        BY <1>1, <1>2, <1>3, <1>4, <1>5, <1>8
        DEF LoopInv, Applying, RowsCover, NodesCover
  <1> QED
      BY <1>9, <1>10, <1>11, <1>12 DEF StoreInv

\* The first transaction of a way or relation may leave no complete version.
LEMMA ApplyWayStep == IInv /\ ApplyWay => StoreInv' /\ LoopInv'
  <1> SUFFICES ASSUME IInv, ApplyWay PROVE StoreInv' /\ LoopInv'
      OBVIOUS
  <1> USE ReplicationAssumption DEF IInv
  <1> DEFINE p == pos + 1
             e == Ent[p]
  <1>1. /\ pc = "apply" /\ pos < End[cur] /\ pc' = "rows" /\ e \in Ways /\ conn
        /\ UNCHANGED <<nd, geom, seq, durable, conn, local, rem, cur, pos, undone>>
        BY DEF ApplyWay, loop
  <1>2. PICK partial \in {0, db[e]} : db' = [db EXCEPT ![e] = partial]
        BY DEF ApplyWay
  <1>3. /\ pos \in Nat /\ p \in 1..NChanges /\ high \in Nat
        /\ e \in Ents /\ e \notin Nodes
        /\ seq \in 0..MaxSeq /\ End[seq] \in Nat /\ End[seq] <= pos
        BY <1>1, NextChange
  <1>4. high' \in Nat /\ high <= high' /\ p <= high'
        BY <1>3 DEF ApplyWay, Begun
  <1>5. db \in [Ents -> Stamps]
        BY DEF TypeOK
  <1>6. ASSUME NEW n \in Nat, n <= pos, RowsCover(db, n, high)
        PROVE  RowsCover(db', n, high')
    <2> SUFFICES ASSUME NEW r \in 1..n
                 PROVE  \/ db'[Ent[r]] >= r
                        \/ \E q \in (n + 1)..high' : Ent[q] = Ent[r]
        BY DEF RowsCover
    <2>1. r \in 1..NChanges /\ Ent[r] \in Ents
          BY <1>3, <1>6, EntFacts
    <2>2. CASE Ent[r] = e
          BY <1>3, <1>4, <1>6, <2>2
    <2>3. CASE Ent[r] # e
      <3>1. db'[Ent[r]] = db[Ent[r]]
            BY <1>2, <1>5, <2>1, <2>3
      <3>2. db[Ent[r]] >= r \/ \E q \in (n + 1)..high : Ent[q] = Ent[r]
            BY <1>6 DEF RowsCover
      <3>3. (n + 1)..high \subseteq (n + 1)..high'
            BY <1>3, <1>4
      <3> QED
          BY <3>1, <3>2, <3>3
    <2> QED
        BY <2>2, <2>3
  <1>7. RowsCover(db', End[seq], high') /\ RowsCover(db', pos, high')
        BY <1>1, <1>3, <1>6 DEF StoreInv, NeverStale, LoopInv, Applying
  <1>8. RowsCover(durable[1], End[durable[3]], high')
    <2>1. End[durable[3]] \in Nat
          BY EndFacts DEF TypeOK
    <2> QED
        BY <1>3, <1>4, <2>1, CoverHigher DEF StoreInv, NeverStale
  <1>9. NeverStale'
        BY <1>1, <1>7, <1>8 DEF StoreInv, NeverStale, RowsCover, NodesCover
  <1>10. StampsSound'
    <2>1. /\ \A x \in Ents : db[x] \in Nat /\ durable[1][x] \in Nat
          /\ \A n \in Nodes : nd[n] \in Nat
          BY DEF TypeOK, Stamps
    <2>2. \A x \in Ents : db'[x] <= high' /\ (db'[x] # 0 => Ent[db'[x]] = x)
          BY <1>2, <1>3, <1>4, <1>5, <2>1 DEF StoreInv, StampsSound, Sound
    <2> QED
        BY <1>1, <1>3, <1>4, <2>1, <2>2 DEF StoreInv, StampsSound, Sound
  <1>11. GeometryInv'
    <2>1. \A w \in Ways : db'[w] = 0 \/ db'[w] = db[w]
          BY <1>2, <1>5 DEF Ents
    <2> QED
        BY <1>1, <2>1 DEF StoreInv, GeometryInv, GeomCovers
  <1>12. LoopInv'
        BY <1>1, <1>3, <1>4, <1>7 DEF LoopInv, Applying, RowsCover, NodesCover
  <1> QED
      BY <1>9, <1>10, <1>11, <1>12 DEF StoreInv

\* The last transaction of the change commits: the prefix grows by one.
LEMMA CommitRowsStep == IInv /\ CommitRows => StoreInv' /\ LoopInv'
  <1> SUFFICES ASSUME IInv, CommitRows PROVE StoreInv' /\ LoopInv'
      OBVIOUS
  <1> USE ReplicationAssumption DEF IInv
  <1> DEFINE p == pos + 1
             e == Ent[p]
  <1>1. /\ pc = "rows" /\ pc' = "apply" /\ pos' = p /\ (conn \/ p \in Untagged)
        /\ geom' = IF e \in Ways THEN [geom EXCEPT ![e] = buildWayGeom(e, nd)]
                                 ELSE geom
        /\ UNCHANGED <<nd, seq, durable, conn, local, rem, cur, high, undone>>
        BY DEF CommitRows, history
  <1>2. pos < End[cur] /\ p <= high /\ (e \in Nodes => nd[e] = p)
        BY <1>1 DEF LoopInv
  <1>3. /\ pos \in Nat /\ p \in 1..NChanges /\ high \in Nat
        /\ e \in Ents /\ (e \in Nodes <=> e \notin Ways)
        /\ seq \in 0..MaxSeq /\ End[seq] \in Nat
        /\ conn \/ ~undone => End[seq] <= pos
        BY <1>1, <1>2, NextChange
  <1>4. db \in [Ents -> Stamps] /\ \A x \in Ents : db[x] \in Nat
        BY DEF TypeOK, Stamps
  <1>5. /\ \A x \in Ents : x # e => db'[x] = db[x]
        /\ db'[e] = p \/ db'[e] = db[e]
        /\ conn => db'[e] >= p
        /\ e \in Ways => db'[e] = p
        /\ \A x \in Ents : db'[x] \in Nat
    <2>1. p \in Untagged => e \notin Ways
          BY <1>3, EntFacts
    <2>2. db' = [db EXCEPT ![e] =
                    IF p \in Untagged /\ (db[e] > p \/ ~conn) THEN db[e] ELSE p]
          BY DEF CommitRows
    <2> QED
        BY <1>3, <1>4, <2>1, <2>2
  <1>6. conn => RowsCover(db', p, high)
    <2> SUFFICES ASSUME conn, NEW r \in 1..p
                 PROVE  \/ db'[Ent[r]] >= r
                        \/ \E q \in (p + 1)..high : Ent[q] = Ent[r]
        BY DEF RowsCover
    <2>1. r \in 1..NChanges /\ Ent[r] \in Ents
          BY <1>3, EntFacts
    <2>2. CASE Ent[r] = e
          BY <1>3, <1>5, <2>2
    <2>3. CASE Ent[r] # e
      <3>1. r \in 1..pos /\ RowsCover(db, pos, high)
            BY <1>1, <1>3, <2>3 DEF LoopInv, Applying
      <3>2. db'[Ent[r]] = db[Ent[r]]
            BY <1>5, <2>1, <2>3
      <3>3. db[Ent[r]] >= r \/ \E q \in (pos + 1)..high : Ent[q] = Ent[r]
            BY <3>1 DEF RowsCover
      <3>4. ASSUME NEW q \in (pos + 1)..high, Ent[q] = Ent[r]
            PROVE  q \in (p + 1)..high
            BY <1>3, <2>3, <3>4
      <3> QED
          BY <3>2, <3>3, <3>4
    <2> QED
        BY <2>2, <2>3
  <1>7. RowsCover(db', End[seq], high)
    <2>1. CASE conn
      <3>1. p \in Nat /\ End[seq] \in Nat /\ End[seq] <= p
            BY <1>3, <2>1
      <3> QED
          BY <1>3, <1>6, <2>1, <3>1, CoverShorter
    <2>2. CASE ~conn
      <3>1. db'[e] = db[e]
            BY <1>1, <2>2, <1>3, <1>4 DEF CommitRows
      <3>2. \A r \in 1..End[seq] : Ent[r] \in Ents
            BY <1>3, EntFacts, EndFacts
      <3>3. \A x \in Ents : db'[x] = db[x]
            BY <1>5, <3>1
      <3> QED
          BY <3>2, <3>3 DEF StoreInv, NeverStale, RowsCover
    <2> QED
        BY <2>1, <2>2
  <1>8. NeverStale'
        BY <1>1, <1>7 DEF StoreInv, NeverStale, RowsCover, NodesCover
  <1>9. StampsSound'
        BY <1>1, <1>2, <1>3, <1>4, <1>5 DEF StoreInv, StampsSound, Sound
  <1>10. ~undone => NodesCover(nd, p)
    <2> SUFFICES ASSUME ~undone, NEW r \in 1..p, Ent[r] \in Nodes
                 PROVE  nd[Ent[r]] >= r
        BY DEF NodesCover
    <2>1. CASE r = p
          BY <1>2, <1>3, <2>1
    <2>2. CASE r # p
      <3>1. r \in 1..pos
            BY <1>3, <2>2
      <3> QED
          BY <1>1, <3>1 DEF LoopInv, Applying, NodesCover
    <2> QED
        BY <2>1, <2>2
  <1>11. ~undone => GeomCovers(db', geom')
    <2> SUFFICES ASSUME ~undone, NEW w \in Ways, NEW n \in Refs[w],
                        NEW r \in 1..db'[w], Ent[r] = n
                 PROVE  geom'[w][n] >= r
        BY DEF GeomCovers
    <2>1. n \in Nodes /\ w \in Ents
          BY DEF Ents
    <2>2. CASE w = e
      <3>1. db'[w] = p /\ r \in 1..p
            BY <1>5, <2>2
      <3>2. geom \in [Ways -> [Nodes -> Stamps]]
            BY DEF TypeOK
      <3>3. geom'[w][n] = nd[n]
            BY <1>1, <2>1, <2>2, <3>2 DEF buildWayGeom
      <3> QED
          BY <1>10, <2>1, <3>1, <3>3 DEF NodesCover
    <2>3. CASE w # e
      <3>1. db'[w] = db[w]
            BY <1>5, <2>1, <2>3
      <3>2. geom'[w] = geom[w]
            BY <1>1, <2>3 DEF TypeOK
      <3> QED
          BY <3>1, <3>2 DEF StoreInv, GeometryInv, GeomCovers
    <2> QED
        BY <2>2, <2>3
  <1>12. GeometryInv'
        BY <1>1, <1>11 DEF StoreInv, GeometryInv, GeomCovers
  <1>13. LoopInv'
    <2>1. End[cur - 1] <= pos' /\ pos' <= End[cur]
      <3>1. cur \in 0..MaxSeq /\ cur - 1 \in 0..MaxSeq
            BY <1>1 DEF LoopInv, Applying, TypeOK
      <3>2. End[cur] \in Nat /\ End[cur - 1] \in Nat /\ End[cur - 1] <= pos
            BY <1>1, <3>1, EndFacts DEF LoopInv, Applying
      <3> QED
          BY <1>1, <1>2, <1>3, <3>2
    <2> QED
        BY <1>1, <1>6, <1>10, <2>1 DEF LoopInv, Applying, RowsCover, NodesCover
  <1> QED
      BY <1>8, <1>9, <1>12, <1>13 DEF StoreInv

\* The sequence of a diff is stored when all of it is covered.
LEMMA SetSequenceStep == IInv /\ SetSequence => StoreInv' /\ LoopInv'
  <1> SUFFICES ASSUME IInv, SetSequence PROVE StoreInv' /\ LoopInv'
      OBVIOUS
  <1> USE DEF IInv
  <1>1. /\ pc = "apply" /\ pos = End[cur] /\ conn /\ seq' = cur
        /\ UNCHANGED <<nd, db, geom, durable, conn, rem, high, undone>>
        BY DEF SetSequence, stores, history
  <1>2. \/ pc' = "poll"
        \/ pc' = "download" /\ cur' = cur + 1 /\ cur < rem
        BY DEF SetSequence
  <1>3. /\ cur \in Int /\ rem \in Int /\ cur >= 1
        /\ RowsCover(db, End[cur], high)
        /\ ~undone => NodesCover(nd, End[cur])
        BY <1>1 DEF TypeOK, LoopInv, Applying
  <1>4. NeverStale'
        BY <1>1, <1>3 DEF StoreInv, NeverStale, RowsCover, NodesCover
  <1>5. StampsSound' /\ GeometryInv'
        BY <1>1 DEF StoreInv, StampsSound, Sound, GeometryInv, GeomCovers
  <1>6. LoopInv'
    <2>1. CASE pc' = "poll"
          BY <2>1, LoopLeft
    <2>2. CASE pc' = "download" /\ cur' = cur + 1 /\ cur < rem
      <3>1. cur' - 1 = cur /\ cur' >= 1 /\ cur' <= rem'
            BY <1>1, <1>3, <2>2
      <3> QED
          BY <1>1, <1>3, <2>2, <3>1 DEF LoopInv, Applying, NodesCover
    <2> QED
        BY <1>2, <2>1, <2>2
  <1> QED
      BY <1>4, <1>5, <1>6 DEF StoreInv

----------------------------------------------------------------------------
(* The theorems *)

\* Every step keeps the inductive invariant.
LEMMA NextIInv == IInv /\ [Next]_vars => IInv'
  <1> SUFFICES ASSUME IInv, [Next]_vars PROVE IInv'
      OBVIOUS
  <1>1. CASE UNCHANGED vars
        BY <1>1 DEF IInv, vars, TypeOK, StoreInv, StampsSound, Sound, NeverStale,
                    GeometryInv, LoopInv, Applying, NodesCover, RowsCover, GeomCovers
  <1>2. CASE Next
    <2>1. TypeOK'
          BY <1>2, TypePreserved DEF IInv
    <2>2. StoreInv' /\ LoopInv'
          BY <1>2, ControlSteps, FlushStep, DbCrashStep, ApplyNodeStep,
             ApplyWayStep, CommitRowsStep, SetSequenceStep
          DEF Next, Poll, Apply
    <2> QED
        BY <2>1, <2>2 DEF IInv
  <1> QED
      BY <1>1, <1>2

\* The invariant holds in every reachable state.
THEOREM Invariance == Spec => []IInv
  BY InitIInv, NextIInv, PTL DEF Spec

\* Types are kept by every step of the process, the server and Postgres.
THEOREM TypeCorrect == Spec => []TypeOK
  <1>1. IInv => TypeOK
        BY DEF IInv
  <1> QED
      BY <1>1, Invariance, PTL

\* The stored sequence never runs ahead of the tables, of what is durable of
\* them, or of nodes.dat (downloadAndApply stores it after the apply).
THEOREM NeverStaleHolds == Spec => []NeverStale
  <1>1. IInv => NeverStale
        BY DEF IInv, StoreInv
  <1> QED
      BY <1>1, Invariance, PTL

\* A way's geometry is at least as new as the way (buildWayGeom reads nodes.dat
\* after the preceding changes were written to it).
THEOREM GeometryAsOfWayHolds == Spec => []GeometryAsOfWay
  <1>1. IInv => GeometryAsOfWay
        BY DEF IInv, StoreInv, GeometryInv, GeometryAsOfWay
  <1> QED
      BY <1>1, Invariance, PTL

\* Once the sequence covers all that was begun, no stamp can be above it and
\* none below it is missing.
LEMMA CaughtUpExact == IInv => CaughtUpIsExact
  <1> SUFFICES ASSUME IInv, End[seq] >= high
               PROVE  /\ \A e \in Ents : IsLatest(e, db[e], End[seq])
                      /\ ~undone => \A n \in Nodes : IsLatest(n, nd[n], End[seq])
      BY DEF CaughtUpIsExact
  <1> USE ReplicationAssumption DEF IInv
  <1>1. End[seq] \in Nat /\ End[seq] <= NChanges /\ high \in Nat
        BY EndFacts DEF TypeOK, Stamps
  <1>2. ASSUME NEW e \in Ents PROVE IsLatest(e, db[e], End[seq])
    <2>1. db[e] \in Nat /\ db[e] <= End[seq] /\ (db[e] # 0 => Ent[db[e]] = e)
          BY <1>1 DEF TypeOK, Stamps, StoreInv, StampsSound, Sound
    <2>2. ASSUME NEW p \in 1..End[seq], Ent[p] = e PROVE p <= db[e]
      <3>1. (End[seq] + 1)..high = {}
            BY <1>1
      <3> QED
          BY <2>1, <2>2, <3>1 DEF StoreInv, NeverStale, RowsCover
    <2> QED
        BY <2>1, <2>2 DEF IsLatest
  <1>3. ASSUME ~undone, NEW n \in Nodes PROVE IsLatest(n, nd[n], End[seq])
    <2>1. nd[n] \in Nat /\ nd[n] <= End[seq] /\ (nd[n] # 0 => Ent[nd[n]] = n)
          BY <1>1 DEF TypeOK, Stamps, StoreInv, StampsSound, Sound
    <2>2. ASSUME NEW p \in 1..End[seq], Ent[p] = n PROVE p <= nd[n]
          BY <1>3, <2>1, <2>2 DEF StoreInv, NeverStale, NodesCover
    <2> QED
        BY <2>1, <2>2 DEF IsLatest
  <1> QED
      BY <1>2, <1>3

\* Replays converge: once the sequence covers every change ever begun, both
\* stores hold the latest change of every entity and nothing else.
THEOREM CaughtUpIsExactHolds == Spec => []CaughtUpIsExact
  BY CaughtUpExact, Invariance, PTL

\* setSequence never skips a diff: the sequence advances by one, with the whole
\* diff in the tables, or with a rollback of the whole database.
THEOREM NoSkippedDiffHolds == Spec => NoSkippedDiff
  <1> DEFINE Advance == seq' > seq =>
                 \/ seq' = seq + 1 /\ RowsCover(db, End[seq'], high)
                 \/ <<db', geom', seq'>> = durable
  <1>1. IInv /\ [Next]_vars => [Advance]_vars
    <2> SUFFICES ASSUME IInv, Next PROVE Advance
        OBVIOUS
    <2>1. seq \in 0..MaxSeq
          BY DEF IInv, TypeOK
    <2>2. CASE DbCrash
          BY <2>2 DEF DbCrash, IInv, TypeOK
    <2>3. CASE SetSequence
          BY <2>1, <2>3 DEF SetSequence, IInv, TypeOK, LoopInv, Applying
    <2>4. CASE StartAt
          BY <2>1, <2>4 DEF StartAt
    <2>5. CASE seq' = seq
          BY <2>1, <2>5
    <2> QED
        BY <2>2, <2>3, <2>4, <2>5
        DEF Next, Poll, Apply, Publish, WalFlush, Start, ReadLocal, ReadRemote,
            Retry, NoSequence, UpToDate, Behind, Download, ApplyNode, ApplyWay,
            CommitRows, StopOnError, Stop, Crash, tables
  <1> QED
      BY <1>1, Invariance, PTL DEF Spec, NoSkippedDiff
=============================================================================
