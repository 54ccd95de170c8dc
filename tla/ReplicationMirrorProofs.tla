---------------------- MODULE ReplicationMirrorProofs ----------------------
(***************************************************************************)
(* Poll mode implements DiffMirror, for every change stream and any number *)
(* of faults.  The invariant of ReplicationProofs supplies that settled    *)
(* tables are a snapshot; in addition the loop never goes beyond the diffs *)
(* the server has published.  The mirror's fairness is left to TLC.        *)
(***************************************************************************)
EXTENDS ReplicationMirror, ReplicationProofs

\* What poll() read from state.txt has been published.
WithinPublished == rem <= remote

\* What a reader finds is the snapshot of the sequence, or unsettled.
Shown == mirrored \in Mirror!Readable(seq)

MInv == IInv /\ WithinPublished /\ Shown

\* An entity has one latest change.
LEMMA LatestUnique ==
    ASSUME NEW e \in Ents, NEW n \in Stamps, NEW p \in Stamps, NEW q \in Stamps,
           IsLatest(e, p, n), IsLatest(e, q, n)
    PROVE  p = q
  BY ReplicationAssumption DEF IsLatest, Stamps

\* Tables that hold the latest change of every entity are the snapshot.
LEMMA SnapshotOfLatest ==
    ASSUME NEW s \in 0..MaxSeq, NEW t \in [Ents -> Stamps],
           \A e \in Ents : IsLatest(e, t[e], End[s])
    PROVE  snapshot[s] = t
  <1>1. End[s] \in Stamps
        BY ReplicationAssumption
  <1> DEFINE latest(e) == CHOOSE p \in Stamps : IsLatest(e, p, End[s])
  <1>2. ASSUME NEW e \in Ents PROVE latest(e) = t[e]
    <2>1. t[e] \in Stamps /\ IsLatest(e, t[e], End[s])
          OBVIOUS
    <2>2. latest(e) \in Stamps /\ IsLatest(e, latest(e), End[s])
          BY <2>1
    <2> HIDE DEF latest
    <2> QED
        BY <1>1, <2>1, <2>2, LatestUnique
  <1>3. snapshot[s] = [e \in Ents |-> latest(e)]
        BY DEF snapshot
  <1> HIDE DEF latest
  <1> QED
      BY <1>2, <1>3

\* The invariant of the loop settles what a reader finds.
LEMMA MirroredReadable == IInv => Shown
  <1> SUFFICES ASSUME IInv PROVE mirrored \in {{}, {snapshot[seq]}}
      BY DEF Shown, Mirror!Readable
  <1>1. CASE Settled
    <2>1. \A e \in Ents : IsLatest(e, db[e], End[seq])
          BY <1>1, CaughtUpExact DEF CaughtUpIsExact, Settled
    <2>2. seq \in 0..MaxSeq /\ db \in [Ents -> Stamps]
          BY DEF IInv, TypeOK
    <2> QED
        BY <1>1, <2>1, <2>2, SnapshotOfLatest DEF mirrored
  <1>2. CASE ~Settled
        BY <1>2 DEF mirrored
  <1> QED
      BY <1>1, <1>2

\* The invariant with the server's side.
LEMMA MirrorInvariance == Spec => []MInv
  <1>1. Init => WithinPublished
        BY ReplicationAssumption DEF Init, WithinPublished
  <1>2. IInv /\ WithinPublished /\ [Next]_vars => WithinPublished'
    <2> SUFFICES ASSUME IInv, WithinPublished, [Next]_vars PROVE WithinPublished'
        OBVIOUS
    <2>1. rem \in Int /\ remote \in Int
          BY DEF IInv, TypeOK
    <2>2. \/ rem' = rem /\ remote' = remote
          \/ rem' = rem /\ remote' = remote + 1
          \/ rem' = remote /\ remote' = remote
          BY DEF Next, Poll, Apply, Publish, WalFlush, DbCrash, Start, StartAt,
                 ReadLocal, ReadRemote, Retry, NoSequence, UpToDate, Behind,
                 Download, ApplyNode, ApplyWay, CommitRows, SetSequence,
                 StopOnError, Stop, Crash, vars, loop
    <2> QED
        BY <2>1, <2>2 DEF WithinPublished
  <1> QED
      BY <1>1, <1>2, MirroredReadable, Invariance, PTL DEF Spec, MInv

----------------------------------------------------------------------------
(* The steps *)

\* A step that leaves sequence, flushed state and server alone leaves what the
\* reader finds alone or unsettles it.
StaysOrUnsettles ==
    /\ seq' = seq /\ durable' = durable /\ remote' = remote
    /\ mirrored' \in {{}, mirrored}

\* While the connection lasts, the change in hand is beyond the sequence, so
\* the tables are unsettled from the moment it is begun.
LEMMA InHandUnsettled ==
    ASSUME IInv, Applying, conn
    PROVE  End[seq] < pos + 1
  <1>1. seq \in 0..MaxSeq /\ pos \in Nat
        BY DEF IInv, TypeOK, Stamps
  <1>2. seq = cur - 1 /\ End[cur - 1] <= pos
        BY DEF IInv, LoopInv
  <1>3. End[seq] \in Nat
        BY <1>1, EndFacts
  <1> QED
      BY <1>1, <1>2, <1>3

\* Applying a change never shows the reader a half-written table.
LEMMA ApplyStays ==
    ASSUME IInv, ApplyNode \/ ApplyWay \/ CommitRows
    PROVE  StaysOrUnsettles
  <1>1. seq \in 0..MaxSeq /\ pos \in Nat /\ high \in Nat
        BY DEF IInv, TypeOK, Stamps
  <1>2. End[seq] \in Nat
        BY <1>1, EndFacts
  <1>3. seq' = seq /\ durable' = durable /\ remote' = remote
        BY DEF ApplyNode, ApplyWay, CommitRows, tables
  <1>4. CASE ApplyNode
    <2>1. db' = db /\ high' \in Nat /\ high' >= high
          BY <1>1, <1>4 DEF ApplyNode, tables, Begun
    <2> QED
        BY <1>1, <1>2, <1>3, <2>1 DEF StaysOrUnsettles, mirrored, Settled
  <1>5. CASE ApplyWay
    <2>1. Applying /\ conn /\ high' \in Nat /\ high' >= pos + 1
          BY <1>1, <1>5 DEF ApplyWay, Begun, Applying
    <2>2. End[seq] < high'
          BY <1>1, <1>2, <2>1, InHandUnsettled
    <2> QED
        BY <1>1, <1>2, <1>3, <2>1, <2>2 DEF StaysOrUnsettles, mirrored, Settled
  <1>6. CASE CommitRows
    <2>1. high' = high
          BY <1>6 DEF CommitRows, history
    <2>2. CASE conn
      <3>1. Applying /\ high >= pos + 1
            BY <1>1, <1>6 DEF CommitRows, Applying, IInv, LoopInv
      <3>2. End[seq] < high
            BY <1>1, <1>2, <2>2, <3>1, InHandUnsettled
      <3> QED
          BY <1>1, <1>2, <1>3, <2>1, <3>2 DEF StaysOrUnsettles, mirrored, Settled
    <2>3. CASE ~conn
      <3>1. db' = db
            BY <1>6, <2>3 DEF CommitRows, IInv, TypeOK
      <3> QED
          BY <1>3, <2>1, <3>1 DEF StaysOrUnsettles, mirrored, Settled
    <2> QED
        BY <2>2, <2>3
  <1> QED
      BY <1>4, <1>5, <1>6

\* Every step of poll mode and its environment is a step of the mirror or
\* changes nothing it shows.
LEMMA MirrorStep == MInv /\ MInv' /\ [Next]_vars => [Mirror!MirrorNext]_(Mirror!mvars)
  <1> SUFFICES ASSUME MInv, MInv', [Next]_vars
               PROVE  Mirror!MirrorNext \/ UNCHANGED Mirror!mvars
      OBVIOUS
  <1> USE DEF MInv
  <1>1. seq \in 0..MaxSeq /\ remote \in 0..MaxSeq /\ MaxSeq \in Nat
        BY ReplicationAssumption DEF IInv, TypeOK
  <1>2. ASSUME StaysOrUnsettles PROVE Mirror!MirrorNext \/ UNCHANGED Mirror!mvars
        BY <1>2 DEF StaysOrUnsettles, Mirror!MirrorNext, Mirror!Work, Mirror!mvars
  <1>3. CASE Publish
    <2>1. mirrored' = mirrored /\ seq' = seq /\ durable' = durable
          BY <1>3 DEF Publish, tables, history, mirrored, Settled
    <2> QED
        BY <1>3, <2>1 DEF Publish, Mirror!MirrorNext, Mirror!Appear
  <1>4. CASE WalFlush
    <2>1. mirrored' = mirrored /\ seq' = seq /\ remote' = remote
          BY <1>4 DEF WalFlush, tables, history, mirrored, Settled
    <2>2. durable'[3] = seq
          BY <1>4 DEF WalFlush, tables
    <2> QED
        BY <2>1, <2>2 DEF Mirror!MirrorNext, Mirror!Flush
  <1>5. CASE DbCrash
    <2>1. seq' = durable[3] /\ durable' = durable /\ remote' = remote
          BY <1>5 DEF DbCrash
    <2>2. mirrored' \in Mirror!Readable(durable[3])
          BY <2>1 DEF Shown, Mirror!Readable
    <2> QED
        BY <2>1, <2>2 DEF Mirror!MirrorNext, Mirror!Recover
  <1>6. CASE StartAt
    <2>1. seq' \in 0..seq /\ db' = db /\ high' = high /\ durable' = durable /\ remote' = remote
          BY <1>6 DEF StartAt, stores, history
    <2>2. End[seq'] \in Nat /\ End[seq] \in Nat /\ End[seq'] <= End[seq] /\ high \in Nat
          BY <1>1, <2>1, EndFacts DEF IInv, TypeOK, Stamps
    <2>3. mirrored' \in {{}, mirrored}
          BY <2>1, <2>2 DEF mirrored, Settled
    <2> QED
        BY <2>1, <2>3 DEF Mirror!MirrorNext, Mirror!Rewind
  <1>7. CASE SetSequence
    <2>1. seq' = seq + 1 /\ durable' = durable /\ remote' = remote
          BY <1>1, <1>7 DEF SetSequence, stores, IInv, LoopInv, Applying, TypeOK
    <2>2. seq < remote
          BY <1>1, <1>7 DEF SetSequence, IInv, LoopInv, Applying, TypeOK, WithinPublished
    <2>3. mirrored' \in Mirror!Readable(seq + 1)
          BY <2>1 DEF Shown, Mirror!Readable
    <2> QED
        BY <2>1, <2>2, <2>3 DEF Mirror!MirrorNext, Mirror!Advance
  <1>8. CASE ApplyNode \/ ApplyWay \/ CommitRows
        BY <1>2, <1>8, ApplyStays
  <1>9. CASE /\ db' = db /\ seq' = seq /\ durable' = durable
             /\ remote' = remote /\ high' = high
    <2>1. StaysOrUnsettles
          BY <1>9 DEF StaysOrUnsettles, mirrored, Settled
    <2> QED
        BY <1>2, <2>1
  <1> QED
      BY <1>3, <1>4, <1>5, <1>6, <1>7, <1>8, <1>9
      DEF Next, Poll, Apply, Start, ReadLocal, ReadRemote, Retry, NoSequence,
          UpToDate, Behind, Download, StopOnError, Stop, Crash, vars, stores, history

\* Poll mode implements the mirror: to the reader of the tables, Replicator::poll
\* with its faults is a sequence that follows the published diffs one by one,
\* falls back only to a flushed or an asked-for one, and tables that are the
\* snapshot of that sequence whenever no later change has been begun.
THEOREM PollIsAMirror == Spec => Mirror!MirrorSpec
  <1>1. Init => Mirror!MirrorInit
    <2> SUFFICES ASSUME Init PROVE Mirror!MirrorInit
        OBVIOUS
    <2>1. durable[3] = seq
          BY DEF Init, tables
    <2>2. mirrored \in Mirror!Readable(seq)
          BY InitIInv, MirroredReadable DEF Shown
    <2> QED
        BY <2>1, <2>2 DEF Init, Mirror!MirrorInit, Mirror!Seqs
  <1> QED
      BY <1>1, MirrorStep, MirrorInvariance, PTL DEF Spec, Mirror!MirrorSpec
=============================================================================
