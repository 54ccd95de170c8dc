------------------------- MODULE ReplicationMirror -------------------------
(***************************************************************************)
(* Poll mode implements DiffMirror: Replicator::poll over two stores, with *)
(* partial diffs, lost connections, lost commits, crashes and repeats, is  *)
(* to the reader of the tables a mirror that follows the diffs.            *)
(***************************************************************************)
EXTENDS Replication

\* The tables after the first s diffs: the latest change of every entity.
snapshot ==
    [s \in 0..MaxSeq |-> [e \in Ents |-> CHOOSE p \in Stamps : IsLatest(e, p, End[s])]]

\* No change beyond the stored sequence has been begun, or all that were are
\* covered by it again.
Settled == End[seq] >= high

mirrored == IF Settled THEN {db} ELSE {}

Mirror == INSTANCE DiffMirror WITH
    Snapshot  <- snapshot,
    published <- remote,
    claimed   <- seq,
    flushed   <- durable[3],
    contents  <- mirrored

\* Whatever poll, Postgres and the operator do, the tables and the stored
\* sequence behave as the mirror: the sequence moves diff by diff, falls back
\* only to what was flushed or set, the tables are a snapshot whenever they
\* are not being changed, and every diff that appears gets in.
ImplementsMirror == Mirror!FairMirror
=============================================================================
