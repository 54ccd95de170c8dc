---------------------------- MODULE DiffMirror -----------------------------
(***************************************************************************)
(* What poll mode promises the reader of the database: a mirror of         *)
(* OpenStreetMap that follows the published diffs one by one.              *)
(*                                                                         *)
(* The mirror claims a sequence.  It holds the snapshot of that sequence,  *)
(* or no snapshot at all while a later diff is being applied or repeated.  *)
(* A crash may throw it back to the claim and contents that were flushed   *)
(* last, an operator may set the claim back, and it always comes back to   *)
(* the latest diff.                                                        *)
(***************************************************************************)
EXTENDS Integers

CONSTANTS
    MaxSeq,     \* the last diff
    Snapshot    \* the contents after each diff

VARIABLES
    published,   \* the latest diff on the server
    claimed,     \* the sequence the database says it has
    flushed,     \* the sequence it falls back to
    contents     \* the snapshot it holds, as a set of at most one

mvars == <<published, claimed, flushed, contents>>

Seqs == 0..MaxSeq

\* What a reader may find while s is claimed.
Readable(s) == {{}, {Snapshot[s]}}

MirrorInit ==
    /\ claimed \in Seqs /\ published = claimed /\ flushed = claimed
    /\ contents \in Readable(claimed)

\* The server has one more diff.
Appear ==
    /\ published < MaxSeq /\ published' = published + 1
    /\ UNCHANGED <<claimed, flushed, contents>>

\* A diff is being applied.
Work ==
    /\ contents' = {}
    /\ UNCHANGED <<published, claimed, flushed>>

\* The next diff is in.
Advance ==
    /\ claimed < published /\ claimed' = claimed + 1
    /\ contents' \in Readable(claimed + 1)
    /\ UNCHANGED <<published, flushed>>

Flush ==
    /\ flushed' = claimed
    /\ UNCHANGED <<published, claimed, contents>>

\* The database comes back from a crash.
Recover ==
    /\ claimed' = flushed /\ contents' \in Readable(flushed)
    /\ UNCHANGED <<published, flushed>>

\* Diffs are to be repeated.
Rewind ==
    /\ claimed' \in 0..claimed /\ contents' \in {{}, contents}
    /\ UNCHANGED <<published, flushed>>

MirrorNext == Appear \/ Work \/ Advance \/ Flush \/ Recover \/ Rewind

MirrorSpec == MirrorInit /\ [][MirrorNext]_mvars

\* While diffs are missing, the next one gets in.
FairMirror == MirrorSpec /\ WF_mvars(Advance)
=============================================================================
