----------------------------- MODULE SessionLog -----------------------------
(***************************************************************************)
(* The write-ahead log below a session store, as the store sees it: the    *)
(* journal (module Journal) holds boot frames and data frames, and a data  *)
(* frame is an upsert, a delete or a snapshot of one session.              *)
(* Sizes are in units; the file header is left out of both sides of every  *)
(* comparison.                                                             *)
(***************************************************************************)
EXTENDS Integers, Sequences, SequencesExt, FiniteSets, Functions, TLC

CONSTANTS
    MaxBytes,   \* state_wal_max_bytes
    BootBytes,  \* size of a boot frame
    DataBytes   \* size of a data frame

Boot == [op |-> "boot"]
Upsert(s) == [op |-> "upsert", session |-> s]
Delete(s) == [op |-> "delete", session |-> s]
Snapshot(s) == [op |-> "snapshot", session |-> s]

Bytes(log) ==
    LET boots == Cardinality({i \in 1..Len(log) : log[i] = Boot}) IN
    BootBytes * boots + DataBytes * (Len(log) - boots)
Fits(log) == Bytes(log) <= MaxBytes

SnapshotBytes(db) == DataBytes * Cardinality(DOMAIN db)

(* The journal's advice before an append: compact if that is the only way  *)
(* to make room, or if half of the limit is used and a quarter of it can   *)
(* be reclaimed.                                                           *)
NeedsCompaction(log, db) ==
    LET compact == BootBytes + SnapshotBytes(db)
        used == Bytes(log)
    IN  IF used + DataBytes > MaxBytes
        THEN compact + DataBytes <= MaxBytes
        ELSE used >= MaxBytes \div 2 /\ used - compact >= MaxBytes \div 4

(* The compacted journal: this epoch's boot frame and one snapshot per     *)
(* live session, by identifier.                                            *)
Compacted(db) ==
    LET ids == SetToSortSeq(DOMAIN db, <) IN
    <<Boot>> \o [i \in 1..Len(ids) |-> Snapshot(db[ids[i]])]

(* What a replay starts from, and what it makes of an illegal frame.       *)
Empty == [db |-> <<>>, snapshots |-> TRUE, ok |-> TRUE]

Corrupt(r) == [r EXCEPT !.ok = FALSE]
=============================================================================
