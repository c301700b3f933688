----------------------------- MODULE SessionWAL -----------------------------
(***************************************************************************)
(* The replay of a log, and Commit, the one way a session store changes    *)
(* it: the WAL checks the transition against its own snapshot of the       *)
(* session, compacts the journal if it asks for it, and appends.  SGW-C    *)
(* and PGW-C differ in what a valid session and a legal update are.        *)
(***************************************************************************)
EXTENDS SessionLog

CONSTANTS
    ValidSession(_), ValidUpdate(_, _),
    NoSession     \* the nil session

VARIABLES
    poisoned,     \* "no", "journal" (the journal failed) or "refused" (the
                  \* WAL declined the transition before writing anything)
    snapshots,    \* WAL.snapshots
    log,          \* the journal file
    disk          \* ghost: Replay(log), what a restart would recover

(* Replay folds the data frames into a map.  A snapshot must come before   *)
(* every transition and be the only one of its session, a first upsert has *)
(* revision one, a later one is a legal update of what is there, a delete  *)
(* repeats the live session exactly.                                       *)
Legal(r, op, s) ==
    LET live == s.id \in DOMAIN r.db IN
    /\ ValidSession(s)
    /\ CASE op = "snapshot" -> r.snapshots /\ ~live
         [] op = "upsert" -> IF live THEN ValidUpdate(r.db[s.id], s) ELSE s.revision = 1
         [] op = "delete" -> live /\ r.db[s.id] = s

Apply(r, f) ==
    IF f = Boot \/ ~r.ok THEN r
    ELSE IF ~Legal(r, f.op, f.session) THEN Corrupt(r)
    ELSE IF f.op = "delete"
    THEN [r EXCEPT !.db = Restrict(@, DOMAIN @ \ {f.session.id}), !.snapshots = FALSE]
    ELSE [r EXCEPT !.db = (f.session.id :> f.session) @@ @, !.snapshots = (f.op = "snapshot")]

Replay(l) ==
    LET after[n \in 0..Len(l)] == IF n = 0 THEN Empty ELSE Apply(after[n - 1], l[n])
    IN  after[Len(l)]

Write(l) == log' = l /\ disk' = Replay(l)

Committable(prev, next) ==
    LET s == IF next # NoSession THEN next ELSE prev IN
    /\ ValidSession(s)
    /\ IF prev = NoSession
       THEN s.id \notin DOMAIN snapshots /\ next.revision = 1
       ELSE /\ s.id \in DOMAIN snapshots /\ snapshots[s.id] = prev
            /\ next # NoSession => ValidUpdate(prev, next)

Transition(prev, next) == IF next # NoSession THEN Upsert(next) ELSE Delete(prev)

CompactionBase ==
    IF NeedsCompaction(log, snapshots) THEN Compacted(snapshots) ELSE log

CommitSucceeds(prev, next) ==
    LET after == Append(CompactionBase, Transition(prev, next)) IN
    /\ Committable(prev, next) /\ Fits(after)
    /\ Write(after)
    /\ snapshots' = IF next # NoSession
                    THEN (next.id :> next) @@ snapshots
                    ELSE Restrict(snapshots, DOMAIN snapshots \ {prev.id})
    /\ UNCHANGED poisoned

(* A refused transition writes nothing.  A failed compaction, append or    *)
(* fsync leaves the old file, the compacted one, or the new record in it.  *)
CommitFails(prev, next) ==
    LET after == Append(CompactionBase, Transition(prev, next)) IN
    /\ IF Committable(prev, next)
       THEN /\ poisoned' = "journal"
            /\ \/ UNCHANGED <<log, disk>>
               \/ Write(CompactionBase)
               \/ Fits(after) /\ Write(after)
       ELSE poisoned' = "refused" /\ UNCHANGED <<log, disk>>
    /\ UNCHANGED snapshots
=============================================================================
