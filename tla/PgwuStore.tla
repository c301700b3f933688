----------------------------- MODULE PgwuStore -----------------------------
(***************************************************************************)
(* PGW-U's session store (internal/pgwu/rules): a mutation is applied to   *)
(* the data plane, then written and synced to the WAL, then indexed in     *)
(* memory.  Unlike the control planes' journal the WAL is never compacted. *)
(* When the WAL fails, the data plane is rolled back and the store refuses *)
(* every later mutation until it is restarted.  The process may die at any *)
(* step and the machine may lose what was not synced.                      *)
(*                                                                         *)
(* A session is its identities, its tunnels (the default one, and that of  *)
(* a dedicated bearer) and one value for all it carries besides.           *)
(***************************************************************************)
EXTENDS Integers, Sequences, FiniteSets, SequencesExt, Functions, TLC

CONSTANTS UPSEIDs, CPSEIDs, UEs, TEIDs, Values,
          None,
          MaxSessions,     \* capacity of the store
          MaxRecords,      \* state_wal_max_bytes, in records
          PartialApply,    \* whether a failed Apply may leave its changes behind
          UnsyncedStart,   \* whether a start may find records in the page cache
                           \* that are not on disk yet
          MaxFaults        \* bound: failed calls, kills and power losses

VARIABLES mem,        \* Store.byUP, with its indexes
          dataplane,  \* sessions the kernel forwards for
          log,        \* records of the WAL, as the page cache has them
          torn,       \* a partial record follows them
          synced,     \* number of records known to be on disk
          failed,     \* WAL.failed
          poisoned,   \* Store.poisoned
          tx,         \* the mutation that holds the store's lock, or Free
          running,
          faults,     \* bound
          replayed,   \* ghost: what replay makes of log
          onDisk      \* ghost: the sessions in the part of log that is on disk

vars == <<mem, dataplane, log, torn, synced, onDisk, failed, poisoned, tx, running, faults, replayed>>

NoSession == [revision |-> 0]
Free == [pc |-> "free"]
Tunnels(s) == {s.teid, s.dedicated} \ {None}
Live == {u \in UPSEIDs : mem[u] # NoSession}
Upsert(s) == [op |-> "upsert", session |-> s]
Removal(s) == [op |-> "delete", session |-> s]

----------------------------------------------------------------------------
(* replay: an upsert starts at revision one and goes up by one under the   *)
(* same CP-SEID; a delete repeats the live session.                        *)

Empty == [db |-> [u \in UPSEIDs |-> NoSession], ok |-> TRUE]
ApplyRecord(r, f) ==
  LET s == f.session
      old == r.db[s.up]
      legal == CASE f.op = "upsert" -> s.revision = old.revision + 1 /\ (old # NoSession => old.cp = s.cp)
                 [] f.op = "delete" -> old = s
  IN IF r.ok /\ legal
     THEN [r EXCEPT !.db[s.up] = IF f.op = "upsert" THEN s ELSE NoSession]
     ELSE [r EXCEPT !.ok = FALSE]
Replay(l) ==
  LET after[n \in 0..Len(l)] == IF n = 0 THEN Empty ELSE ApplyRecord(after[n - 1], l[n])
  IN after[Len(l)]
SetLog(l) == log' = l /\ replayed' = Replay(l)
Stored(db) == [u \in {x \in UPSEIDs : db[x] # NoSession} |-> db[u]]
SetSynced(n) == synced' = n /\ onDisk' = Stored(Replay(SubSeq(log, 1, n)).db)

\* What Restore demands of the recovered sessions.
Restorable(db) ==
  LET live == {u \in UPSEIDs : db[u] # NoSession}
  IN /\ Cardinality(live) <= MaxSessions
     /\ \A u, v \in live : u # v => /\ db[u].cp # db[v].cp /\ db[u].ue # db[v].ue
                                    /\ Tunnels(db[u]) \cap Tunnels(db[v]) = {}

----------------------------------------------------------------------------
(* The checks of Create, Update, Reconcile and Delete *)

\* A TEID names one bearer of a session too.
validate(s) == s.teid # s.dedicated
checkTunnelConflicts(s) == \A v \in Live \ {s.up} : Tunnels(s) \cap Tunnels(mem[v]) = {}

Begin(previous, next) ==
  /\ tx' = [pc |-> "apply", previous |-> previous, next |-> next]
  /\ UNCHANGED <<mem, dataplane, log, torn, synced, onDisk, failed, poisoned, running, faults, replayed>>
Mutable == running /\ tx = Free /\ ~poisoned

Create(u) ==
  /\ Mutable
  /\ mem[u] = NoSession
  /\ Cardinality(Live) < MaxSessions
  /\ \E c \in CPSEIDs, ue \in UEs, t \in TEIDs, d \in TEIDs \union {None}, v \in Values :
       LET s == [up |-> u, cp |-> c, ue |-> ue, teid |-> t, dedicated |-> d, value |-> v, revision |-> 1]
       IN /\ validate(s)
          /\ \A x \in Live : mem[x].cp # c /\ mem[x].ue # ue
          /\ checkTunnelConflicts(s)
          /\ Begin(NoSession, s)

\* Update and Reconcile: identities and the default tunnel stay; a replay that
\* changes nothing commits nothing.
Update(u) ==
  /\ Mutable
  /\ mem[u] # NoSession
  /\ \E d \in TEIDs \union {None}, v \in Values :
       LET s == [mem[u] EXCEPT !.dedicated = d, !.value = v, !.revision = @ + 1]
       IN /\ validate(s)
          /\ [s EXCEPT !.revision = mem[u].revision] # mem[u]
          /\ checkTunnelConflicts(s)
          /\ Begin(mem[u], s)

Delete(u) == Mutable /\ mem[u] # NoSession /\ Begin(mem[u], NoSession)

Key == IF tx.next # NoSession THEN tx.next.up ELSE tx.previous.up
Record == IF tx.next # NoSession THEN Upsert(tx.next) ELSE Removal(tx.previous)
At(pc) == running /\ tx.pc = pc
To(pc) == tx' = [tx EXCEPT !.pc = pc]
Fault == faults < MaxFaults /\ faults' = faults + 1

----------------------------------------------------------------------------
(* commit *)

Apply ==
  /\ At("apply")
  /\ dataplane' = [dataplane EXCEPT ![Key] = tx.next]
  /\ To("write")
  /\ UNCHANGED <<mem, log, torn, synced, onDisk, failed, poisoned, running, faults, replayed>>

\* ErrDataplane: the mutation is refused and the store stays in service.
ApplyFails ==
  /\ At("apply") /\ Fault
  /\ \/ UNCHANGED dataplane
     \/ PartialApply /\ dataplane' = [dataplane EXCEPT ![Key] = tx.next]
  /\ tx' = Free
  /\ UNCHANGED <<mem, log, torn, synced, onDisk, failed, poisoned, running, replayed>>

Write ==
  /\ At("write")
  /\ ~failed /\ Len(log) < MaxRecords
  /\ SetLog(Append(log, Record))
  /\ To("sync")
  /\ UNCHANGED <<mem, dataplane, torn, synced, onDisk, failed, poisoned, running, faults>>

\* ErrWALCapacity does not latch the WAL; the store poisons itself all the same.
WALFull ==
  /\ At("write")
  /\ Len(log) >= MaxRecords
  /\ To("rollback")
  /\ UNCHANGED <<mem, dataplane, log, torn, synced, onDisk, failed, poisoned, running, faults, replayed>>

WriteFails ==
  /\ At("write") /\ Fault
  /\ ~failed /\ Len(log) < MaxRecords
  /\ torn' \in BOOLEAN
  /\ failed' = TRUE
  /\ To("rollback")
  /\ UNCHANGED <<mem, dataplane, log, synced, onDisk, poisoned, running, replayed>>

Sync ==
  /\ At("sync")
  /\ SetSynced(Len(log))
  /\ To("index")
  /\ UNCHANGED <<mem, dataplane, log, torn, failed, poisoned, running, faults, replayed>>
SyncFails ==
  /\ At("sync") /\ Fault
  /\ failed' = TRUE
  /\ To("rollback")
  /\ UNCHANGED <<mem, dataplane, log, torn, synced, onDisk, poisoned, running, replayed>>

Rollback ==
  /\ At("rollback")
  /\ \/ dataplane' = [dataplane EXCEPT ![Key] = tx.previous] /\ UNCHANGED faults
     \/ Fault /\ UNCHANGED dataplane
  /\ poisoned' = TRUE
  /\ tx' = Free
  /\ UNCHANGED <<mem, log, torn, synced, onDisk, failed, running, replayed>>

Index ==
  /\ At("index")
  /\ mem' = [mem EXCEPT ![Key] = tx.next]
  /\ tx' = Free
  /\ UNCHANGED <<dataplane, log, torn, synced, onDisk, failed, poisoned, running, faults, replayed>>

----------------------------------------------------------------------------
(* Death and restart *)

Stopped == running' = FALSE /\ tx' = Free /\ mem' = Empty.db /\ failed' = FALSE /\ poisoned' = FALSE

Kill ==
  /\ running /\ Fault
  /\ Stopped
  /\ torn' \in (IF tx.pc = "write" THEN BOOLEAN ELSE {torn})
  /\ UNCHANGED <<dataplane, log, synced, onDisk, replayed>>

PowerLoss ==
  /\ running /\ Fault
  /\ Stopped
  /\ \E n \in synced..Len(log) :
       /\ SetLog(SubSeq(log, 1, n))
       /\ SetSynced(n)
       /\ torn' \in (IF n < Len(log) \/ tx.pc = "write" THEN BOOLEAN ELSE {torn})
  /\ dataplane' = Empty.db

\* The operator restarts a poisoned store.
Stop ==
  /\ running /\ tx = Free
  /\ poisoned
  /\ Stopped
  /\ UNCHANGED <<dataplane, log, torn, synced, onDisk, faults, replayed>>

\* The page cache is written back in the meantime.
WriteBack ==
  /\ ~running /\ synced < Len(log)
  /\ SetSynced(Len(log))
  /\ UNCHANGED <<mem, dataplane, log, torn, failed, poisoned, tx, running, faults, replayed>>

\* OpenWAL and Restore: the partial tail is cut off, the kernel is made to
\* match what was recovered.  What a kill left in the page cache counts as
\* recovered, synced or not.
truncateTail == torn' = FALSE
Start ==
  /\ ~running
  /\ synced < Len(log) => UnsyncedStart
  /\ Len(log) <= MaxRecords /\ replayed.ok /\ Restorable(replayed.db)
  /\ running' = TRUE
  /\ truncateTail
  /\ mem' = replayed.db
  /\ dataplane' = replayed.db
  /\ UNCHANGED <<log, synced, onDisk, failed, poisoned, tx, faults, replayed>>

Init ==
  /\ mem = Empty.db /\ dataplane = Empty.db
  /\ log = <<>> /\ torn = FALSE /\ synced = 0 /\ replayed = Empty /\ onDisk = <<>>
  /\ failed = FALSE /\ poisoned = FALSE /\ tx = Free /\ running = TRUE /\ faults = 0

Next ==
  \/ \E u \in UPSEIDs : Create(u) \/ Update(u) \/ Delete(u)
  \/ Apply \/ ApplyFails \/ Write \/ WALFull \/ WriteFails \/ Sync \/ SyncFails \/ Rollback \/ Index
  \/ Kill \/ PowerLoss \/ Stop \/ WriteBack \/ Start

Spec == Init /\ [][Next]_vars

----------------------------------------------------------------------------
(* Properties *)

\* Every variable has its shape.
TypeOK ==
  /\ \A u \in UPSEIDs : mem[u] # NoSession => mem[u].up = u /\ mem[u].revision \in 1..MaxRecords
  /\ synced \in 0..Len(log) /\ Len(log) <= MaxRecords
  /\ {torn, failed, poisoned, running} \subseteq BOOLEAN
  /\ tx.pc \in {"free", "apply", "write", "sync", "index", "rollback"}
  /\ faults \in 0..MaxFaults

\* OpenWAL, Restore: whatever was written when the process died, the store
\* accepts its own log.
OwnLogRestores == replayed.ok /\ Restorable(replayed.db)

\* Commit, Restore: what the store holds, and what it answers for, is on disk:
\* a power loss now would bring back exactly that.
CommittedIsDurable == running /\ ~poisoned /\ tx.pc \in {"free", "apply"} => onDisk = Stored(mem)

\* commit, Restore: while the store serves and is between mutations, the
\* kernel forwards for the sessions the store holds, with their rules.
DataplaneMatchesStore == running /\ tx = Free /\ ~poisoned => dataplane = mem

\* checkMutable: once poisoned the store holds what it held and the log does
\* not grow, until the restart.
=============================================================================
