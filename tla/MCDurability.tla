---------------------------- MODULE MCDurability ----------------------------
(***************************************************************************)
(* The journal and the three stores above it, side by side: a behaviour    *)
(* runs the component that part names and leaves the others where they     *)
(* start.  The journal has variables of its own; the stores share theirs,  *)
(* and those that the chosen component does not have are zero.             *)
(***************************************************************************)
EXTENDS Journal, TLC

CONSTANTS r1, r2,
          alice, bob, mme, internet, ims, gold, silver, nil,
          u1, u2, c1, c2, a1, a2, t1, t2, v1, v2, none

MCRecords == {r1, r2}
MCSnapshots == {<<r1>>, <<r2, r1>>}

VARIABLES
    part,
    byID, nextID, snapshots, log, durable, process,   \* both session stores
    byS11, byS5, byPFCP, byOwner, byBearer, clock,    \* SGW-C
    index,                                            \* PGW-C
    poisoned,
    mem, dataplane, tornRecord, syncedRecords, walFailed, tx, running, faults,
    replayed, onDisk                                  \* PGW-U

SgwcCandidate(u, a, s11, s5, cp, ebi) ==
    [subscriber |-> u, apn |-> a, mme |-> mme, s11 |-> s11, s5 |-> s5,
     cp |-> cp, up |-> 1, bearers |-> (ebi :> TRUE)]

(* Two PDNs of one subscriber below one S11 tunnel, another subscriber,    *)
(* and that subscriber with a tunnel that may be in use.                   *)
SgwcCandidates ==
    {SgwcCandidate(alice, internet, 1, 1, 1, 5), SgwcCandidate(alice, ims, 1, 2, 2, 6),
     SgwcCandidate(bob, internet, 2, 3, 3, 5), SgwcCandidate(bob, ims, 1, 3, 3, 6)}

PgwcCandidate(u, a, n, ebi) ==
    [subscriber |-> u, apn |-> a, control |-> n, user |-> n, cp |-> n, ue |-> n,
     up |-> 1, ebi |-> ebi, remote |-> 1, dedicated |-> <<>>]

(* Two PDNs of one subscriber and another subscriber. *)
PgwcCandidates ==
    {PgwcCandidate(alice, internet, 1, 5), PgwcCandidate(alice, ims, 2, 6),
     PgwcCandidate(bob, internet, 3, 5)}

(* The second bearer's tunnel may be the session's own. *)
PgwcBearers == {[policy |-> gold, local |-> 8, rule |-> 3],
                [policy |-> silver, local |-> 2, rule |-> 4]}

Sgwc == INSTANCE SgwcStore WITH
            Candidates <- SgwcCandidates, EBIs <- {5, 6}, TEIDs <- {1, 2, 3}, SEIDs <- {1, 2},
            MaxSessions <- 2, MaxRevision <- 2, MaxID <- 3, Times <- {1, 2},
            ClockSteps <- FALSE, MaxBytes <- 7, BootBytes <- 1, DataBytes <- 2,
            proc <- process, disk <- durable, NoSession <- nil

Pgwc == INSTANCE PgwcStore WITH
            Candidates <- PgwcCandidates, Bearers <- PgwcBearers, EBIs <- {5, 6},
            Remotes <- {2}, SEIDs <- {2}, MaxSessions <- 2, MaxDedicatedBearers <- 1,
            MaxRevision <- 3, MaxID <- 3, MaxBytes <- 8, BootBytes <- 1, DataBytes <- 2,
            proc <- process, disk <- durable, NoSession <- nil

PgwuUPSEIDs == {u1, u2}
Pgwu == INSTANCE PgwuStore WITH
            UPSEIDs <- PgwuUPSEIDs, CPSEIDs <- {c1, c2}, UEs <- {a1, a2}, TEIDs <- {t1, t2},
            Values <- {v1}, None <- none, MaxSessions <- 2, MaxRecords <- 3,
            PartialApply <- FALSE, UnsyncedStart <- FALSE, MaxFaults <- 2,
            torn <- tornRecord, synced <- syncedRecords, failed <- walFailed

-----------------------------------------------------------------------------
sessionVars == <<byID, nextID, snapshots, durable, process>>
sgwcVars == <<byS11, byS5, byPFCP, byOwner, byBearer, clock>>
pgwuVars == <<mem, dataplane, tornRecord, syncedRecords, walFailed, tx, running,
              faults, replayed, onDisk>>
storeVars == <<sessionVars, sgwcVars, index, poisoned, log, pgwuVars>>
allVars == <<part, vars, storeVars>>

NoSessionStore == byID = 0 /\ nextID = 0 /\ snapshots = 0 /\ durable = 0 /\ process = 0
NoSgwc == byS11 = 0 /\ byS5 = 0 /\ byPFCP = 0 /\ byOwner = 0 /\ byBearer = 0 /\ clock = 0
NoPgwu ==
    /\ mem = 0 /\ dataplane = 0 /\ tornRecord = 0 /\ syncedRecords = 0 /\ walFailed = 0
    /\ tx = 0 /\ running = 0 /\ faults = 0 /\ replayed = 0 /\ onDisk = 0

MCInit ==
    /\ Init
    /\ \/ part = "journal" /\ NoSessionStore /\ NoSgwc /\ index = 0 /\ NoPgwu /\ poisoned = 0 /\ log = 0
       \/ part = "sgwc" /\ Sgwc!Init /\ index = 0 /\ NoPgwu
       \/ part = "pgwc" /\ Pgwc!Init /\ NoSgwc /\ NoPgwu
       \/ part = "pgwu" /\ Pgwu!Init /\ NoSessionStore /\ NoSgwc /\ index = 0

MCNext ==
    /\ UNCHANGED part
    /\ \/ part = "journal" /\ Next /\ UNCHANGED storeVars
       \/ part = "sgwc" /\ Sgwc!Next /\ UNCHANGED <<vars, index, pgwuVars>>
       \/ part = "pgwc" /\ Pgwc!Next /\ UNCHANGED <<vars, sgwcVars, pgwuVars>>
       \/ part = "pgwu" /\ Pgwu!Next /\ UNCHANGED <<vars, sessionVars, sgwcVars, index>>

MCSpec == MCInit /\ [][MCNext]_allVars

-----------------------------------------------------------------------------
(* Memory, the lookup maps, the log and the kernel agree in every store.   *)
(* A control plane's store that accepts mutations has in memory and in its *)
(* WAL's snapshots the sessions that a restart would recover, finds each   *)
(* under each of its keys, and keeps no entry of a removed one.  PGW-U     *)
(* answers only for what is on disk, and between mutations the kernel      *)
(* forwards for exactly those sessions.  Whatever the order of mutations,  *)
(* failed commits, compactions and restarts, each accepts its own log.     *)
StoreMatchesDisk ==
    /\ part = "journal" => TypeOK /\ AckedJournalReopens
    /\ part = "sgwc" => /\ Sgwc!TypeOK /\ Sgwc!LookupsAgree /\ Sgwc!OwnLogReplays
                        /\ Sgwc!MemoryOnDisk /\ Sgwc!PoisonedByJournalOnly
    /\ part = "pgwc" => /\ Pgwc!TypeOK /\ Pgwc!LookupsAgree /\ Pgwc!OwnLogReplays
                        /\ Pgwc!MemoryOnDisk
    /\ part = "pgwu" => /\ Pgwu!TypeOK /\ Pgwu!CommittedIsDurable /\ Pgwu!OwnLogRestores
                        /\ Pgwu!DataplaneMatchesStore

(* Each store implements a durable map: what a restart would recover       *)
(* changes by one create, update or delete at a time, with the next        *)
(* revision, and no kill, power loss, compaction or restart changes it.    *)
SgwcMap == INSTANCE DurableMap WITH Keys <- 1..3, db <- IF part = "sgwc" THEN durable.db ELSE <<>>
PgwcMap == INSTANCE DurableMap WITH Keys <- 1..3, db <- IF part = "pgwc" THEN durable.db ELSE <<>>
PgwuMap == INSTANCE DurableMap WITH
               Keys <- PgwuUPSEIDs,
               db <- IF part = "pgwu" THEN onDisk ELSE <<>>
OneTransitionAtATime == SgwcMap!Spec /\ PgwcMap!Spec /\ PgwuMap!Spec
=============================================================================
