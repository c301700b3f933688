---------------------------- MODULE MCDataPlane ----------------------------
(* What stands behind the rules of PGW-U and SGW-U: the kernel objects of  *)
(* an installation, the tables of the kernel plane, usage reports and the  *)
(* order of the idle buffer.  part says which of them a behaviour runs;    *)
(* the variables of the others keep one value.                             *)
EXTENDS KernelOwner

CONSTANTS a, b, k1, h1, t1, t2, None

VARIABLES part, losses,
    plane, committed, tx, poisoned, held,                                 \* tables
    up, lastUP, epoch, ready, meter, states, jobs, sending, results, handlers, assoc, upOf,
    bearers, deleting, book, log, broken, metered, counted, twice, refused, changes,  \* usage
    rule, alive, queues, pool, thread, batch, next, commits, out, tried, sent, late   \* buffer

(* Two processes, no crash, two failing calls.                             *)
BothProcs == {a, b}
Stopping == INSTANCE KernelOwner WITH
    Procs <- BothProcs, MaxCrashes <- 0, MaxFailing <- 2, MaxAdmin <- 0, LookupFails <- FALSE

(* Dedicated bearers that differ in filters, tunnel and order; changes of  *)
(* the default bearer only, without a policy link; a packet that a change  *)
(* of the tables overtakes; counters.                                      *)
TwoFlows == {1, 2}
TwoRemotes == {1, 2}
OneRemote == {1}
Both == [tft |-> <<1, 2>>, teid |-> 1, remote |-> 3]
Second == [tft |-> <<2>>, teid |-> 1, remote |-> 4]
Turned == [tft |-> <<2, 1>>, teid |-> 2, remote |-> 3]
ThreeBearers == {Both, Second, Turned}
SecondOnly == {Second}
Tables == INSTANCE KernelPlane WITH
    Flows <- TwoFlows, Bearers <- ThreeBearers, Remotes <- OneRemote, MaxRevision <- 2,
    MaxCalls <- 30, HasPolicy <- TRUE, PacketsPreempted <- FALSE, DeletesFail <- FALSE,
    CountsUsage <- FALSE
Gates == INSTANCE KernelPlane WITH
    Flows <- TwoFlows, Bearers <- {}, Remotes <- TwoRemotes, MaxRevision <- 3,
    MaxCalls <- 30, HasPolicy <- FALSE, PacketsPreempted <- FALSE, DeletesFail <- FALSE,
    CountsUsage <- FALSE
Packets == INSTANCE KernelPlane WITH
    Flows <- TwoFlows, Bearers <- SecondOnly, Remotes <- OneRemote, MaxRevision <- 2,
    MaxCalls <- 30, HasPolicy <- TRUE, PacketsPreempted <- TRUE, DeletesFail <- FALSE,
    CountsUsage <- FALSE
Counters == INSTANCE KernelPlane WITH
    Flows <- TwoFlows, Bearers <- ThreeBearers, Remotes <- OneRemote, MaxRevision <- 2,
    MaxCalls <- 0, HasPolicy <- TRUE, PacketsPreempted <- FALSE, DeletesFail <- FALSE,
    CountsUsage <- TRUE

TwoURRs == {1, 2}
Usage == INSTANCE UsageReport WITH
    URRs <- TwoURRs, DefaultURR <- 1, Threshold <- 2, QueueSize <- 1, Workers <- 1,
    MaxRecords <- 2, MaxUPSEID <- 3, MaxBytes <- 4, MaxFaults <- 2, MaxChanges <- 2,
    LookupPreempted <- FALSE, ReuseURR <- TRUE, Reestablish <- TRUE, faults <- losses

OneKey == {k1}
OneHandler == {h1}
TwoTunnels == {t1, t2}
TwoClasses == {0, 5}
OneQCI == {9}
Three == [c \in TwoClasses |-> 3]
Four == [c \in TwoClasses |-> 4]
Sizes == <<1, 2, 1>>
Buffer == INSTANCE IdleBuffer WITH
    Keys <- OneKey, Handlers <- OneHandler, Tunnels <- TwoTunnels, Classes <- TwoClasses,
    QCIs <- OneQCI, MaxPackets <- Three, MaxBytes <- Four, MaxPerBearer <- Three,
    MaxFrame <- 3, sizeOf <- Sizes, MaxCommits <- 3, ReaderPreempted <- FALSE,
    RestorePreempted <- TRUE

tables == <<plane, committed, tx, poisoned, held>>
usage == <<up, lastUP, epoch, ready, meter, states, jobs, sending, results, handlers, assoc,
           upOf, bearers, deleting, book, log, broken, metered, counted, twice, refused, changes, losses>>
buffer == <<rule, alive, queues, pool, thread, batch, next, commits, out, tried, sent, late>>
allVars == <<part, vars, tables, usage, buffer>>

NoTables == plane = 0 /\ committed = 0 /\ tx = 0 /\ poisoned = 0 /\ held = 0
NoUsage ==
    /\ up = 0 /\ lastUP = 0 /\ epoch = 0 /\ ready = 0 /\ meter = 0 /\ states = 0 /\ jobs = 0
    /\ sending = 0 /\ results = 0 /\ handlers = 0 /\ assoc = 0 /\ upOf = 0 /\ bearers = 0
    /\ deleting = 0 /\ book = 0 /\ log = 0 /\ broken = 0 /\ metered = 0 /\ counted = 0
    /\ twice = 0 /\ refused = 0 /\ changes = 0 /\ losses = 0
NoBuffer ==
    /\ rule = 0 /\ alive = 0 /\ queues = 0 /\ pool = 0 /\ thread = 0 /\ batch = 0 /\ next = 0
    /\ commits = 0 /\ out = 0 /\ tried = 0 /\ sent = 0 /\ late = 0

MCInit ==
    \/ part = "owner" /\ Init /\ NoTables /\ NoUsage /\ NoBuffer
    \/ part = "stop" /\ Stopping!Init /\ NoTables /\ NoUsage /\ NoBuffer
    \/ part = "tables" /\ Tables!Init /\ Init /\ NoUsage /\ NoBuffer
    \/ part = "gates" /\ Gates!Init /\ Init /\ NoUsage /\ NoBuffer
    \/ part = "packets" /\ Packets!Init /\ Init /\ NoUsage /\ NoBuffer
    \/ part = "counters" /\ Counters!Init /\ Init /\ NoUsage /\ NoBuffer
    \/ part = "usage" /\ Usage!Init /\ Init /\ NoTables /\ NoBuffer
    \/ part = "buffer" /\ Buffer!Init /\ Init /\ NoTables /\ NoUsage

MCNext ==
    /\ UNCHANGED part
    /\ \/ part = "owner" /\ Next /\ UNCHANGED <<tables, usage, buffer>>
       \/ part = "stop" /\ Stopping!Next /\ UNCHANGED <<tables, usage, buffer>>
       \/ part = "tables" /\ Tables!Next /\ UNCHANGED <<vars, usage, buffer>>
       \/ part = "gates" /\ Gates!Next /\ UNCHANGED <<vars, usage, buffer>>
       \/ part = "packets" /\ Packets!Next /\ UNCHANGED <<vars, usage, buffer>>
       \/ part = "counters" /\ Counters!Next /\ UNCHANGED <<vars, usage, buffer>>
       \/ part = "usage" /\ Usage!Next /\ UNCHANGED <<vars, tables, buffer>>
       \/ part = "buffer" /\ Buffer!Next /\ UNCHANGED <<vars, tables, usage>>

MCSpec == MCInit /\ [][MCNext]_allVars

-----------------------------------------------------------------------------
(* Outside a change, whether the last one succeeded, failed at any call or *)
(* was taken back because of the WAL, and after a restart, the tables      *)
(* serve exactly the committed session.  Between any two calls of a        *)
(* change, its roll-back or a restart, no packet passes on a bearer,       *)
(* through a gate or to a tunnel that neither the session before nor after *)
(* it prescribes.  A start that cannot restore its sessions forwards       *)
(* nothing, and a stop, or a start that fails at any call, leaves nothing  *)
(* in the kernel unless a call of the clean-up itself fails.               *)
KernelMatchesStore ==
    /\ part = "owner" => TypeOK
    /\ part = "stop" => Stopping!NothingLeft
    /\ part = "tables" => /\ Tables!PlaneMatchesStore /\ Tables!NoLeak
                          /\ Tables!FailedStartForwardsNothing
    /\ part = "gates" => Gates!PlaneMatchesStore /\ Gates!NoLeak
    /\ part = "packets" => Packets!NoLeak

(* However often a report is sent, and whoever restarts, its volume is     *)
(* counted at most once, and what is counted or on its way never exceeds   *)
(* what was metered.  The ledger's journal restores the ledger in memory,  *)
(* one worker, queue or result at a time has a report, and no checkpoint   *)
(* outlives its session.                                                   *)
CountedOnce ==
    /\ part = "counters" => Counters!TypeOK
    /\ part = "usage" => /\ Usage!TypeOK /\ Usage!CountedOnce /\ Usage!CountedWasMetered
                         /\ Usage!LedgerMatchesJournal /\ Usage!OneDelivery
                         /\ Usage!CheckpointsBounded

(* Packets leave the idle buffer of a bearer in the order they arrived,    *)
(* also when a flush puts back what it cannot send, and a deleted session  *)
(* leaves none; and volume counted for a bearer is kept while the bearer   *)
(* is in the session before and after a change.                            *)
OrderedRelease ==
    [][/\ part = "buffer" => Buffer!OrderedRelease /\ Buffer!DeletedLeavesNothing'
       /\ part = "counters" => Counters!UsageCumulative]_allVars
=============================================================================
