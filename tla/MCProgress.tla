---------------------------- MODULE MCProgress ----------------------------
(* What must happen in the end: usage reports arrive, buffered packets     *)
(* leave, kernel objects are recovered after a crash, and requests to the  *)
(* policy API are answered.  part says which of them a behaviour runs;     *)
(* variables that it does not use are zero, or idle for the policy API.    *)
EXTENDS PolicyAPI

CONSTANTS a, k1, h1, t1, t2

Default == [s \in Sessions |-> 5]
OneSubscriber == [s \in Sessions |-> "u"]
OneMutex == [s \in Sessions |-> 1]

VARIABLES part, faults,
    kernel, routes, lock, proc,                                           \* owner
    up, lastUP, epoch, ready, meter, states, jobs, sending, results, handlers, assoc, upOf,
    bearers, deleting, book, log, broken, metered, counted, twice, refused, changes,  \* usage
    rule, alive, queues, pool, thread, batch, next, commits, out, tried, sent, late   \* buffer

OneProc == {a}
Owner == INSTANCE KernelOwner WITH
    Procs <- OneProc, MaxCrashes <- 1, MaxFailing <- 0, MaxAdmin <- 0,
    AliasAtCreation <- TRUE, LookupFails <- FALSE

OneURR == {1}
Usage == INSTANCE UsageReport WITH
    URRs <- OneURR, DefaultURR <- 1, Threshold <- 2, QueueSize <- 1, Workers <- 1,
    MaxRecords <- 2, MaxUPSEID <- 3, MaxBytes <- 4, MaxFaults <- 2, MaxChanges <- 1,
    LookupPreempted <- FALSE, ReuseURR <- FALSE, Reestablish <- FALSE

OneKey == {k1}
OneHandler == {h1}
TwoTunnels == {t1, t2}
TwoClasses == {0, 5}
OneQCI == {9}
Three == [c \in TwoClasses |-> 3]
Four == [c \in TwoClasses |-> 4]
Sizes == <<1, 2, 1>>
Buffer == INSTANCE IdleBuffer WITH
    Keys <- OneKey, Handlers <- OneHandler, Tunnels <- TwoTunnels, Classes <- TwoClasses,
    QCIs <- OneQCI, MaxPackets <- Three, MaxBytes <- Four, MaxPerBearer <- Three,
    MaxFrame <- 3, sizeOf <- Sizes, MaxCommits <- 3, ReaderPreempted <- TRUE,
    RestorePreempted <- FALSE

owner == <<kernel, routes, lock, proc>>
usage == <<up, lastUP, epoch, ready, meter, states, jobs, sending, results, handlers, assoc,
           upOf, bearers, deleting, book, log, broken, metered, counted, twice, refused, changes>>
buffer == <<rule, alive, queues, pool, thread, batch, next, commits, out, tried, sent, late>>
ownerVars == <<owner, faults>>
usageVars == <<usage, faults>>
allVars == <<part, faults, owner, usage, buffer, vars>>

NoOwner == kernel = 0 /\ routes = 0 /\ lock = 0 /\ proc = 0
NoUsage ==
    /\ up = 0 /\ lastUP = 0 /\ epoch = 0 /\ ready = 0 /\ meter = 0 /\ states = 0 /\ jobs = 0
    /\ sending = 0 /\ results = 0 /\ handlers = 0 /\ assoc = 0 /\ upOf = 0 /\ bearers = 0
    /\ deleting = 0 /\ book = 0 /\ log = 0 /\ broken = 0 /\ metered = 0 /\ counted = 0
    /\ twice = 0 /\ refused = 0 /\ changes = 0
NoBuffer ==
    /\ rule = 0 /\ alive = 0 /\ queues = 0 /\ pool = 0 /\ thread = 0 /\ batch = 0 /\ next = 0
    /\ commits = 0 /\ out = 0 /\ tried = 0 /\ sent = 0 /\ late = 0
NoPolicy == Init /\ \A s \in Sessions : Held(installed[s]) = {}

MCInit ==
    \/ part = "owner" /\ Owner!Init /\ NoUsage /\ NoBuffer /\ NoPolicy
    \/ part = "usage" /\ Usage!Init /\ NoOwner /\ NoBuffer /\ NoPolicy
    \/ part = "buffer" /\ Buffer!Init /\ NoOwner /\ NoUsage /\ faults = 0 /\ NoPolicy
    \/ part = "policy" /\ Init /\ NoOwner /\ NoUsage /\ NoBuffer /\ faults = 0

MCNext ==
    /\ UNCHANGED part
    /\ \/ part = "owner" /\ Owner!Next /\ UNCHANGED <<usage, buffer, vars>>
       \/ part = "usage" /\ Usage!Next /\ UNCHANGED <<owner, buffer, vars>>
       \/ part = "buffer" /\ Buffer!Next /\ UNCHANGED <<owner, usage, faults, vars>>
       \/ part = "policy" /\ Next /\ UNCHANGED <<owner, usage, buffer, faults>>

(* The fairness of each specification, for the behaviours that run it.     *)
MCFairness ==
    /\ Fairness
    /\ WF_ownerVars(part = "owner" /\ Owner!Step(a))
    /\ WF_usageVars(part = "usage" /\ Usage!Poll) /\ WF_usageVars(part = "usage" /\ Usage!Recover)
    /\ \A k \in Usage!Keys :
         /\ WF_usageVars(part = "usage" /\ Usage!BackoffEnds(k))
         /\ WF_usageVars(part = "usage" /\ \E j \in jobs : j.key = k /\ Usage!Send(j))
         /\ WF_usageVars(part = "usage" /\ \E j \in sending : j.key = k /\ Usage!Receive(j))
         /\ WF_usageVars(part = "usage" /\ \E r \in results : r.key = k /\ Usage!complete(r))
         /\ WF_usageVars(part = "usage" /\ \E h \in handlers : h.job.key = k /\ Usage!Handle(h))
    /\ WF_buffer(part = "buffer" /\ Buffer!expire(Buffer!AllDue))
    /\ WF_buffer(part = "buffer" /\ Buffer!enqueue)
    /\ WF_buffer(part = "buffer" /\ Buffer!writeOutputBatch)
    /\ \A t \in Buffer!Threads : WF_buffer(part = "buffer" /\ Buffer!Flush(t))
    /\ WF_buffer(part = "buffer" /\ Buffer!Step(h1))

MCSpec == MCInit /\ [][MCNext]_allVars /\ MCFairness

-----------------------------------------------------------------------------
(* A report the emitter holds is counted in the end, unless its session is *)
(* gone or the ledger's journal failed; and the control plane finds        *)
(* neither gap nor conflict in the reports a user plane waits to have      *)
(* acknowledged.                                                           *)
Open(k) == part = "usage" /\ states[k] # Usage!NoState /\ states[k].pending # Usage!NoReport
ReportsArrive ==
    /\ [](part = "usage" => Usage!NoGapOrConflict)
    /\ \A k \in Usage!Keys : Open(k) ~> (~Open(k) \/ up # k[1] \/ broken)

(* No packet stays in the idle buffer: it is released, dropped, purged, or *)
(* it expires.  When nothing is under way and a bearer forwards, its       *)
(* buffer holds no packet, and after a commit a flush that is under way    *)
(* sends at most one packet to the removed tunnel.                         *)
Buffered(n) == part = "buffer" /\ \E k \in OneKey : n \in Buffer!Range(Buffer!FramesAt(k))
BufferedLeaves ==
    /\ [](part = "buffer" => Buffer!NothingStranded /\ Buffer!OneLateSend)
    /\ \A n \in 1..3 : Buffered(n) ~> (part = "buffer" /\ n \in out)

(* After any crash PGW-U serves again: a restart removes what the process  *)
(* left in the kernel.                                                     *)
ServesAgain == []<>(part = "owner" => Owner!At(a, "serving"))
=============================================================================
