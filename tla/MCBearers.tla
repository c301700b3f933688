----------------------------- MODULE MCBearers -----------------------------
(* SGW-U's idle buffer, access bearers of two PDNs, access bearers with    *)
(* paging, dedicated bearers across the five nodes, and the policy API     *)
(* that asks for them.  part says which of them a behaviour runs;          *)
(* variables that it does not use are zero, or idle for the policy API.    *)
EXTENDS PolicyAPI, TLC

CONSTANTS p1, p2, s1, s2, e1, e2, n1, n2

MCSymmetry == Permutations({p1, p2}) \cup Permutations({n1, n2})

VARIABLES part,
    rule, alive, queues, pool, thread, batch, next, commits, out, tried,
    sent, late,                                                          \* buffer
    stored, up, waiting, reports, paging, subLock, lock, proc, ignored,  \* access
    pgwHas, pgw, pgwu, sgwHas, sgw, sgwu, mme, pgwLock, sgwLock,
    handler, del, pgwDel, kinds,                                         \* dedicated
    poisoned, failures                                                   \* both

MCProcs == {p1, p2}
MCEBIs == {e1, e2}
MCTunnels == {n1, n2}
AccessOps == {"modify", "release", "remove"}
PagingOps == AccessOps \cup {"report"}
DedicatedOps == {"create", "update", "delete", "session"}

(* One subscriber with two PDNs, one of them with two bearers.             *)
TwoPDNs == {s1, s2}
TheirSubscriber == s1 :> "u" @@ s2 :> "u"
TwoAndOne == s1 :> {e1, e2} @@ s2 :> {e2}
OwnStripes == s1 :> 1 @@ s2 :> 2
Access == INSTANCE AccessBearers WITH
    Procs <- MCProcs, Sessions <- TwoPDNs, EBIs <- MCEBIs, subscriberOf <- TheirSubscriber,
    bearersOf <- TwoAndOne, lockIndex <- OwnStripes, Tunnels <- MCTunnels,
    Ops <- AccessOps, MaxFailures <- 1

OnePDN == {s1}
ItsSubscriber == s1 :> "u"
ItsBearers == s1 :> {e1, e2}
ItsStripe == s1 :> 1
ItsTunnel == {n1}
Paging == INSTANCE AccessBearers WITH
    Procs <- MCProcs, Sessions <- OnePDN, EBIs <- MCEBIs, subscriberOf <- ItsSubscriber,
    bearersOf <- ItsBearers, lockIndex <- ItsStripe, Tunnels <- ItsTunnel,
    Ops <- PagingOps, MaxFailures <- 1

BearerIDs == {6, 7}
RuleSlots == {1, 2}
BearerTunnels == 1..5
Dedicated == INSTANCE DedicatedBearers WITH
    Handlers <- MCProcs, EBIs <- BearerIDs, Slots <- RuleSlots, Tunnels <- BearerTunnels,
    QoS <- MCTunnels, Ops <- DedicatedOps, MaxFailures <- 1

(* The buffer has the default class 0 and class 5; the second packet is    *)
(* twice as long as the others.                                            *)
BufferHandlers == {p1}
BufferTunnels == {e1}
TwoClasses == {0, 5}
TwoQCIs == {5, 9}
Two == [c \in TwoClasses |-> 2]
Three == [c \in TwoClasses |-> 3]
Sizes == <<1, 2, 1>>
Buffer == INSTANCE IdleBuffer WITH
    Keys <- MCTunnels, Handlers <- BufferHandlers, Tunnels <- BufferTunnels,
    Classes <- TwoClasses, QCIs <- TwoQCIs, MaxPackets <- Two, MaxBytes <- Three,
    MaxPerBearer <- Two, MaxFrame <- 3, sizeOf <- Sizes, MaxCommits <- 2,
    ReaderPreempted <- TRUE, RestorePreempted <- TRUE

(* Three requests on the policies of one session, which is recovered with  *)
(* any valid set of them; two requests are under way together.             *)
DefaultBearer == s1 :> 5

buffer == <<rule, alive, queues, pool, thread, batch, next, commits, out, tried, sent, late>>
accessVars == <<stored, up, waiting, reports, paging, subLock, lock, proc, ignored>>
dedicatedVars == <<pgwHas, pgw, pgwu, sgwHas, sgw, sgwu, mme, pgwLock, sgwLock, op,
                   handler, del, pgwDel, kinds>>
policyVars == <<live, installed, slots, locks, step, input, ebi, answer, served>>
allVars == <<part, buffer, accessVars, dedicatedVars, poisoned, failures, policyVars>>

NoAccess ==
    /\ stored = 0 /\ up = 0 /\ waiting = 0 /\ reports = 0 /\ paging = 0 /\ subLock = 0
    /\ lock = 0 /\ proc = 0 /\ ignored = 0
NoDedicated ==
    /\ pgwHas = 0 /\ pgw = 0 /\ pgwu = 0 /\ sgwHas = 0 /\ sgw = 0 /\ sgwu = 0 /\ mme = 0
    /\ pgwLock = 0 /\ sgwLock = 0 /\ handler = 0 /\ del = 0 /\ pgwDel = 0 /\ kinds = 0
NoPolicy ==
    /\ live = {} /\ installed = 0 /\ slots = {} /\ mutex = 0 /\ subscriberLock = 0
    /\ sessionLock = 0 /\ step = [r \in Requests |-> "idle"] /\ input = 0 /\ ebi = 0
    /\ answer = 0 /\ served = 0
NoBuffer ==
    /\ rule = 0 /\ alive = 0 /\ queues = 0 /\ pool = 0 /\ thread = 0 /\ batch = 0 /\ next = 0
    /\ commits = 0 /\ out = 0 /\ tried = 0 /\ sent = 0 /\ late = 0

MCInit ==
    \/ /\ part = "buffer" /\ Buffer!Init /\ NoAccess /\ NoDedicated /\ NoPolicy
       /\ op = 0 /\ poisoned = 0 /\ failures = 0
    \/ part = "access" /\ Access!Init /\ NoBuffer /\ NoDedicated /\ NoPolicy /\ op = 0
    \/ part = "paging" /\ Paging!Init /\ NoBuffer /\ NoDedicated /\ NoPolicy /\ op = 0
    \/ part = "dedicated" /\ Dedicated!Init /\ NoBuffer /\ NoAccess /\ NoPolicy
    \/ /\ part = "policy" /\ Init /\ NoBuffer /\ NoAccess /\ NoDedicated
       /\ poisoned = 0 /\ failures = 0

MCNext ==
    /\ UNCHANGED part
    /\ \/ /\ part = "buffer" /\ Buffer!Next
          /\ UNCHANGED <<accessVars, dedicatedVars, poisoned, failures, policyVars>>
       \/ part = "access" /\ Access!Next /\ UNCHANGED <<buffer, dedicatedVars, policyVars>>
       \/ part = "paging" /\ Paging!Next /\ UNCHANGED <<buffer, dedicatedVars, policyVars>>
       \/ part = "dedicated" /\ Dedicated!Next /\ UNCHANGED <<buffer, accessVars, policyVars>>
       \/ /\ part = "policy" /\ Next
          /\ UNCHANGED <<buffer, accessVars, pgwHas, pgw, pgwu, sgwHas, sgw, sgwu, mme, pgwLock,
                         sgwLock, handler, del, pgwDel, kinds, poisoned, failures>>

MCSpec == MCInit /\ [][MCNext]_allVars

(* Once the handlers of SGW-C have returned, SGW-U forwards a bearer to    *)
(* the tunnel the store has for it, and buffers or drops if it has none:   *)
(* the roll-backs of Modify Bearer and Release Access Bearers restore      *)
(* every PDN after one failed call.  No bearer of an idle session has an   *)
(* eNodeB tunnel, which would suppress its page, and pages are pending     *)
(* only for stored sessions, also while a report for one is handled.       *)
PlanesMatch ==
    /\ part = "access" => Access!TypeOK /\ Access!PlanesMatch /\ Access!IdleHasNoTunnel
    /\ part = "paging" => Paging!TypeOK /\ Paging!PagesHaveSessions

(* A bearer procedure is all or nothing: when PGW-C and SGW-C are done,    *)
(* both stores have the same bearers with the same QoS, each user plane    *)
(* has the rules of its store, every downlink forwards, and the MME has    *)
(* the bearers of SGW-C, also after one refusal or failed commit; without  *)
(* a fault a Delete Session takes the session from both stores.  The       *)
(* policy requests that ask for bearers keep their shape.                  *)
BearersAgree ==
    /\ part = "dedicated" => /\ Dedicated!TypeOK /\ Dedicated!BearersAgree
                             /\ Dedicated!MMEAgrees /\ Dedicated!SessionsAgree
    /\ part = "policy" => TypeOK

(* No packet of the idle buffer is duplicated or lost without trace: it is *)
(* in one queue, or in the hands of one thread, or sent or dropped once,   *)
(* and in exactly one exported counter.  Every class stays within its      *)
(* packets and bytes and every bearer within its limit, whatever enqueue,  *)
(* drain, restore, expiry and purge do.                                    *)
NoneLost ==
    part = "buffer" => /\ Buffer!TypeOK /\ Buffer!Conserved
                       /\ Buffer!Accounted /\ Buffer!PoolsBounded
=============================================================================
