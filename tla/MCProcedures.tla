---------------------------- MODULE MCProcedures ----------------------------
(* The procedures of PGW-C, of SGW-C, on access bearers and on dedicated   *)
(* bearers, with goroutines that run and mutexes that are not withheld.    *)
(* part says which of them a behaviour runs; variables that it does not    *)
(* use are zero.                                                           *)
EXTENDS Integers, Sequences, FiniteSets, TLC

CONSTANTS p1, p2, u1, a1, e1, w1, x1, c1, c2, s1, s2, s3, s4, n1, n2, MME, None

VARIABLES part,
    sessions, nextID, held, up, recovery, counter, mu, restarts, lost, \* gateways
    lease, pgw, seen, refused,
    stored, waiting, reports, paging, subLock, lock, ignored,          \* access
    pgwHas, pgwu, sgwHas, sgw, sgwu, mme, pgwLock, sgwLock, op, handler, del,
    pgwDel, kinds,                                                     \* dedicated
    poisoned, failures, proc                                           \* several

MCProcs == {p1, p2}
MCSubscribers == {u1}
MCAPNs == {a1}
MCEBIs == {e1}
MCSGWs == {w1}
MCRemotes == {1, 2}
MCAddresses == {x1}
MCIdents == {c1, c2}
MCOneIdent == {c1}
Pgwc == INSTANCE PgwcGateway WITH
    Procs <- MCProcs, Subscribers <- MCSubscribers, APNs <- MCAPNs, EBIs <- MCEBIs,
    SGWs <- MCSGWs, Remotes <- MCRemotes, Addresses <- MCAddresses, Idents <- MCOneIdent,
    MaxID <- 2, MaxCounter <- 1, MaxRestarts <- 1, LostReplies <- FALSE, OldRequests <- FALSE
Sgwc == INSTANCE SgwcGateway WITH
    Procs <- MCProcs, Subscribers <- MCSubscribers, APNs <- MCAPNs, EBIs <- MCEBIs,
    S11s <- MCAddresses, Idents <- MCIdents,
    MaxID <- 2, MaxCounter <- 1, MaxRestarts <- 0, SharedPGW <- TRUE,
    PGWRestarts <- FALSE, Dedicated <- FALSE, LostReplies <- FALSE

(* Two subscribers whose PDNs hash to the same two stripes, crosswise.     *)
MCSessions == {s1, s2, s3, s4}
TwoSubscribers == s1 :> "u" @@ s2 :> "u" @@ s3 :> "v" @@ s4 :> "v"
OneEach == [s \in MCSessions |-> MCEBIs]
CrossStripes == s1 :> 1 @@ s2 :> 2 @@ s3 :> 2 @@ s4 :> 1
OneTunnel == {n1}
AccessOps == {"modify"}
Access == INSTANCE AccessBearers WITH
    Procs <- MCProcs, Sessions <- MCSessions, EBIs <- MCEBIs, subscriberOf <- TwoSubscribers,
    bearersOf <- OneEach, lockIndex <- CrossStripes, Tunnels <- OneTunnel,
    Ops <- AccessOps, MaxFailures <- 0

BearerID == {6}
RuleSlot == {1}
BearerTunnels == 1..4
MCQoS == {n1, n2}
DedicatedOps == {"create", "update", "delete", "session"}
Dedicated == INSTANCE DedicatedBearers WITH
    Handlers <- MCProcs, EBIs <- BearerID, Slots <- RuleSlot, Tunnels <- BearerTunnels,
    QoS <- MCQoS, Ops <- DedicatedOps, MaxFailures <- 1

gatewayVars == <<sessions, nextID, held, recovery, counter, mu, restarts, lost>>
sgwcVars == <<seen, refused>>
accessVars == <<stored, waiting, reports, paging, subLock, lock, ignored>>
dedicatedVars == <<pgwHas, pgwu, sgwHas, sgw, sgwu, mme, pgwLock, sgwLock, op, handler,
                   del, pgwDel, kinds>>
allVars == <<part, gatewayVars, up, lease, pgw, sgwcVars, accessVars, dedicatedVars,
             poisoned, failures, proc>>

NoGateway ==
    /\ sessions = 0 /\ nextID = 0 /\ held = 0 /\ recovery = 0 /\ counter = 0 /\ mu = 0
    /\ restarts = 0 /\ lost = 0
NoSgwc == seen = 0 /\ refused = 0
NoAccess ==
    /\ stored = 0 /\ waiting = 0 /\ reports = 0 /\ paging = 0 /\ subLock = 0 /\ lock = 0
    /\ ignored = 0
NoDedicated ==
    /\ pgwHas = 0 /\ pgwu = 0 /\ sgwHas = 0 /\ sgw = 0 /\ sgwu = 0 /\ mme = 0 /\ pgwLock = 0
    /\ sgwLock = 0 /\ op = 0 /\ handler = 0 /\ del = 0 /\ pgwDel = 0 /\ kinds = 0

MCInit ==
    \/ part = "pgwc" /\ Pgwc!Init /\ pgw = 0 /\ NoSgwc /\ NoAccess /\ NoDedicated
    \/ part = "sgwc" /\ Sgwc!Init /\ lease = 0 /\ NoAccess /\ NoDedicated
    \/ part = "access" /\ Access!Init /\ NoGateway /\ lease = 0 /\ pgw = 0 /\ NoSgwc /\ NoDedicated
    \/ /\ part = "dedicated" /\ Dedicated!Init /\ NoGateway /\ lease = 0 /\ NoSgwc /\ NoAccess
       /\ up = 0 /\ proc = 0

KeepPgwc == UNCHANGED <<part, pgw, sgwcVars, accessVars, dedicatedVars>>
KeepSgwc == UNCHANGED <<part, lease, accessVars, dedicatedVars>>
KeepAccess == UNCHANGED <<part, gatewayVars, lease, pgw, sgwcVars, dedicatedVars>>
KeepDedicated == UNCHANGED <<part, gatewayVars, lease, up, sgwcVars, accessVars, proc>>

MCNext ==
    \/ part = "pgwc" /\ Pgwc!Next /\ KeepPgwc
    \/ part = "sgwc" /\ Sgwc!Next /\ KeepSgwc
    \/ part = "access" /\ Access!Next /\ KeepAccess
    \/ part = "dedicated" /\ Dedicated!Next /\ KeepDedicated

(* A step of goroutine p, of either gateway. *)
Step(p) ==
    \/ part = "pgwc" /\ Pgwc!Step(p) /\ KeepPgwc
    \/ part = "sgwc" /\ Sgwc!Step(p) /\ KeepSgwc
    \/ part = "access" /\ Access!Step(p) /\ KeepAccess
    \/ part = "dedicated" /\ Dedicated!Handle(p) /\ KeepDedicated

MCSpec ==
    /\ MCInit /\ [][MCNext]_allVars
    /\ SF_allVars(Step(p1)) /\ SF_allVars(Step(p2))
    /\ SF_allVars(part = "dedicated" /\ Dedicated!Procedure /\ KeepDedicated)
    /\ SF_allVars(part = "dedicated" /\ Dedicated!pgwDeleteSession /\ KeepDedicated)
    /\ WF_allVars(part = "dedicated" /\ Dedicated!deleteSessionAnswer /\ KeepDedicated)
    /\ WF_allVars(part = "dedicated" /\ Dedicated!deleteSessionTimeout /\ KeepDedicated)

(* Every handler of the gateways returns: neither the recovery mutex, the  *)
(* subscriber locks and the striped session locks nor the locks held while *)
(* a peer is asked make one wait for ever.  The goroutines are             *)
(* interchangeable, so one of them stands for all.                         *)
Running == part # "dedicated" /\ proc[p1].pc # "idle"
HandlersReturn == Running ~> ~Running

(* Every bearer procedure and Delete Session returns, also when they wait  *)
(* for each other's locks across S5.                                       *)
Procedure == part = "dedicated" /\ op.pc # "idle"
Deletion == part = "dedicated" /\ del # "idle"
ProceduresReturn == (Procedure ~> ~Procedure) /\ (Deletion ~> ~Deletion)
=============================================================================
