---------------------------- MODULE MCRecovery ----------------------------
(* The association manager, the recovery of SGW-C with SGW-U and of PGW-C  *)
(* with PGW-U, and the calls they make.  part says which of them a         *)
(* behaviour runs; the variables of the others keep one value.             *)
EXTENDS Association, FiniteSets, TLC

CONSTANTS p1, p2, t1, t2, s1, s2, c1, c2, w1, NoSession, None

MCPeers == {p1, p2}
MCRecoveries == {t1, t2}
MCSessions == {s1, s2}
SxbBound == [crash |-> 2, restart |-> 1, outage |-> 1, failing |-> 1, expiry |-> 0]

VARIABLES part,
    main, boot, association, lastRecovery, todo, failed, faults,    \* sxa
    client, count,                                                  \* sxb
    store, proc, peer, rules, owner, pending, sweep, link, call,    \* shared
    next, reqs, resps, reader, inflight, worker, cache, executed    \* calls

Sxa == INSTANCE SxRecovery WITH
    Sessions <- MCSessions, SEIDs <- 1..6, Workers <- 2,
    MaxCrashes <- 2, MaxRestarts <- 1, MaxOutages <- 1, Faults <- {}
Sxb == INSTANCE SxbRecovery WITH
    Sessions <- MCSessions, SEIDs <- 1..6, Workers <- 2,
    Bound <- SxbBound, Faults <- {}, cp <- client
Calls == INSTANCE Transport WITH
    Calls <- {c1, c2}, Silent <- {}, Workers <- {w1}, MaxSequence <- 1,
    MaxRetransmits <- 1, CacheSize <- 1, MaxReplays <- 1, ReaderPreempted <- TRUE

sxVars == <<store, proc, peer, rules, owner, pending, sweep, link>>
sxaVars == <<main, boot, association, lastRecovery, todo, failed, faults>>
sxbVars == <<client, count>>
callVars == <<next, reqs, resps, reader, inflight, worker, cache, executed>>
sxa == <<sxVars, sxaVars, call>>
sxb == <<sxVars, sxbVars, call>>
calls == <<callVars, call>>
allVars == <<vars, part, sxVars, sxaVars, sxbVars, callVars, call>>

NoManager == records = [p \in Peers |-> NoRecord] /\ now = 1
NoSx ==
    /\ store = 0 /\ proc = 0 /\ peer = 0 /\ rules = 0 /\ owner = 0 /\ pending = 0
    /\ sweep = 0 /\ link = 0
NoSxa ==
    /\ main = 0 /\ boot = 0 /\ association = 0 /\ lastRecovery = 0 /\ todo = 0
    /\ failed = 0 /\ faults = 0
NoSxb == client = 0 /\ count = 0
NoCalls ==
    /\ next = 0 /\ reqs = 0 /\ resps = 0 /\ reader = 0 /\ inflight = 0 /\ worker = 0
    /\ cache = 0 /\ executed = 0

MCInit ==
    \/ part = "manager" /\ Init /\ NoSx /\ NoSxa /\ NoSxb /\ NoCalls /\ call = 0
    \/ part = "sxa" /\ Sxa!Init /\ NoManager /\ NoSxb /\ NoCalls
    \/ part = "sxb" /\ Sxb!Init /\ NoManager /\ NoSxa /\ NoCalls
    \/ part = "calls" /\ Calls!Init /\ NoManager /\ NoSx /\ NoSxa /\ NoSxb

MCNext ==
    /\ UNCHANGED part
    /\ \/ part = "manager" /\ Next /\ UNCHANGED <<sxVars, sxaVars, sxbVars, callVars, call>>
       \/ part = "sxa" /\ Sxa!Next /\ UNCHANGED <<vars, sxbVars, callVars>>
       \/ part = "sxb" /\ Sxb!Next /\ UNCHANGED <<vars, sxaVars, callVars>>
       \/ part = "calls" /\ Calls!Next /\ UNCHANGED <<vars, sxVars, sxaVars, sxbVars>>

(* The fairness of each specification, for the behaviours that run it.     *)
Fairness ==
    /\ WF_vars(part = "manager" /\ Tick) /\ WF_vars(part = "manager" /\ Sweep)
    /\ WF_sxa(part = "sxa" /\ Sxa!CpStart) /\ WF_sxb(part = "sxb" /\ Sxb!Start)
    /\ WF_sxa(part = "sxa" /\ Sxa!MainStep) /\ WF_sxb(part = "sxb" /\ Sxb!MainStep)
    /\ WF_sxa(part = "sxa" /\ Sxa!ProcStep) /\ WF_sxb(part = "sxb" /\ Sxb!ProcStep)
    /\ WF_sxa(part = "sxa" /\ Sxa!SweepStep) /\ WF_sxb(part = "sxb" /\ Sxb!SweepStep)
    /\ WF_sxa(part = "sxa" /\ Sxa!LinkHeals) /\ WF_sxb(part = "sxb" /\ Sxb!LinkHeals)
    /\ \A s \in MCSessions :
          WF_sxa(part = "sxa" /\ Sxa!WorkerStep(s)) /\ WF_sxb(part = "sxb" /\ Sxb!WorkerStep(s))
    /\ \A t \in {"main", "proc"} \cup MCSessions :
          WF_sxa(part = "sxa" /\ Sxa!HandlerStep(t)) /\ WF_sxb(part = "sxb" /\ Sxb!HandlerStep(t))
    /\ \A c \in {c1, c2} :
          WF_calls(part = "calls" /\ (Calls!Retransmit(c) \/ Calls!TimeOut(c)))
    /\ WF_calls(part = "calls" /\ Calls!Reader)
    /\ WF_calls(part = "calls" /\ Calls!Worker(w1))

MCSpec == MCInit /\ [][MCNext]_allVars /\ Fairness

(* What the control planes store is kept at the user planes: no session of *)
(* SGW-C's store is among those that completeReconciliation of SGW-U       *)
(* purges as stale, and through crashes, restarts, outages and the         *)
(* reconciliations after them every session of PGW-C's store has its rules *)
(* at PGW-U, under the UP-SEID that the store holds.                       *)
LiveSessionsKept ==
    /\ part = "manager" => TypeOK
    /\ part = "calls" => Calls!TypeOK
    /\ part = "sxa" => Sxa!TypeOK /\ Sxa!CompletionSparesLiveSessions
    /\ part = "sxb" => Sxb!TypeOK /\ Sxb!Retained

(* sessionOwner and the rules agree at either user plane whenever no       *)
(* handler runs: modification and deletion need both.                      *)
OwnersMatchRules ==
    /\ part = "sxa" => Sxa!OwnersMatchRules
    /\ part = "sxb" => Sxb!OwnersMatchRules

(* What must go is gone: when a control plane's start-up completes its     *)
(* reconciliation, the user plane forwards nothing that it does not know,  *)
(* and a delete that SGW-C commits has removed the rules, also when a      *)
(* replay has just changed the UP-SEID.                                    *)
StaleRulesRemoved ==
    [][/\ part = "sxa" => Sxa!StartupRemovesStale /\ Sxa!DeleteRemovesRules
       /\ part = "sxb" => Sxb!StartupRemovesStale]_allVars

(* Once crashes, restarts and outages stop, both control planes serve, the *)
(* user planes accept sessions, and SGW-U forwards what SGW-C's store      *)
(* holds.  A grace or reconciliation window ends, and every call of Do     *)
(* returns, whatever the network and the responder do.                     *)
Converges ==
    /\ <>[](/\ part = "sxa" => Sxa!Converged
            /\ part = "sxb" => Sxb!Converged)
    /\ WindowEnds
    /\ \A c \in {c1, c2} :
          (part = "calls" /\ Calls!Waiting(c)) ~> (part = "calls" /\ ~Calls!Waiting(c))
=============================================================================
