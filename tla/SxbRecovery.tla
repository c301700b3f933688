---------------------------- MODULE SxbRecovery ----------------------------
(***************************************************************************)
(* Recovery over Sxb: the PGW-C process (start-up, heartbeat loop, replay  *)
(* pool, one create or delete at a time, durable sessions) composed with   *)
(* the PGW-U PFCP server (association record, durable rules, owners,       *)
(* reconciliation set, sweeper).                                           *)
(*                                                                         *)
(* Unlike SGW-U (SxRecovery), PGW-U keeps its rules over a restart, begins *)
(* with its former peer unavailable, and may fail to remove a session, in  *)
(* which case a reconciliation is not completed.                           *)
(*                                                                         *)
(* A session is its CP-SEID.  Recovery time stamps are kept as "is it that *)
(* of the running process".  A request is handled at most once; a handler  *)
(* that has begun ends before its caller gives up.                         *)
(***************************************************************************)
EXTENDS Integers, FiniteSets

CONSTANTS
    Sessions,      \* CP-SEIDs
    SEIDs,         \* UP-SEIDs (positive numbers)
    Workers,       \* ReconcileWorkers
    Bound,         \* how many crashes, restarts, outages, failing calls, expiries
    Faults,        \* the timings of faults that are explored
    NoSession

(* "overlap": a create may overlap the heartbeat loop's recovery;           *)
(* "interrupted_delete": a crash or an outage may hit a delete;             *)
(* "loss_in_replay": the link or the removal of a stale session may fail in *)
(* the loop's recovery; "slow_heartbeat": PGW-U may time out before PGW-C   *)
(* notices; "journal": PGW-C's journal may fail, and the store closes.      *)
FaultKinds == {"overlap", "interrupted_delete", "loss_in_replay", "slow_heartbeat", "journal"}

VARIABLES
    cp,        \* the PGW-C process
    store,     \* its durable sessions: CP-SEID -> UP-SEID, 0 absent
    proc,      \* the create or delete under way
    call,      \* PFCP transaction of each thread, with its handler
    peer,      \* PGW-U's association record
    rules,     \* durable rules: CP-SEID -> UP-SEID, 0 absent
    owner,     \* Server.sessionOwner
    pending,   \* Server.reconcilePending
    sweep,     \* the sweeper's purge after an expiry
    link,      \* Sxb works
    count      \* faults so far

vars == <<cp, store, proc, call, peer, rules, owner, pending, sweep, link, count>>
pgwc == <<cp, store, proc>>
pgwu == <<peer, rules, owner, pending, sweep>>
net == <<link, count>>

Threads == {"main", "proc"} \cup Sessions
NoCall == [kind |-> "none", at |-> "idle", s |-> NoSession, seid |-> 0, ids |-> {},
           ok |-> TRUE, cause |-> "none", fresh |-> TRUE, caller |-> TRUE]
NoProc == [op |-> "none", s |-> NoSession, seid |-> 0]
Down == [at |-> "down", boot |-> TRUE, assoc |-> FALSE, stamp |-> "none",
         todo |-> {}, failed |-> FALSE, closed |-> FALSE]
NoSweep == [at |-> "idle", ids |-> {}]

Busy(t) == call[t].at \notin {"idle", "lost", "done"}
Answered(t) == call[t].at = "done" /\ call[t].caller /\ link
TimedOut(t) == call[t].at = "lost" \/ (call[t].at = "done" /\ call[t].caller /\ ~link)
Accepted(t) == Answered(t) /\ call[t].cause = "accepted"
Request(kind, s, seid) ==
    [NoCall EXCEPT !.kind = kind, !.s = s, !.seid = seid, !.at = IF link THEN "sent" ELSE "lost"]
Ends(t) == call' = [call EXCEPT ![t] = NoCall]
Sends(t, request) == call' = [call EXCEPT ![t] = request]
Fault(kind) == count[kind] < Bound[kind] /\ count' = [count EXCEPT ![kind] = @ + 1]

Creating == proc.op \in {"create", "store", "undo"}
Deleting == proc.op \in {"delete", "remove"}
SEIDsInUse ==
    {rules[s] : s \in Sessions} \cup {store[s] : s \in Sessions} \cup owner \cup pending
        \cup {call[t].seid : t \in Threads} \cup {proc.seid} \cup sweep.ids
        \cup UNION {call[t].ids : t \in Threads}

Init ==
    /\ \E live \in SUBSET Sessions, seid \in [Sessions -> 1..Cardinality(Sessions)] :
          /\ \A s, r \in Sessions : s # r => seid[s] # seid[r]
          /\ store = [s \in Sessions |-> IF s \in live THEN seid[s] ELSE 0]
          /\ rules = store /\ owner = {seid[s] : s \in live}
    /\ cp = [Down EXCEPT !.at = "serving", !.boot = FALSE, !.assoc = TRUE, !.stamp = "current"]
    /\ proc = NoProc /\ call = [t \in Threads |-> NoCall]
    /\ peer = [state |-> "associated", current |-> TRUE]
    /\ pending = {} /\ sweep = NoSweep /\ link = TRUE
    /\ count = [k \in DOMAIN Bound |-> 0]

-----------------------------------------------------------------------------
(* PGW-C: run and heartbeat of cmd/pgw-c *)

Start ==
    /\ cp.at = "down" /\ \A t \in Threads : call[t] = NoCall
    /\ cp' = [Down EXCEPT !.at = "assoc"]
    /\ peer' = [peer EXCEPT !.current = FALSE]
    /\ UNCHANGED <<store, proc, call, rules, owner, pending, sweep, net>>

(* Start-up gives up and the process exits; the loop waits for its next tick. *)
GivesUp(c) == IF c.boot THEN Down ELSE [c EXCEPT !.at = "serving"]

(* Mutant: the time stamp of the response is not compared. *)
HeartbeatIgnoresRestart ==
    /\ cp.at = "serving" /\ (~link \/ ~cp.assoc)
    /\ "overlap" \in Faults \/ ~Creating
    /\ cp' = [cp EXCEPT !.assoc = FALSE, !.at = "assoc"]
    /\ UNCHANGED <<store, proc, call, pgwu, net>>
(* Heartbeat times out, has no association or meets a new time stamp; then  *)
(* MarkUnavailable.  One that succeeds changes nothing.                     *)
HeartbeatFails ==
    /\ cp.at = "serving" /\ (~link \/ ~cp.assoc \/ cp.stamp # "current")
    /\ "overlap" \in Faults \/ ~Creating
    /\ cp' = [cp EXCEPT !.assoc = FALSE, !.at = "assoc",
                        !.stamp = IF link /\ cp.assoc THEN "current" ELSE @]
    /\ UNCHANGED <<store, proc, call, pgwu, net>>
HeartbeatSucceeds ==
    /\ cp.at = "serving" /\ link /\ cp.assoc /\ cp.stamp = "current"
    /\ UNCHANGED vars

Associate ==
    /\ cp.at = "assoc" /\ call["main"] = NoCall
    /\ Sends("main", Request("setup", NoSession, 0))
    /\ UNCHANGED <<pgwc, pgwu, net>>

(* Associate returned; ReconcileAll takes its snapshot. *)
Associated ==
    /\ cp.at = "assoc" /\ (Answered("main") \/ TimedOut("main"))
    /\ cp' = IF TimedOut("main") THEN GivesUp(cp)
             ELSE [cp EXCEPT !.assoc = TRUE, !.at = "replay", !.failed = FALSE,
                             !.stamp = IF call["main"].fresh THEN "current" ELSE "old",
                             !.todo = {s \in Sessions : store[s] # 0}]
    /\ Ends("main")
    /\ UNCHANGED <<store, proc, pgwu, net>>

Locked(s) == (Deleting /\ proc.s = s) \/ call[s] # NoCall
Done(s, ok) == [cp EXCEPT !.todo = @ \ {s}, !.failed = @ \/ ~ok]

(* Mutant: the session of the snapshot is replayed. *)
ReplaySnapshot(s) ==
    /\ cp.at = "replay" /\ s \in cp.todo /\ ~Locked(s)
    /\ Cardinality({w \in Sessions : call[w] # NoCall}) < Workers
    /\ IF ~cp.assoc
       THEN cp' = Done(s, FALSE) /\ UNCHANGED call
       ELSE Sends(s, Request("establish", s, 0)) /\ UNCHANGED cp
    /\ UNCHANGED <<store, proc, pgwu, net>>
(* reconcileSession: lock, look the session up again, Establish.            *)
Replay(s) ==
    /\ cp.at = "replay" /\ s \in cp.todo /\ ~Locked(s)
    /\ Cardinality({w \in Sessions : call[w] # NoCall}) < Workers
    /\ IF store[s] = 0 \/ ~cp.assoc
       THEN cp' = Done(s, store[s] = 0) /\ UNCHANGED call
       ELSE Sends(s, Request("establish", s, 0)) /\ UNCHANGED cp
    /\ UNCHANGED <<store, proc, pgwu, net>>

(* ReconcilePFCPUserSEID. *)
Replayed(s) ==
    /\ cp.at = "replay" /\ call[s].kind = "establish" /\ Accepted(s) /\ ~cp.closed
    /\ store' = [store EXCEPT ![s] = call[s].seid]
    /\ cp' = Done(s, TRUE)
    /\ Ends(s)
    /\ UNCHANGED <<proc, pgwu, net>>

(* It fails: only a newly allocated UP-SEID is deleted again.               *)
ReplayNotStored(s) ==
    /\ cp.at = "replay" /\ call[s].kind = "establish" /\ Accepted(s)
    /\ cp.closed \/ ("journal" \in Faults /\ call[s].seid # store[s])
    /\ IF call[s].seid # store[s]
       THEN /\ cp' = [cp EXCEPT !.closed = TRUE, !.failed = TRUE]
            /\ Sends(s, Request("delete", s, call[s].seid))
       ELSE cp' = [Done(s, FALSE) EXCEPT !.closed = TRUE] /\ Ends(s)
    /\ UNCHANGED <<store, proc, pgwu, net>>

ReplayFails(s) ==
    /\ cp.at = "replay"
    /\ TimedOut(s) \/ (Answered(s) /\ (call[s].kind = "delete" \/ ~Accepted(s)))
    /\ cp' = Done(s, FALSE)
    /\ Ends(s)
    /\ UNCHANGED <<store, proc, pgwu, net>>

(* ReconcileAll returns; CompleteReconciliation follows if nothing failed.  *)
ReconcileAll ==
    /\ cp.at = "replay" /\ cp.todo = {} /\ call["main"] = NoCall
    /\ IF cp.failed \/ ~cp.assoc
       THEN cp' = GivesUp(cp) /\ UNCHANGED call
       ELSE /\ cp' = [cp EXCEPT !.at = "complete"]
            /\ Sends("main", Request("update", NoSession, 0))
    /\ UNCHANGED <<store, proc, pgwu, net>>

CompleteReconciliation ==
    /\ cp.at = "complete" /\ (Answered("main") \/ TimedOut("main"))
    /\ cp' = IF Accepted("main") THEN [cp EXCEPT !.at = "serving", !.boot = FALSE] ELSE GivesUp(cp)
    /\ Ends("main")
    /\ UNCHANGED <<store, proc, pgwu, net>>

-----------------------------------------------------------------------------
(* PGW-C procedures *)

Serving == cp.at # "down" /\ ~cp.boot /\ proc = NoProc

Create(s) ==
    /\ Serving /\ cp.assoc
    /\ "overlap" \in Faults \/ (cp.at = "serving" /\ link /\ cp.stamp = "current")
    /\ store[s] = 0 /\ rules[s] = 0 /\ call[s] = NoCall /\ s \notin cp.todo
    /\ proc' = [op |-> "create", s |-> s, seid |-> 0]
    /\ Sends("proc", Request("establish", s, 0))
    /\ UNCHANGED <<cp, store, pgwu, net>>

Delete(s) ==
    /\ Serving /\ store[s] # 0 /\ ~Locked(s)
    /\ "interrupted_delete" \in Faults \/ (link /\ cp.at = "serving")
    /\ proc' = [op |-> "delete", s |-> s, seid |-> store[s]]
    /\ Sends("proc", Request("delete", s, store[s]))
    /\ UNCHANGED <<cp, store, pgwu, net>>

(* The PFCP call has returned: go on to the store, or give up.              *)
ProcedureReturns ==
    /\ proc.op \in {"create", "delete", "undo"} /\ (Answered("proc") \/ TimedOut("proc"))
    /\ LET c == call["proc"]
           won == Accepted("proc") \/ (Answered("proc") /\ c.cause = "notfound")
       IN proc' = IF ~won \/ proc.op = "undo" THEN NoProc
                  ELSE [proc EXCEPT !.seid = c.seid, !.op = IF @ = "create" THEN "store" ELSE "remove"]
    /\ Ends("proc")
    /\ UNCHANGED <<cp, store, pgwu, net>>

ProcedureCommits ==
    /\ proc.op \in {"store", "remove"} /\ ~cp.closed
    /\ store' = [store EXCEPT ![proc.s] = IF proc.op = "store" THEN proc.seid ELSE 0]
    /\ proc' = NoProc
    /\ UNCHANGED <<cp, call, pgwu, net>>

(* store.Create or Delete fails: a create deletes the session again.        *)
ProcedureNotStored ==
    /\ proc.op \in {"store", "remove"} /\ (cp.closed \/ "journal" \in Faults)
    /\ cp' = [cp EXCEPT !.closed = TRUE]
    /\ IF proc.op = "store"
       THEN /\ proc' = [proc EXCEPT !.op = "undo"]
            /\ Sends("proc", Request("delete", proc.s, proc.seid))
       ELSE proc' = NoProc /\ UNCHANGED call
    /\ UNCHANGED <<store, pgwu, net>>

-----------------------------------------------------------------------------
(* PGW-U: the handlers of pfcpserver, in the steps their locks make visible *)

Advance(t, at) == call' = [call EXCEPT ![t].at = at]
Respond(t, cause) == call' = [call EXCEPT ![t].at = "done", ![t].cause = cause, ![t].ids = {}]

associationSetup(t) ==
    /\ call[t].kind = "setup" /\ call[t].at = "sent"
    /\ LET reconcile == peer.state # "none" /\ (peer.state # "associated" \/ ~peer.current)
       IN /\ peer' = [state |-> IF reconcile THEN "reconciling" ELSE "associated",
                      current |-> call[t].caller]
          /\ IF reconcile THEN Advance(t, "begin") ELSE Respond(t, "accepted")
    /\ UNCHANGED <<pgwc, rules, owner, pending, sweep, net>>

beginReconciliation(t) ==
    /\ call[t].at = "begin"
    /\ pending' = owner
    /\ Respond(t, "accepted")
    /\ UNCHANGED <<pgwc, peer, rules, owner, sweep, net>>

(* sessionEstablishment reads the association state once. *)
sessionEstablishment(t) ==
    /\ call[t].kind = "establish" /\ call[t].at = "sent"
    /\ CASE peer.state = "reconciling" -> Advance(t, "reconcile")
         [] peer.state = "associated" -> Advance(t, "create")
         [] OTHER -> Respond(t, "rejected")
    /\ UNCHANGED <<pgwc, pgwu, net>>

(* FindByCPSEID and store.Reconcile: the UP-SEID stays.                     *)
Reconcile(t) ==
    /\ call[t].at = "reconcile"
    /\ IF rules[call[t].s] = 0 THEN Respond(t, "rejected")
       ELSE call' = [call EXCEPT ![t].at = "reaffirm", ![t].seid = rules[call[t].s]]
    /\ UNCHANGED <<pgwc, pgwu, net>>

Own(t) ==
    /\ call[t].at \in {"reaffirm", "own"}
    /\ owner' = owner \cup {call[t].seid}
    /\ pending' = IF call[t].at = "reaffirm" THEN pending \ {call[t].seid} ELSE pending
    /\ Respond(t, "accepted")
    /\ UNCHANGED <<pgwc, peer, rules, sweep, net>>

(* allocateSEID and store.Create, which refuses a known CP-SEID.            *)
CreateRules(t) ==
    /\ call[t].at = "create"
    /\ IF rules[call[t].s] # 0
       THEN Respond(t, "rejected") /\ UNCHANGED rules
       ELSE \E seid \in SEIDs \ SEIDsInUse :
              /\ \A other \in SEIDs \ SEIDsInUse : seid <= other
              /\ rules' = [rules EXCEPT ![call[t].s] = seid]
              /\ call' = [call EXCEPT ![t].at = "own", ![t].seid = seid]
    /\ UNCHANGED <<pgwc, peer, owner, pending, sweep, net>>

Stored(seid) == \E s \in Sessions : rules[s] = seid
Without(seid) == [s \in Sessions |-> IF rules[s] = seid THEN 0 ELSE rules[s]]

(* sessionDeletion: CanMutate, FindByUPSEID, owns, store.Delete.            *)
sessionDeletion(t) ==
    /\ call[t].kind = "delete" /\ call[t].at = "sent"
    /\ LET may == peer.state \in {"associated", "reconciling"}
           known == Stored(call[t].seid) /\ call[t].seid \in owner
       IN \/ /\ may /\ known
             /\ Advance(t, "disown") /\ rules' = Without(call[t].seid) /\ UNCHANGED count
          \/ /\ may /\ known /\ Fault("failing")
             /\ Respond(t, "rejected") /\ UNCHANGED rules
          \/ /\ ~may \/ ~known
             /\ Respond(t, IF may THEN "notfound" ELSE "rejected") /\ UNCHANGED <<rules, count>>
    /\ UNCHANGED <<pgwc, peer, owner, pending, sweep, link>>

Disown(t) ==
    /\ call[t].at = "disown"
    /\ owner' = owner \ {call[t].seid}
    /\ Respond(t, "accepted")
    /\ UNCHANGED <<pgwc, peer, rules, pending, sweep, net>>

associationUpdate(t) ==
    /\ call[t].kind = "update" /\ call[t].at = "sent"
    /\ CASE peer.state = "reconciling" -> call' = [call EXCEPT ![t].at = "purge", ![t].ids = pending]
         [] peer.state = "associated" -> Respond(t, "accepted")
         [] OTHER -> Respond(t, "rejected")
    /\ UNCHANGED <<pgwc, pgwu, net>>

(* completeReconciliation removes the sessions that are still pending ...   *)
PurgePending(t) ==
    /\ call[t].at = "purge"
    /\ \E seid \in call[t].ids :
          \/ /\ call' = [call EXCEPT ![t].ids = @ \ {seid}]
             /\ rules' = Without(seid) /\ owner' = owner \ {seid}
             /\ pending' = pending \ {seid} /\ UNCHANGED count
          \/ /\ Stored(seid) /\ Fault("failing") /\ (cp.boot \/ "loss_in_replay" \in Faults)
             /\ call' = [call EXCEPT ![t].ids = @ \ {seid}, ![t].ok = FALSE]
             /\ UNCHANGED <<rules, owner, pending>>
    /\ UNCHANGED <<pgwc, peer, sweep, link>>

(* ... and completes if all are gone and the window has not ended.          *)
completeReconciliation(t) ==
    /\ call[t].at = "purge" /\ call[t].ids = {}
    /\ LET completed == call[t].ok /\ peer.state = "reconciling"
       IN /\ peer' = IF completed THEN [peer EXCEPT !.state = "associated"] ELSE peer
          /\ pending' = IF call[t].ok THEN {} ELSE pending
          /\ Respond(t, IF completed THEN "accepted" ELSE "rejected")
    /\ UNCHANGED <<pgwc, rules, owner, sweep, net>>

(* sweepAssociations: no request for the association timeout ...            *)
EnterGrace ==
    /\ peer.state = "associated"
    /\ cp.at = "down" \/ (~link /\ (~cp.assoc \/ "slow_heartbeat" \in Faults))
    /\ \A t \in Threads : call[t] = NoCall
    /\ peer' = [peer EXCEPT !.state = "grace"]
    /\ UNCHANGED <<pgwc, call, rules, owner, pending, sweep, net>>

(* ... the end of the window, and purgePeerSessions.                        *)
GraceExpires ==
    /\ sweep = NoSweep /\ Fault("expiry")
    /\ peer.state \in {"grace", "reconciling"}
    /\ peer' = [peer EXCEPT !.state = "unavailable"]
    /\ sweep' = [at |-> "collect", ids |-> {}]
    /\ UNCHANGED <<pgwc, call, rules, owner, pending, link>>

CollectOwned ==
    /\ sweep.at = "collect"
    /\ sweep' = [at |-> "purge", ids |-> owner]
    /\ UNCHANGED <<pgwc, call, peer, rules, owner, pending, net>>

purgePeerSessions ==
    /\ sweep.at = "purge"
    /\ \E seid \in sweep.ids :
          /\ sweep' = [sweep EXCEPT !.ids = @ \ {seid}]
          /\ \/ rules' = Without(seid) /\ owner' = owner \ {seid} /\ UNCHANGED count
             \/ Stored(seid) /\ Fault("failing") /\ UNCHANGED <<rules, owner>>
    /\ UNCHANGED <<pgwc, call, peer, pending, link>>

SweepEnds ==
    /\ sweep.at = "purge" /\ sweep.ids = {}
    /\ pending' = {} /\ sweep' = NoSweep
    /\ UNCHANGED <<pgwc, call, peer, rules, owner, net>>

-----------------------------------------------------------------------------
(* Crashes, restarts and the network *)

Interruptible == "interrupted_delete" \in Faults \/ ~Deleting

Crash ==
    /\ cp.at # "down" /\ Fault("crash") /\ Interruptible
    /\ cp' = Down /\ proc' = NoProc
    /\ call' = [t \in Threads |-> IF Busy(t) THEN [call[t] EXCEPT !.caller = FALSE] ELSE NoCall]
    /\ UNCHANGED <<store, pgwu, link>>

(* A handler whose caller is gone has ended. *)
Discard(t) == call[t].at = "done" /\ ~call[t].caller /\ Ends(t) /\ UNCHANGED <<pgwc, pgwu, net>>

Interrupted(c) ==
    CASE c.at = "done" -> [c EXCEPT !.fresh = FALSE]
      [] c.at \in {"idle", "lost"} -> c
      [] OTHER -> IF c.caller THEN [c EXCEPT !.at = "lost", !.ids = {}] ELSE NoCall
Stale(stamp) == IF stamp = "none" THEN "none" ELSE "old"

(* New: rules come from the log, their owners with them, and a peer that    *)
(* has any is unavailable until it reconciles.                              *)
Restart ==
    /\ Fault("restart") /\ Interruptible
    /\ LET known == {rules[s] : s \in Sessions} \ {0}
       IN /\ owner' = known /\ pending' = {} /\ sweep' = NoSweep
          /\ peer' = [state |-> IF known = {} THEN "none" ELSE "unavailable", current |-> FALSE]
    /\ cp' = [cp EXCEPT !.stamp = Stale(@)]
    /\ call' = [t \in Threads |-> Interrupted(call[t])]
    /\ UNCHANGED <<store, proc, rules, link>>

LinkFails ==
    /\ link /\ Fault("outage") /\ Interruptible
    /\ "loss_in_replay" \in Faults \/ cp.boot \/ cp.at \notin {"replay", "complete"}
    /\ link' = FALSE
    /\ UNCHANGED <<pgwc, call, pgwu>>
LinkHeals == ~link /\ link' = TRUE /\ UNCHANGED <<pgwc, call, pgwu, count>>

-----------------------------------------------------------------------------
MainStep == HeartbeatFails \/ Associate \/ Associated \/ ReconcileAll \/ CompleteReconciliation
WorkerStep(s) == Replay(s) \/ Replayed(s) \/ ReplayNotStored(s) \/ ReplayFails(s)
ProcStep == ProcedureReturns \/ ProcedureCommits \/ ProcedureNotStored
HandlerStep(t) ==
    \/ associationSetup(t) \/ beginReconciliation(t)
    \/ sessionEstablishment(t) \/ Reconcile(t) \/ CreateRules(t) \/ Own(t)
    \/ sessionDeletion(t) \/ Disown(t)
    \/ associationUpdate(t) \/ PurgePending(t) \/ completeReconciliation(t) \/ Discard(t)
SweepStep == CollectOwned \/ purgePeerSessions \/ SweepEnds

Next ==
    \/ Start \/ HeartbeatSucceeds \/ MainStep \/ ProcStep \/ SweepStep
    \/ \E s \in Sessions : WorkerStep(s) \/ Create(s) \/ Delete(s)
    \/ \E t \in Threads : HandlerStep(t)
    \/ EnterGrace \/ GraceExpires
    \/ Crash \/ Restart \/ LinkFails \/ LinkHeals

(* Goroutines keep running, a supervisor starts PGW-C again, outages end.   *)
Fairness ==
    /\ WF_vars(Start) /\ WF_vars(MainStep) /\ WF_vars(ProcStep)
    /\ WF_vars(SweepStep) /\ WF_vars(LinkHeals)
    /\ \A s \in Sessions : WF_vars(WorkerStep(s))
    /\ \A t \in Threads : WF_vars(HandlerStep(t))

Spec == Init /\ [][Next]_vars /\ Fairness

-----------------------------------------------------------------------------
(* Every variable has its type, and no UP-SEID names two sessions.          *)
TypeOK ==
    /\ \A s, r \in Sessions : rules[s] # 0 /\ rules[s] = rules[r] => s = r
    /\ cp.at \in {"down", "assoc", "replay", "complete", "serving"}
    /\ cp.stamp \in {"none", "current", "old"} /\ cp.todo \subseteq Sessions
    /\ store \in [Sessions -> SEIDs \cup {0}] /\ rules \in [Sessions -> SEIDs \cup {0}]
    /\ peer.state \in {"none", "associated", "grace", "reconciling", "unavailable"}
    /\ owner \cup pending \cup sweep.ids \subseteq SEIDs
    /\ \A k \in DOMAIN Bound : count[k] \in 0..Bound[k]

(* Forwarding state is retained: through crashes of PGW-C, restarts of      *)
(* PGW-U, outages and the reconciliations that follow, every session of the *)
(* durable store has its rules, under the UP-SEID the store holds.          *)
Retained ==
    \A s \in Sessions : store[s] # 0 /\ ~(Deleting /\ proc.s = s) => rules[s] = store[s]

(* When a start-up completes its reconciliation, PGW-U forwards nothing     *)
(* PGW-C does not know, also if a session could not be removed at first.    *)
StartupRemovesStale ==
    CompleteReconciliation /\ cp.boot /\ ~cp'.boot =>
       \A s \in Sessions : rules[s] # 0 => store[s] # 0

(* Owner map and durable rules agree whenever no handler runs: after a      *)
(* restart of PGW-U as well, or sessions could not be modified or deleted.  *)
OwnersMatchRules ==
    (\A t \in Threads : ~Busy(t)) => owner = {rules[s] : s \in Sessions} \ {0}

(* Once faults stop, PGW-C serves and PGW-U accepts sessions again.         *)
Converged == cp.at = "serving" /\ cp.assoc /\ peer.state = "associated" /\ ~cp.boot

(* No replay or create brings back a session that is gone: rules appear     *)
(* only for a session the store holds or a create is adding.                *)
NoResurrection ==
    \A s \in Sessions : rules[s] = 0 /\ rules'[s] # 0 =>
       store[s] # 0 \/ (Creating /\ proc.s = s) \/ ~call["proc"].caller

(* A replay whose result cannot be stored never takes a session from PGW-U  *)
(* that was only reaffirmed: the session is deleted again under a new       *)
(* UP-SEID, or not at all.                                                  *)
UndoSparesReaffirmed ==
    \A s \in Sessions : call[s].kind = "delete" => call[s].seid # store[s]

(* After its journal is restored, PGW-C replays its sessions and serves; it *)
(* does not exit for ever, however long it was away.                        *)
StartupServes == <>[](~cp.boot)
=============================================================================
