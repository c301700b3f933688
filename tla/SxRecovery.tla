----------------------------- MODULE SxRecovery -----------------------------
(***************************************************************************)
(* Recovery over Sxa: the SGW-C process (start-up, heartbeat loop, replay  *)
(* worker pool, create and delete procedures, durable session store)       *)
(* composed with the SGW-U PFCP server (association record, rule store,    *)
(* session owners, reconciliation set, association sweeper).               *)
(*                                                                         *)
(* A session is identified by its CP-SEID, which SGW-C draws at random for *)
(* every create.  SEIDs are drawn from the numbers no one refers to.       *)
(* Recovery time stamps are kept as "is the one last recorded still that   *)
(* of the running process", which is all the code compares.                *)
(*                                                                         *)
(* The PFCP transport is used through Do: a request is handled at most     *)
(* once, and the caller gets the response or a timeout.  A handler that    *)
(* has begun ends before its caller gives up and before a crashed SGW-C is *)
(* back; between those it interleaves with every other handler.            *)
(***************************************************************************)
EXTENDS Integers, FiniteSets

CONSTANTS
    Sessions,      \* CP-SEIDs
    SEIDs,         \* UP-SEIDs (positive numbers)
    Workers,       \* ReconcileWorkers
    MaxCrashes,    \* bound on SGW-C crashes
    MaxRestarts,   \* bound on SGW-U restarts
    MaxOutages,    \* bound on losses of the Sxa link
    Faults,        \* the timings of faults that are explored, see below
    NoSession

(* "loss_in_replay": the link may fail while the heartbeat loop replays;    *)
(* "expiry": the grace window may expire; "overlap": a create may overlap   *)
(* the heartbeat loop's recovery; "interrupted_delete": a crash or an       *)
(* outage may hit a delete procedure; "slow_heartbeat": association_timeout *)
(* is no longer than heartbeat_interval plus procedure_timeout;             *)
(* "half_replayed": a crash or an outage may hit while a restarted SGW-U    *)
(* has a new association but not yet every session.                         *)
FaultKinds == {"loss_in_replay", "expiry", "overlap",
               "interrupted_delete", "slow_heartbeat", "half_replayed"}

ASSUME SessionsAssumption ==
    /\ {"main", "proc", NoSession} \cap Sessions = {}
    /\ SEIDs \subseteq Nat \ {0} /\ 1..Cardinality(Sessions) \subseteq SEIDs
ASSUME FaultsAssumption == Faults \subseteq FaultKinds
ASSUME BoundsAssumption ==
    /\ Workers \in Nat \ {0}
    /\ MaxCrashes \in Nat /\ MaxRestarts \in Nat /\ MaxOutages \in Nat

VARIABLES
    main,          \* where SGW-C's start-up or heartbeat loop is
    boot,          \* the start-up sequence has not ended: S11/S5 not served
    association,   \* Client.association # nil
    lastRecovery,  \* Client.lastRecovery: "none", "current" or "old"
    todo,          \* sessions of the ReconcileAll snapshot not yet replayed
    failed,        \* ReconcileAll has recorded a failure
    store,         \* durable session store: CP-SEID -> PFCPUserSEID, 0 absent
    proc,          \* the create or delete procedure in progress
    call,          \* PFCP transaction of each SGW-C thread, with its handler
    peer,          \* SGW-U's association record for SGW-C
    rules,         \* SGW-U rule store: CP-SEID -> UP-SEID, 0 absent
    owner,         \* keys of Server.sessionOwner
    pending,       \* Server.reconcilePending
    sweep,         \* the sweeper's purge after an expiry
    link,          \* Sxa works
    faults         \* crashes, restarts and outages so far

cp == <<main, boot, association, lastRecovery, todo, failed, store, proc>>
up == <<peer, rules, owner, pending, sweep>>
vars == <<main, boot, association, lastRecovery, todo, failed, store, proc, call,
          peer, rules, owner, pending, sweep, link, faults>>

(* One replay worker per session: the pool bounds how many are busy. *)
Threads == {"main", "proc"} \cup Sessions

NoCall == [kind |-> "none", at |-> "idle", s |-> NoSession, seid |-> 0,
           ids |-> {}, cause |-> "none", fresh |-> TRUE, caller |-> TRUE]
NoProc == [op |-> "none", s |-> NoSession, seid |-> 0]
NoPeer == [state |-> "none", current |-> FALSE]
NoSweep == [at |-> "idle", ids |-> {}]

Busy(t) == call[t].at \notin {"idle", "lost", "done"}
Answered(t) == call[t].at = "done" /\ call[t].caller /\ link
TimedOut(t) == call[t].at = "lost" \/ (call[t].at = "done" /\ call[t].caller /\ ~link)
Accepted(t) == Answered(t) /\ call[t].cause = "accepted"

Request(kind, s, seid) ==
    [NoCall EXCEPT !.kind = kind, !.s = s, !.seid = seid,
                   !.at = IF link THEN "sent" ELSE "lost"]

Creating == proc.op \in {"create", "store"}
Deleting == proc.op \in {"delete", "remove"}

(* Every UP-SEID something still refers to. *)
SEIDsInUse ==
    {rules[s] : s \in Sessions} \cup {store[s] : s \in Sessions} \cup owner
        \cup pending \cup {call[t].seid : t \in Threads} \cup {proc.seid}
        \cup UNION {call[t].ids : t \in Threads} \cup sweep.ids

(* SGW-C and SGW-U agree on a set of established sessions. *)
Init ==
    /\ \E live \in SUBSET Sessions, seid \in [Sessions -> 1..Cardinality(Sessions)] :
          /\ \A s, r \in Sessions : s # r => seid[s] # seid[r]
          /\ store = [s \in Sessions |-> IF s \in live THEN seid[s] ELSE 0]
          /\ rules = store
          /\ owner = {seid[s] : s \in live}
    /\ main = "serving" /\ boot = FALSE
    /\ association = TRUE /\ lastRecovery = "current"
    /\ todo = {} /\ failed = FALSE
    /\ proc = NoProc
    /\ call = [t \in Threads |-> NoCall]
    /\ peer = [state |-> "associated", current |-> TRUE]
    /\ pending = {} /\ sweep = NoSweep
    /\ link = TRUE /\ faults = [crash |-> 0, restart |-> 0, outage |-> 0]

-----------------------------------------------------------------------------
(* SGW-C: start-up (main.run) and the heartbeat loop (main.heartbeat).      *)

(* A started process has no association and rebuilds its store from disk. *)
CpStart ==
    /\ main = "down" /\ \A t \in Threads : call[t] = NoCall
    /\ main' = "assoc" /\ boot' = TRUE
    /\ association' = FALSE /\ lastRecovery' = "none"
    /\ peer' = [peer EXCEPT !.current = FALSE]
    /\ UNCHANGED <<todo, failed, store, proc, call, rules, owner, pending, sweep,
                   link, faults>>

(* The transport's handler for a caller that is gone has ended. *)
Discard(t) ==
    /\ call[t].at = "done" /\ ~call[t].caller
    /\ call' = [call EXCEPT ![t] = NoCall]
    /\ UNCHANGED <<cp, up, link, faults>>

(* Start-up gives up and the process exits; the loop goes on to its next tick. *)
GiveUp == main' = IF boot THEN "down" ELSE "serving"

(* A heartbeat that succeeds changes nothing here. *)
HeartbeatSucceeds ==
    /\ main = "serving" /\ link /\ association /\ lastRecovery = "current"
    /\ UNCHANGED vars

(* Mutant: the recovery time stamp of the response is not compared. *)
HeartbeatIgnoresRestart ==
    /\ main = "serving"
    /\ ~link \/ ~association
    /\ "overlap" \in Faults \/ ~Creating
    /\ association' = FALSE /\ UNCHANGED lastRecovery
    /\ main' = "assoc"
    /\ UNCHANGED <<boot, todo, failed, store, proc, call, up, link, faults>>

(* One that times out, finds no association or meets a new recovery time    *)
(* stamp leads to MarkUnavailable and reassociation.                        *)
HeartbeatFails ==
    /\ main = "serving"
    /\ ~link \/ ~association \/ lastRecovery # "current"
    /\ "overlap" \in Faults \/ ~Creating
    /\ association' = FALSE
    /\ lastRecovery' = IF link /\ association THEN "current" ELSE lastRecovery
    /\ main' = "assoc"
    /\ UNCHANGED <<boot, todo, failed, store, proc, call, up, link, faults>>

SendSetup ==
    /\ main = "assoc" /\ call["main"] = NoCall
    /\ call' = [call EXCEPT !["main"] = Request("setup", NoSession, 0)]
    /\ UNCHANGED <<cp, up, link, faults>>

(* Associate returned: ReconcileAll takes its snapshot of the store. *)
Associated ==
    /\ main = "assoc" /\ Answered("main")
    /\ association' = TRUE
    /\ lastRecovery' = IF call["main"].fresh THEN "current" ELSE "old"
    /\ main' = "replay" /\ todo' = {s \in Sessions : store[s] # 0} /\ failed' = FALSE
    /\ call' = [call EXCEPT !["main"] = NoCall]
    /\ UNCHANGED <<boot, store, proc, up, link, faults>>

AssociateFails ==
    /\ main = "assoc" /\ TimedOut("main")
    /\ GiveUp
    /\ call' = [call EXCEPT !["main"] = NoCall]
    /\ UNCHANGED <<boot, association, lastRecovery, todo, failed, store, proc, up,
                   link, faults>>

(* lockSet: one procedure or replay at a time per stored session. *)
Locked(s) == (Deleting /\ proc.s = s) \/ call[s] # NoCall

(* Mutant: the worker replays from the snapshot without the session lock. *)
ReplayUnlocked(s) ==
    /\ main = "replay" /\ s \in todo /\ call[s] = NoCall
    /\ Cardinality({w \in Sessions : call[w] # NoCall}) < Workers
    /\ IF ~association
       THEN /\ todo' = todo \ {s} /\ failed' = TRUE /\ UNCHANGED call
       ELSE /\ call' = [call EXCEPT ![s] = Request("establish", s, 0)]
            /\ UNCHANGED <<todo, failed>>
    /\ UNCHANGED <<main, boot, association, lastRecovery, store, proc, up, link, faults>>

(* reconcileSession: lock, look the session up again, send Establishment. *)
Replay(s) ==
    /\ main = "replay" /\ s \in todo /\ ~Locked(s)
    /\ Cardinality({w \in Sessions : call[w] # NoCall}) < Workers
    /\ IF store[s] = 0
       THEN todo' = todo \ {s} /\ UNCHANGED <<call, failed>>
       ELSE IF ~association
       THEN todo' = todo \ {s} /\ failed' = TRUE /\ UNCHANGED call
       ELSE /\ call' = [call EXCEPT ![s] = Request("establish", s, 0)]
            /\ UNCHANGED <<todo, failed>>
    /\ UNCHANGED <<main, boot, association, lastRecovery, store, proc, up, link, faults>>

(* Mutant: the UP-SEID of the response is not committed. *)
ReplayedKeepsSeid(s) ==
    /\ main = "replay" /\ Accepted(s)
    /\ todo' = todo \ {s}
    /\ call' = [call EXCEPT ![s] = NoCall]
    /\ UNCHANGED <<main, boot, association, lastRecovery, failed, store, proc, up,
                   link, faults>>

(* ReconcilePFCPUserSEID commits the UP-SEID the replay returned. *)
Replayed(s) ==
    /\ main = "replay" /\ Accepted(s)
    /\ store' = [store EXCEPT ![s] = call[s].seid]
    /\ todo' = todo \ {s}
    /\ call' = [call EXCEPT ![s] = NoCall]
    /\ UNCHANGED <<main, boot, association, lastRecovery, failed, proc, up, link, faults>>

ReplayFails(s) ==
    /\ main = "replay" /\ (TimedOut(s) \/ (Answered(s) /\ ~Accepted(s)))
    /\ todo' = todo \ {s} /\ failed' = TRUE
    /\ call' = [call EXCEPT ![s] = NoCall]
    /\ UNCHANGED <<main, boot, association, lastRecovery, store, proc, up, link, faults>>

(* ReconcileAll returns; CompleteReconciliation is sent if nothing failed. *)
ReplayEnds ==
    /\ main = "replay" /\ todo = {}
    /\ IF failed \/ ~association
       THEN GiveUp /\ UNCHANGED call
       ELSE /\ main' = "complete"
            /\ call' = [call EXCEPT !["main"] = Request("update", NoSession, 0)]
    /\ UNCHANGED <<boot, association, lastRecovery, todo, failed, store, proc, up,
                   link, faults>>

Completed ==
    /\ main = "complete" /\ Accepted("main")
    /\ main' = "serving" /\ boot' = FALSE
    /\ call' = [call EXCEPT !["main"] = NoCall]
    /\ UNCHANGED <<association, lastRecovery, todo, failed, store, proc, up, link, faults>>

CompleteFails ==
    /\ main = "complete"
    /\ TimedOut("main") \/ (Answered("main") /\ ~Accepted("main"))
    /\ GiveUp
    /\ call' = [call EXCEPT !["main"] = NoCall]
    /\ UNCHANGED <<boot, association, lastRecovery, todo, failed, store, proc, up,
                   link, faults>>

-----------------------------------------------------------------------------
(* SGW-C procedures, served from the end of start-up on.                    *)

Serving == main # "down" /\ ~boot

(* createSession, after PGW-C has accepted: a fresh CP-SEID, then Establish. *)
Create(s) ==
    /\ Serving /\ proc = NoProc /\ association
    /\ "overlap" \in Faults \/ (main = "serving" /\ link /\ lastRecovery = "current")
    /\ store[s] = 0 /\ rules[s] = 0 /\ call[s] = NoCall /\ s \notin todo
    /\ proc' = [op |-> "create", s |-> s, seid |-> 0]
    /\ call' = [call EXCEPT !["proc"] = Request("establish", s, 0)]
    /\ UNCHANGED <<main, boot, association, lastRecovery, todo, failed, store, up,
                   link, faults>>

(* deleteSession, after PGW-C has answered: Delete does not look at the     *)
(* association.                                                             *)
Delete(s) ==
    /\ Serving /\ proc = NoProc /\ store[s] # 0 /\ ~Locked(s)
    /\ "interrupted_delete" \in Faults \/ (link /\ main = "serving")
    /\ proc' = [op |-> "delete", s |-> s, seid |-> store[s]]
    /\ call' = [call EXCEPT !["proc"] = Request("delete", s, store[s])]
    /\ UNCHANGED <<main, boot, association, lastRecovery, todo, failed, store, up,
                   link, faults>>

(* The PFCP step has succeeded; Session Not Found counts for a delete. *)
ProcedureAnswered ==
    /\ proc.op # "none"
    /\ Accepted("proc") \/ (Answered("proc") /\ call["proc"].cause = "notfound")
    /\ proc' = [proc EXCEPT !.seid = call["proc"].seid,
                            !.op = IF @ = "create" THEN "store" ELSE "remove"]
    /\ call' = [call EXCEPT !["proc"] = NoCall]
    /\ UNCHANGED <<main, boot, association, lastRecovery, todo, failed, store, up,
                   link, faults>>

(* A failed Establish is not followed by a Delete to SGW-U. *)
ProcedureFails ==
    /\ proc.op # "none"
    /\ TimedOut("proc") \/ (Answered("proc") /\ call["proc"].cause = "rejected")
    /\ proc' = NoProc
    /\ call' = [call EXCEPT !["proc"] = NoCall]
    /\ UNCHANGED <<main, boot, association, lastRecovery, todo, failed, store, up,
                   link, faults>>

(* store.Create or store.Delete, durable before it returns. *)
ProcedureCommits ==
    /\ proc.op \in {"store", "remove"}
    /\ store' = [store EXCEPT ![proc.s] = IF proc.op = "store" THEN proc.seid ELSE 0]
    /\ proc' = NoProc
    /\ UNCHANGED <<main, boot, association, lastRecovery, todo, failed, call, up,
                   link, faults>>

-----------------------------------------------------------------------------
(* SGW-U: the handlers of pfcpserver, in the steps their locks make visible. *)

Advance(t, at) == call' = [call EXCEPT ![t].at = at]
Respond(t, cause) == call' = [call EXCEPT ![t].at = "done", ![t].cause = cause,
                                          ![t].ids = {}]

(* associationSetup: associations.Setup. *)
HandleSetup(t) ==
    /\ call[t].kind = "setup" /\ call[t].at = "sent"
    /\ LET reconcile == /\ peer.state # "none"
                        /\ peer.state # "associated" \/ ~peer.current
       IN  /\ peer' = [state |-> IF reconcile THEN "reconciling" ELSE "associated",
                       current |-> call[t].caller]
           /\ IF reconcile THEN Advance(t, "begin") ELSE Respond(t, "accepted")
    /\ UNCHANGED <<cp, rules, owner, pending, sweep, link, faults>>

(* beginReconciliation: everything the peer owns must be reaffirmed. *)
BeginReconciliation(t) ==
    /\ call[t].at = "begin"
    /\ pending' = owner
    /\ Respond(t, "accepted")
    /\ UNCHANGED <<cp, peer, rules, owner, sweep, link, faults>>

(* sessionEstablishment reads the association state once. *)
HandleEstablish(t) ==
    /\ call[t].kind = "establish" /\ call[t].at = "sent"
    /\ CASE peer.state = "reconciling" -> Advance(t, "reconcile")
         [] peer.state = "associated" -> Advance(t, "create")
         [] OTHER -> Respond(t, "rejected")
    /\ UNCHANGED <<cp, up, link, faults>>

(* FindByCPSEID and store.Reconcile: the UP-SEID is preserved; a CP-SEID    *)
(* SGW-U does not know is refused.                                          *)
Reconcile(t) ==
    /\ call[t].at = "reconcile"
    /\ IF rules[call[t].s] = 0
       THEN Respond(t, "rejected")
       ELSE call' = [call EXCEPT ![t].at = "reaffirm", ![t].seid = rules[call[t].s]]
    /\ UNCHANGED <<cp, up, link, faults>>

(* Mutant: the reconciled session is not taken off the pending set. *)
ReaffirmKeepsPending(t) ==
    /\ call[t].at = "reaffirm"
    /\ owner' = owner \cup {call[t].seid}
    /\ Respond(t, "accepted")
    /\ UNCHANGED <<cp, peer, rules, pending, sweep, link, faults>>

Reaffirm(t) ==
    /\ call[t].at = "reaffirm"
    /\ owner' = owner \cup {call[t].seid}
    /\ pending' = pending \ {call[t].seid}
    /\ Respond(t, "accepted")
    /\ UNCHANGED <<cp, peer, rules, sweep, link, faults>>

(* allocateSEID and store.Create, which refuses a known CP-SEID. *)
CreateRules(t) ==
    /\ call[t].at = "create"
    /\ IF rules[call[t].s] # 0
       THEN Respond(t, "rejected") /\ UNCHANGED rules
       ELSE \E seid \in SEIDs \ SEIDsInUse :
              /\ \A other \in SEIDs \ SEIDsInUse : seid <= other
              /\ rules' = [rules EXCEPT ![call[t].s] = seid]
              /\ call' = [call EXCEPT ![t].at = "own", ![t].seid = seid]
    /\ UNCHANGED <<cp, peer, owner, pending, sweep, link, faults>>

Own(t) ==
    /\ call[t].at = "own"
    /\ owner' = owner \cup {call[t].seid}
    /\ Respond(t, "accepted")
    /\ UNCHANGED <<cp, peer, rules, pending, sweep, link, faults>>

Without(seid) == [s \in Sessions |-> IF rules[s] = seid THEN 0 ELSE rules[s]]

(* sessionDeletion: CanMutate, FindByUPSEID, owns, store.Delete. *)
HandleDelete(t) ==
    /\ call[t].kind = "delete" /\ call[t].at = "sent"
    /\ CASE peer.state \notin {"associated", "reconciling"} ->
              Respond(t, "rejected") /\ UNCHANGED rules
         [] /\ peer.state \in {"associated", "reconciling"}
            /\ call[t].seid \in {rules[s] : s \in Sessions} \cap owner ->
              Advance(t, "disown") /\ rules' = Without(call[t].seid)
         [] OTHER -> Respond(t, "notfound") /\ UNCHANGED rules
    /\ UNCHANGED <<cp, peer, owner, pending, sweep, link, faults>>

(* Mutant: the owner entry stays. *)
DisownForgotten(t) ==
    /\ call[t].at = "disown"
    /\ Respond(t, "accepted")
    /\ UNCHANGED <<cp, up, link, faults>>

Disown(t) ==
    /\ call[t].at = "disown"
    /\ owner' = owner \ {call[t].seid}
    /\ Respond(t, "accepted")
    /\ UNCHANGED <<cp, peer, rules, pending, sweep, link, faults>>

(* associationUpdate reads the association state once. *)
HandleUpdate(t) ==
    /\ call[t].kind = "update" /\ call[t].at = "sent"
    /\ CASE peer.state = "reconciling" -> Advance(t, "take")
         [] peer.state = "associated" -> Respond(t, "accepted")
         [] OTHER -> Respond(t, "rejected")
    /\ UNCHANGED <<cp, up, link, faults>>

(* completeReconciliation: take the pending set ... *)
TakePending(t) ==
    /\ call[t].at = "take"
    /\ call' = [call EXCEPT ![t].at = "purge", ![t].ids = pending]
    /\ pending' = {}
    /\ UNCHANGED <<cp, peer, rules, owner, sweep, link, faults>>

(* ... remove each session in it ... *)
PurgePending(t) ==
    /\ call[t].at = "purge"
    /\ \E seid \in call[t].ids :
          /\ rules' = Without(seid)
          /\ owner' = owner \ {seid}
          /\ call' = [call EXCEPT ![t].ids = @ \ {seid}]
    /\ UNCHANGED <<cp, peer, pending, sweep, link, faults>>

(* ... and associations.Complete, which acts on a reconciling peer only. *)
CompletePeer(t) ==
    /\ call[t].at = "purge" /\ call[t].ids = {}
    /\ peer' = IF peer.state = "reconciling"
               THEN [peer EXCEPT !.state = "associated"] ELSE peer
    /\ Respond(t, "accepted")
    /\ UNCHANGED <<cp, rules, owner, pending, sweep, link, faults>>

(* sweepAssociations: no request for the association timeout, which is      *)
(* longer than any transaction of SGW-C and, unless heartbeats are slow,    *)
(* than SGW-C takes to notice that one has failed.                          *)
EnterGrace ==
    /\ peer.state = "associated"
    /\ main = "down" \/ (~link /\ (~association \/ "slow_heartbeat" \in Faults))
    /\ \A t \in Threads : call[t] = NoCall
    /\ peer' = [peer EXCEPT !.state = "grace"]
    /\ UNCHANGED <<cp, call, rules, owner, pending, sweep, link, faults>>

(* The grace deadline has passed. *)
GraceExpires ==
    /\ "expiry" \in Faults /\ sweep = NoSweep
    /\ peer.state \in {"grace", "reconciling"}
    /\ peer' = [peer EXCEPT !.state = "unavailable"]
    /\ sweep' = [at |-> "collect", ids |-> {}]
    /\ UNCHANGED <<cp, call, rules, owner, pending, link, faults>>

(* purgePeerSessions collects what the peer owns, then removes it. *)
CollectOwned ==
    /\ sweep.at = "collect"
    /\ sweep' = [at |-> "purge", ids |-> owner]
    /\ UNCHANGED <<cp, call, peer, rules, owner, pending, link, faults>>

PurgeOwned ==
    /\ sweep.at = "purge"
    /\ \E seid \in sweep.ids :
          /\ rules' = Without(seid)
          /\ owner' = owner \ {seid}
          /\ sweep' = [sweep EXCEPT !.ids = @ \ {seid}]
    /\ UNCHANGED <<cp, call, peer, pending, link, faults>>

SweepEnds ==
    /\ sweep.at = "purge" /\ sweep.ids = {}
    /\ pending' = {}
    /\ sweep' = NoSweep
    /\ UNCHANGED <<cp, call, peer, rules, owner, link, faults>>

-----------------------------------------------------------------------------
(* External: crashes, restarts and the network.                             *)

(* Where a crash of SGW-C or an outage may hit. *)
Interruptible ==
    /\ "interrupted_delete" \in Faults \/ ~Deleting
    /\ \/ "half_replayed" \in Faults
       \/ peer.state = "none" /\ call["main"].kind # "setup"
       \/ \A s \in Sessions : store[s] # 0 => rules[s] # 0

(* SGW-C dies; handlers of its requests run on. *)
CpCrash ==
    /\ main # "down" /\ faults.crash < MaxCrashes /\ Interruptible
    /\ main' = "down" /\ boot' = TRUE
    /\ association' = FALSE /\ lastRecovery' = "none"
    /\ todo' = {} /\ failed' = FALSE /\ proc' = NoProc
    /\ call' = [t \in Threads |->
                  IF Busy(t) THEN [call[t] EXCEPT !.caller = FALSE] ELSE NoCall]
    /\ faults' = [faults EXCEPT !.crash = @ + 1]
    /\ UNCHANGED <<store, up, link>>

(* SGW-U keeps its rules in memory only. *)
UpRestart ==
    /\ faults.restart < MaxRestarts
    /\ faults' = [faults EXCEPT !.restart = @ + 1]
    /\ peer' = NoPeer /\ pending' = {} /\ owner' = {} /\ sweep' = NoSweep
    /\ rules' = [s \in Sessions |-> 0]
    /\ lastRecovery' = IF lastRecovery = "none" THEN "none" ELSE "old"
    /\ call' = [t \in Threads |->
          CASE Busy(t) /\ call[t].caller -> [call[t] EXCEPT !.at = "lost", !.ids = {}]
            [] Busy(t) /\ ~call[t].caller -> NoCall
            [] call[t].at = "done" -> [call[t] EXCEPT !.fresh = FALSE]
            [] OTHER -> call[t]]
    /\ UNCHANGED <<main, boot, association, todo, failed, store, proc, link>>

LinkFails ==
    /\ link /\ faults.outage < MaxOutages /\ Interruptible
    /\ "loss_in_replay" \in Faults \/ boot \/ main \notin {"replay", "complete"}
    /\ link' = FALSE
    /\ faults' = [faults EXCEPT !.outage = @ + 1]
    /\ UNCHANGED <<cp, call, up>>

LinkHeals == ~link /\ link' = TRUE /\ UNCHANGED <<cp, call, up, faults>>

-----------------------------------------------------------------------------
MainStep ==
    \/ HeartbeatFails \/ SendSetup \/ Associated \/ AssociateFails
    \/ ReplayEnds \/ Completed \/ CompleteFails

WorkerStep(s) == Replay(s) \/ Replayed(s) \/ ReplayFails(s)

ProcStep == ProcedureAnswered \/ ProcedureFails \/ ProcedureCommits

HandlerStep(t) ==
    \/ HandleSetup(t) \/ BeginReconciliation(t)
    \/ HandleEstablish(t) \/ Reconcile(t) \/ Reaffirm(t) \/ CreateRules(t) \/ Own(t)
    \/ HandleDelete(t) \/ Disown(t)
    \/ HandleUpdate(t) \/ TakePending(t) \/ PurgePending(t) \/ CompletePeer(t)
    \/ Discard(t)

SweepStep == CollectOwned \/ PurgeOwned \/ SweepEnds

Next ==
    \/ CpStart \/ HeartbeatSucceeds \/ MainStep \/ ProcStep \/ SweepStep
    \/ \E s \in Sessions : WorkerStep(s) \/ Create(s) \/ Delete(s)
    \/ \E t \in Threads : HandlerStep(t)
    \/ EnterGrace \/ GraceExpires
    \/ CpCrash \/ UpRestart \/ LinkFails \/ LinkHeals

(* Every goroutine keeps running, a supervisor restarts SGW-C, and an       *)
(* outage ends.  Nothing is assumed of subscribers, crashes or expiry.      *)
Fairness ==
    /\ WF_vars(CpStart) /\ WF_vars(MainStep) /\ WF_vars(ProcStep)
    /\ WF_vars(SweepStep) /\ WF_vars(LinkHeals)
    /\ \A s \in Sessions : WF_vars(WorkerStep(s))
    /\ \A t \in Threads : WF_vars(HandlerStep(t))

Spec == Init /\ [][Next]_vars /\ Fairness

-----------------------------------------------------------------------------
Seids == SEIDs \cup {0}
CallState ==
    [kind : {"none", "setup", "establish", "delete", "update"},
     at : {"idle", "sent", "lost", "done", "begin", "reconcile", "reaffirm", "create", "own",
           "disown", "take", "purge"},
     s : Sessions \cup {NoSession}, seid : Seids, ids : SUBSET SEIDs,
     cause : {"none", "accepted", "rejected", "notfound"}, fresh : BOOLEAN, caller : BOOLEAN]

(* Every variable has its type, and no UP-SEID names two sessions. *)
TypeOK ==
    /\ \A s, r \in Sessions : rules[s] # 0 /\ rules[s] = rules[r] => s = r
    /\ main \in {"down", "assoc", "replay", "complete", "serving"}
    /\ boot \in BOOLEAN /\ association \in BOOLEAN /\ failed \in BOOLEAN
    /\ lastRecovery \in {"none", "current", "old"}
    /\ todo \subseteq Sessions
    /\ store \in [Sessions -> Seids] /\ rules \in [Sessions -> Seids]
    /\ proc \in [op : {"none", "create", "store", "delete", "remove"},
                 s : Sessions \cup {NoSession}, seid : Seids]
    /\ call \in [Threads -> CallState]
    /\ peer \in [state : {"none", "associated", "grace", "reconciling", "unavailable"},
                 current : BOOLEAN]
    /\ owner \subseteq SEIDs /\ pending \subseteq SEIDs
    /\ sweep \in [at : {"idle", "collect", "purge"}, ids : SUBSET SEIDs]
    /\ link \in BOOLEAN
    /\ faults \in [crash : 0..MaxCrashes, restart : 0..MaxRestarts, outage : 0..MaxOutages]

(* Completing a reconciliation removes only what SGW-C no longer holds: no  *)
(* session of the durable store is among the ones completeReconciliation    *)
(* purges.  It rests on the snapshot ReconcileAll replays being complete.   *)
CompletionSparesLiveSessions ==
    \A t \in Threads : call[t].at = "purge" =>
        \A s \in Sessions : store[s] # 0 => store[s] \notin call[t].ids

(* When the start-up reconciliation completes, SGW-U forwards nothing SGW-C *)
(* does not know: sessions of creates that the crash cut off between        *)
(* Establishment and the durable commit are gone.  (The heartbeat loop gives *)
(* no such promise: SGW-U only reconciles if its own timeout had run out.)  *)
StartupRemovesStale ==
    Completed /\ boot => \A s \in Sessions : rules[s] # 0 => store[s] # 0

(* A delete that SGW-C commits has removed the rules: the UP-SEID the store *)
(* holds is the one SGW-U uses, also when a replay has just changed it.     *)
DeleteRemovesRules ==
    \A s \in Sessions : store[s] # 0 /\ store'[s] = 0 => rules[s] = 0

(* No replay or create in progress installs a session that is gone: rules   *)
(* appear only for a session the store still holds or a create is adding,   *)
(* whatever crashes, expires or is lost meanwhile.                          *)
NoResurrection ==
    [][\A s \in Sessions : rules[s] = 0 /\ rules'[s] # 0 =>
          store[s] # 0 \/ (Creating /\ proc.s = s) \/ ~call["proc"].caller]_vars

(* The owner map and the rule store agree whenever no handler is running:   *)
(* Modification and Deletion require both.                                  *)
OwnersMatchRules ==
    (\A t \in Threads : ~Busy(t)) => owner = {rules[s] : s \in Sessions} \ {0}

(* Once crashes, restarts and outages stop, SGW-C serves, SGW-U accepts new *)
(* sessions, and every session of the durable store is forwarded under the  *)
(* UP-SEID the store holds.                                                 *)
Converged ==
    /\ main = "serving" /\ association /\ peer.state = "associated"
    /\ \A s \in Sessions : store[s] # 0 /\ proc.s # s => rules[s] = store[s]
Converges == <>[]Converged

(* A started SGW-C reaches the point where it serves S11 and S5-C, or is    *)
(* interrupted by another fault: it does not exit for ever.                 *)
StartupServes == <>[](~boot)
=============================================================================
