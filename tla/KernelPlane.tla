---------------------------- MODULE KernelPlane ----------------------------
(***************************************************************************)
(* The kernel data plane of PGW-U: a session's change is a transaction of  *)
(* calls into three kernel tables: the nftables classifier that routes a   *)
(* dedicated bearer's packets to its own GTP device, the eBPF policy maps  *)
(* that check the choice on every device, and the PDP contexts.  Any call  *)
(* may fail; packets run between any two calls.                            *)
(*                                                                         *)
(* One UE.  Apply and ReconcileSessions are computed as the code runs      *)
(* them, with the set of calls that fail as an input: the result holds the *)
(* tables after each call, which the actions then step through.            *)
(***************************************************************************)
EXTENDS Integers, Sequences

CONSTANTS
    Flows,             \* what a packet filter tells apart (positive numbers)
    Bearers,           \* dedicated bearers: filters in order, local TEID, remote
    Remotes,           \* remote tunnels of the default bearer (positive numbers)
    MaxRevision, MaxCalls,
    HasPolicy,         \* a QCI 1 address is configured
    PacketsPreempted,  \* a map update may fall into the handling of a packet
    DeletesFail,       \* removing a session from the policy maps may fail
    CountsUsage        \* packets are counted

Links == {"default", "qci1"}
NoBearer == [tft |-> <<>>, teid |-> 0, remote |-> 0]
NoSession == [rev |-> 0, remote |-> 0, open |-> FALSE, bearer |-> NoBearer]
NoContext == [teid |-> 0, remote |-> 0]
NoRoute == [rev |-> 0, tft |-> <<>>]
MaxFilters == 2
Exists(session) == session.rev # 0
Dedicated(session) == session.bearer # NoBearer

(* Kernel tables and what the process remembers of them. *)
EmptyPlane ==
    [route |-> NoRoute,                      \* nft chain of the UE
     policy |-> NoSession, active |-> 0,     \* eBPF: policies, active_revisions
     filters |-> [i \in 1..MaxFilters |-> 0], \* tft_filters
     rates |-> [l \in Links |-> 0],          \* rate_states: their revision
     usage |-> [l \in Links |-> "none"],     \* usage_counters
     contexts |-> [l \in Links |-> NoContext], \* PDP contexts of the two devices
     installed |-> NoSession]                \* kernelPolicy.installed

VARIABLES
    plane,      \* the tables
    committed,  \* the session of the store
    tx,         \* the transaction under way
    poisoned,   \* the store's WAL has failed
    held        \* a packet between the check of its revision and its classification

vars == <<plane, committed, tx, poisoned, held>>
NoTx == [op |-> "none", prev |-> NoSession, next |-> NoSession, trace |-> <<>>, ok |-> TRUE]
NoPacket == [flow |-> 0, link |-> "default", policy |-> NoSession]

-----------------------------------------------------------------------------
(* A computation: tables, number of calls, calls that fail, last result *)

Begin(p, fail) == [p |-> p, n |-> 0, fail |-> fail, ok |-> TRUE, trace |-> <<>>]
Note(s, p) == [s EXCEPT !.p = p, !.trace = Append(@, p)]
Call(s, p) ==
    IF s.n + 1 \in s.fail THEN [s EXCEPT !.n = @ + 1, !.ok = FALSE]
    ELSE [Note(s, p) EXCEPT !.n = @ + 1, !.ok = TRUE]
Then(s, Step(_)) == IF s.ok THEN Step(s) ELSE s
(* Go on whatever happened; errors are joined. *)
Also(s, Step(_)) == LET r == Step([s EXCEPT !.ok = TRUE]) IN [r EXCEPT !.ok = r.ok /\ s.ok]
Failed(s) == [s EXCEPT !.ok = FALSE]

(* kernelTFTClassifier.Apply: one nftables transaction. *)
ApplyRouting(s, next) ==
    LET old == s.p.route
        built == IF Dedicated(next) THEN [rev |-> next.rev, tft |-> next.bearer.tft] ELSE NoRoute
    IN IF old.rev = built.rev THEN [s EXCEPT !.ok = TRUE]
       ELSE Call(s, [s.p EXCEPT !.route = built])

LinksOf(session) ==
    IF ~Exists(session) THEN {} ELSE IF Dedicated(session) THEN Links ELSE {"default"}

deactivateLocked(s) == Call(s, [s.p EXCEPT !.active = 0])
activateLocked(s, rev) == Call(s, [s.p EXCEPT !.active = rev])

Listed(links) == SelectSeq(<<"default", "qci1">>, LAMBDA l : l \in links)

(* Writes to the eBPF maps, done in order until one fails, or all of them. *)
Update(table, key, value) == [table |-> table, key |-> key, value |-> value]
Written(p, u) ==
    IF u.table = "policy" THEN [p EXCEPT !.policy = u.value]
    ELSE [p EXCEPT ![u.table][u.key] = u.value]
WriteUntil(s, updates) ==
    LET done[i \in 0..Len(updates)] ==
            IF i = 0 THEN s
            ELSE IF ~done[i - 1].ok THEN done[i - 1]
            ELSE Call(done[i - 1], Written(done[i - 1].p, updates[i]))
    IN done[Len(updates)]
WriteAll(s, updates) ==
    LET done[i \in 0..Len(updates)] ==
            IF i = 0 THEN s
            ELSE [Call(done[i - 1], Written(done[i - 1].p, updates[i])) EXCEPT !.ok = @ /\ done[i - 1].ok]
    IN done[Len(updates)]

(* Policy, then filters, rate states and usage counters one by one.         *)
Installs(p, entry, links) ==
    <<Update("policy", 0, entry)>>
    \o [i \in DOMAIN entry.bearer.tft |-> Update("filters", i, entry.bearer.tft[i])]
    \o [i \in DOMAIN links |-> Update("rates", links[i], entry.rev)]
    \o [i \in DOMAIN links |-> Update("usage", links[i],
            IF p.usage[links[i]] = "none" THEN "zero" ELSE p.usage[links[i]])]
installMapsLocked(s, entry) == WriteUntil(s, Installs(s.p, entry, Listed(LinksOf(entry))))

(* Everything of one entry that the other does not have.                    *)
Removes(remove, retain, links) ==
    (IF Exists(remove) /\ ~Exists(retain) THEN <<Update("policy", 0, NoSession)>> ELSE <<>>)
    \o SelectSeq([i \in DOMAIN remove.bearer.tft |-> Update("filters", i, 0)],
                 LAMBDA u : u.key > Len(retain.bearer.tft))
    \o [i \in DOMAIN links |-> Update("rates", links[i], 0)]
    \o [i \in DOMAIN links |-> Update("usage", links[i], "none")]
removeMapsLocked(s, remove, retain) ==
    WriteAll(s, Removes(remove, retain, Listed(LinksOf(remove) \ LinksOf(retain))))

installAndActivate(s, entry) ==
    Then(installMapsLocked(s, entry), LAMBDA t : activateLocked(t, entry.rev))
installLocked(s, entry) == Then(deactivateLocked(s), LAMBDA t : installAndActivate(t, entry))

(* Out with what was installed of the new entry, in with the previous one. *)
Restored(s, previous) == Failed(IF Exists(previous) THEN installLocked(s, previous) ELSE s)
Reinstall(s, previous, next) == Restored(removeMapsLocked(s, next, NoSession), previous)
AfterCleanup(s, previous, next) ==
    IF s.ok THEN Note(s, [s.p EXCEPT !.installed = next])
    ELSE Reinstall(deactivateLocked(s), previous, next)
AfterInstall(s, previous, next) ==
    IF ~s.ok THEN Reinstall(s, previous, next)
    ELSE AfterCleanup(IF Exists(previous) THEN removeMapsLocked(s, previous, next) ELSE s, previous, next)
replaceLocked(s, next) ==
    IF s.p.installed.rev = next.rev THEN [s EXCEPT !.ok = TRUE]
    ELSE Then(deactivateLocked(s),
              LAMBDA t : AfterInstall(installAndActivate(t, next), s.p.installed, next))

deleteLocked(s) ==
    LET entry == s.p.installed
        gone == IF Exists(entry)
                THEN Also(deactivateLocked(s), LAMBDA t : removeMapsLocked(t, entry, NoSession))
                ELSE deactivateLocked(s)
    IN Then(gone, LAMBDA t : Note(t, [t.p EXCEPT !.installed = NoSession]))

(* kernelPolicy.Apply *)
ApplyPolicy(s, previous, next) ==
    IF Exists(next) THEN replaceLocked(s, next)
    ELSE IF Exists(previous) THEN deleteLocked(s) ELSE s

-----------------------------------------------------------------------------
(* PDP contexts: kernelgtp.Controller *)

addContext(s, l, c) == Call(s, [s.p EXCEPT !.contexts[l] = c])
deleteContext(s, l) == Call(s, [s.p EXCEPT !.contexts[l] = NoContext])
(* No update in place: delete, add, and the old one again if that fails.    *)
replaceContext(s, l, c) ==
    LET old == s.p.contexts[l]
        new == Then(deleteContext(s, l), LAMBDA t : addContext(t, l, c))
    IN IF new.ok \/ new.p.contexts[l] = old THEN new ELSE Failed(addContext(new, l, old))

(* UE address and incoming TEID are identities: another TEID is refused.    *)
EnsureContext(s, l, c) ==
    LET old == s.p.contexts[l]
    IN CASE old = NoContext -> addContext(s, l, c)
         [] old = c -> [s EXCEPT !.ok = TRUE]
         [] old # NoContext /\ old.teid # c.teid -> Failed(s)
         [] OTHER -> replaceContext(s, l, c)
DeleteContext(s, l, c) ==
    IF s.p.contexts[l].teid = c.teid THEN deleteContext(s, l) ELSE [s EXCEPT !.ok = TRUE]

(* Controller.Reconcile for one link: what is wanted before what is stale.  *)
ReconcileLink(s, l, c) ==
    IF c = NoContext
    THEN IF s.p.contexts[l] = NoContext THEN [s EXCEPT !.ok = TRUE] ELSE deleteContext(s, l)
    ELSE EnsureContext(s, l, c)

DefaultTEID == 1
context(session, l) ==
    CASE l = "default" /\ Exists(session) -> [teid |-> DefaultTEID, remote |-> session.remote]
      [] l = "qci1" /\ Dedicated(session) -> [teid |-> session.bearer.teid, remote |-> session.bearer.remote]
      [] OTHER -> NoContext

Transition(s, l, before, after) ==
    CASE before = after /\ after = NoContext -> s
      [] after = NoContext -> DeleteContext(s, l, before)
      [] before = NoContext \/ before.teid = after.teid -> EnsureContext(s, l, after)
      [] OTHER -> Then(DeleteContext(s, l, before), LAMBDA t : EnsureContext(t, l, after))
(* What the undo list holds if the transition stops after its first half.   *)
Half(s, l, before, after) ==
    /\ before # NoContext /\ after # NoContext /\ before.teid # after.teid
    /\ DeleteContext(s, l, before).ok

(* Default device, then the QCI 1 device; undone in reverse if one fails.   *)
UndoDefault(s, before, after) ==
    Failed(IF before = NoContext THEN DeleteContext(s, "default", after)
           ELSE EnsureContext(s, "default", before))
UndoContexts(s, first, previous, next) ==
    UndoDefault(IF Half(first, "qci1", context(previous, "qci1"), context(next, "qci1"))
                THEN EnsureContext(s, "qci1", context(previous, "qci1")) ELSE s,
                context(previous, "default"), context(next, "default"))
AfterSecond(s, first, previous, next) == IF s.ok THEN s ELSE UndoContexts(s, first, previous, next)
Transit(s, l, previous, next) == Transition(s, l, context(previous, l), context(next, l))
applyPolicyContexts(s, previous, next) ==
    Then(Transit(s, "default", previous, next),
         LAMBDA t : AfterSecond(Transit(t, "qci1", previous, next), t, previous, next))

-----------------------------------------------------------------------------
(* KernelForwarder *)

sameDedicatedRouting(previous, next) ==
    IF Dedicated(previous) /\ Dedicated(next) THEN previous.bearer.tft = next.bearer.tft
    ELSE ~Dedicated(previous) /\ ~Dedicated(next) /\ Exists(previous) = Exists(next)
sessionForwarding(session) == Exists(session) /\ session.open

(* Without a QCI 1 device: one context, present while the gate is open.     *)
ApplyGate(s, previous, next) ==
    CASE sessionForwarding(next) -> EnsureContext(s, "default", context(next, "default"))
      [] sessionForwarding(previous) /\ ~sessionForwarding(next) ->
           DeleteContext(s, "default", context(previous, "default"))
      [] OTHER -> s

Reroutes(bearer, previous, next) == Dedicated(bearer) /\ ~sameDedicatedRouting(previous, next)
restoreRouting(s, previous, next) ==
    IF Reroutes(previous, previous, next) THEN ApplyRouting(s, previous) ELSE s
(* What follows each of the three changes: the next one, or the roll-back. *)
AfterRouting(s, previous, next) ==
    IF s.ok THEN s
    ELSE Failed(Then(Also(applyPolicyContexts(s, next, previous), LAMBDA t : ApplyPolicy(t, next, previous)),
                     LAMBDA t : restoreRouting(t, previous, next)))
AfterContexts(s, previous, next) ==
    IF ~s.ok
    THEN Failed(Then(ApplyPolicy(s, next, previous), LAMBDA t : restoreRouting(t, previous, next)))
    ELSE AfterRouting(IF Reroutes(next, previous, next) THEN ApplyRouting(s, next) ELSE s, previous, next)
(* Mutant: the route is not restored when the policy maps fail. *)
AfterPolicyLeavingRoutes(s, previous, next) ==
    IF ~s.ok THEN s ELSE AfterContexts(applyPolicyContexts(s, previous, next), previous, next)
AfterPolicy(s, previous, next) ==
    IF ~s.ok THEN Failed(restoreRouting(s, previous, next))
    ELSE AfterContexts(applyPolicyContexts(s, previous, next), previous, next)
(* Route away, policy, contexts, new route; each undone if a later one fails. *)
Apply(s, previous, next) ==
    IF ~HasPolicy THEN ApplyGate(s, previous, next)
    ELSE Then(IF Reroutes(previous, previous, next) THEN ApplyRouting(s, NoSession) ELSE s,
              LAMBDA t : AfterPolicy(ApplyPolicy(t, previous, next), previous, next))

(* A new table, then one transaction for all sessions; a new table again if *)
(* that fails.                                                              *)
resetLocked(s) ==
    Then(Call(s, [s.p EXCEPT !.route = NoRoute]), LAMBDA t : Call(t, t.p))
ReconcileRouting(s, session) ==
    LET reset == resetLocked(s)
        filled == IF Dedicated(session) THEN Then(reset, LAMBDA t : ApplyRouting(t, session)) ELSE reset
    IN IF reset.ok /\ ~filled.ok THEN Failed(resetLocked(filled)) ELSE filled
ReconcilePolicy(s, session) ==
    LET cleared == IF Exists(s.p.installed) THEN deleteLocked(s) ELSE [s EXCEPT !.ok = TRUE]
    IN IF ~Exists(session) THEN cleared
       ELSE Then(Then(cleared, LAMBDA t : installLocked(t, session)),
                 LAMBDA t : Note(t, [t.p EXCEPT !.installed = session]))

wanted(session, l) ==
    IF HasPolicy \/ sessionForwarding(session) THEN context(session, l) ELSE NoContext
WithoutPolicy(s) == Failed(ReconcilePolicy(s, NoSession))
AfterRoutes(s) ==
    LET emptied == ReconcileLink(ReconcileLink(s, "qci1", NoContext), "default", NoContext)
    IN IF s.ok THEN s ELSE Failed(ReconcileRouting(WithoutPolicy(emptied), NoSession))
AfterQCI1(s, session) ==
    IF s.ok THEN AfterRoutes(ReconcileRouting(s, session))
    ELSE WithoutPolicy(ReconcileLink(s, "default", NoContext))
AfterDefault(s, session) ==
    IF s.ok THEN AfterQCI1(ReconcileLink(s, "qci1", wanted(session, "qci1")), session)
    ELSE WithoutPolicy(s)
(* Routes away, policy, contexts of both devices, routes; emptied again in *)
(* reverse order if one of them fails.                                     *)
ReconcileSessions(s, session) ==
    LET policy == Then(ReconcileRouting(s, NoSession), LAMBDA t : ReconcilePolicy(t, session))
        Default(t) == ReconcileLink(t, "default", wanted(session, "default"))
    IN IF ~HasPolicy THEN Default(s)
       ELSE Then(policy, LAMBDA t : AfterDefault(Default(t), session))

-----------------------------------------------------------------------------
(* Packets: process_packet of the eBPF program, on either device and in     *)
(* either direction; the policy is the one looked up at the beginning.      *)

Checked(p) == Exists(p.policy) /\ p.active = p.policy.rev
classify(p, policy, flow) ==
    LET at == {i \in 1..Len(policy.bearer.tft) : p.filters[i] \in {0, flow}}
    IN IF at = {} THEN "unmatched"
       ELSE IF p.filters[CHOOSE i \in at : \A j \in at : i <= j] = flow THEN "matched" ELSE "missing"
process_packet(p, policy, flow, l) ==
    /\ classify(p, policy, flow) = IF l = "qci1" THEN "matched" ELSE "unmatched"
    /\ l = "default" => policy.open
    /\ p.rates[l] = policy.rev
    /\ p.contexts[l] # NoContext

Forwards(p, flow, l) ==
    IF HasPolicy THEN Checked(p) /\ process_packet(p, p.policy, flow, l)
    ELSE l = "default" /\ p.contexts[l] # NoContext

-----------------------------------------------------------------------------
Init ==
    /\ plane = EmptyPlane /\ committed = NoSession /\ tx = NoTx
    /\ poisoned = FALSE /\ held = NoPacket

(* At most one call of a transaction fails. *)
Outcomes(Run(_)) ==
    {Run({})} \cup {r \in {Run({i}) : i \in 1..MaxCalls} : r.n >= CHOOSE i \in r.fail : TRUE}
Runs(op, prev, next, r) == tx' = [op |-> op, prev |-> prev, next |-> next, trace |-> r.trace, ok |-> r.ok]

Sessions(rev) ==
    [rev : {rev}, remote : Remotes, open : BOOLEAN,
     bearer : IF HasPolicy THEN Bearers \cup {NoBearer} ELSE {NoBearer}]
(* deleteLocked failed and left the policy out of force. *)
LostPolicy(r, previous) ==
    HasPolicy /\ ~r.ok /\ r.p.installed = previous /\ (r.p.policy # previous \/ r.p.active # previous.rev)

(* Store.commit calls Apply for a create, update, reconciliation or delete. *)
Change ==
    /\ tx = NoTx /\ ~poisoned /\ held = NoPacket
    /\ \E next \in {NoSession} \cup (IF committed.rev < MaxRevision THEN Sessions(committed.rev + 1) ELSE {}) :
          /\ next # committed
          /\ \E r \in Outcomes(LAMBDA fail : Apply(Begin(plane, fail), committed, next)) :
                /\ ~DeletesFail /\ ~Exists(next) => ~LostPolicy(r, committed)
                /\ Runs("change", committed, next, r)
    /\ UNCHANGED <<plane, committed, poisoned, held>>

KernelCall ==
    /\ tx.trace # <<>>
    /\ plane' = Head(tx.trace)
    /\ tx' = [tx EXCEPT !.trace = Tail(@)]
    /\ UNCHANGED <<committed, poisoned, held>>

Ended(op) == tx.op = op /\ tx.trace = <<>> /\ held = NoPacket

Commit ==
    /\ Ended("change") /\ tx.ok
    /\ committed' = tx.next /\ tx' = NoTx
    /\ UNCHANGED <<plane, poisoned, held>>
Refuse ==
    /\ (Ended("change") /\ ~tx.ok) \/ Ended("rollback")
    /\ tx' = NoTx
    /\ UNCHANGED <<plane, committed, poisoned, held>>
(* The WAL fails after Apply: Apply goes back, and the store is poisoned.   *)
PersistFails ==
    /\ Ended("change") /\ tx.ok
    /\ poisoned' = TRUE
    /\ Runs("rollback", tx.next, tx.prev, Apply(Begin(plane, {}), tx.next, tx.prev))
    /\ UNCHANGED <<plane, committed, held>>

(* The process dies: maps, programs and sockets go with it, the nftables    *)
(* table stays.                                                             *)
Crash ==
    /\ tx.op # "down"
    /\ plane' = [EmptyPlane EXCEPT !.route = plane.route]
    /\ committed' \in {committed} \cup (IF Ended("change") /\ tx.ok THEN {tx.next} ELSE {})
    /\ tx' = [NoTx EXCEPT !.op = "down"]
    /\ poisoned' = FALSE /\ held' = NoPacket

(* OpenKernel removes leftovers; then the sessions of the WAL.              *)
Start ==
    /\ tx.op = "down"
    /\ plane' = EmptyPlane
    /\ \E r \in Outcomes(LAMBDA fail : ReconcileSessions(Begin(EmptyPlane, fail), committed)) :
          Runs("restore", committed, committed, r)
    /\ UNCHANGED <<committed, poisoned, held>>
Started ==
    /\ Ended("restore")
    /\ tx' = IF tx.ok THEN NoTx ELSE [NoTx EXCEPT !.op = "down"]
    /\ plane' = IF tx.ok THEN plane ELSE EmptyPlane
    /\ UNCHANGED <<committed, poisoned, held>>

(* A packet is counted. *)
record_usage(flow, l) ==
    /\ CountsUsage /\ HasPolicy /\ tx.op # "down" /\ Forwards(plane, flow, l) /\ plane.usage[l] = "zero"
    /\ plane' = [plane EXCEPT !.usage[l] = "some"]
    /\ tx' = [tx EXCEPT !.trace = [i \in DOMAIN tx.trace |->
                  IF \A j \in 1..i : tx.trace[j].usage[l] = "zero"
                  THEN [tx.trace[i] EXCEPT !.usage[l] = "some"] ELSE tx.trace[i]]]
    /\ UNCHANGED <<committed, poisoned, held>>

(* A packet has found its policy in force and is not yet classified.        *)
PacketChecked(flow, l) ==
    /\ PacketsPreempted /\ held = NoPacket /\ tx.op = "change" /\ Checked(plane)
    /\ held' = [flow |-> flow, link |-> l, policy |-> plane.policy]
    /\ UNCHANGED <<plane, committed, tx, poisoned>>
PacketDone ==
    /\ held # NoPacket /\ held' = NoPacket
    /\ UNCHANGED <<plane, committed, tx, poisoned>>

Next ==
    \/ Change \/ KernelCall \/ Commit \/ Refuse \/ PersistFails
    \/ Crash \/ Start \/ Started \/ PacketDone
    \/ \E flow \in Flows, l \in Links : record_usage(flow, l) \/ PacketChecked(flow, l)

Spec == Init /\ [][Next]_vars

-----------------------------------------------------------------------------
(* Tables hold entries of this UE's sessions, and what the process believes *)
(* to be in the policy maps is a session.                                   *)
TypeOK ==
    /\ {plane.policy, plane.installed, committed} \subseteq
          {NoSession} \cup UNION {Sessions(r) : r \in 1..MaxRevision}
    /\ plane.active \in 0..MaxRevision /\ plane.rates \in [Links -> 0..MaxRevision]
    /\ plane.filters \in [1..MaxFilters -> Flows \cup {0}]
    /\ plane.usage \in [Links -> {"none", "zero", "some"}]
    /\ tx.op \in {"none", "change", "rollback", "restore", "down"}

BearerOf(session, flow) ==
    IF \E i \in DOMAIN session.bearer.tft : session.bearer.tft[i] = flow THEN "qci1" ELSE "default"
Concerned == {session \in {committed, tx.prev, tx.next} : Exists(session)}
Chooses(flow, l) ==
    \E session \in Concerned : BearerOf(session, flow) = l /\ (l = "default" => session.open)

(* Between any two calls of a transaction, a roll-back or a restart, no     *)
(* packet passes on a bearer, through a gate or to a remote tunnel that     *)
(* neither the session before nor the session after the change prescribes.  *)
NoLeak ==
    /\ \A flow \in Flows, l \in Links : Forwards(plane, flow, l) =>
          Chooses(flow, l) /\ \E session \in Concerned : plane.contexts[l].remote = context(session, l).remote
    /\ held # NoPacket /\ process_packet(plane, held.policy, held.flow, held.link)
          => Chooses(held.flow, held.link)

Selected(p, flow) ==
    IF \E i \in DOMAIN p.route.tft : p.route.tft[i] = flow THEN "qci1" ELSE "default"

(* Outside a transaction, whether the last one succeeded, failed at any     *)
(* call or was taken back because of the WAL, and after a restart, the      *)
(* plane serves exactly the committed session: each flow on its bearer, in  *)
(* both directions, to its remote.                                          *)
PlaneMatchesStore ==
    tx = NoTx =>
      \A flow \in Flows, l \in Links :
        /\ Forwards(plane, flow, l) <=>
              Exists(committed) /\ BearerOf(committed, flow) = l /\ (l = "default" => committed.open)
        /\ Forwards(plane, flow, l) =>
              plane.contexts[l] = context(committed, l) /\ (HasPolicy => Selected(plane, flow) = l)

(* A start that cannot restore its sessions forwards nothing while the      *)
(* process winds up: it fails closed.                                       *)
FailedStartForwardsNothing ==
    tx.op = "restore" /\ ~tx.ok /\ tx.trace = <<>> =>
      \A flow \in Flows, l \in Links : ~Forwards(plane, flow, l)

(* Volume counted for a bearer is kept while the bearer is in the session   *)
(* before and after a change: URR volume is cumulative across revisions.    *)
UsageCumulative ==
    \A l \in Links : plane.usage[l] = "some" /\ plane'.usage[l] # "some" =>
        tx'.op = "down" \/ l \notin LinksOf(tx.prev) \cap LinksOf(tx.next)
=============================================================================
