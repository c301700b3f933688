--------------------------- MODULE AccessBearers ----------------------------
(***************************************************************************)
(* The access side of SGW-C's bearers (internal/sgwc/gateway): Modify      *)
(* Bearer over several PDNs, Release Access Bearers, their roll-backs, the *)
(* Downlink Data Notification for a report of SGW-U, and the paging        *)
(* tracker, against removals of sessions by a peer-restart purge.          *)
(* A session's downlink at SGW-U is "drop" (not yet used), "buff" (buffer  *)
(* and report), or the eNodeB tunnel it forwards to; the stored bearer has *)
(* the tunnel or None.  Locks are striped: lockIndex maps sessions to      *)
(* stripes.                                                                *)
(***************************************************************************)
EXTENDS Naturals, FiniteSets, Functions

CONSTANTS
    Procs, Sessions, EBIs,
    subscriberOf,   \* session to its subscriber (and S11 context)
    bearersOf,      \* session to its EBIs
    lockIndex,      \* session to lock stripe, a natural number
    Tunnels,        \* eNodeB tunnels
    Ops,            \* the procedures explored
    MaxFailures,    \* failing calls
    None

VARIABLES
    stored,     \* session to its state and to the tunnel of each bearer
    poisoned,
    up,         \* session to the downlink state of each bearer at SGW-U
    waiting,    \* bearers with a packet in SGW-U's buffer
    reports,    \* Downlink Data Reports on their way to SGW-C
    paging,     \* bearers with a pending paging request
    subLock, lock,      \* holders of the subscriber locks and of the stripes
    proc, failures,
    ignored     \* ghost: bearers whose report was ignored while SGW-U buffered

vars == <<stored, poisoned, up, waiting, reports, paging, subLock, lock, proc,
          failures, ignored>>
plane == <<up, waiting, reports>>
store == <<stored, poisoned>>
locks == <<subLock, lock>>

Bearers == {<<s, e>> \in Sessions \X EBIs : e \in bearersOf[s]}
SubscriberIDs == Range(subscriberOf)
Stripes == Range(lockIndex)
Present == DOMAIN stored

Idle == [pc |-> "idle", op |-> "none", sub |-> None, enb |-> None, items |-> {},
         todo |-> {}, done |-> {}, held |-> {}, prior |-> <<>>, restored |-> TRUE]

Init ==
    /\ stored = [s \in Sessions |-> [st |-> "pending", br |-> [e \in bearersOf[s] |-> None]]]
    /\ poisoned = FALSE
    /\ up = [s \in Sessions |-> [e \in bearersOf[s] |-> "drop"]]
    /\ waiting = {} /\ reports = {} /\ paging = {}
    /\ subLock = [u \in SubscriberIDs |-> None] /\ lock = [i \in Stripes |-> None]
    /\ proc = [p \in Procs |-> Idle]
    /\ failures = 0 /\ ignored = {}

-----------------------------------------------------------------------------
At(p, pc) == proc[p].pc = pc
Goto(p, r) == proc' = [proc EXCEPT ![p] = r]
To(p, pc) == [proc[p] EXCEPT !.pc = pc]

FreeOf(f, p) == [x \in DOMAIN f |-> IF f[x] = p THEN None ELSE f[x]]
(* The deferred unlocks of a handler, and its answer. *)
Finish(p) == Goto(p, Idle) /\ subLock' = FreeOf(subLock, p) /\ lock' = FreeOf(lock, p)

Fail == failures < MaxFailures /\ failures' = failures + 1
Gone(s) == s \notin DOMAIN up

(* A bearer's downlink at SGW-U becomes f; what was buffered is sent when  *)
(* it forwards.                                                            *)
Downlink(s, e, f) ==
    /\ ~Gone(s) /\ up' = [up EXCEPT ![s][e] = f]
    /\ waiting' = IF f \in Tunnels THEN waiting \ {<<s, e>>} ELSE waiting
    /\ UNCHANGED reports

(* A modification that SGW-U accepts, or one that fails. *)
Modify(s, e, f, onSuccess, onFailure) ==
    \/ Downlink(s, e, f) /\ onSuccess /\ UNCHANGED failures
    \/ Fail /\ onFailure /\ UNCHANGED plane
    \/ Gone(s) /\ onFailure /\ UNCHANGED <<plane, failures>>

(* A commit of new[s] for the sessions s of new; a failure poisons.        *)
Commit(new, onSuccess, onFailure) ==
    \/ /\ ~poisoned /\ onSuccess /\ UNCHANGED <<poisoned, failures>>
       /\ stored' = [s \in Present |-> IF s \in DOMAIN new THEN new[s] ELSE stored[s]]
    \/ ~poisoned /\ Fail /\ poisoned' = TRUE /\ onFailure /\ UNCHANGED stored
    \/ poisoned /\ onFailure /\ UNCHANGED <<stored, poisoned, failures>>

-----------------------------------------------------------------------------
(* A message of the MME, a report, or a purge starts a goroutine.          *)
Receive(p) ==
    /\ At(p, "idle")
    /\ \/ \E u \in SubscriberIDs, n \in Tunnels : \E b \in SUBSET {c \in Bearers : subscriberOf[c[1]] = u} :
            /\ "modify" \in Ops /\ b # {} /\ u \in {subscriberOf[s] : s \in Present}
            /\ Goto(p, [Idle EXCEPT !.pc = "subscriber", !.op = "modify", !.sub = u,
                                    !.items = b, !.enb = n])
            /\ UNCHANGED plane
       \/ \E u \in {subscriberOf[s] : s \in Present} :
            /\ "release" \in Ops
            /\ Goto(p, [Idle EXCEPT !.pc = "subscriber", !.op = "release", !.sub = u])
            /\ UNCHANGED plane
       \/ \E b \in reports :
            /\ Goto(p, [Idle EXCEPT !.pc = "report", !.op = "report", !.items = {b}])
            /\ reports' = reports \ {b} /\ UNCHANGED <<up, waiting>>
       \/ \E s \in Present :
            /\ "remove" \in Ops
            /\ Goto(p, [Idle EXCEPT !.pc = "remove", !.op = "remove", !.items = {<<s, None>>}])
            /\ UNCHANGED plane
    /\ UNCHANGED <<store, paging, locks, failures, ignored>>

lockSubscriber(p) ==
    LET u == proc[p].sub
        mine == {s \in Present : subscriberOf[s] = u}
    IN  /\ At(p, "subscriber") /\ subLock[u] = None
        /\ IF proc[p].op = "modify"
           THEN IF \A b \in proc[p].items : b[1] \in Present
                THEN /\ Goto(p, [To(p, "lockMany") EXCEPT
                            !.todo = {lockIndex[b[1]] : b \in proc[p].items}])
                     /\ subLock' = [subLock EXCEPT ![u] = p]
                ELSE Goto(p, Idle) /\ UNCHANGED subLock
           ELSE IF mine # {}
                THEN /\ Goto(p, [To(p, "deactivate") EXCEPT !.todo = mine])
                     /\ subLock' = [subLock EXCEPT ![u] = p]
                ELSE Goto(p, Idle) /\ UNCHANGED subLock
        /\ UNCHANGED <<store, plane, paging, lock, failures, ignored>>

(* Mutant: the stripes are locked in any order. *)
lockManyUnsorted(p) ==
    /\ At(p, "lockMany")
    /\ \/ \E i \in proc[p].todo :
            /\ lock[i] = None
            /\ lock' = [lock EXCEPT ![i] = p] /\ Goto(p, [proc[p] EXCEPT !.todo = @ \ {i}])
       \/ proc[p].todo = {} /\ Goto(p, To(p, "resolve")) /\ UNCHANGED lock
    /\ UNCHANGED <<store, plane, paging, subLock, failures, ignored>>

(* lockMany: every stripe once, in increasing order. *)
lockMany(p) ==
    /\ At(p, "lockMany")
    /\ \/ \E i \in proc[p].todo :
            /\ \A j \in proc[p].todo : i <= j
            /\ lock[i] = None
            /\ lock' = [lock EXCEPT ![i] = p] /\ Goto(p, [proc[p] EXCEPT !.todo = @ \ {i}])
       \/ proc[p].todo = {} /\ Goto(p, To(p, "resolve")) /\ UNCHANGED lock
    /\ UNCHANGED <<store, plane, paging, subLock, failures, ignored>>

(* modifyBearer finds the sessions again under their locks. *)
modifyBearer(p) ==
    /\ At(p, "resolve")
    /\ IF \A b \in proc[p].items : b[1] \in Present
       THEN /\ Goto(p, [To(p, "activate") EXCEPT !.todo = proc[p].items,
                  !.prior = [s \in {b[1] : b \in proc[p].items} |-> stored[s]]])
            /\ UNCHANGED locks
       ELSE Finish(p)
    /\ UNCHANGED <<store, plane, paging, failures, ignored>>

(* Every bearer is switched at SGW-U, then every PDN's PGW is told, then   *)
(* every PDN is committed.                                                 *)
activate(p) ==
    /\ At(p, "activate")
    /\ \/ \E b \in proc[p].todo :
            Modify(b[1], b[2], proc[p].enb,
                   Goto(p, [proc[p] EXCEPT !.todo = @ \ {b}, !.done = @ \cup {b}]),
                   Goto(p, To(p, "rollback")))
       \/ /\ proc[p].todo = {} /\ UNCHANGED <<plane, failures>>
          /\ Goto(p, [To(p, "s5modify") EXCEPT !.todo = DOMAIN proc[p].prior])
    /\ UNCHANGED <<store, paging, locks, ignored>>

s5modify(p) ==
    /\ At(p, "s5modify")
    /\ \/ \E s \in proc[p].todo :
            \/ Goto(p, [proc[p] EXCEPT !.todo = @ \ {s}]) /\ UNCHANGED failures
            \/ Fail /\ Goto(p, To(p, "rollback"))
       \/ /\ proc[p].todo = {} /\ UNCHANGED failures
          /\ Goto(p, [To(p, "commit") EXCEPT !.todo = DOMAIN proc[p].prior])
    /\ UNCHANGED <<store, plane, paging, locks, ignored>>

Activated(p, s) ==
    [st |-> "active",
     br |-> [e \in bearersOf[s] |-> IF <<s, e>> \in proc[p].items THEN proc[p].enb
                                   ELSE stored[s].br[e]]]

commit(p) ==
    LET rest == DOMAIN proc[p].prior \ proc[p].todo
    IN  /\ At(p, "commit")
        /\ \/ \E s \in proc[p].todo :
                /\ Commit([t \in {s} |-> Activated(p, s)],
                          Goto(p, [proc[p] EXCEPT !.todo = @ \ {s}]),
                          Goto(p, [To(p, "rollbackState") EXCEPT !.todo = rest]))
                /\ UNCHANGED <<paging, locks>>
           \/ /\ proc[p].todo = {} /\ paging' = paging \ proc[p].items
              /\ Finish(p) /\ UNCHANGED <<store, failures>>
        /\ UNCHANGED <<plane, ignored>>

(* rollbackModifyBearerState writes the committed sessions back. *)
rollbackModifyBearerState(p) ==
    /\ At(p, "rollbackState")
    /\ \/ \E s \in proc[p].todo :
            LET next == Goto(p, [proc[p] EXCEPT !.todo = @ \ {s}])
            IN  Commit([t \in {s} |-> proc[p].prior[s]], next, next)
       \/ proc[p].todo = {} /\ Goto(p, To(p, "rollback")) /\ UNCHANGED <<store, failures>>
    /\ UNCHANGED <<plane, paging, locks, ignored>>

(* Mutant: every bearer goes back to buffering. *)
rollbackDeactivates(p) ==
    /\ At(p, "rollback")
    /\ \/ \E b \in proc[p].done :
            LET next == Goto(p, [proc[p] EXCEPT !.done = @ \ {b}])
            IN  Modify(b[1], b[2], "buff", next, next) /\ UNCHANGED locks
       \/ proc[p].done = {} /\ Finish(p) /\ UNCHANGED <<plane, failures>>
    /\ UNCHANGED <<store, paging, ignored>>

(* rollbackModifyBearerActivations: the tunnel the bearer had, or          *)
(* buffering, whatever SGW-U answers.                                      *)
rollbackModifyBearerActivations(p) ==
    /\ At(p, "rollback")
    /\ \/ \E b \in proc[p].done :
            LET old == proc[p].prior[b[1]].br[b[2]]
                next == Goto(p, [proc[p] EXCEPT !.done = @ \ {b}])
            IN  /\ Modify(b[1], b[2], IF old # None THEN old ELSE "buff", next, next)
                /\ UNCHANGED locks
       \/ proc[p].done = {} /\ Finish(p) /\ UNCHANGED <<plane, failures>>
    /\ UNCHANGED <<store, paging, ignored>>

-----------------------------------------------------------------------------
(* releaseAccessBearers: session by session, under its lock, every bearer  *)
(* is set to buffering; then session by session the idle state is          *)
(* committed.  held keeps the bearers of the locked session still to do,   *)
(* prior the sessions as they were.                                        *)
releaseAccessBearers(p) ==
    /\ At(p, "deactivate")
    /\ \/ \E s \in proc[p].todo :
            /\ lock[lockIndex[s]] = None
            /\ IF s \in Present
               THEN /\ lock' = [lock EXCEPT ![lockIndex[s]] = p]
                    /\ Goto(p, [To(p, "deactivateBearer") EXCEPT !.todo = @ \ {s}, !.done = {},
                           !.held = {<<s, e>> : e \in bearersOf[s]},
                           !.prior = [t \in DOMAIN @ \cup {s} |-> IF t = s THEN stored[s] ELSE @[t]]])
               ELSE Goto(p, [To(p, "reactivate") EXCEPT !.todo = DOMAIN proc[p].prior]) /\ UNCHANGED lock
       \/ /\ proc[p].todo = {} /\ UNCHANGED lock
          /\ Goto(p, [To(p, "idle-commit") EXCEPT !.todo = DOMAIN proc[p].prior])
    /\ UNCHANGED <<store, plane, paging, subLock, failures, ignored>>

deactivateBearer(p) ==
    /\ At(p, "deactivateBearer")
    /\ \/ /\ \E b \in proc[p].held :
              Modify(b[1], b[2], "buff",
                     Goto(p, [proc[p] EXCEPT !.held = @ \ {b}, !.done = @ \cup {b}]) /\ UNCHANGED lock,
                     /\ Goto(p, [To(p, "reactivate") EXCEPT !.held = {},
                            !.todo = IF proc[p].done = {} THEN DOMAIN proc[p].prior \ {b[1]}
                                     ELSE DOMAIN proc[p].prior])
                     /\ lock' = FreeOf(lock, p))
       \/ /\ proc[p].held = {} /\ Goto(p, To(p, "deactivate")) /\ lock' = FreeOf(lock, p)
          /\ UNCHANGED <<plane, failures>>
    /\ UNCHANGED <<store, paging, subLock, ignored>>

Released(s) == [st |-> "idle", br |-> [e \in bearersOf[s] |-> None]]

releaseCommit(p) ==
    /\ At(p, "idle-commit")
    /\ \/ \E s \in proc[p].todo :
            /\ lock[lockIndex[s]] = None /\ UNCHANGED locks
            /\ LET back == Goto(p, [To(p, "reactivate") EXCEPT !.todo = DOMAIN proc[p].prior])
               IN  IF s \in Present
                   THEN Commit([t \in {s} |-> Released(s)],
                               Goto(p, [proc[p] EXCEPT !.todo = @ \ {s}]), back)
                   ELSE back /\ UNCHANGED <<store, failures>>
       \/ proc[p].todo = {} /\ Finish(p) /\ UNCHANGED <<store, failures>>
    /\ UNCHANGED <<plane, paging, ignored>>

(* reactivateDownlinks: the tunnels a session had are set again without    *)
(* its lock; then, under it, the stored state is written back if it has    *)
(* changed.  A session that could not be set is left as it is.             *)
reactivateDownlinks(p) ==
    /\ At(p, "reactivate")
    /\ \/ \E s \in proc[p].todo :
            Goto(p, [To(p, "reactivateBearer") EXCEPT !.todo = @ \ {s}, !.restored = TRUE,
                 !.items = {<<s, None>>},
                 !.held = {<<s, e>> : e \in {x \in bearersOf[s] : proc[p].prior[s].br[x] # None}}])
            /\ UNCHANGED locks
       \/ proc[p].todo = {} /\ Finish(p)
    /\ UNCHANGED <<store, plane, paging, failures, ignored>>

reactivateBearer(p) ==
    /\ At(p, "reactivateBearer")
    /\ \/ \E b \in proc[p].held :
            Modify(b[1], b[2], proc[p].prior[b[1]].br[b[2]],
                   Goto(p, [proc[p] EXCEPT !.held = @ \ {b}]),
                   Goto(p, [proc[p] EXCEPT !.held = @ \ {b}, !.restored = FALSE]))
       \/ /\ proc[p].held = {} /\ UNCHANGED <<plane, failures>>
          /\ Goto(p, To(p, IF proc[p].restored THEN "restore" ELSE "reactivate"))
    /\ UNCHANGED <<store, paging, locks, ignored>>

restore(p) ==
    \E b \in proc[p].items :
        LET s == b[1]  next == Goto(p, To(p, "reactivate"))
        IN  /\ At(p, "restore") /\ lock[lockIndex[s]] = None
            /\ IF s \in Present /\ stored[s].st # proc[p].prior[s].st
               THEN Commit([t \in {s} |-> proc[p].prior[s]], next, next)
               ELSE next /\ UNCHANGED <<store, failures>>
            /\ UNCHANGED <<plane, paging, locks, ignored>>

-----------------------------------------------------------------------------
(* A packet for an idle UE is buffered and SGW-U reports it. *)
DownlinkPacket(b) ==
    /\ "report" \in Ops
    /\ ~Gone(b[1]) /\ up[b[1]][b[2]] = "buff" /\ b \notin waiting
    /\ waiting' = waiting \cup {b} /\ reports' = reports \cup {b}
    /\ UNCHANGED <<store, up, paging, locks, proc, failures, ignored>>

(* HandleDownlinkReport takes the session's lock and ignores the report    *)
(* unless session and bearer are idle; otherwise it starts the paging      *)
(* clock and sends the notification with the lock held.                    *)
HandleDownlinkReport(p) ==
    \E b \in proc[p].items :
        LET s == b[1]  i == lockIndex[s]
        IN  /\ At(p, "report") /\ lock[i] = None
            /\ IF s \in Present /\ stored[s].st = "idle" /\ stored[s].br[b[2]] = None
               THEN /\ Goto(p, [To(p, "ddn") EXCEPT !.restored = (b \notin paging)])
                    /\ lock' = [lock EXCEPT ![i] = p]
                    /\ paging' = paging \cup {b} /\ UNCHANGED ignored
               ELSE /\ Goto(p, Idle) /\ UNCHANGED <<lock, paging>>
                    /\ ignored' = IF s \in Present /\ up[s][b[2]] = "buff"
                                  THEN ignored \cup {b} ELSE ignored
            /\ UNCHANGED <<store, plane, subLock, failures>>

(* The MME accepts, or the page is no longer tracked if this report began  *)
(* it.                                                                     *)
ddn(p) ==
    /\ At(p, "ddn")
    /\ \/ UNCHANGED <<paging, failures>>
       \/ Fail /\ paging' = IF proc[p].restored THEN paging \ proc[p].items ELSE paging
    /\ Finish(p) /\ UNCHANGED <<store, plane, ignored>>

(* A purge or a delete by the PGW removes a session, under its lock, from  *)
(* SGW-U and the store, with its pages (see SgwcGateway for the failures). *)
remove(p) ==
    \E b \in proc[p].items :
        LET s == b[1]  i == lockIndex[s]
        IN  /\ At(p, "remove") /\ lock[i] = None
            /\ stored' = Restrict(stored, Present \ {s})
            /\ up' = Restrict(up, DOMAIN up \ {s})
            /\ waiting' = {w \in waiting : w[1] # s}
            /\ paging' = {w \in paging : w[1] # s}
            /\ Goto(p, Idle)
            /\ UNCHANGED <<poisoned, reports, locks, failures, ignored>>

Step(p) ==
    \/ lockSubscriber(p) \/ lockMany(p) \/ modifyBearer(p) \/ activate(p) \/ s5modify(p)
    \/ commit(p) \/ rollbackModifyBearerState(p) \/ rollbackModifyBearerActivations(p)
    \/ releaseAccessBearers(p) \/ deactivateBearer(p) \/ releaseCommit(p)
    \/ reactivateDownlinks(p) \/ reactivateBearer(p) \/ restore(p)
    \/ HandleDownlinkReport(p) \/ ddn(p) \/ remove(p)

(* An Echo Request changes nothing here and is answered at any time. *)
echoResponse == UNCHANGED vars

Next ==
    \/ echoResponse
    \/ \E p \in Procs : Receive(p) \/ Step(p)
    \/ \E b \in Bearers : DownlinkPacket(b)

Spec == Init /\ [][Next]_vars
FairSpec == Spec /\ \A p \in Procs : SF_vars(Step(p))

-----------------------------------------------------------------------------
Quiet == \A p \in Procs : proc[p].pc = "idle"

(* The fields have their types, and SGW-U has exactly the stored sessions. *)
TypeOK ==
    /\ DOMAIN stored \subseteq Sessions /\ DOMAIN up = DOMAIN stored
    /\ \A s \in Present :
        /\ stored[s].st \in {"pending", "idle", "active"}
        /\ stored[s].br \in [bearersOf[s] -> Tunnels \cup {None}]
        /\ up[s] \in [bearersOf[s] -> Tunnels \cup {"drop", "buff"}]
    /\ waiting \subseteq Bearers /\ reports \subseteq Bearers
    /\ failures \in 0..MaxFailures

(* Once the handlers have returned, SGW-U forwards a bearer to the tunnel  *)
(* the store has for it, and buffers or drops if it has none: if one call  *)
(* failed, or sessions were purged meanwhile, the roll-backs of Modify     *)
(* Bearer and Release Access Bearers restore every PDN.                    *)
PlanesMatch ==
    (Quiet /\ ~poisoned /\ (failures = 0 \/ (failures = 1 /\ Present = Sessions))) =>
        \A s \in Present, e \in EBIs : e \in bearersOf[s] =>
            up[s][e] = stored[s].br[e] \/ (stored[s].br[e] = None /\ up[s][e] \in {"drop", "buff"})

(* An idle session has no bearer with an eNodeB tunnel in the store, so a  *)
(* page is never suppressed by a bearer that looks connected.              *)
IdleHasNoTunnel ==
    \A s \in Present : stored[s].st \in {"idle", "pending"} =>
        \A e \in bearersOf[s] : stored[s].br[e] = None

(* Pages are pending only for stored sessions: a session that is removed   *)
(* takes its pages with it, also while a report for it is handled.         *)
PagesHaveSessions == \A b \in paging : b[1] \in Present

(* A report is ignored only if SGW-U no longer buffers for the bearer.     *)
IgnoredReportsAreStale == ignored = {}

(* Modify Bearer over several PDNs is atomic: when a handler returns, the  *)
(* PDNs it named have all its tunnel in the store, or it changed none.     *)
ModifyAtomic ==
    [][\A p \in Procs :
        (proc[p].op = "modify" /\ proc[p].pc = "rollback" /\ proc'[p].pc = "idle") =>
            \A s \in DOMAIN proc[p].prior \cap Present : stored[s] = proc[p].prior[s]]_vars

(* Every handler returns: neither the striped locks nor the locks held     *)
(* while the MME or a PGW is asked make one wait for ever.                 *)
HandlersReturn == \A p \in Procs : (proc[p].pc # "idle") ~> (proc[p].pc = "idle")
=============================================================================
