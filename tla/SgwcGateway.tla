---------------------------- MODULE SgwcGateway -----------------------------
(***************************************************************************)
(* SGW-C's session procedures (internal/sgwc/gateway): Create Session with *)
(* collision replacement and additional PDNs, Delete Session, the PGW's    *)
(* Delete Bearer for a default bearer, and the purges that a changed       *)
(* Recovery counter of an MME or of a PGW starts.                          *)
(* Each message has a goroutine p; a step ends where the code calls a peer *)
(* or the store, or waits for a lock.  The S5, S1-U and S5-U TEIDs and the *)
(* CP-SEID of a session are allocated and released together: one           *)
(* identifier cp.  The S11 TEID s11 is shared by the subscriber's PDNs.    *)
(* PGW-C (as PgwcGateway has it) and SGW-U are external: a call may be     *)
(* applied, refused, or applied with its answer lost.                      *)
(***************************************************************************)
EXTENDS Naturals, FiniteSets, Functions

CONSTANTS
    Procs, Subscribers, APNs, EBIs,
    S11s, Idents,
    MaxID,          \* sessions ever created
    MaxCounter,     \* incarnations of a peer
    MaxRestarts,    \* SGW-C restarts
    SharedPGW,      \* one PGW for every APN, or one for each
    PGWRestarts,    \* whether PGWs restart
    Dedicated,      \* whether the PGW adds dedicated bearers
    LostReplies,    \* whether answers may be lost
    MME, None

VARIABLES
    sessions,   \* the durable store: session ID to session
    nextID, poisoned,
    held,       \* TEIDs and SEIDs in use
    up,         \* SGW-U's sessions: cp to its dedicated bearers
    pgw,        \* PGW-C's contexts: cp to subscriber, APN, EBI, dedicated bearers
    seen,       \* the SGW-C incarnation that PGW-C knows
    recovery,   \* peer to the last accepted counter
    counter,    \* peer to the counter of its present incarnation
    mu,         \* holders of recoveryMu, subscriberLocks and locks
    proc,       \* per goroutine: program counter, request and locals
    restarts,
    failures, lost, refused   \* ghosts: failed calls (up to 2), whether a reply was
                              \* lost, who refused a create after a replacement

vars == <<sessions, nextID, poisoned, held, up, pgw, seen, recovery, counter,
          mu, proc, restarts, failures, lost, refused>>
store == <<sessions, nextID, poisoned>>
peers == <<up, pgw, seen>>
faults == <<failures, lost, refused>>
env == <<counter, restarts>>

pgwControlForAPN(a) == <<"s5", IF SharedPGW THEN None ELSE a>>
Peers == {<<"s11", MME>>} \cup {pgwControlForAPN(a) : a \in APNs}

Blank == [sub |-> None, apn |-> None, ebi |-> None, s11 |-> None, cp |-> None,
          born |-> 0, ded |-> <<>>]
Idle == [pc |-> "idle", op |-> "none", peer |-> <<"s11", MME>>, n |-> 0, s |-> Blank,
         own11 |-> FALSE, id |-> 0, why |-> "none", old |-> Blank, todo |-> {},
         failed |-> FALSE]

Put(f, x, v) == [y \in DOMAIN f \cup {x} |-> IF y = x THEN v ELSE f[y]]
Drop(f, x) == Restrict(f, DOMAIN f \ {x})
More(n) == IF n < 2 THEN n + 1 ELSE 2
Idents_of(s) == {s.cp} \cup Range(s.ded)
Bearers(s) == {s.ebi} \cup DOMAIN s.ded

Init ==
    /\ sessions = <<>> /\ nextID = 0 /\ poisoned = FALSE
    /\ held = {} /\ up = <<>> /\ pgw = <<>> /\ seen = 0
    /\ recovery = <<>> /\ counter = [w \in Peers |-> 1]
    /\ mu = [rec |-> None, sub |-> [u \in Subscribers |-> None],
             ses |-> [i \in 1..MaxID |-> None]]
    /\ proc = [p \in Procs |-> Idle] /\ restarts = 0
    /\ failures = 0 /\ lost = FALSE /\ refused = {}

-----------------------------------------------------------------------------
Goto(p, r) == proc' = [proc EXCEPT ![p] = r]
At(p, pc) == proc[p].pc = pc
To(p, pc) == [proc[p] EXCEPT !.pc = pc]

(* The end of a handler: the deferred unlocks, and the answer. *)
Free(f, x, p) == [y \in DOMAIN f |-> IF y = x /\ f[y] = p THEN None ELSE f[y]]
Unlocked(p) ==
    [mu EXCEPT !.sub = Free(@, proc[p].s.sub, p), !.ses = Free(@, proc[p].id, p)]
Finish(p) == Goto(p, Idle) /\ mu' = Unlocked(p)

(* The outcomes of a call: applied, refused or not sent, applied without   *)
(* an answer in time.                                                      *)
Answered == UNCHANGED faults
Failed == failures' = More(failures) /\ UNCHANGED <<lost, refused>>
Lost == LostReplies /\ failures' = More(failures) /\ lost' = TRUE /\ UNCHANGED refused

CallUP(u, onSuccess, onFailure) ==
    /\ \/ Answered /\ up' = u /\ onSuccess
       \/ Failed /\ up' = up /\ onFailure
       \/ Lost /\ up' = u /\ onFailure
    /\ UNCHANGED <<pgw, seen>>

(* PGW-C answers a request of a new SGW-C incarnation only after it has    *)
(* removed what belongs to the earlier ones (PgwcGateway).                 *)
AtPGW == IF seen = restarts THEN pgw ELSE <<>>
CallPGW(g, onSuccess, onFailure) ==
    /\ \/ Answered /\ pgw' = g /\ seen' = restarts /\ onSuccess
       \/ Failed /\ onFailure /\ UNCHANGED <<pgw, seen>>
       \/ Lost /\ pgw' = g /\ seen' = restarts /\ onFailure
    /\ UNCHANGED up

(* A durable commit: a failure poisons the store. *)
Commit(changed, onSuccess, onFailure) ==
    \/ ~poisoned /\ sessions' = changed /\ onSuccess /\ UNCHANGED poisoned /\ Answered
    \/ /\ poisoned' = TRUE /\ onFailure
       /\ failures' = IF poisoned THEN failures ELSE More(failures)
       /\ UNCHANGED <<sessions, lost, refused>>

(* releaseIDs: the S11 TEID is released with the last PDN that uses it. *)
Released(s, left) ==
    held \ (Idents_of(s) \cup {t \in {s.s11} :
                \A i \in DOMAIN left : left[i].s11 # t})

-----------------------------------------------------------------------------
(* handleS11 and handleS5: a message with its peer's Recovery counter      *)
(* starts a goroutine.  A create's header TEID is zero (None), or names    *)
(* the S11 context that it extends.                                        *)
Receive(p) ==
    /\ At(p, "idle")
    /\ \/ \E u \in Subscribers, a \in APNs, e \in EBIs,
             t \in {None} \cup {sessions[i].s11 : i \in DOMAIN sessions} :
            /\ nextID + Cardinality({q \in Procs : proc[q].op = "create"}) < MaxID
            /\ t # None => \E i \in DOMAIN sessions : sessions[i].s11 = t /\ sessions[i].sub = u
            /\ Goto(p, [Idle EXCEPT !.pc = "recovery", !.op = "create",
                  !.n = counter[<<"s11", MME>>], !.own11 = (t = None),
                  !.s = [Blank EXCEPT !.sub = u, !.apn = a, !.ebi = e, !.s11 = t,
                                      !.born = counter[<<"s11", MME>>]]])
       \/ \E i \in DOMAIN sessions :
            \/ Goto(p, [Idle EXCEPT !.pc = "recovery", !.op = "delete",
                    !.n = counter[<<"s11", MME>>], !.s = sessions[i]])
            \/ LET w == pgwControlForAPN(sessions[i].apn)
               IN  Goto(p, [Idle EXCEPT !.pc = "recovery", !.op = "deleteBearer",
                       !.peer = w, !.n = counter[w], !.s = sessions[i]])
    /\ UNCHANGED <<store, held, peers, recovery, mu, faults, env>>

(* The sessions that a restart of peer w makes stale. *)
Matches(w) ==
    IF w[1] = "s11" THEN DOMAIN sessions
    ELSE {i \in DOMAIN sessions : pgwControlForAPN(sessions[i].apn) = w}

(* observeRecovery: a known counter lets the message pass, a new peer's is *)
(* committed, a changed one snapshots the peer's sessions for the purge    *)
(* and keeps recoveryMu.  A message whose counter cannot be committed is   *)
(* withheld.                                                               *)
observeRecovery(p) ==
    LET w == proc[p].peer  n == proc[p].n
    IN  /\ At(p, "recovery") /\ mu.rec = None
        /\ \/ /\ w \notin DOMAIN recovery
              /\ \/ recovery' = Put(recovery, w, n) /\ Goto(p, To(p, "dispatch"))
                 \/ Goto(p, Idle) /\ UNCHANGED recovery
              /\ UNCHANGED mu
           \/ /\ w \in DOMAIN recovery /\ recovery[w] = n
              /\ Goto(p, To(p, "dispatch")) /\ UNCHANGED <<recovery, mu>>
           \/ /\ w \in DOMAIN recovery /\ recovery[w] # n
              /\ mu' = [mu EXCEPT !.rec = p]
              /\ Goto(p, [To(p, "purge") EXCEPT !.todo = Matches(w)])
              /\ UNCHANGED recovery
        /\ UNCHANGED <<store, held, peers, faults, env>>

(* An MME restart deletes the PGW's context first; a PGW that restarted is *)
(* not asked.                                                              *)
purgeSession(p) ==
    /\ At(p, "purge")
    /\ \E i \in proc[p].todo :
        /\ mu.ses[i] = None
        /\ IF i \in DOMAIN sessions
           THEN /\ mu' = [mu EXCEPT !.ses[i] = p]
                /\ Goto(p, [proc[p] EXCEPT
                      !.pc = IF proc[p].peer[1] = "s11" THEN "removePGW" ELSE "removeUP",
                      !.why = "purge", !.id = i, !.old = sessions[i]])
           ELSE Goto(p, [proc[p] EXCEPT !.todo = @ \ {i}]) /\ UNCHANGED mu
    /\ UNCHANGED <<store, held, peers, recovery, faults, env>>

purged(p) ==
    /\ At(p, "purge") /\ proc[p].todo = {}
    /\ mu' = [mu EXCEPT !.rec = None]
    /\ \/ /\ ~proc[p].failed
          /\ recovery' = Put(recovery, proc[p].peer, proc[p].n)
          /\ Goto(p, To(p, "dispatch"))
       \/ Goto(p, Idle) /\ UNCHANGED recovery
    /\ UNCHANGED <<store, held, peers, faults, env>>

-----------------------------------------------------------------------------
(* Removing a session: the PGW's context for a purge after an MME restart  *)
(* and for a Delete Session, then SGW-U, the store, and the identifiers.   *)
(* On an error a purge goes on with the next session, the others reject.   *)
Removed(p) ==
    CASE proc[p].why = "purge" ->
            /\ Goto(p, [To(p, "purge") EXCEPT !.todo = @ \ {proc[p].id}])
            /\ mu' = [mu EXCEPT !.ses[proc[p].id] = None]
      [] proc[p].why = "collision" ->
            Goto(p, To(p, "owner")) /\ mu' = [mu EXCEPT !.ses[proc[p].id] = None]
      [] proc[p].why = "delete" -> Finish(p)
(* Mutant: a purge that goes on after an error keeps the session's lock. *)
NotRemovedLocked(p) ==
    IF proc[p].why = "purge"
    THEN /\ Goto(p, [To(p, "purge") EXCEPT !.todo = @ \ {proc[p].id}, !.failed = TRUE])
         /\ UNCHANGED mu
    ELSE Finish(p)

NotRemoved(p) ==
    IF proc[p].why = "purge"
    THEN /\ Goto(p, [To(p, "purge") EXCEPT !.todo = @ \ {proc[p].id}, !.failed = TRUE])
         /\ mu' = [mu EXCEPT !.ses[proc[p].id] = None]
    ELSE Finish(p)

(* Mutant: an error of the PGW does not stop the removal. *)
removePGWOnward(p) ==
    /\ At(p, "removePGW")
    /\ CallPGW(Drop(AtPGW, proc[p].old.cp),
               Goto(p, To(p, "removeUP")) /\ UNCHANGED mu,
               Goto(p, To(p, "removeUP")) /\ UNCHANGED mu)
    /\ UNCHANGED <<store, held, recovery, env>>

(* Context Not Found counts as success. *)
removePGW(p) ==
    /\ At(p, "removePGW")
    /\ CallPGW(Drop(AtPGW, proc[p].old.cp),
               Goto(p, To(p, "removeUP")) /\ UNCHANGED mu, NotRemoved(p))
    /\ UNCHANGED <<store, held, recovery, env>>

removeUP(p) ==
    /\ At(p, "removeUP")
    /\ CallUP(Drop(up, proc[p].old.cp),
              Goto(p, To(p, "removeStore")) /\ UNCHANGED mu, NotRemoved(p))
    /\ UNCHANGED <<store, held, recovery, env>>

removeStore(p) ==
    /\ At(p, "removeStore")
    /\ Commit(Drop(sessions, proc[p].id),
              Goto(p, To(p, "removeRelease")) /\ UNCHANGED mu, NotRemoved(p))
    /\ UNCHANGED <<nextID, held, peers, recovery, env>>

removeRelease(p) ==
    /\ At(p, "removeRelease")
    /\ held' = Released(proc[p].old, sessions) /\ Removed(p)
    /\ UNCHANGED <<store, peers, recovery, faults, env>>

-----------------------------------------------------------------------------
(* createSession takes the subscriber's lock, and replaceCreateCollision   *)
(* the lock of the session that has the requested EBI.                     *)
FindBySubscriberAndEBI(u, e) ==
    {i \in DOMAIN sessions : sessions[i].sub = u /\ e \in Bearers(sessions[i])}

createSession(p) ==
    /\ At(p, "dispatch") /\ proc[p].op = "create" /\ mu.sub[proc[p].s.sub] = None
    /\ mu' = [mu EXCEPT !.sub[proc[p].s.sub] = p]
    /\ LET found == FindBySubscriberAndEBI(proc[p].s.sub, proc[p].s.ebi)
       IN  \/ found = {} /\ Goto(p, To(p, "owner"))
           \/ \E i \in found : Goto(p, [To(p, "collide") EXCEPT !.id = i])
    /\ UNCHANGED <<store, held, peers, recovery, faults, env>>

(* The whole PDN is replaced if the header TEID is zero or its default     *)
(* bearer collides, otherwise only the dedicated bearer.                   *)
replaceCreateCollision(p) ==
    LET i == proc[p].id  e == proc[p].s.ebi
    IN  /\ At(p, "collide") /\ mu.ses[i] = None
        /\ IF i \in DOMAIN sessions /\ e \in Bearers(sessions[i])
           THEN /\ mu' = [mu EXCEPT !.ses[i] = p]
                /\ Goto(p, [proc[p] EXCEPT
                      !.pc = IF proc[p].own11 \/ sessions[i].ebi = e
                             THEN "removeUP" ELSE "removeBearer",
                      !.why = "collision", !.old = sessions[i]])
           ELSE Goto(p, To(p, "owner")) /\ UNCHANGED mu
        /\ UNCHANGED <<store, held, peers, recovery, faults, env>>

removeBearer(p) ==
    LET c == proc[p].old.cp
    IN  /\ At(p, "removeBearer")
        /\ CallUP([d \in DOMAIN up |-> IF d = c THEN up[d] \ {proc[p].s.ebi} ELSE up[d]],
                  Goto(p, To(p, "bearerStore")) /\ UNCHANGED mu, Finish(p))
        /\ UNCHANGED <<store, held, recovery, env>>

bearerStore(p) ==
    LET i == proc[p].id  e == proc[p].s.ebi
    IN  /\ At(p, "bearerStore")
        /\ Commit([sessions EXCEPT ![i].ded = Drop(@, e)],
                  /\ held' = held \ {proc[p].old.ded[e]}
                  /\ Goto(p, To(p, "owner")) /\ mu' = [mu EXCEPT !.ses[i] = None],
                  Finish(p) /\ UNCHANGED held)
        /\ UNCHANGED <<nextID, peers, recovery, env>>

-----------------------------------------------------------------------------
(* Identifiers are random and wide: a free one is drawn, and none that a   *)
(* peer still remembers comes back.                                        *)
allocatable(pool) == pool \ (held \cup DOMAIN pgw \cup DOMAIN up)

(* The subscriber may have no other session for the APN, and an additional *)
(* PDN needs an S11 context of the subscriber.  Then the identifiers.      *)
owner(p) ==
    LET s == proc[p].s
        exists == \E i \in DOMAIN sessions : sessions[i].sub = s.sub /\ sessions[i].apn = s.apn
        known == proc[p].own11 \/ \E i \in DOMAIN sessions :
                                sessions[i].s11 = s.s11 /\ sessions[i].sub = s.sub
        pool11 == IF proc[p].own11 THEN allocatable(S11s) ELSE {s.s11}
    IN  /\ At(p, "owner")
        /\ \/ \E t \in pool11, c \in allocatable(Idents) :
                /\ ~exists /\ known
                /\ held' = held \cup {c} \cup (IF proc[p].own11 THEN {t} ELSE {})
                /\ Goto(p, [To(p, "s5create") EXCEPT !.s.s11 = t, !.s.cp = c])
                /\ UNCHANGED mu
                /\ UNCHANGED refused
           \/ /\ exists \/ ~known \/ pool11 = {} \/ allocatable(Idents) = {}
              /\ Finish(p) /\ UNCHANGED held
              /\ refused' = IF proc[p].why = "collision" /\ (exists \/ ~known)
                            THEN refused \cup {"sgw"} ELSE refused
        /\ UNCHANGED <<store, peers, recovery, failures, lost, env>>

(* PGW-C replaces a PDN whose default bearer has the EBI and refuses a     *)
(* second PDN for the APN or an EBI that a dedicated bearer has.           *)
s5create(p) ==
    LET s == proc[p].s
        collides(c) == AtPGW[c].sub = s.sub /\ AtPGW[c].ebi = s.ebi
        left == Restrict(AtPGW, {c \in DOMAIN AtPGW : ~collides(c)})
        clash == \E c \in DOMAIN left : left[c].sub = s.sub /\ s.ebi \in left[c].ded
        refuse == clash \/ \E c \in DOMAIN left : left[c].sub = s.sub /\ left[c].apn = s.apn
        context == [sub |-> s.sub, apn |-> s.apn, ebi |-> s.ebi, ded |-> {}]
    IN  /\ At(p, "s5create")
        /\ \/ /\ ~refuse
              /\ CallPGW(Put(left, s.cp, context), Goto(p, To(p, "establish")),
                         Goto(p, To(p, "giveBack")))
           \/ /\ refuse /\ Goto(p, To(p, "giveBack"))
              /\ pgw' = left /\ seen' = restarts
              /\ refused' = IF clash THEN refused \cup {"pgw"} ELSE refused
              /\ UNCHANGED <<up, failures, lost>>
        /\ UNCHANGED <<store, held, recovery, mu, env>>

establish(p) ==
    /\ At(p, "establish")
    /\ CallUP(Put(up, proc[p].s.cp, {}), Goto(p, To(p, "create")), Goto(p, To(p, "undoPGW")))
    /\ UNCHANGED <<store, held, recovery, mu, env>>

(* store.Create refuses a session that shares an owner or a bearer. *)
Creatable(s) ==
    \A i \in DOMAIN sessions : LET t == sessions[i] IN
        t.sub = s.sub => t.apn # s.apn /\ s.ebi \notin Bearers(t)

create(p) ==
    /\ At(p, "create") /\ nextID' = nextID + 1
    /\ Commit(Put(sessions, nextID + 1, proc[p].s), Creatable(proc[p].s) /\ Finish(p),
              Goto(p, To(p, "undo")) /\ UNCHANGED mu)
    /\ UNCHANGED <<held, peers, recovery, env>>

(* Mutant: the user plane is not rolled back. *)
undoSkipped(p) ==
    /\ At(p, "undo") /\ Goto(p, To(p, "undoPGW"))
    /\ UNCHANGED <<store, held, peers, recovery, mu, faults, env>>

(* The session is taken from SGW-U and then from the PGW again, whatever   *)
(* they answer (bestEffortDeletePGW).                                      *)
undo(p) ==
    /\ At(p, "undo")
    /\ CallUP(Drop(up, proc[p].s.cp), Goto(p, To(p, "undoPGW")), Goto(p, To(p, "undoPGW")))
    /\ UNCHANGED <<store, held, recovery, mu, env>>

bestEffortDeletePGW(p) ==
    /\ At(p, "undoPGW")
    /\ CallPGW(Drop(AtPGW, proc[p].s.cp), Goto(p, To(p, "giveBack")), Goto(p, To(p, "giveBack")))
    /\ UNCHANGED <<store, held, recovery, mu, env>>

giveBack(p) ==
    /\ At(p, "giveBack")
    /\ held' = held \ ({proc[p].s.cp} \cup (IF proc[p].own11 THEN {proc[p].s.s11} ELSE {}))
    /\ Finish(p)
    /\ UNCHANGED <<store, peers, recovery, faults, env>>

-----------------------------------------------------------------------------
(* deleteSession and deleteBearer look their session up before they take   *)
(* the subscriber's lock and then the session's, and again under them.     *)
FindSession(p) ==
    /\ At(p, "dispatch") /\ proc[p].op \in {"delete", "deleteBearer"}
    /\ LET found == {i \in DOMAIN sessions : sessions[i].cp = proc[p].s.cp}
       IN  \/ found = {} /\ Finish(p)
           \/ \E i \in found : Goto(p, [To(p, "lockSub") EXCEPT !.id = i]) /\ UNCHANGED mu
    /\ UNCHANGED <<store, held, peers, recovery, faults, env>>

lockSubscriber(p) ==
    /\ At(p, "lockSub") /\ mu.sub[proc[p].s.sub] = None
    /\ mu' = [mu EXCEPT !.sub[proc[p].s.sub] = p]
    /\ Goto(p, To(p, "lockSes"))
    /\ UNCHANGED <<store, held, peers, recovery, faults, env>>

deleteSession(p) ==
    LET i == proc[p].id
    IN  /\ At(p, "lockSes") /\ proc[p].op = "delete" /\ mu.ses[i] = None
        /\ IF i \in DOMAIN sessions
           THEN /\ mu' = [mu EXCEPT !.ses[i] = p]
                /\ Goto(p, [To(p, "removePGW") EXCEPT !.why = "delete", !.old = sessions[i]])
           ELSE Finish(p)
        /\ UNCHANGED <<store, held, peers, recovery, faults, env>>

(* deleteBearer for a default bearer tells the MME before it removes the   *)
(* session; the PGW forgets its context when it is answered.               *)
deleteBearer(p) ==
    LET i == proc[p].id
    IN  /\ At(p, "lockSes") /\ proc[p].op = "deleteBearer" /\ mu.ses[i] = None
        /\ \/ /\ i \in DOMAIN sessions
              /\ mu' = [mu EXCEPT !.ses[i] = p]
              /\ Goto(p, [To(p, "removeUP") EXCEPT !.why = "delete", !.old = sessions[i]])
           \/ Finish(p)
        /\ pgw' = IF proc'[p].pc = "removeUP" THEN Drop(pgw, proc[p].s.cp) ELSE pgw
        /\ UNCHANGED <<store, held, up, seen, recovery, faults, env>>

(* createBearer and deleteBearer for dedicated bearers, when all of their  *)
(* steps succeed (see DedicatedBearers); both locks are held.              *)
DedicatedBearer(i) ==
    LET s == sessions[i]
    IN  /\ Dedicated /\ mu.sub[s.sub] = None /\ mu.ses[i] = None /\ ~poisoned
        /\ s.cp \in DOMAIN up /\ s.cp \in DOMAIN pgw
        /\ \/ \E e \in EBIs, c \in allocatable(Idents) :
                /\ FindBySubscriberAndEBI(s.sub, e) = {}
                /\ sessions' = [sessions EXCEPT ![i].ded = Put(@, e, c)]
                /\ held' = held \cup {c}
                /\ up' = [up EXCEPT ![s.cp] = @ \cup {e}]
                /\ pgw' = [pgw EXCEPT ![s.cp].ded = @ \cup {e}]
           \/ \E e \in DOMAIN s.ded :
                /\ sessions' = [sessions EXCEPT ![i].ded = Drop(@, e)]
                /\ held' = held \ {s.ded[e]}
                /\ up' = [up EXCEPT ![s.cp] = @ \ {e}]
                /\ pgw' = [pgw EXCEPT ![s.cp].ded = @ \ {e}]
        /\ UNCHANGED <<nextID, poisoned, seen, recovery, mu, proc, faults, env>>

-----------------------------------------------------------------------------
(* A peer restarts: its messages carry a new counter; those of its old     *)
(* incarnation have been handled by then.  A PGW forgets its contexts, or  *)
(* restores them if it is durable.                                         *)
RestartPeer(w) ==
    /\ counter[w] < MaxCounter /\ (w[1] = "s5" => PGWRestarts)
    /\ \A p \in Procs : proc[p].pc = "idle" \/ proc[p].peer # w
    /\ counter' = [counter EXCEPT ![w] = @ + 1]
    /\ pgw' \in {pgw} \cup (IF w[1] = "s11" THEN {} ELSE
          {Restrict(pgw, {c \in DOMAIN pgw : pgwControlForAPN(pgw[c].apn) # w})})
    /\ UNCHANGED <<store, held, up, seen, recovery, mu, proc, restarts, faults>>

(* SGW-C dies and starts again: New reserves the identifiers of the        *)
(* restored sessions, and the replay leaves SGW-U with exactly them.       *)
New ==
    /\ restarts < MaxRestarts /\ restarts' = restarts + 1
    /\ poisoned' = FALSE
    /\ held' = UNION {Idents_of(sessions[i]) \cup {sessions[i].s11} : i \in DOMAIN sessions}
    /\ up' = [c \in {sessions[i].cp : i \in DOMAIN sessions} |->
                DOMAIN sessions[CHOOSE i \in DOMAIN sessions : sessions[i].cp = c].ded]
    /\ mu' = [mu EXCEPT !.rec = None, !.sub = [u \in Subscribers |-> None],
                        !.ses = [i \in 1..MaxID |-> None]]
    /\ proc' = [p \in Procs |-> Idle]
    /\ UNCHANGED <<sessions, nextID, pgw, seen, recovery, counter, faults>>

Step(p) ==
    \/ observeRecovery(p) \/ purgeSession(p) \/ purged(p)
    \/ removePGW(p) \/ removeUP(p) \/ removeStore(p) \/ removeRelease(p)
    \/ createSession(p) \/ replaceCreateCollision(p) \/ removeBearer(p) \/ bearerStore(p)
    \/ owner(p) \/ s5create(p) \/ establish(p) \/ create(p)
    \/ undo(p) \/ bestEffortDeletePGW(p) \/ giveBack(p)
    \/ FindSession(p) \/ lockSubscriber(p) \/ deleteSession(p) \/ deleteBearer(p)

(* An Echo Request changes nothing here and is answered at any time. *)
echoResponse == UNCHANGED vars

Next ==
    \/ echoResponse
    \/ \E p \in Procs : Receive(p) \/ Step(p)
    \/ \E i \in DOMAIN sessions : DedicatedBearer(i)
    \/ \E w \in Peers : RestartPeer(w)
    \/ New

Spec == Init /\ [][Next]_vars

(* Goroutines run, and a mutex is not withheld from a goroutine for ever.  *)
FairSpec == Spec /\ \A p \in Procs : SF_vars(Step(p))

-----------------------------------------------------------------------------
Quiet == \A p \in Procs : proc[p].pc = "idle"
Stored == {sessions[i] : i \in DOMAIN sessions}

(* The fields have their types; sessions, stored or being created, share   *)
(* no identifier but the S11 TEID of their subscriber, and stored ones no  *)
(* owner and no bearer.                                                    *)
TypeOK ==
    /\ DOMAIN sessions \subseteq 1..nextID /\ nextID \in 0..MaxID
    /\ held \subseteq S11s \cup Idents /\ DOMAIN up \subseteq Idents
    /\ DOMAIN recovery \subseteq Peers /\ failures \in 0..2
    /\ \A p, q \in Procs : proc[p].op = "create" /\ proc[p].s.cp # None =>
          /\ proc[p].s.cp \notin UNION {Idents_of(sessions[i]) : i \in DOMAIN sessions}
          /\ proc[q].op = "create" /\ p # q => proc[p].s.cp # proc[q].s.cp
    /\ \A i, j \in DOMAIN sessions : i # j =>
          /\ Idents_of(sessions[i]) \cap Idents_of(sessions[j]) = {}
          /\ sessions[i].sub = sessions[j].sub =>
                /\ sessions[i].apn # sessions[j].apn
                /\ Bearers(sessions[i]) \cap Bearers(sessions[j]) = {}

(* The TEIDs and SEIDs of a stored session stay reserved, the shared S11   *)
(* TEID included: a removed PDN leaves it to the others, and a failed      *)
(* create or removal gives back only its own.                              *)
IdentifiersHeld == \A s \in Stored : Idents_of(s) \cup {s.s11} \subseteq held

(* Once every handler has returned, an identifier is taken only by a       *)
(* stored session: no failure path leaks one.                              *)
NothingLeaks == Quiet => held \subseteq UNION {Idents_of(s) \cup {s.s11} : s \in Stored}

(* Once every handler has returned, and no answer was lost, no process     *)
(* restarted but the MME and PGW-C refused no collision: SGW-U and PGW-C   *)
(* have exactly the stored sessions with their dedicated bearers if no     *)
(* call failed, and SGW-U has no other session if one failed.              *)
PlanesAgree ==
    (Quiet /\ ~lost /\ refused = {} /\ restarts = 0
        /\ \A w \in Peers : w[1] = "s5" => counter[w] = 1) =>
        /\ failures = 0 =>
              /\ DOMAIN up = {s.cp : s \in Stored} /\ DOMAIN pgw = DOMAIN up
              /\ \A s \in Stored : up[s.cp] = DOMAIN s.ded /\ pgw[s.cp].ded = DOMAIN s.ded
        /\ failures = 1 => DOMAIN up \subseteq {s.cp : s \in Stored}

(* A message that got past observeRecovery with a new MME counter leaves   *)
(* no session of an earlier incarnation of the MME, here or at the PGW,    *)
(* however often the purge failed before.                                  *)
PurgedEverywhere ==
    LET w == <<"s11", MME>>
    IN  (w \in DOMAIN recovery /\ mu.rec = None /\ Quiet) =>
            \A s \in Stored : s.born >= recovery[w]

(* When a purge for an MME or a Delete Session takes a session out of the  *)
(* store, the PGW has no context for it any more: none is orphaned there.  *)
NoOrphan ==
    \A p \in Procs : (removeStore(p) /\ proc[p].op # "deleteBearer" /\ proc[p].why # "collision") =>
        \A i \in DOMAIN sessions \ DOMAIN sessions' : sessions[i].cp \notin DOMAIN pgw

(* The same for the purge after a PGW's restart. *)
NoOrphanAfterPGWRestart ==
    [][\A p \in Procs : (removeStore(p) /\ proc[p].why = "purge") =>
            \A i \in DOMAIN sessions \ DOMAIN sessions' : sessions[i].cp \notin DOMAIN pgw]_vars

(* A restart of SGW-C keeps its PDNs: the request of one PDN never takes   *)
(* the PGW's context from another stored one.                              *)
RestartKeepsPDNs ==
    [][\A p \in Procs : s5create(p) =>
            \A s \in Stored : s.cp \in DOMAIN pgw => s.cp \in DOMAIN pgw']_vars

(* A create whose EBI collides with a default bearer is a new session: it  *)
(* is not refused by SGW-C after the old PDN was removed for it.           *)
CollisionReplaces == "sgw" \notin refused

(* A create whose EBI collides with a dedicated bearer is a replacement at *)
(* PGW-C too, never a resource error.                                      *)
DedicatedCollisionReplaces == "pgw" \notin refused

(* Every message is answered or withheld: no handler waits for ever.       *)
HandlersReturn == \A p \in Procs : (proc[p].pc # "idle") ~> (proc[p].pc = "idle")
=============================================================================
