---------------------------- MODULE PgwcGateway -----------------------------
(***************************************************************************)
(* PGW-C's S5-C procedures for default bearers (internal/pgwc/gateway):    *)
(* Create Session with collision replacement, Modify Bearer, Delete        *)
(* Session, and the purge that a changed SGW Recovery counter starts.      *)
(* Each message has a goroutine p; a step ends where the code calls PGW-U  *)
(* or the store, or waits for a lock.  A session's two TEIDs and its       *)
(* CP-SEID are allocated and released together and are one identifier cp.  *)
(* PGW-U is external: a call may be applied, refused, or applied with its  *)
(* answer lost.  The store and the pool behave as in PgwcStore and         *)
(* AddressPool.                                                            *)
(***************************************************************************)
EXTENDS Naturals, FiniteSets, Functions

CONSTANTS
    Procs, Subscribers, APNs, EBIs, SGWs,
    Remotes,        \* the SGW's tunnel; a session starts with 1
    Addresses, Idents,
    MaxID,          \* sessions ever created
    MaxCounter,     \* SGW restarts
    MaxRestarts,    \* PGW-C restarts
    LostReplies,    \* whether PGW-U's answers may be lost
    OldRequests,    \* whether a request sent before an SGW restart may still be
                    \* handled when the restart is noticed
    None

VARIABLES
    sessions,   \* the durable store: session ID to session
    nextID, poisoned,
    lease,      \* owner to address
    held,       \* identifiers in use
    up,         \* PGW-U's sessions: cp to address and remote tunnel
    recovery,   \* SGW to the last accepted counter
    counter,    \* SGW to the counter of its present incarnation
    mu,         \* holders of recoveryMu, subscriberLocks and locks
    proc,       \* per goroutine: program counter, request and locals
    restarts,
    failures, lost   \* ghosts: failed calls (up to 2), whether a reply was lost

vars == <<sessions, nextID, poisoned, lease, held, up, recovery, counter, mu,
          proc, restarts, failures, lost>>
store == <<sessions, nextID, poisoned>>
faults == <<failures, lost>>
env == <<counter, restarts>>

Blank == [sub |-> None, apn |-> None, ebi |-> None, ue |-> None, cp |-> None,
          sgw |-> None, born |-> 0, remote |-> 1, dedicated |-> {}]
Idle == [pc |-> "idle", op |-> "none", s |-> Blank, id |-> 0, why |-> "none",
         old |-> Blank, todo |-> {}, failed |-> FALSE]

leaseOwner(s) == <<s.sub, s.apn>>
Put(f, x, v) == [y \in DOMAIN f \cup {x} |-> IF y = x THEN v ELSE f[y]]
Drop(f, x) == Restrict(f, DOMAIN f \ {x})
More(n) == IF n < 2 THEN n + 1 ELSE 2

Init ==
    /\ sessions = <<>> /\ nextID = 0 /\ poisoned = FALSE
    /\ lease = <<>> /\ held = {} /\ up = <<>>
    /\ recovery = <<>> /\ counter = [w \in SGWs |-> 1]
    /\ mu = [rec |-> None, sub |-> [u \in Subscribers |-> None],
             ses |-> [i \in 1..MaxID |-> None]]
    /\ proc = [p \in Procs |-> Idle] /\ restarts = 0
    /\ failures = 0 /\ lost = FALSE

-----------------------------------------------------------------------------
(* One step of p: its next local state. *)
Goto(p, r) == proc' = [proc EXCEPT ![p] = r]
At(p, pc) == proc[p].pc = pc
To(p, pc) == [proc[p] EXCEPT !.pc = pc]

(* The end of a handler: the deferred unlocks, and the answer. *)
Free(f, x, p) == [y \in DOMAIN f |-> IF y = x /\ f[y] = p THEN None ELSE f[y]]
Unlocked(p) ==
    [mu EXCEPT !.sub = Free(@, proc[p].s.sub, p), !.ses = Free(@, proc[p].id, p)]
Finish(p) == Goto(p, Idle) /\ mu' = Unlocked(p)

(* A PFCP call: up becomes u if PGW-U applies it.  A call to a PGW-U       *)
(* without an association fails without being sent.                        *)
Call(u, onSuccess, onFailure) ==
    \/ up' = u /\ onSuccess /\ UNCHANGED faults
    \/ up' = up /\ onFailure /\ failures' = More(failures) /\ UNCHANGED lost
    \/ LostReplies /\ up' = u /\ onFailure /\ failures' = More(failures) /\ lost' = TRUE

(* A durable commit: a failure poisons the store. *)
Commit(changed, onSuccess, onFailure) ==
    \/ ~poisoned /\ sessions' = changed /\ onSuccess /\ UNCHANGED <<poisoned, faults>>
    \/ /\ poisoned' = TRUE /\ onFailure
       /\ failures' = IF poisoned THEN failures ELSE More(failures)
       /\ UNCHANGED <<sessions, lost>>

(* pool.Release frees an address only for the owner that leases it. *)
Released(s) ==
    IF leaseOwner(s) \in DOMAIN lease /\ lease[leaseOwner(s)] = s.ue
    THEN Drop(lease, leaseOwner(s)) ELSE lease
releaseResources(s) == lease' = Released(s) /\ held' = held \ {s.cp}

-----------------------------------------------------------------------------
(* handleS5: a message of sgw with its Recovery counter starts a goroutine.*)
(* Modify and delete name their session by its control TEID.               *)
Receive(p) ==
    /\ At(p, "idle")
    /\ \E w \in SGWs, n \in 1..MaxCounter :
        /\ IF OldRequests THEN n <= counter[w] ELSE n = counter[w]
        /\ \/ \E u \in Subscribers, a \in APNs, e \in EBIs :
                /\ nextID + Cardinality({q \in Procs : proc[q].op = "create"}) < MaxID
                /\ Goto(p, [Idle EXCEPT !.pc = "recovery", !.op = "create",
                      !.s = [Blank EXCEPT !.sub = u, !.apn = a, !.ebi = e,
                                          !.sgw = w, !.born = n]])
           \/ \E i \in DOMAIN sessions, op \in {"modify", "delete"}, r \in Remotes :
                /\ op = "delete" => r = sessions[i].remote
                /\ sessions[i].sgw = w
                /\ Goto(p, [Idle EXCEPT !.pc = "recovery", !.op = op,
                        !.s = [sessions[i] EXCEPT !.born = n, !.remote = r]])
    /\ UNCHANGED <<store, lease, held, up, recovery, mu, faults, env>>

Changed(w, n) == w \in DOMAIN recovery /\ recovery[w] # n

(* observeRecovery: a known counter lets the message pass, a new peer's is *)
(* committed, a changed one snapshots the SGW's sessions for the purge and *)
(* keeps recoveryMu.  A message whose counter cannot be committed is       *)
(* withheld.                                                               *)
observeRecovery(p) ==
    LET w == proc[p].s.sgw  n == proc[p].s.born
    IN  /\ At(p, "recovery") /\ mu.rec = None
        /\ \/ /\ w \notin DOMAIN recovery
              /\ \/ recovery' = Put(recovery, w, n) /\ Goto(p, To(p, "dispatch"))
                 \/ Goto(p, Idle) /\ UNCHANGED recovery
              /\ UNCHANGED mu
           \/ /\ w \in DOMAIN recovery /\ recovery[w] = n
              /\ Goto(p, To(p, "dispatch")) /\ UNCHANGED <<recovery, mu>>
           \/ /\ Changed(w, n)
              /\ mu' = [mu EXCEPT !.rec = p]
              /\ Goto(p, [To(p, "purge") EXCEPT
                    !.todo = {i \in DOMAIN sessions : sessions[i].sgw = w}])
              /\ UNCHANGED recovery
        /\ UNCHANGED <<store, lease, held, up, faults, env>>

purgeSession(p) ==
    /\ At(p, "purge")
    /\ \E i \in proc[p].todo :
        /\ mu.ses[i] = None
        /\ IF i \in DOMAIN sessions
           THEN /\ mu' = [mu EXCEPT !.ses[i] = p]
                /\ Goto(p, [To(p, "removeUP") EXCEPT
                              !.why = "purge", !.id = i, !.old = sessions[i]])
           ELSE Goto(p, [proc[p] EXCEPT !.todo = @ \ {i}]) /\ UNCHANGED mu
    /\ UNCHANGED <<store, lease, held, up, recovery, faults, env>>

(* Mutant: the new counter is accepted although a deletion failed. *)
purgedAlways(p) ==
    /\ At(p, "purge") /\ proc[p].todo = {}
    /\ mu' = [mu EXCEPT !.rec = None]
    /\ recovery' = Put(recovery, proc[p].s.sgw, proc[p].s.born)
    /\ Goto(p, To(p, "dispatch"))
    /\ UNCHANGED <<store, lease, held, up, faults, env>>

purged(p) ==
    /\ At(p, "purge") /\ proc[p].todo = {}
    /\ mu' = [mu EXCEPT !.rec = None]
    /\ \/ /\ ~proc[p].failed
          /\ recovery' = Put(recovery, proc[p].s.sgw, proc[p].s.born)
          /\ Goto(p, To(p, "dispatch"))
       \/ Goto(p, Idle) /\ UNCHANGED recovery
    /\ UNCHANGED <<store, lease, held, up, faults, env>>

-----------------------------------------------------------------------------
(* Removing a session, for a purge, a collision or a Delete Session:       *)
(* PGW-U, then the store, then the resources.  On an error a purge goes on *)
(* with the next session, the others reject the request.                   *)
Removed(p) ==
    CASE proc[p].why = "purge" ->
            /\ Goto(p, [To(p, "purge") EXCEPT !.todo = @ \ {proc[p].id}])
            /\ mu' = [mu EXCEPT !.ses[proc[p].id] = None]
      [] proc[p].why = "collision" ->
            Goto(p, To(p, "allocate")) /\ mu' = [mu EXCEPT !.ses[proc[p].id] = None]
      [] proc[p].why = "delete" -> Finish(p)
(* Mutant: a purge that goes on after an error keeps the session's lock. *)
NotRemovedLocked(p) ==
    IF proc[p].why = "purge"
    THEN /\ Goto(p, [To(p, "purge") EXCEPT !.todo = @ \ {proc[p].id}, !.failed = TRUE])
         /\ UNCHANGED mu
    ELSE Finish(p)

NotRemoved(p) ==
    IF proc[p].why = "purge"
    THEN /\ Goto(p, [To(p, "purge") EXCEPT !.todo = @ \ {proc[p].id}, !.failed = TRUE])
         /\ mu' = [mu EXCEPT !.ses[proc[p].id] = None]
    ELSE Finish(p)

removeUP(p) ==
    /\ At(p, "removeUP")
    /\ Call(Drop(up, proc[p].old.cp),
            Goto(p, To(p, "removeStore")) /\ UNCHANGED mu, NotRemoved(p))
    /\ UNCHANGED <<store, lease, held, recovery, env>>

removeStore(p) ==
    /\ At(p, "removeStore")
    /\ Commit(Drop(sessions, proc[p].id),
              Goto(p, To(p, "removeRelease")) /\ UNCHANGED mu, NotRemoved(p))
    /\ UNCHANGED <<nextID, lease, held, up, recovery, env>>

removeRelease(p) ==
    /\ At(p, "removeRelease")
    /\ releaseResources(proc[p].old) /\ Removed(p)
    /\ UNCHANGED <<store, up, recovery, faults, env>>

-----------------------------------------------------------------------------
(* createSession takes the subscriber's lock, and replaceCreateCollision   *)
(* the lock of the session that has the requested EBI.  It looks again     *)
(* once it has the lock; a dedicated bearer with the EBI is not replaced.  *)
Bearers(s) == {s.ebi} \cup s.dedicated
FindBySubscriberAndEBI(u, e) ==
    {i \in DOMAIN sessions : sessions[i].sub = u /\ e \in Bearers(sessions[i])}

createSession(p) ==
    /\ At(p, "dispatch") /\ proc[p].op = "create" /\ mu.sub[proc[p].s.sub] = None
    /\ mu' = [mu EXCEPT !.sub[proc[p].s.sub] = p]
    /\ LET found == FindBySubscriberAndEBI(proc[p].s.sub, proc[p].s.ebi)
       IN  \/ found = {} /\ Goto(p, To(p, "allocate"))
           \/ \E i \in found : Goto(p, [To(p, "collide") EXCEPT !.id = i])
    /\ UNCHANGED <<store, lease, held, up, recovery, faults, env>>

replaceCreateCollision(p) ==
    LET i == proc[p].id
    IN  /\ At(p, "collide") /\ mu.ses[i] = None
        /\ IF i \in DOMAIN sessions /\ sessions[i].ebi = proc[p].s.ebi
           THEN /\ mu' = [mu EXCEPT !.ses[i] = p]
                /\ Goto(p, [To(p, "removeUP") EXCEPT
                              !.why = "collision", !.old = sessions[i]])
           ELSE Goto(p, To(p, "allocate")) /\ UNCHANGED mu
        /\ UNCHANGED <<store, lease, held, up, recovery, faults, env>>

(* Acquire gives an owner that has a lease the same address again. *)
Acquirable(o) ==
    IF o \in DOMAIN lease THEN {lease[o]} ELSE Addresses \ Range(lease)

(* Both allocators draw at random until they meet a free value. *)
allocatable == Idents \ held

(* The subscriber may have no other session for the APN; then the lease    *)
(* and the identifiers.  Without an address or an identifier the request   *)
(* is rejected and what it has is given back.                              *)
allocate(p) ==
    LET o == leaseOwner(proc[p].s)
        exists == \E i \in DOMAIN sessions : leaseOwner(sessions[i]) = o
    IN  /\ At(p, "allocate")
        /\ \/ \E a \in Acquirable(o), c \in allocatable :
                /\ ~exists
                /\ lease' = Put(lease, o, a) /\ held' = held \cup {c}
                /\ Goto(p, [To(p, "establish") EXCEPT !.s.ue = a, !.s.cp = c])
                /\ UNCHANGED mu
           \/ /\ exists \/ Acquirable(o) = {}
              /\ Finish(p) /\ UNCHANGED <<lease, held>>
           \/ /\ ~exists /\ Acquirable(o) # {} /\ allocatable = {}
              /\ Finish(p) /\ UNCHANGED held
              /\ lease' = IF o \in DOMAIN lease THEN Drop(lease, o) ELSE lease
        /\ UNCHANGED <<store, up, recovery, faults, env>>

Installed(s) == [ue |-> s.ue, remote |-> s.remote]

(* PGW-U refuses an address that another of its sessions has. *)
establish(p) ==
    LET s == proc[p].s
        conflict == \E c \in DOMAIN up \ {s.cp} : up[c].ue = s.ue
    IN  /\ At(p, "establish")
        /\ \/ /\ ~conflict
              /\ Call(Put(up, s.cp, Installed(s)),
                      Goto(p, To(p, "create")) /\ UNCHANGED mu,
                      Goto(p, To(p, "giveBack")) /\ UNCHANGED mu)
           \/ /\ conflict /\ Goto(p, To(p, "giveBack"))
              /\ UNCHANGED <<up, mu, faults>>
        /\ UNCHANGED <<store, lease, held, recovery, env>>

(* store.Create refuses a session that shares an owner, a bearer or an     *)
(* address with a stored one.                                              *)
Creatable(s) ==
    \A i \in DOMAIN sessions : LET t == sessions[i] IN
        /\ leaseOwner(t) # leaseOwner(s) /\ t.ue # s.ue /\ t.cp # s.cp
        /\ t.sub = s.sub => s.ebi \notin Bearers(t)

create(p) ==
    LET s == proc[p].s
    IN  /\ At(p, "create")
        /\ \/ /\ Creatable(s) /\ nextID' = nextID + 1
              /\ Commit(Put(sessions, nextID + 1, s), Finish(p),
                        Goto(p, To(p, "undo")) /\ UNCHANGED mu)
           \/ /\ ~Creatable(s)
              /\ Goto(p, To(p, "undo")) /\ failures' = More(failures)
              /\ UNCHANGED <<store, mu, lost>>
        /\ UNCHANGED <<lease, held, up, recovery, env>>

(* The session is taken from PGW-U again, whatever the answer. *)
undo(p) ==
    /\ At(p, "undo")
    /\ Call(Drop(up, proc[p].s.cp), Goto(p, To(p, "giveBack")), Goto(p, To(p, "giveBack")))
    /\ UNCHANGED <<store, lease, held, recovery, mu, env>>

(* Mutant: the address is not given back. *)
giveBackIdents(p) ==
    /\ At(p, "giveBack")
    /\ held' = held \ {proc[p].s.cp} /\ Finish(p)
    /\ UNCHANGED <<store, lease, up, recovery, faults, env>>

giveBack(p) ==
    /\ At(p, "giveBack")
    /\ releaseResources(proc[p].s) /\ Finish(p)
    /\ UNCHANGED <<store, up, recovery, faults, env>>

-----------------------------------------------------------------------------
(* The lookup comes before the locks, so it is repeated under them. *)
FindByControlTEID(p) ==
    /\ At(p, "dispatch") /\ proc[p].op \in {"modify", "delete"}
    /\ LET found == {i \in DOMAIN sessions : sessions[i].cp = proc[p].s.cp}
       IN  \/ found = {} /\ Finish(p)
           \/ /\ \E i \in found : Goto(p, [To(p, proc[p].op) EXCEPT
                                          !.id = i, !.s.sub = sessions[i].sub])
              /\ UNCHANGED mu
    /\ UNCHANGED <<store, lease, held, up, recovery, faults, env>>

(* modifyBearer holds the session's lock only: PGW-U first, then the store.*)
modifyBearer(p) ==
    LET i == proc[p].id
    IN  /\ At(p, "modify") /\ mu.ses[i] = None
        /\ IF i \in DOMAIN sessions /\ sessions[i].remote # proc[p].s.remote
           THEN /\ mu' = [mu EXCEPT !.ses[i] = p]
                /\ Goto(p, [To(p, "updateUP") EXCEPT !.old = sessions[i]])
           ELSE Finish(p)
        /\ UNCHANGED <<store, lease, held, up, recovery, faults, env>>

(* UpdateRemote of a session that PGW-U does not have is refused. *)
Moved(s) == IF s.cp \in DOMAIN up THEN Put(up, s.cp, Installed(s)) ELSE up

updateUP(p) ==
    /\ At(p, "updateUP")
    /\ \/ /\ proc[p].old.cp \in DOMAIN up
          /\ Call(Moved([proc[p].old EXCEPT !.remote = proc[p].s.remote]),
                  Goto(p, To(p, "updateStore")) /\ UNCHANGED mu, Finish(p))
       \/ /\ proc[p].old.cp \notin DOMAIN up
          /\ Finish(p) /\ UNCHANGED <<up, faults>>
    /\ UNCHANGED <<store, lease, held, recovery, env>>

updateStore(p) ==
    /\ At(p, "updateStore")
    /\ Commit([sessions EXCEPT ![proc[p].id].remote = proc[p].s.remote], Finish(p),
              Goto(p, To(p, "updateBack")) /\ UNCHANGED mu)
    /\ UNCHANGED <<nextID, lease, held, up, recovery, env>>

updateBack(p) ==
    /\ At(p, "updateBack")
    /\ Call(Moved(proc[p].old), Finish(p), Finish(p))
    /\ UNCHANGED <<store, lease, held, recovery, env>>

(* deleteSession takes the subscriber's lock and then the session's. *)
deleteSession(p) ==
    /\ At(p, "delete") /\ mu.sub[proc[p].s.sub] = None
    /\ mu' = [mu EXCEPT !.sub[proc[p].s.sub] = p]
    /\ Goto(p, To(p, "deleteLocked"))
    /\ UNCHANGED <<store, lease, held, up, recovery, faults, env>>

deleteLocked(p) ==
    LET i == proc[p].id
    IN  /\ At(p, "deleteLocked") /\ mu.ses[i] = None
        /\ IF i \in DOMAIN sessions
           THEN /\ mu' = [mu EXCEPT !.ses[i] = p]
                /\ Goto(p, [To(p, "removeUP") EXCEPT
                              !.why = "delete", !.old = sessions[i]])
           ELSE Finish(p)
        /\ UNCHANGED <<store, lease, held, up, recovery, faults, env>>

(* CreateDedicatedBearer and DeleteDedicatedBearer (see DedicatedBearers)  *)
(* hold both locks.  A new bearer gets an EBI none of the subscriber's     *)
(* sessions uses.                                                          *)
allocateDedicatedEBI(u) == {e \in EBIs : FindBySubscriberAndEBI(u, e) = {}}

DedicatedBearer(i) ==
    LET s == sessions[i]
    IN  /\ mu.sub[s.sub] = None /\ mu.ses[i] = None /\ ~poisoned
        /\ \/ \E e \in allocateDedicatedEBI(s.sub) :
                sessions' = [sessions EXCEPT ![i].dedicated = @ \cup {e}]
           \/ \E e \in s.dedicated :
                sessions' = [sessions EXCEPT ![i].dedicated = @ \ {e}]
        /\ UNCHANGED <<nextID, poisoned, lease, held, up, recovery, mu, proc, faults, env>>

-----------------------------------------------------------------------------
(* The SGW restarts: its requests carry a new counter.  Unless OldRequests *)
(* holds, those of its old incarnation have been handled by then.          *)
RestartSGW(w) ==
    /\ counter[w] < MaxCounter
    /\ OldRequests \/ \A p \in Procs : proc[p].pc = "idle" \/ proc[p].s.sgw # w
    /\ counter' = [counter EXCEPT ![w] = @ + 1]
    /\ UNCHANGED <<store, lease, held, up, recovery, mu, proc, restarts, faults>>

(* PGW-C dies and starts again.  New reserves the identifiers of the       *)
(* restored sessions, RestoreSessionLeases their addresses; the replay to  *)
(* PGW-U leaves it with exactly the stored sessions.                       *)
Reserved == {sessions[i].cp : i \in DOMAIN sessions}

New ==
    /\ restarts < MaxRestarts /\ restarts' = restarts + 1
    /\ poisoned' = FALSE
    /\ held' = Reserved
    /\ lease' = [o \in {leaseOwner(sessions[i]) : i \in DOMAIN sessions} |->
                    sessions[CHOOSE i \in DOMAIN sessions : leaseOwner(sessions[i]) = o].ue]
    /\ up' = [c \in held' |->
                Installed(sessions[CHOOSE i \in DOMAIN sessions : sessions[i].cp = c])]
    /\ mu' = [mu EXCEPT !.rec = None, !.sub = [u \in Subscribers |-> None],
                        !.ses = [i \in 1..MaxID |-> None]]
    /\ proc' = [p \in Procs |-> Idle]
    /\ UNCHANGED <<sessions, nextID, recovery, counter, faults>>

Step(p) ==
    \/ observeRecovery(p) \/ purgeSession(p) \/ purged(p)
    \/ removeUP(p) \/ removeStore(p) \/ removeRelease(p)
    \/ createSession(p) \/ replaceCreateCollision(p) \/ allocate(p)
    \/ establish(p) \/ create(p) \/ undo(p) \/ giveBack(p)
    \/ FindByControlTEID(p) \/ modifyBearer(p) \/ updateUP(p) \/ updateStore(p) \/ updateBack(p)
    \/ deleteSession(p) \/ deleteLocked(p)

(* An Echo Request changes nothing here and is answered at any time; that  *)
(* no handler is stuck is what HandlersReturn says.                        *)
echoResponse == UNCHANGED vars

Next ==
    \/ echoResponse
    \/ \E p \in Procs : Receive(p) \/ Step(p)
    \/ \E i \in DOMAIN sessions : DedicatedBearer(i)
    \/ \E w \in SGWs : RestartSGW(w)
    \/ New

Spec == Init /\ [][Next]_vars

(* Goroutines run, and a mutex is not withheld from a goroutine for ever.  *)
FairSpec == Spec /\ \A p \in Procs : SF_vars(Step(p))

-----------------------------------------------------------------------------
Quiet == \A p \in Procs : proc[p].pc = "idle"
Stored == {sessions[i] : i \in DOMAIN sessions}

(* The fields have their types and at most one stored session has an       *)
(* owner, an address, an identifier or a bearer.                           *)
TypeOK ==
    /\ DOMAIN sessions \subseteq 1..nextID /\ nextID \in 0..MaxID
    /\ DOMAIN lease \subseteq Subscribers \X APNs /\ Range(lease) \subseteq Addresses
    /\ held \subseteq Idents /\ DOMAIN up \subseteq Idents
    /\ recovery \in [DOMAIN recovery -> 1..MaxCounter] /\ failures \in 0..2
    /\ \A i, j \in DOMAIN sessions : i # j =>
          /\ sessions[i].ue # sessions[j].ue /\ sessions[i].cp # sessions[j].cp
          /\ leaseOwner(sessions[i]) # leaseOwner(sessions[j])

(* A stored session's address stays leased to its owner and its TEIDs and  *)
(* SEID stay reserved, so that nobody else is given them: while a          *)
(* collision is replaced, a create fails, a purge runs, a store fails.     *)
ResourcesHeld ==
    \A s \in Stored :
        /\ leaseOwner(s) \in DOMAIN lease /\ lease[leaseOwner(s)] = s.ue
        /\ s.cp \in held

(* Once every handler has returned, an address or identifier is taken only *)
(* by a stored session: no failure path of a procedure leaks one.          *)
NothingLeaks ==
    Quiet => /\ DOMAIN lease = {leaseOwner(s) : s \in Stored}
             /\ held = {s.cp : s \in Stored}

(* Once every handler has returned, and if no answer was lost: a stored    *)
(* session is at PGW-U with its tunnel unless the store is poisoned, and   *)
(* with at most one failed call PGW-U has nothing that is not stored.      *)
PlanesAgree ==
    Quiet /\ ~lost =>
        /\ ~poisoned => \A s \in Stored : s.cp \in DOMAIN up /\ up[s.cp] = Installed(s)
        /\ failures <= 1 => \A c \in DOMAIN up : \E s \in Stored :
                                s.cp = c /\ up[c] = Installed(s)

(* A message that got past observeRecovery with a new counter leaves no    *)
(* session of an earlier incarnation of its SGW.                           *)
PurgedFirst ==
    \A w \in DOMAIN recovery : (mu.rec = None /\ Quiet) =>
        \A s \in Stored : s.sgw = w => s.born >= recovery[w]

(* What a purge removes is stale: never a session that the present         *)
(* incarnation of the SGW created.                                         *)
OnlyStalePurged ==
    \A p \in Procs : (removeStore(p) /\ proc[p].why = "purge") =>
        \A i \in DOMAIN sessions \ DOMAIN sessions' : sessions[i].born < counter[sessions[i].sgw]

(* At most one call failed, an answer may have been lost: PGW-U has only   *)
(* sessions that PGW-C stores.                                             *)
RollsBack ==
    Quiet /\ failures <= 1 => \A c \in DOMAIN up : \E s \in Stored : s.cp = c

(* Every message is answered or withheld: no handler waits for ever.       *)
HandlersReturn == \A p \in Procs : (proc[p].pc # "idle") ~> (proc[p].pc = "idle")
=============================================================================
