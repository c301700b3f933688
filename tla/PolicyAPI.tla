----------------------------- MODULE PolicyAPI -----------------------------
(* The PGW-C policy API: PUT and DELETE of a session's dedicated-bearer    *)
(* policies, and the gateway operations they call.  A request takes a      *)
(* slot, the API's mutex of its session and then the gateway's subscriber  *)
(* and session locks.  It decides what to do, and on which EBI, from a     *)
(* snapshot it reads before it has the gateway's locks; the gateway checks *)
(* that the EBI holds a bearer, not whose bearer it is.                    *)
(* The exchanges with PGW-U and SGW-C are one step that succeeds or fails; *)
(* what they leave behind is the subject of DedicatedBearers.              *)
EXTENDS Naturals, FiniteSets

CONSTANTS
    Requests,            \* HTTP requests that may be under way together
    Sessions, PolicyIDs, TFTs, QoS,
    EBIs,                \* the bearer identities a UE has, 5..15
    defaultEBI,          \* of each session
    Subscribers, subscriberOf,
    Locks, lockOf,       \* locks[byte(sessionID)]: sessions may share a mutex
    MaxInFlight, MaxDedicatedBearers,
    MaxRequests,         \* bound on the requests of a behaviour
    None

ASSUME PolicyAssumption ==
    /\ EBIs \subseteq Nat \ {0}
    /\ lockOf \in [Sessions -> Locks]
    /\ subscriberOf \in [Sessions -> Subscribers]
    /\ defaultEBI \in [Sessions -> EBIs]
    /\ None \notin Requests \cup EBIs \cup PolicyIDs

VARIABLES
    live,                \* the sessions the PGW-C store has
    installed,           \* DedicatedBearers of each: the bearer at an EBI
    slots,               \* requests that hold an in-flight slot
    mutex,               \* the API's mutexes
    subscriberLock, sessionLock,   \* the gateway's locks
    step, input,         \* of each request
    op, ebi,             \* the gateway operation it decided on, and its EBI
    answer,
    served

locks == <<mutex, subscriberLock, sessionLock>>
vars == <<live, installed, slots, locks, step, input, op, ebi, answer, served>>

NoBearer == [policy |-> None, tft |-> None, qos |-> None]
Bearers == [policy : PolicyIDs, tft : TFTs, qos : QoS]
Puts == [put : {TRUE}, s : Sessions, p : PolicyIDs, ebi : EBIs \cup {0}, tft : TFTs, qos : QoS]
Deletes == [put : {FALSE}, s : Sessions, p : PolicyIDs]
Inputs == Puts \cup Deletes

findPolicy(s, p) == {e \in EBIs : installed[s][e] # NoBearer /\ installed[s][e].policy = p}

Held(b) == {e \in EBIs : b[e] # NoBearer}

\* validate: what the store accepts of a session that it recovers.
ValidSession(b) ==
    /\ Cardinality(Held(b)) <= MaxDedicatedBearers
    /\ \A e, f \in Held(b) : b[e].policy = b[f].policy => e = f

Init ==
    /\ live = Sessions
    /\ installed \in [Sessions -> {b \in [EBIs -> Bearers \cup {NoBearer}] : ValidSession(b)}]
    /\ \A s, t \in Sessions : subscriberOf[s] = subscriberOf[t] =>
         /\ installed[s][defaultEBI[t]] = NoBearer
         /\ s # t => \A e \in EBIs : installed[s][e] = NoBearer \/ installed[t][e] = NoBearer
    /\ slots = {}
    /\ mutex = [l \in Locks |-> None]
    /\ subscriberLock = [u \in Subscribers |-> None]
    /\ sessionLock = [s \in Sessions |-> None]
    /\ step = [r \in Requests |-> "idle"]
    /\ input = [r \in Requests |-> None]
    /\ op = [r \in Requests |-> None]
    /\ ebi = [r \in Requests |-> None]
    /\ answer = [r \in Requests |-> None]
    /\ served = 0

-----------------------------------------------------------------------------
(* The HTTP handlers.                                                      *)

Goto(r, pc) == step' = [step EXCEPT ![r] = pc]
Answer(r, code) == Goto(r, "answered") /\ answer' = [answer EXCEPT ![r] = code]
Decide(r, o, e) == /\ Goto(r, "enter")
                   /\ op' = [op EXCEPT ![r] = o]
                   /\ ebi' = [ebi EXCEPT ![r] = e]

\* A request that fails validation is answered 400 here and has no effect.
Receive(r) ==
    /\ step[r] = "idle" /\ served < MaxRequests
    /\ \E m \in Inputs : input' = [input EXCEPT ![r] = m]
    /\ served' = served + 1
    /\ Goto(r, "slot")
    /\ UNCHANGED <<live, installed, slots, locks, op, ebi, answer>>

\* A full channel is answered 503 at once.
acquire(r) ==
    /\ step[r] = "slot"
    /\ IF Cardinality(slots) < MaxInFlight
       THEN slots' = slots \cup {r} /\ Goto(r, "lock") /\ UNCHANGED input
       ELSE UNCHANGED slots /\ Goto(r, "idle") /\ input' = [input EXCEPT ![r] = None]
    /\ UNCHANGED <<live, installed, locks, op, ebi, answer, served>>

\* Mutant: the mutex of the session is not waited for.
LockShared(r) ==
    /\ step[r] = "lock"
    /\ mutex' = [mutex EXCEPT ![lockOf[input[r].s]] = r]
    /\ Goto(r, "find")
    /\ UNCHANGED <<live, installed, slots, subscriberLock, sessionLock, input, op, ebi, answer, served>>
Lock(r) ==
    /\ step[r] = "lock"
    /\ LET l == lockOf[input[r].s] IN mutex[l] = None /\ mutex' = [mutex EXCEPT ![l] = r]
    /\ Goto(r, "find")
    /\ UNCHANGED <<live, installed, slots, subscriberLock, sessionLock, input, op, ebi, answer, served>>

\* After the lock: the snapshot, and what it says must be done.
putPolicy(r) ==
    LET m == input[r] IN
    /\ step[r] = "find" /\ m.put
    /\ \/ /\ m.s \notin live
          /\ Answer(r, "session_not_found") /\ UNCHANGED <<op, ebi>>
       \/ /\ m.s \in live
          /\ \E e \in findPolicy(m.s, m.p) :
               \/ /\ (m.ebi \notin {0, e} \/ installed[m.s][e].tft # m.tft)
                  /\ Answer(r, "conflict") /\ UNCHANGED <<op, ebi>>
               \/ /\ m.ebi \in {0, e} /\ installed[m.s][e].tft = m.tft /\ installed[m.s][e].qos = m.qos
                  /\ Answer(r, "unchanged") /\ UNCHANGED <<op, ebi>>
               \/ /\ m.ebi \in {0, e} /\ installed[m.s][e].tft = m.tft /\ installed[m.s][e].qos # m.qos
                  /\ Decide(r, "update", e) /\ UNCHANGED answer
       \/ /\ m.s \in live /\ findPolicy(m.s, m.p) = {}
          /\ Decide(r, "create", None) /\ UNCHANGED answer
    /\ UNCHANGED <<live, installed, slots, locks, input, served>>

deletePolicy(r) ==
    LET m == input[r] IN
    /\ step[r] = "find" /\ ~m.put
    /\ \/ /\ m.s \notin live
          /\ Answer(r, "session_not_found") /\ UNCHANGED <<op, ebi>>
       \/ /\ m.s \in live /\ findPolicy(m.s, m.p) = {}
          /\ Answer(r, "absent") /\ UNCHANGED <<op, ebi>>
       \/ /\ m.s \in live
          /\ \E e \in findPolicy(m.s, m.p) : Decide(r, "delete", e) /\ UNCHANGED answer
    /\ UNCHANGED <<live, installed, slots, locks, input, served>>

\* The deferred calls: the mutex first, then the slot.
Unlock(r) ==
    /\ step[r] = "answered"
    /\ mutex' = [mutex EXCEPT ![lockOf[input[r].s]] = None]
    /\ Goto(r, "release")
    /\ UNCHANGED <<live, installed, slots, subscriberLock, sessionLock, input, op, ebi, answer, served>>

release(r) ==
    /\ step[r] = "release"
    /\ slots' = slots \ {r}
    /\ Goto(r, "idle")
    /\ input' = [input EXCEPT ![r] = None]
    /\ op' = [op EXCEPT ![r] = None]
    /\ ebi' = [ebi EXCEPT ![r] = None]
    /\ answer' = [answer EXCEPT ![r] = None]
    /\ UNCHANGED <<live, installed, locks, served>>

-----------------------------------------------------------------------------
(* CreateDedicatedBearer, UpdateDedicatedBearer and DeleteDedicatedBearer. *)

\* The session is looked up once without a lock, to know its subscriber.
Enter(r) ==
    LET s == input[r].s
        u == subscriberOf[s] IN
    /\ step[r] = "enter"
    /\ \/ s \notin live /\ Answer(r, "session_not_found") /\ UNCHANGED subscriberLock
       \/ /\ s \in live /\ subscriberLock[u] = None
          /\ subscriberLock' = [subscriberLock EXCEPT ![u] = r]
          /\ Goto(r, "entered") /\ UNCHANGED answer
    /\ UNCHANGED <<live, installed, slots, mutex, sessionLock, input, op, ebi, served>>

inUse(s, e) ==
    \E t \in live : /\ subscriberOf[t] = subscriberOf[s]
                   /\ (e = defaultEBI[t] \/ installed[t][e] # NoBearer)

\* The EBI that was asked for or else the first free one, if it is free.
allocateDedicatedEBI(s, requested) ==
    {e \in EBIs : /\ ~inUse(s, e)
                 /\ IF requested # 0 THEN e = requested ELSE \A f \in EBIs : f < e => inUse(s, f)}

Creatable(m) ==
    /\ Cardinality(Held(installed[m.s])) < MaxDedicatedBearers
    /\ findPolicy(m.s, m.p) = {}
    /\ allocateDedicatedEBI(m.s, m.ebi) # {}
Changeable(r) == installed[input[r].s][ebi[r]] # NoBearer

Leave(r, code) ==
    /\ Answer(r, code)
    /\ subscriberLock' = [subscriberLock EXCEPT ![subscriberOf[input[r].s]] = None]

\* Under both locks the session and the bearer are looked up again.
Begin(r) ==
    LET m == input[r] IN
    /\ step[r] = "entered" /\ sessionLock[m.s] = None
    /\ \/ /\ m.s \notin live
          /\ Leave(r, "session_not_found") /\ UNCHANGED <<sessionLock, ebi>>
       \/ /\ m.s \in live
          /\ IF op[r] = "create" THEN ~Creatable(m) ELSE ~Changeable(r)
          /\ Leave(r, "rejected") /\ UNCHANGED <<sessionLock, ebi>>
       \/ /\ m.s \in live
          /\ IF op[r] = "create"
             THEN Creatable(m) /\ \E e \in allocateDedicatedEBI(m.s, m.ebi) : ebi' = [ebi EXCEPT ![r] = e]
             ELSE Changeable(r) /\ UNCHANGED ebi
          /\ sessionLock' = [sessionLock EXCEPT ![m.s] = r]
          /\ Goto(r, "exchange") /\ UNCHANGED <<subscriberLock, answer>>
    /\ UNCHANGED <<live, installed, slots, mutex, input, op, served>>

\* Mutant: an update leaves the QoS.
ResultKeepsQoS(r) ==
    LET m == input[r] IN
    CASE op[r] = "create" -> [policy |-> m.p, tft |-> m.tft, qos |-> m.qos]
      [] op[r] = "update" -> installed[m.s][ebi[r]]
      [] op[r] = "delete" -> NoBearer
Result(r) ==
    LET m == input[r] IN
    CASE op[r] = "create" -> [policy |-> m.p, tft |-> m.tft, qos |-> m.qos]
      [] op[r] = "update" -> [installed[m.s][ebi[r]] EXCEPT !.qos = m.qos]
      [] op[r] = "delete" -> NoBearer
Done(o) == CASE o = "create" -> "created" [] o = "update" -> "updated" [] o = "delete" -> "deleted"

\* Both peers accepted, and store.Update found the revision unchanged.
Commit(r) ==
    /\ step[r] = "exchange"
    /\ installed' = [installed EXCEPT ![input[r].s][ebi[r]] = Result(r)]
    /\ sessionLock' = [sessionLock EXCEPT ![input[r].s] = None]
    /\ Leave(r, Done(op[r]))
    /\ UNCHANGED <<live, slots, mutex, input, op, ebi, served>>

\* Mutant: a failed exchange is tried again.
RetryOnError(r) ==
    /\ step[r] = "exchange"
    /\ sessionLock' = [sessionLock EXCEPT ![input[r].s] = None]
    /\ Goto(r, "entered")
    /\ UNCHANGED <<live, installed, slots, mutex, subscriberLock, input, op, ebi, answer, served>>

\* A peer refused or did not answer, the QCI needs another PGW-U address, or
\* the journal failed: the store keeps what it had.
operationError(r) ==
    /\ step[r] = "exchange"
    /\ sessionLock' = [sessionLock EXCEPT ![input[r].s] = None]
    /\ Leave(r, "failed")
    /\ UNCHANGED <<live, installed, slots, mutex, input, op, ebi, served>>

\* A Delete Session Request, a colliding Create Session Request or a restart
\* of the SGW-C ends the session, under the gateway's session lock alone.
RemoveSession(s) ==
    /\ s \in live /\ sessionLock[s] = None
    /\ live' = live \ {s}
    /\ installed' = [installed EXCEPT ![s] = [e \in EBIs |-> NoBearer]]
    /\ UNCHANGED <<slots, locks, step, input, op, ebi, answer, served>>

-----------------------------------------------------------------------------

Handle(r) ==
    \/ acquire(r) \/ Lock(r) \/ putPolicy(r) \/ deletePolicy(r) \/ Unlock(r) \/ release(r)
    \/ Enter(r) \/ Begin(r) \/ Commit(r) \/ operationError(r)
\* The bound on requests is reached and all were answered.
Quiet == served = MaxRequests /\ (\A r \in Requests : step[r] = "idle") /\ UNCHANGED vars

Next ==
    \/ \E r \in Requests : Receive(r) \/ Handle(r)
    \/ \E s \in Sessions : RemoveSession(s)
    \/ Quiet
Spec == Init /\ [][Next]_vars

\* The server's goroutines run on, and a Go mutex is handed to a waiter that
\* has waited long enough.
Fairness == \A r \in Requests : SF_vars(Handle(r))

-----------------------------------------------------------------------------
(* Properties *)

\* Every variable has its shape.
TypeOK ==
    /\ live \subseteq Sessions
    /\ installed \in [Sessions -> [EBIs -> Bearers \cup {NoBearer}]]
    /\ slots \subseteq Requests
    /\ mutex \in [Locks -> Requests \cup {None}]
    /\ subscriberLock \in [Subscribers -> Requests \cup {None}]
    /\ sessionLock \in [Sessions -> Requests \cup {None}]
    /\ step \in [Requests -> {"idle", "slot", "lock", "find", "enter", "entered", "exchange", "answered", "release"}]
    /\ input \in [Requests -> Inputs \cup {None}]
    /\ op \in [Requests -> {"create", "update", "delete", None}]
    /\ ebi \in [Requests -> EBIs \cup {None}]
    /\ answer \in [Requests -> {"session_not_found", "conflict", "unchanged", "absent", "rejected",
                                "created", "updated", "deleted", "failed", None}]
    /\ served \in Nat

\* What a request decided from its snapshot still holds when the gateway acts
\* on it: a policy to be created is absent, so concurrent identical PUTs create
\* once (TestConcurrentPolicyPutCreatesExactlyOnce), and the EBI to be updated
\* or deleted holds the bearer of this policy and not of one that took the EBI
\* over meanwhile, which the gateway does not check.
DecisionStands ==
    \A r \in Requests : step[r] \in {"enter", "entered", "exchange"} /\ input[r].s \in live =>
        LET m == input[r] IN
        IF op[r] = "create" THEN findPolicy(m.s, m.p) = {} ELSE ebi[r] \in findPolicy(m.s, m.p)

\* Until it releases the session's mutex, what a request was answered is so:
\* after created, updated or unchanged the policy is installed with the TFT and
\* the QoS of the request, after deleted or absent it is not there.
AnswerStands ==
    \A r \in Requests : step[r] = "answered" /\ input[r].s \in live =>
        LET m == input[r] IN
        /\ answer[r] \in {"created", "updated", "unchanged"} =>
             \E e \in findPolicy(m.s, m.p) : installed[m.s][e].tft = m.tft /\ installed[m.s][e].qos = m.qos
        /\ answer[r] \in {"deleted", "absent"} => findPolicy(m.s, m.p) = {}

\* Every request ends: no request waits for ever for a slot's holder, a mutex
\* or a lock of the gateway.
EveryRequestEnds == \A r \in Requests : step[r] = "slot" ~> step[r] = "idle"
=============================================================================
