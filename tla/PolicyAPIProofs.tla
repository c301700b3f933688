-------------------------- MODULE PolicyAPIProofs --------------------------
(***************************************************************************)
(* Proofs that the policy API acts on what it decided from its snapshot,   *)
(* for any number of requests, sessions, policies and bearer identities,   *)
(* and however the sessions share the API's mutexes.                       *)
(***************************************************************************)
EXTENDS PolicyAPI, TLAPS

(* The steps at which a request has the API's mutex of its session, and     *)
(* those at which it is going to change a bearer.                           *)
Acting == {"enter", "entered", "exchange"}
Inside == {"find", "answered"} \cup Acting

(* No two bearers of a session are of the same policy. *)
OnePolicy ==
    \A s \in Sessions : \A e, f \in EBIs :
        installed[s][e] # NoBearer /\ installed[s][f] # NoBearer
          /\ installed[s][e].policy = installed[s][f].policy => e = f

(* What request r has decided.  A bearer to be updated also has the TFT of  *)
(* the request: only its QoS changes.                                       *)
Decided(r) ==
    LET m == input[r] IN
    IF op[r] = "create" THEN findPolicy(m.s, m.p) = {}
    ELSE /\ ebi[r] \in findPolicy(m.s, m.p)
         /\ op[r] = "update" => installed[m.s][ebi[r]].tft = m.tft

(* What request r was answered is so. *)
Stands(r) ==
    LET m == input[r] IN
    /\ answer[r] \in {"created", "updated", "unchanged"} =>
         \E e \in findPolicy(m.s, m.p) : installed[m.s][e].tft = m.tft /\ installed[m.s][e].qos = m.qos
    /\ answer[r] \in {"deleted", "absent"} => findPolicy(m.s, m.p) = {}

RequestInv(r) ==
    /\ step[r] # "idle" => input[r] \in Inputs
    /\ step[r] \in Inside => mutex[lockOf[input[r].s]] = r
    /\ step[r] \in Acting =>
         /\ op[r] \in IF input[r].put THEN {"create", "update"} ELSE {"delete"}
         /\ op[r] # "create" \/ step[r] = "exchange" => ebi[r] \in EBIs
         /\ input[r].s \in live => Decided(r)
    /\ step[r] = "exchange" => input[r].s \in live /\ sessionLock[input[r].s] = r
    /\ step[r] = "answered" /\ input[r].s \in live => Stands(r)

IInv == TypeOK /\ OnePolicy /\ \A r \in Requests : RequestInv(r)

USE PolicyAssumption

-----------------------------------------------------------------------------
(* The shapes of requests and bearers. *)

LEMMA InputFields ==
    ASSUME NEW m \in Inputs
    PROVE  /\ m.s \in Sessions /\ m.p \in PolicyIDs /\ m.put \in BOOLEAN
           /\ m.put => m.ebi \in EBIs \cup {0} /\ m.tft \in TFTs /\ m.qos \in QoS
  BY Zenon DEF Inputs, Puts, Deletes

LEMMA BearerFields ==
    /\ \A b \in Bearers : b # NoBearer
    /\ \A p \in PolicyIDs, t \in TFTs, q \in QoS :
         LET b == [policy |-> p, tft |-> t, qos |-> q] IN
         b \in Bearers /\ b.policy = p /\ b.tft = t /\ b.qos = q
    /\ \A b \in Bearers, q \in QoS :
         LET c == [b EXCEPT !.qos = q] IN
         c \in Bearers /\ c.policy = b.policy /\ c.tft = b.tft /\ c.qos = q
  BY DEF Bearers, NoBearer

-----------------------------------------------------------------------------
(* What the mutex is for: a step that leaves a request where it is, its     *)
(* mutex to it and the bearers of its session alone, leaves what it decided *)
(* or was answered as it is.                                                *)
LEMMA Frame ==
    ASSUME NEW q \in Requests, RequestInv(q),
           step'[q] = step[q], input'[q] = input[q], op'[q] = op[q], ebi'[q] = ebi[q],
           answer'[q] = answer[q], live' \subseteq live,
           step[q] \in Inside =>
             /\ mutex'[lockOf[input[q].s]] = mutex[lockOf[input[q].s]]
             /\ input[q].s \in live' => installed'[input[q].s] = installed[input[q].s],
           step[q] = "exchange" =>
             /\ input[q].s \in live'
             /\ sessionLock'[input[q].s] = sessionLock[input[q].s]
    PROVE  RequestInv(q)'
<1>1. ASSUME step[q] \in Inside, input[q].s \in live'
      PROVE  /\ input[q].s \in live
             /\ Decided(q) => Decided(q)' 
             /\ Stands(q) => Stands(q)'
  <2>1. installed'[input[q].s] = installed[input[q].s] /\ input[q].s \in live
    BY <1>1
  <2>2. findPolicy(input[q].s, input[q].p)' = findPolicy(input[q].s, input[q].p)
    BY <2>1 DEF findPolicy
  <2> QED
    BY <2>1, <2>2 DEF Decided, Stands
<1> QED
  BY <1>1 DEF RequestInv, Inside, Acting

(* Two requests that have the mutexes of their sessions have different      *)
(* sessions.                                                                *)
LEMMA Apart ==
    ASSUME IInv, NEW q \in Requests, NEW r \in Requests, q # r,
           step[q] \in Inside, step[r] \in Inside
    PROVE  lockOf[input[q].s] # lockOf[input[r].s] /\ input[q].s # input[r].s
  BY DEF IInv, RequestInv

(* A step of request r changes nothing of another request. *)
OnlyOf(r) ==
    \A q \in Requests \ {r} :
        /\ step'[q] = step[q] /\ input'[q] = input[q] /\ op'[q] = op[q]
        /\ ebi'[q] = ebi[q] /\ answer'[q] = answer[q]

(* A step of r that changes neither sessions nor bearers nor the mutex of   *)
(* another request preserves the invariant if it does so for r.             *)
LEMMA OthersKept ==
    ASSUME IInv, NEW r \in Requests, OnlyOf(r), UNCHANGED <<live, installed>>,
           \A q \in Requests \ {r} : step[q] \in Inside =>
              mutex'[lockOf[input[q].s]] = mutex[lockOf[input[q].s]],
           \A q \in Requests \ {r} : step[q] = "exchange" =>
              sessionLock'[input[q].s] = sessionLock[input[q].s],
           TypeOK', RequestInv(r)'
    PROVE  IInv'
<1>1. ASSUME NEW q \in Requests \ {r} PROVE RequestInv(q)'
  BY Frame DEF IInv, OnlyOf, RequestInv
<1>2. OnePolicy'
  BY Zenon DEF IInv, OnePolicy
<1> QED
  BY <1>1, <1>2 DEF IInv

LEMMA ReceiveInv ==
    ASSUME IInv, NEW r \in Requests, Receive(r)
    PROVE  IInv'
<1>1. PICK m \in Inputs : input' = [input EXCEPT ![r] = m]
  BY Zenon DEF Receive
<1>2. OnlyOf(r) /\ step'[r] = "slot" /\ input'[r] = m
  BY <1>1 DEF OnlyOf, Receive, Goto, IInv, TypeOK
<1>3. TypeOK'
  BY <1>1 DEF Receive, Goto, locks, IInv, TypeOK
<1>4. RequestInv(r)'
  BY <1>2 DEF RequestInv, Inside, Acting
<1> QED
  BY <1>2, <1>3, <1>4, OthersKept DEF Receive, locks

LEMMA acquireInv ==
    ASSUME IInv, NEW r \in Requests, acquire(r)
    PROVE  IInv'
<1>1. OnlyOf(r) /\ (step'[r] = "idle" \/ (step'[r] = "lock" /\ input'[r] = input[r]))
  BY DEF OnlyOf, acquire, Goto, IInv, TypeOK
<1>2. TypeOK'
  BY DEF acquire, Goto, locks, IInv, TypeOK
<1>3. RequestInv(r)'
  BY <1>1 DEF RequestInv, Inside, Acting, acquire, IInv
<1> QED
  BY <1>1, <1>2, <1>3, OthersKept DEF acquire, locks

LEMMA LockInv ==
    ASSUME IInv, NEW r \in Requests, Lock(r)
    PROVE  IInv'
<1>1. input[r] \in Inputs /\ step[r] = "lock"
  BY DEF Lock, IInv, RequestInv
<1>2. lockOf[input[r].s] \in Locks
  BY <1>1, InputFields
<1>3. OnlyOf(r) /\ step'[r] = "find" /\ input'[r] = input[r] /\ mutex'[lockOf[input[r].s]] = r
  BY <1>2 DEF OnlyOf, Lock, Goto, IInv, TypeOK
<1>4. TypeOK'
  BY <1>2 DEF Lock, Goto, IInv, TypeOK
<1>5. RequestInv(r)'
  BY <1>1, <1>3 DEF RequestInv, Inside, Acting
<1>6. ASSUME NEW q \in Requests \ {r}, step[q] \in Inside
      PROVE  mutex'[lockOf[input[q].s]] = mutex[lockOf[input[q].s]]
  <2>1. mutex[lockOf[input[q].s]] = q /\ mutex[lockOf[input[r].s]] = None /\ q # None
    BY <1>6 DEF IInv, RequestInv, Lock
  <2>2. lockOf[input[q].s] # lockOf[input[r].s]
    BY <2>1
  <2> QED
    BY <1>2, <2>2 DEF Lock, IInv, TypeOK
<1> QED
  BY <1>3, <1>4, <1>5, <1>6, OthersKept DEF Lock

LEMMA putPolicyInv ==
    ASSUME IInv, NEW r \in Requests, putPolicy(r)
    PROVE  IInv'
<1> DEFINE m == input[r]
<1>1. m \in Inputs /\ m.put /\ step[r] = "find" /\ mutex[lockOf[m.s]] = r
  BY Zenon DEF putPolicy, IInv, RequestInv, Inside
<1>2. m.s \in Sessions /\ m.p \in PolicyIDs
  BY <1>1, InputFields
<1>3. UNCHANGED <<live, installed, slots, mutex, subscriberLock, sessionLock, input, served>>
  BY DEF putPolicy, locks
<1>4. CASE \E code \in {"session_not_found", "conflict"} : Answer(r, code) /\ UNCHANGED <<op, ebi>>
  <2>1. PICK code \in {"session_not_found", "conflict"} : Answer(r, code) /\ UNCHANGED <<op, ebi>>
    BY <1>4
  <2>2. OnlyOf(r) /\ step'[r] = "answered" /\ answer'[r] = code
    BY <1>3, <2>1 DEF OnlyOf, Answer, Goto, IInv, TypeOK
  <2>3. TypeOK'
    BY <1>3, <2>1 DEF Answer, Goto, IInv, TypeOK
  <2>4. RequestInv(r)'
    BY <1>1, <1>3, <2>2 DEF RequestInv, Inside, Acting, Stands
  <2> QED
    BY <1>3, <2>2, <2>3, <2>4, OthersKept
<1>5. CASE Answer(r, "unchanged") /\ UNCHANGED <<op, ebi>>
             /\ \E e \in findPolicy(m.s, m.p) : installed[m.s][e].tft = m.tft /\ installed[m.s][e].qos = m.qos
  <2>2. OnlyOf(r) /\ step'[r] = "answered" /\ answer'[r] = "unchanged"
    BY <1>3, <1>5 DEF OnlyOf, Answer, Goto, IInv, TypeOK
  <2>3. TypeOK'
    BY <1>3, <1>5 DEF Answer, Goto, IInv, TypeOK
  <2>4. Stands(r)'
    BY <1>3, <1>5, <2>2, Zenon DEF Stands, findPolicy
  <2>5. RequestInv(r)'
    BY <1>1, <1>3, <2>2, <2>4 DEF RequestInv, Inside, Acting
  <2> QED
    BY <1>3, <2>2, <2>3, <2>5, OthersKept
<1>6. ASSUME NEW e \in findPolicy(m.s, m.p), installed[m.s][e].tft = m.tft,
             Decide(r, "update", e), UNCHANGED answer
      PROVE  IInv'
  <2>1. e \in EBIs
    BY DEF findPolicy
  <2>2. OnlyOf(r) /\ step'[r] = "enter" /\ op'[r] = "update" /\ ebi'[r] = e
    BY <1>3, <1>6 DEF OnlyOf, Decide, Goto, IInv, TypeOK
  <2>3. TypeOK'
    BY <1>3, <1>6, <2>1 DEF Decide, Goto, IInv, TypeOK
  <2>4. Decided(r)'
    BY <1>3, <1>6, <2>2 DEF Decided, findPolicy
  <2>5. RequestInv(r)'
    BY <1>1, <1>3, <2>1, <2>2, <2>4 DEF RequestInv, Inside, Acting
  <2> QED
    BY <1>3, <2>2, <2>3, <2>5, OthersKept
<1>7. CASE findPolicy(m.s, m.p) = {} /\ Decide(r, "create", None) /\ UNCHANGED answer
  <2>2. OnlyOf(r) /\ step'[r] = "enter" /\ op'[r] = "create"
    BY <1>3, <1>7 DEF OnlyOf, Decide, Goto, IInv, TypeOK
  <2>3. TypeOK'
    BY <1>3, <1>7 DEF Decide, Goto, IInv, TypeOK
  <2>4. Decided(r)'
    BY <1>3, <1>7, <2>2 DEF Decided, findPolicy
  <2>5. RequestInv(r)'
    BY <1>1, <1>3, <2>2, <2>4 DEF RequestInv, Inside, Acting
  <2> QED
    BY <1>3, <2>2, <2>3, <2>5, OthersKept
<1> QED
  BY <1>4, <1>5, <1>6, <1>7, Zenon DEF putPolicy

LEMMA deletePolicyInv ==
    ASSUME IInv, NEW r \in Requests, deletePolicy(r)
    PROVE  IInv'
<1> DEFINE m == input[r]
<1>1. m \in Inputs /\ ~m.put /\ step[r] = "find" /\ mutex[lockOf[m.s]] = r
  BY DEF deletePolicy, IInv, RequestInv, Inside
<1>2. m.s \in Sessions /\ m.p \in PolicyIDs
  BY <1>1, InputFields
<1>3. UNCHANGED <<live, installed, slots, mutex, subscriberLock, sessionLock, input, served>>
  BY DEF deletePolicy, locks
<1>4. ASSUME NEW code \in {"session_not_found", "absent"}, Answer(r, code), UNCHANGED <<op, ebi>>,
             code = "absent" => findPolicy(m.s, m.p) = {}
      PROVE  IInv'
  <2>2. OnlyOf(r) /\ step'[r] = "answered" /\ answer'[r] = code
    BY <1>3, <1>4 DEF OnlyOf, Answer, Goto, IInv, TypeOK
  <2>3. TypeOK'
    BY <1>3, <1>4 DEF Answer, Goto, IInv, TypeOK
  <2>4. Stands(r)'
    BY <1>3, <1>4, <2>2 DEF Stands, findPolicy
  <2>5. RequestInv(r)'
    BY <1>1, <1>3, <2>2, <2>4 DEF RequestInv, Inside, Acting
  <2> QED
    BY <1>3, <2>2, <2>3, <2>5, OthersKept
<1>5. ASSUME NEW e \in findPolicy(m.s, m.p), Decide(r, "delete", e), UNCHANGED answer
      PROVE  IInv'
  <2>1. e \in EBIs
    BY DEF findPolicy
  <2>2. OnlyOf(r) /\ step'[r] = "enter" /\ op'[r] = "delete" /\ ebi'[r] = e
    BY <1>3, <1>5 DEF OnlyOf, Decide, Goto, IInv, TypeOK
  <2>3. TypeOK'
    BY <1>3, <1>5, <2>1 DEF Decide, Goto, IInv, TypeOK
  <2>4. Decided(r)'
    BY <1>3, <1>5, <2>2 DEF Decided, findPolicy
  <2>5. RequestInv(r)'
    BY <1>1, <1>3, <2>1, <2>2, <2>4 DEF RequestInv, Inside, Acting
  <2> QED
    BY <1>3, <2>2, <2>3, <2>5, OthersKept
<1> QED
  BY <1>4, <1>5 DEF deletePolicy

LEMMA UnlockInv ==
    ASSUME IInv, NEW r \in Requests, Unlock(r)
    PROVE  IInv'
<1>1. input[r] \in Inputs /\ step[r] = "answered" /\ step[r] \in Inside
  BY DEF Unlock, IInv, RequestInv, Inside
<1>2. lockOf[input[r].s] \in Locks
  BY <1>1, InputFields
<1>3. OnlyOf(r) /\ step'[r] = "release" /\ input'[r] = input[r]
  BY DEF OnlyOf, Unlock, Goto, IInv, TypeOK
<1>4. TypeOK'
  BY <1>2 DEF Unlock, Goto, IInv, TypeOK
<1>5. RequestInv(r)'
  BY <1>1, <1>3 DEF RequestInv, Inside, Acting
<1>6. ASSUME NEW q \in Requests \ {r}, step[q] \in Inside
      PROVE  mutex'[lockOf[input[q].s]] = mutex[lockOf[input[q].s]]
  <2>1. lockOf[input[q].s] # lockOf[input[r].s]
    BY <1>1, <1>6, Apart
  <2> QED
    BY <1>2, <2>1 DEF Unlock, IInv, TypeOK
<1> QED
  BY <1>3, <1>4, <1>5, <1>6, OthersKept DEF Unlock

LEMMA releaseInv ==
    ASSUME IInv, NEW r \in Requests, release(r)
    PROVE  IInv'
<1>1. OnlyOf(r) /\ step'[r] = "idle"
  BY DEF OnlyOf, release, Goto, IInv, TypeOK
<1>2. TypeOK'
  BY DEF release, Goto, locks, IInv, TypeOK
<1>3. RequestInv(r)'
  BY <1>1 DEF RequestInv, Inside, Acting
<1> QED
  BY <1>1, <1>2, <1>3, OthersKept DEF release, locks

(* The session lock of another request that is exchanging messages is not   *)
(* the one of this request's session.                                       *)
LEMMA OtherSession ==
    ASSUME IInv, NEW r \in Requests, step[r] \in Acting,
           \A t \in Sessions \ {input[r].s} : sessionLock'[t] = sessionLock[t]
    PROVE  \A q \in Requests \ {r} : step[q] = "exchange" =>
              sessionLock'[input[q].s] = sessionLock[input[q].s]
<1> SUFFICES ASSUME NEW q \in Requests \ {r}, step[q] = "exchange"
             PROVE  sessionLock'[input[q].s] = sessionLock[input[q].s]
  OBVIOUS
<1>1. step[q] \in Inside /\ step[r] \in Inside /\ input[q] \in Inputs
  BY DEF Inside, Acting, IInv, RequestInv
<1>2. input[q].s # input[r].s /\ input[q].s \in Sessions
  BY <1>1, Apart, InputFields
<1> QED
  BY <1>2

(* A request that changes no bearer is answered with a refusal: from Enter, *)
(* Begin and operationError.                                                *)
LEMMA RefusedInv ==
    ASSUME IInv, NEW r \in Requests, step[r] \in Acting,
           NEW code \in {"session_not_found", "rejected", "failed"}, Answer(r, code),
           subscriberLock' \in [Subscribers -> Requests \cup {None}],
           sessionLock' \in [Sessions -> Requests \cup {None}],
           \A t \in Sessions \ {input[r].s} : sessionLock'[t] = sessionLock[t],
           UNCHANGED <<live, installed, slots, mutex, input, op, ebi, served>>
    PROVE  IInv'
<1>1. input[r] \in Inputs /\ mutex[lockOf[input[r].s]] = r
  BY DEF IInv, RequestInv, Inside, Acting
<1>2. OnlyOf(r) /\ step'[r] = "answered" /\ answer'[r] = code
  BY DEF OnlyOf, Answer, Goto, IInv, TypeOK
<1>3. TypeOK'
  BY DEF Answer, Goto, IInv, TypeOK
<1>4. RequestInv(r)'
  BY <1>1, <1>2 DEF RequestInv, Inside, Acting, Stands
<1> QED
  BY <1>2, <1>3, <1>4, OtherSession, OthersKept

(* A request goes on to its next step with what it has decided: from Enter  *)
(* and Begin.                                                               *)
LEMMA GoesOnInv ==
    ASSUME IInv, NEW r \in Requests, step[r] \in Acting, NEW pc \in Acting, Goto(r, pc),
           subscriberLock' \in [Subscribers -> Requests \cup {None}],
           sessionLock' \in [Sessions -> Requests \cup {None}],
           \A t \in Sessions \ {input[r].s} : sessionLock'[t] = sessionLock[t],
           NEW e \in EBIs \cup {None}, ebi' = [ebi EXCEPT ![r] = e],
           op[r] # "create" => e = ebi[r],
           pc = "exchange" =>
             e \in EBIs /\ input[r].s \in live /\ sessionLock'[input[r].s] = r,
           UNCHANGED <<live, installed, slots, mutex, input, op, answer, served>>
    PROVE  IInv'
<1>1. RequestInv(r)
  BY DEF IInv
<1>2. OnlyOf(r) /\ step'[r] = pc /\ ebi'[r] = e
  BY DEF OnlyOf, Goto, IInv, TypeOK
<1>3. TypeOK'
  BY DEF Goto, IInv, TypeOK, Acting
<1>4. Decided(r) => Decided(r)'
  BY <1>2 DEF Decided, findPolicy
<1>5. RequestInv(r)'
  <2>1. step'[r] \in Acting /\ step'[r] # "answered" /\ step'[r] # "idle" /\ step[r] # "idle"
    BY <1>2 DEF Acting
  <2>2. input'[r] \in Inputs /\ mutex'[lockOf[input'[r].s]] = r
    BY <1>1, <2>1 DEF RequestInv, Inside
  <2>3. /\ op'[r] \in IF input'[r].put THEN {"create", "update"} ELSE {"delete"}
        /\ op'[r] # "create" \/ step'[r] = "exchange" => ebi'[r] \in EBIs
    BY <1>1, <1>2 DEF RequestInv
  <2>4. input'[r].s \in live' => Decided(r)'
    BY <1>1, <1>4 DEF RequestInv
  <2>5. step'[r] = "exchange" => input'[r].s \in live' /\ sessionLock'[input'[r].s] = r
    BY <1>2
  <2> QED
    BY <2>1, <2>2, <2>3, <2>4, <2>5 DEF RequestInv
<1> QED
  BY <1>2, <1>3, <1>5, OtherSession, OthersKept

LEMMA EnterInv ==
    ASSUME IInv, NEW r \in Requests, Enter(r)
    PROVE  IInv'
<1>1. step[r] = "enter" /\ step[r] \in Acting /\ input[r] \in Inputs
  BY DEF Enter, Acting, IInv, RequestInv
<1>2. subscriberOf[input[r].s] \in Subscribers
  BY <1>1, InputFields
<1>3. /\ subscriberLock' \in [Subscribers -> Requests \cup {None}]
      /\ sessionLock' \in [Sessions -> Requests \cup {None}]
      /\ sessionLock' = sessionLock
  BY <1>2 DEF Enter, IInv, TypeOK
<1>4. UNCHANGED <<live, installed, slots, mutex, input, op, ebi, served>>
  BY DEF Enter
<1>5. CASE Answer(r, "session_not_found")
  BY <1>1, <1>3, <1>4, <1>5, RefusedInv
<1>6. CASE Goto(r, "entered") /\ UNCHANGED answer
  <2>1. ebi[r] \in EBIs \cup {None} /\ ebi' = [ebi EXCEPT ![r] = ebi[r]]
    BY <1>4 DEF IInv, TypeOK
  <2> QED
    BY <1>1, <1>3, <1>4, <1>6, <2>1, GoesOnInv, Zenon DEF Acting
<1> QED
  BY <1>5, <1>6 DEF Enter

LEMMA BeginInv ==
    ASSUME IInv, NEW r \in Requests, Begin(r)
    PROVE  IInv'
<1>1. step[r] = "entered" /\ step[r] \in Acting /\ input[r] \in Inputs
  BY DEF Begin, Acting, IInv, RequestInv
<1>2. subscriberOf[input[r].s] \in Subscribers /\ input[r].s \in Sessions
  BY <1>1, InputFields
<1>3. UNCHANGED <<live, installed, slots, mutex, input, op, served>>
  BY DEF Begin
<1>4. ASSUME NEW code \in {"session_not_found", "rejected"}, Leave(r, code),
             UNCHANGED <<sessionLock, ebi>>
      PROVE  IInv'
  <2>1. /\ subscriberLock' \in [Subscribers -> Requests \cup {None}]
        /\ sessionLock' \in [Sessions -> Requests \cup {None}]
    BY <1>2, <1>4 DEF Leave, IInv, TypeOK
  <2> QED
    BY <1>1, <1>3, <1>4, <2>1, RefusedInv DEF Leave
<1>5. ASSUME Goto(r, "exchange"), UNCHANGED <<subscriberLock, answer>>,
             sessionLock' = [sessionLock EXCEPT ![input[r].s] = r], input[r].s \in live,
             IF op[r] = "create"
             THEN \E e \in allocateDedicatedEBI(input[r].s, input[r].ebi) : ebi' = [ebi EXCEPT ![r] = e]
             ELSE UNCHANGED ebi
      PROVE  IInv'
  <2>1. /\ subscriberLock' \in [Subscribers -> Requests \cup {None}]
        /\ sessionLock' \in [Sessions -> Requests \cup {None}]
        /\ sessionLock'[input[r].s] = r
        /\ \A t \in Sessions \ {input[r].s} : sessionLock'[t] = sessionLock[t]
    BY <1>2, <1>5 DEF IInv, TypeOK
  <2>2. \E e \in EBIs : ebi' = [ebi EXCEPT ![r] = e] /\ (op[r] # "create" => e = ebi[r])
    <3>1. CASE op[r] = "create"
      BY <1>5, <3>1 DEF allocateDedicatedEBI
    <3>2. CASE op[r] # "create"
      <4>1. ebi[r] \in EBIs
        BY <1>1, <3>2 DEF IInv, RequestInv
      <4>2. ebi' = [ebi EXCEPT ![r] = ebi[r]]
        BY <1>5, <3>2 DEF IInv, TypeOK
      <4> QED
        BY <4>1, <4>2, Zenon
    <3> QED
      BY <3>1, <3>2
  <2>3. "exchange" \in Acting
    BY DEF Acting
  <2> QED
    BY <1>1, <1>3, <1>5, <2>1, <2>2, <2>3, GoesOnInv, Zenon
<1> QED
  BY <1>4, <1>5 DEF Begin

LEMMA operationErrorInv ==
    ASSUME IInv, NEW r \in Requests, operationError(r)
    PROVE  IInv'
<1>1. step[r] \in Acting /\ input[r] \in Inputs
  BY DEF operationError, Acting, IInv, RequestInv
<1>2. subscriberOf[input[r].s] \in Subscribers /\ input[r].s \in Sessions
  BY <1>1, InputFields
<1>3. /\ subscriberLock' \in [Subscribers -> Requests \cup {None}]
      /\ sessionLock' \in [Sessions -> Requests \cup {None}]
      /\ \A t \in Sessions \ {input[r].s} : sessionLock'[t] = sessionLock[t]
  BY <1>2 DEF operationError, Leave, IInv, TypeOK
<1> QED
  BY <1>1, <1>3, RefusedInv DEF operationError, Leave

LEMMA CommitInv ==
    ASSUME IInv, NEW r \in Requests, Commit(r)
    PROVE  IInv'
<1> DEFINE m == input[r]
           s == m.s
           e == ebi[r]
           b == Result(r)
<1>1. /\ step[r] = "exchange" /\ step[r] \in Inside /\ step[r] \in Acting
      /\ m \in Inputs /\ mutex[lockOf[s]] = r
      /\ s \in live /\ e \in EBIs /\ Decided(r)
      /\ op[r] \in IF m.put THEN {"create", "update"} ELSE {"delete"}
  BY DEF Commit, Inside, Acting, IInv, RequestInv
<1>2. /\ s \in Sessions /\ m.p \in PolicyIDs /\ subscriberOf[s] \in Subscribers
      /\ m.put => m.tft \in TFTs /\ m.qos \in QoS
  BY <1>1, InputFields
<1>3. /\ installed' = [installed EXCEPT ![s][e] = b]
      /\ sessionLock' = [sessionLock EXCEPT ![s] = None]
      /\ subscriberLock' = [subscriberLock EXCEPT ![subscriberOf[s]] = None]
      /\ step' = [step EXCEPT ![r] = "answered"]
      /\ answer' = [answer EXCEPT ![r] = Done(op[r])]
      /\ UNCHANGED <<live, slots, mutex, input, op, ebi, served>>
  BY DEF Commit, Leave, Answer, Goto
<1>4. installed \in [Sessions -> [EBIs -> Bearers \cup {NoBearer}]]
  BY DEF IInv, TypeOK
<1>5. /\ op[r] # "delete" => b \in Bearers /\ b.policy = m.p /\ b.tft = m.tft /\ b.qos = m.qos
      /\ op[r] = "delete" => b = NoBearer
  <2>1. CASE op[r] = "create"
    <3>1. b = [policy |-> m.p, tft |-> m.tft, qos |-> m.qos]
      BY <2>1 DEF Result
    <3> HIDE DEF b
    <3> QED
      BY <1>1, <1>2, <2>1, <3>1, BearerFields
  <2>2. CASE op[r] = "update"
    <3>1. b = [installed[s][e] EXCEPT !.qos = m.qos]
      BY <2>2 DEF Result
    <3>2. installed[s][e] # NoBearer /\ installed[s][e].policy = m.p /\ installed[s][e].tft = m.tft
      BY <1>1, <2>2 DEF Decided, findPolicy
    <3> HIDE DEF b, m, s, e
    <3>3. installed[s][e] \in Bearers
      <4>1. s \in Sessions /\ e \in EBIs
        BY <1>1, <1>2
      <4>2. installed[s][e] \in Bearers \cup {NoBearer}
        BY <1>4, <4>1
      <4> QED
        BY <3>2, <4>2
    <3> QED
      BY <1>1, <1>2, <2>2, <3>1, <3>2, <3>3, BearerFields
  <2>3. CASE op[r] = "delete"
    BY <2>3 DEF Result
  <2> QED
    BY <1>1, <2>1, <2>2, <2>3
<1> HIDE DEF b
<1>6. /\ installed'[s][e] = b
      /\ \A f \in EBIs \ {e} : installed'[s][f] = installed[s][f]
      /\ \A t \in Sessions \ {s} : installed'[t] = installed[t]
  BY <1>1, <1>2, <1>3, <1>4
<1>7. b \in Bearers \cup {NoBearer}
  BY <1>1, <1>5
<1>8. TypeOK'
  <2>1. installed' \in [Sessions -> [EBIs -> Bearers \cup {NoBearer}]]
    BY <1>1, <1>2, <1>3, <1>4, <1>7
  <2>2. Done(op[r]) \in {"created", "updated", "deleted"}
    BY <1>1 DEF Done
  <2> QED
    BY <1>2, <1>3, <2>1, <2>2 DEF IInv, TypeOK
<1>9. \A f \in EBIs \ {e} : installed[s][f] # NoBearer => installed[s][f].policy # m.p
  <2>1. CASE op[r] = "create"
    BY <1>1, <2>1 DEF Decided, findPolicy
  <2>2. CASE op[r] # "create"
    <3>1. installed[s][e] # NoBearer /\ installed[s][e].policy = m.p
      BY <1>1, <2>2 DEF Decided, findPolicy
    <3> HIDE DEF m, s, e
    <3> QED
      BY <1>1, <1>2, <3>1 DEF IInv, OnePolicy
  <2> QED
    BY <2>1, <2>2, Zenon
<1>10. OnePolicy'
  <2>1. ASSUME NEW t \in Sessions, NEW f \in EBIs, NEW g \in EBIs,
               installed'[t][f] # NoBearer, installed'[t][g] # NoBearer,
               installed'[t][f].policy = installed'[t][g].policy
        PROVE  f = g
    <3>1. CASE t # s
      <4>1. installed'[t] = installed[t]
        BY <1>6, <3>1
      <4>2. /\ installed[t][f] # NoBearer /\ installed[t][g] # NoBearer
            /\ installed[t][f].policy = installed[t][g].policy
        BY <2>1, <4>1
      <4> QED
        BY <4>2 DEF IInv, OnePolicy
    <3>2. CASE t = s /\ f # e /\ g # e
      <4>1. installed'[t][f] = installed[t][f] /\ installed'[t][g] = installed[t][g]
        BY <1>6, <3>2, Zenon
      <4>2. /\ installed[t][f] # NoBearer /\ installed[t][g] # NoBearer
            /\ installed[t][f].policy = installed[t][g].policy
        BY <2>1, <4>1
      <4> QED
        BY <4>2 DEF IInv, OnePolicy
    <3>3. CASE t = s /\ f = e /\ g # e
      BY <1>1, <1>5, <1>6, <1>9, <2>1, <3>3
    <3>4. CASE t = s /\ f # e /\ g = e
      BY <1>1, <1>5, <1>6, <1>9, <2>1, <3>4
    <3> QED
      BY <3>1, <3>2, <3>3, <3>4
  <2> QED
    BY <2>1, Zenon DEF OnePolicy
<1>11. RequestInv(r)'
  <2>1. step'[r] = "answered" /\ answer'[r] = Done(op[r])
    BY <1>3 DEF IInv, TypeOK
  <2>2. findPolicy(s, m.p)' = IF op[r] = "delete" THEN {} ELSE {e}
    <3>1. ASSUME NEW f \in EBIs PROVE f \in findPolicy(s, m.p)' <=> op[r] # "delete" /\ f = e
      <4>1. CASE f # e
        BY <1>3, <1>6, <1>9, <4>1 DEF findPolicy
      <4>2. CASE f = e
        BY <1>1, <1>3, <1>5, <1>6, <4>2, BearerFields DEF findPolicy
      <4> QED
        BY <4>1, <4>2
    <3>2. findPolicy(s, m.p)' \subseteq EBIs
      BY DEF findPolicy
    <3> QED
      BY <1>1, <3>1, <3>2, Zenon
  <2>3. Stands(r)'
    <3>1. CASE op[r] = "delete"
      BY <1>3, <2>1, <2>2, <3>1 DEF Stands, Done
    <3>2. CASE op[r] \in {"create", "update"}
      <4>1. Done(op[r]) \in {"created", "updated"}
        BY <3>2 DEF Done
      <4>2. e \in findPolicy(s, m.p)' /\ installed'[s][e].tft = m.tft /\ installed'[s][e].qos = m.qos
        BY <1>5, <1>6, <2>2, <3>2
      <4> QED
        BY <1>3, <2>1, <4>1, <4>2 DEF Stands
    <3> QED
      BY <1>1, <3>1, <3>2
  <2> QED
    BY <1>1, <1>3, <2>1, <2>3 DEF RequestInv, Inside, Acting
<1>12. ASSUME NEW q \in Requests \ {r} PROVE RequestInv(q)'
  <2>1. /\ step'[q] = step[q] /\ input'[q] = input[q] /\ op'[q] = op[q]
        /\ ebi'[q] = ebi[q] /\ answer'[q] = answer[q]
    BY <1>3 DEF IInv, TypeOK
  <2>2. ASSUME step[q] \in Inside
        PROVE  installed'[input[q].s] = installed[input[q].s] /\ sessionLock'[input[q].s] = sessionLock[input[q].s]
    <3>1. input[q].s # s
      BY <1>1, <2>2, Apart
    <3>2. input[q].s \in Sessions
      BY <2>2, InputFields DEF IInv, RequestInv, Inside, Acting
    <3> QED
      BY <1>3, <1>6, <3>1, <3>2 DEF IInv, TypeOK
  <2>3. step[q] = "exchange" => step[q] \in Inside /\ input[q].s \in live'
    BY <1>3 DEF IInv, RequestInv, Inside, Acting
  <2> QED
    BY <1>3, <2>1, <2>2, <2>3, Frame DEF IInv
<1> QED
  BY <1>8, <1>10, <1>11, <1>12 DEF IInv

LEMMA RemoveSessionInv ==
    ASSUME IInv, NEW s \in Sessions, RemoveSession(s)
    PROVE  IInv'
<1>1. /\ live' = live \ {s} /\ sessionLock[s] = None
      /\ installed' = [installed EXCEPT ![s] = [e \in EBIs |-> NoBearer]]
      /\ UNCHANGED <<slots, mutex, subscriberLock, sessionLock, step, input, op, ebi, answer, served>>
  BY DEF RemoveSession, locks
<1>2. /\ \A e \in EBIs : installed'[s][e] = NoBearer
      /\ \A t \in Sessions \ {s} : installed'[t] = installed[t]
  BY <1>1 DEF IInv, TypeOK
<1>3. TypeOK'
  BY <1>1 DEF IInv, TypeOK
<1>4. OnePolicy'
  <2>1. ASSUME NEW t \in Sessions, NEW f \in EBIs, NEW g \in EBIs,
               installed'[t][f] # NoBearer, installed'[t][g] # NoBearer,
               installed'[t][f].policy = installed'[t][g].policy
        PROVE  f = g
    <3>1. t # s
      BY <1>2, <2>1
    <3> QED
      <4>1. installed'[t] = installed[t]
        BY <1>2, <3>1
      <4>2. /\ installed[t][f] # NoBearer /\ installed[t][g] # NoBearer
            /\ installed[t][f].policy = installed[t][g].policy
        BY <2>1, <4>1
      <4> QED
        BY <4>2, Zenon DEF IInv, OnePolicy
  <2> QED
    BY <2>1, Zenon DEF OnePolicy
<1>5. ASSUME NEW q \in Requests PROVE RequestInv(q)'
  <2>1. step[q] \in Inside => input[q] \in Inputs
    BY DEF IInv, RequestInv, Inside, Acting
  <2>2. step[q] \in Inside /\ input[q].s \in live' => installed'[input[q].s] = installed[input[q].s]
    BY <1>1, <1>2, <2>1, InputFields
  <2>3. step[q] = "exchange" => input[q].s \in live /\ sessionLock[input[q].s] = q /\ q # None
    BY Zenon DEF IInv, RequestInv
  <2>4. step[q] = "exchange" => input[q].s \in live'
    BY <1>1, <2>3
  <2> QED
    BY <1>1, <2>2, <2>4, Frame, Zenon DEF IInv
<1> QED
  BY <1>3, <1>4, <1>5 DEF IInv

LEMMA StutterInv ==
    ASSUME IInv, UNCHANGED vars
    PROVE  IInv'
<1>1. UNCHANGED <<live, installed, slots, mutex, subscriberLock, sessionLock, step, input,
                 op, ebi, answer, served>>
  BY DEF vars, locks
<1>2. TypeOK' /\ OnePolicy'
  BY <1>1 DEF IInv, TypeOK, OnePolicy
<1>3. ASSUME NEW q \in Requests PROVE RequestInv(q)'
  BY <1>1, Frame DEF IInv, RequestInv
<1> QED
  BY <1>2, <1>3 DEF IInv

LEMMA InitInv == Init => IInv
<1> SUFFICES ASSUME Init PROVE IInv
  OBVIOUS
<1>1. installed \in [Sessions -> [EBIs -> Bearers \cup {NoBearer}]]
  BY DEF Init
<1>2. TypeOK
  BY <1>1 DEF Init, TypeOK
<1>3. \A s \in Sessions : ValidSession(installed[s])
  BY DEF Init
<1>4. OnePolicy
  BY <1>3, Zenon DEF OnePolicy, ValidSession, Held
<1>5. \A r \in Requests : RequestInv(r)
  BY DEF Init, RequestInv, Inside, Acting
<1> QED
  BY <1>2, <1>4, <1>5 DEF IInv

(* Every step of the API and of the gateway preserves the invariant. *)
LEMMA NextInv == IInv /\ [Next]_vars => IInv'
<1> SUFFICES ASSUME IInv, [Next]_vars PROVE IInv'
  OBVIOUS
<1>1. ASSUME NEW r \in Requests, Receive(r) PROVE IInv'
  BY <1>1, ReceiveInv
<1>2. ASSUME NEW r \in Requests, Handle(r) PROVE IInv'
  BY <1>2, acquireInv, LockInv, putPolicyInv, deletePolicyInv, UnlockInv, releaseInv,
     EnterInv, BeginInv, CommitInv, operationErrorInv DEF Handle
<1>3. ASSUME NEW s \in Sessions, RemoveSession(s) PROVE IInv'
  BY <1>3, RemoveSessionInv
<1>4. CASE Quiet \/ UNCHANGED vars
  BY <1>4, StutterInv DEF Quiet
<1> QED
  BY <1>1, <1>2, <1>3, <1>4 DEF Next

(* The inductive invariant holds in every reachable state. *)
LEMMA Invariance == Spec => []IInv
<1>1. Init => IInv
  BY InitInv
<1>2. IInv /\ [Next]_vars => IInv'
  BY NextInv
<1> QED
  BY <1>1, <1>2, PTL DEF Spec

-----------------------------------------------------------------------------
(* What putPolicy or deletePolicy decided from its snapshot still holds     *)
(* when the gateway acts on it.                                             *)
THEOREM DecisionAlwaysStands == Spec => []DecisionStands
<1>1. IInv => DecisionStands
  BY DEF IInv, RequestInv, DecisionStands, Decided, Acting
<1> QED
  BY <1>1, Invariance, PTL

(* Until it releases the session's mutex, what a request was answered is so. *)
THEOREM AnswerAlwaysStands == Spec => []AnswerStands
<1>1. IInv => AnswerStands
  BY DEF IInv, RequestInv, AnswerStands, Stands
<1> QED
  BY <1>1, Invariance, PTL

(* No session ever has two bearers of one policy, and every variable keeps  *)
(* its shape.                                                               *)
THEOREM PolicyInstalledOnce == Spec => [](TypeOK /\ OnePolicy)
<1>1. IInv => TypeOK /\ OnePolicy
  BY DEF IInv
<1> QED
  BY <1>1, Invariance, PTL
=============================================================================
