-------------------------- MODULE SxRecoveryProofs --------------------------
(***************************************************************************)
(* Proofs about recovery over Sxa: type correctness, which includes that   *)
(* no UP-SEID names two sessions, and that no replay or create installs a  *)
(* session that is gone.  The second needs to know why a handler of SGW-U  *)
(* still has a live request: a replay holds the lock of its session, which *)
(* keeps every delete away from it, and a create is the only procedure     *)
(* whose request establishes.                                              *)
(***************************************************************************)
EXTENDS SxRecovery, TLAPS

(* A handler inside the establishment path works on an establishment, and  *)
(* carries the session and, from the lookup or the allocation on, a UP-SEID. *)
Path(c) ==
    /\ c.at \in {"reconcile", "reaffirm", "create", "own"} => c.kind = "establish"
    /\ c.kind = "establish" => c.s \in Sessions
    /\ c.at \in {"reaffirm", "own"} => c.seid \in SEIDs
Handlers == \A t \in Threads : Path(call[t])

(* The heartbeat loop itself establishes nothing; its workers do. *)
MainCalls == call["main"].kind # "establish"

(* lockSet: while a replay is under way its session is stored, and no       *)
(* delete has begun for it.                                                 *)
Replays ==
    \A s \in Sessions : call[s] # NoCall =>
        call[s].s = s /\ store[s] # 0 /\ ~(Deleting /\ proc.s = s)

(* A create is for a CP-SEID that is not stored, and an establishment whose *)
(* procedure still waits is that of the create in progress.                 *)
Procedures ==
    /\ Creating => store[proc.s] = 0
    /\ call["proc"].kind = "establish" /\ call["proc"].caller =>
           proc.op = "create" /\ proc.s = call["proc"].s

IInv == TypeOK /\ Handlers /\ MainCalls /\ Replays /\ Procedures

-----------------------------------------------------------------------------
(* The transactions of SGW-C's threads as records.                          *)

Places == {"idle", "sent", "lost", "done", "begin", "reconcile", "reaffirm", "create", "own",
           "disown", "take", "purge"}
Causes == {"none", "accepted", "rejected", "notfound"}

(* The threads are told apart. *)
LEMMA ThreadsDiffer ==
    /\ "main" \in Threads /\ "proc" \in Threads /\ Sessions \subseteq Threads
    /\ "main" \notin Sessions /\ "proc" \notin Sessions /\ NoSession \notin Sessions
    /\ 0 \notin SEIDs
  BY SessionsAssumption DEF Threads

(* No transaction. *)
LEMMA NoCallFields ==
    /\ NoCall \in CallState /\ Path(NoCall)
    /\ NoCall.kind = "none" /\ NoCall.at = "idle" /\ NoCall.caller = TRUE
    /\ NoCall.ids = {} /\ NoCall.seid = 0
  BY DEF NoCall, CallState, Seids, Path

(* A request as it is sent, or lost at once when the link is down: of the   *)
(* heartbeat loop, and of a replay or create.                               *)
LEMMA MainFields ==
    ASSUME NEW kind \in {"setup", "update"}, NEW c, c = Request(kind, NoSession, 0)
    PROVE  c \in CallState /\ Path(c) /\ c.kind = kind
  BY Zenon DEF Request, NoCall, CallState, Path, Seids

LEMMA EstablishFields ==
    ASSUME NEW s \in Sessions, NEW c, c = Request("establish", s, 0)
    PROVE  c \in CallState /\ Path(c) /\ c.kind = "establish" /\ c.s = s /\ c.caller = TRUE
  BY Zenon DEF Request, NoCall, CallState, Path, Seids

(* The fields a handler may change keep a transaction's type. *)
LEMMA FieldUpdates ==
    ASSUME NEW c \in CallState
    PROVE  /\ \A at \in Places : [c EXCEPT !.at = at] \in CallState
           /\ \A cause \in Causes :
                 [c EXCEPT !.at = "done", !.cause = cause, !.ids = {}] \in CallState
           /\ \A at \in Places, seid \in SEIDs :
                 [c EXCEPT !.at = at, !.seid = seid] \in CallState
           /\ \A at \in Places, ids \in SUBSET SEIDs :
                 [c EXCEPT !.at = at, !.ids = ids] \in CallState
           /\ \A ids \in SUBSET SEIDs : [c EXCEPT !.ids = ids] \in CallState
           /\ [c EXCEPT !.caller = FALSE] \in CallState
           /\ [c EXCEPT !.fresh = FALSE] \in CallState
           /\ [c EXCEPT !.at = "lost", !.ids = {}] \in CallState
<1>1. \A at \in Places : [c EXCEPT !.at = at] \in CallState
  BY Zenon DEF CallState, Places
<1>2. \A cause \in Causes :
         [c EXCEPT !.at = "done", !.cause = cause, !.ids = {}] \in CallState
  BY Zenon DEF CallState, Causes
<1>3. \A at \in Places, seid \in SEIDs : [c EXCEPT !.at = at, !.seid = seid] \in CallState
  BY Zenon DEF CallState, Places, Seids
<1>4. \A at \in Places, ids \in SUBSET SEIDs : [c EXCEPT !.at = at, !.ids = ids] \in CallState
  BY Zenon DEF CallState, Places
<1>5. \A ids \in SUBSET SEIDs : [c EXCEPT !.ids = ids] \in CallState
  BY Zenon DEF CallState
<1>6. [c EXCEPT !.caller = FALSE] \in CallState /\ [c EXCEPT !.fresh = FALSE] \in CallState
  BY Zenon DEF CallState
<1>7. [c EXCEPT !.at = "lost", !.ids = {}] \in CallState
  BY Zenon DEF CallState
<1> QED
  BY <1>1, <1>2, <1>3, <1>4, <1>5, <1>6, <1>7, Zenon

-----------------------------------------------------------------------------
(* Steps that change at most one transaction.                               *)

Transactions ==
    call \in [Threads -> CallState] /\ Handlers /\ MainCalls /\ Replays /\ Procedures

(* Nothing that concerns transactions changes. *)
LEMMA NoCallChanges ==
    ASSUME IInv, UNCHANGED <<call, store, proc>>
    PROVE  Transactions'
  BY DEF IInv, TypeOK, Transactions, Handlers, Path, MainCalls, Replays, Procedures, Creating,
         Deleting

(* One thread's transaction becomes c. *)
LEMMA OneCall ==
    ASSUME IInv, NEW t \in Threads, NEW c \in CallState, Path(c),
           call' = [call EXCEPT ![t] = c], UNCHANGED <<store, proc>>,
           t = "main" => c.kind # "establish",
           t \in Sessions /\ c # NoCall =>
               c.s = t /\ store[t] # 0 /\ ~(Deleting /\ proc.s = t),
           t = "proc" /\ c.kind = "establish" /\ c.caller =>
               proc.op = "create" /\ proc.s = c.s
    PROVE  Transactions'
<1>1. call' \in [Threads -> CallState] /\ \A r \in Threads : call'[r] = IF r = t THEN c ELSE call[r]
  BY DEF IInv, TypeOK
<1>2. Handlers'
  BY <1>1 DEF IInv, Handlers, Path
<1>3. MainCalls'
  BY <1>1, ThreadsDiffer DEF IInv, MainCalls
<1>4. Replays'
  BY <1>1, ThreadsDiffer DEF IInv, Replays, Deleting
<1>5. Procedures'
  BY <1>1, ThreadsDiffer DEF IInv, Procedures, Creating
<1> QED
  BY <1>1, <1>2, <1>3, <1>4, <1>5 DEF Transactions

(* A thread has its answer, or its handler's caller is gone. *)
LEMMA EndCall ==
    ASSUME IInv, NEW t \in Threads, call' = [call EXCEPT ![t] = NoCall],
           UNCHANGED <<store, proc>>
    PROVE  Transactions'
  BY OneCall, NoCallFields, Zenon

(* The heartbeat loop sends a request that is no establishment. *)
LEMMA MainRequest ==
    ASSUME IInv, NEW kind \in {"setup", "update"},
           call' = [call EXCEPT !["main"] = Request(kind, NoSession, 0)],
           UNCHANGED <<store, proc>>
    PROVE  Transactions'
<1> DEFINE c == Request(kind, NoSession, 0)
<1>1. c \in CallState /\ Path(c) /\ c.kind = kind
  BY MainFields
<1> QED
  BY <1>1, OneCall, ThreadsDiffer, Zenon

(* A handler of SGW-U moves on and keeps what the request asked for. *)
LEMMA HandlerMoves ==
    ASSUME IInv, NEW t \in Threads, NEW c \in CallState, Path(c), call[t].at # "idle",
           c.kind = call[t].kind, c.s = call[t].s, c.caller = call[t].caller,
           call' = [call EXCEPT ![t] = c], UNCHANGED <<store, proc>>
    PROVE  Transactions'
<1>1. call[t] # NoCall
  BY NoCallFields
<1>2. t \in Sessions => c.s = t /\ store[t] # 0 /\ ~(Deleting /\ proc.s = t)
  BY <1>1 DEF IInv, Replays
<1>3. t = "main" => c.kind # "establish"
  BY DEF IInv, MainCalls
<1>4. t = "proc" /\ c.kind = "establish" /\ c.caller => proc.op = "create" /\ proc.s = c.s
  BY DEF IInv, Procedures
<1> QED
  BY <1>2, <1>3, <1>4, OneCall, Zenon

(* It moves on within the handler ... *)
LEMMA HandlerAdvances ==
    ASSUME IInv, NEW t \in Threads, NEW at \in Places, call[t].at # "idle",
           at \in {"reconcile", "create"} => call[t].kind = "establish",
           at \notin {"reaffirm", "own"}, Advance(t, at), UNCHANGED <<store, proc>>
    PROVE  Transactions'
<1> DEFINE c == [call[t] EXCEPT !.at = at]
<1>1. call[t] \in CallState /\ c \in CallState
  BY FieldUpdates, Zenon DEF IInv, TypeOK
<1>2. c.at = at /\ c.kind = call[t].kind /\ c.s = call[t].s /\ c.caller = call[t].caller
  BY <1>1 DEF CallState
<1>3. Path(c)
  BY <1>2 DEF IInv, Handlers, Path
<1>4. call' = [call EXCEPT ![t] = c]
  BY DEF Advance
<1> QED
  BY <1>1, <1>2, <1>3, <1>4, HandlerMoves, Zenon

(* ... or responds. *)
LEMMA HandlerResponds ==
    ASSUME IInv, NEW t \in Threads, NEW cause \in Causes, call[t].at # "idle",
           Respond(t, cause), UNCHANGED <<store, proc>>
    PROVE  Transactions'
<1> DEFINE c == [call[t] EXCEPT !.at = "done", !.cause = cause, !.ids = {}]
<1>1. call[t] \in CallState /\ c \in CallState
  BY FieldUpdates, Zenon DEF IInv, TypeOK
<1>2. c.at = "done" /\ c.kind = call[t].kind /\ c.s = call[t].s /\ c.caller = call[t].caller
  BY <1>1 DEF CallState
<1>3. Path(c)
  BY <1>2 DEF IInv, Handlers, Path
<1>4. call' = [call EXCEPT ![t] = c]
  BY Zenon DEF Respond
<1> QED
  BY <1>1, <1>2, <1>3, <1>4, HandlerMoves, Zenon

(* What TypeOK says of everything but the transactions. *)
Types ==
    /\ \A s, r \in Sessions : rules[s] # 0 /\ rules[s] = rules[r] => s = r
    /\ main \in {"down", "assoc", "replay", "complete", "serving"}
    /\ boot \in BOOLEAN /\ association \in BOOLEAN /\ failed \in BOOLEAN
    /\ lastRecovery \in {"none", "current", "old"}
    /\ todo \subseteq Sessions
    /\ store \in [Sessions -> Seids] /\ rules \in [Sessions -> Seids]
    /\ proc \in [op : {"none", "create", "store", "delete", "remove"},
                 s : Sessions \cup {NoSession}, seid : Seids]
    /\ peer \in [state : {"none", "associated", "grace", "reconciling", "unavailable"},
                 current : BOOLEAN]
    /\ owner \subseteq SEIDs /\ pending \subseteq SEIDs
    /\ sweep \in [at : {"idle", "collect", "purge"}, ids : SUBSET SEIDs]
    /\ link \in BOOLEAN
    /\ faults \in [crash : 0..MaxCrashes, restart : 0..MaxRestarts, outage : 0..MaxOutages]

(* The invariant in its two halves, in this state and the next. *)
LEMMA Halves == (IInv <=> Types /\ Transactions) /\ (IInv' <=> Types' /\ Transactions')
  BY DEF IInv, TypeOK, Types, Transactions

(* Rules that lose the sessions with one UP-SEID keep their type. *)
LEMMA WithoutTyped ==
    ASSUME Types, NEW seid, rules' = Without(seid)
    PROVE  /\ rules' \in [Sessions -> Seids]
           /\ \A s, r \in Sessions : rules'[s] # 0 /\ rules'[s] = rules'[r] => s = r
           /\ \A s \in Sessions : rules[s] = 0 => rules'[s] = 0
  BY DEF Types, Without, Seids

-----------------------------------------------------------------------------
(* SGW-C's start-up and heartbeat loop.                                     *)

LEMMA MainInv ==
    ASSUME IInv, CpStart \/ HeartbeatSucceeds \/ MainStep
    PROVE  IInv' /\ UNCHANGED rules
<1>t. Types
  BY Halves
<1> USE ThreadsDiffer
<1>1. CASE CpStart
  <2>1. Transactions'
    BY <1>1, NoCallChanges DEF CpStart
  <2>2. Types'
    BY <1>t, <1>1, Zenon DEF CpStart, Types
  <2> QED
    BY <1>1, <2>1, <2>2, Halves DEF CpStart
<1>2. CASE HeartbeatSucceeds
  <2>1. Transactions'
    BY <1>2, NoCallChanges DEF HeartbeatSucceeds, vars
  <2>t. Types'
    BY <1>t, <1>2, <2>1 DEF HeartbeatSucceeds, vars, Types
  <2> QED
    BY <2>t, <1>2, <2>1, Halves DEF HeartbeatSucceeds, vars
<1>3. CASE HeartbeatFails
  <2>1. Transactions'
    BY <1>3, NoCallChanges DEF HeartbeatFails
  <2>t. Types'
    <3>1. main' = "assoc" /\ association' \in BOOLEAN
      BY <1>3, Zenon DEF HeartbeatFails
    <3>2. lastRecovery' \in {lastRecovery, "current"}
      BY <1>3, Zenon DEF HeartbeatFails
    <3>3. UNCHANGED <<boot, todo, failed, store, proc, up, link, faults>>
      BY <1>3 DEF HeartbeatFails
    <3> QED
      BY <1>t, <3>1, <3>2, <3>3 DEF up, Types
  <2> QED
    BY <2>t, <1>3, <2>1, Halves DEF HeartbeatFails, up
<1>4. CASE SendSetup
  <2>1. Transactions'
    BY <1>4, MainRequest DEF SendSetup, cp
  <2>t. Types'
    BY <1>t, <1>4, <2>1 DEF SendSetup, cp, up, Types
  <2> QED
    BY <2>t, <1>4, <2>1, Halves DEF SendSetup, cp, up
<1>5. CASE Associated
  <2>1. Transactions'
    BY <1>5, EndCall, Zenon DEF Associated
  <2>t. Types'
    <3>1. main' = "replay" /\ association' \in BOOLEAN /\ failed' \in BOOLEAN
      BY <1>5, Zenon DEF Associated
    <3>2. lastRecovery' \in {"old", "current"}
      BY <1>5, Zenon DEF Associated
    <3>3. todo' \subseteq Sessions /\ UNCHANGED <<boot, store, proc, up, link, faults>>
      BY <1>5, Zenon DEF Associated
    <3> QED
      BY <1>t, <3>1, <3>2, <3>3 DEF up, Types
  <2> QED
    BY <2>t, <1>5, <2>1, Halves DEF Associated, up
<1>6. CASE AssociateFails
  <2>1. Transactions'
    BY <1>6, EndCall, Zenon DEF AssociateFails
  <2>t. Types'
    BY <1>t, <1>6, <2>1 DEF AssociateFails, GiveUp, up, Types
  <2> QED
    BY <2>t, <1>6, <2>1, Halves DEF AssociateFails, GiveUp, up
<1>7. CASE ReplayEnds
  <2>1. Transactions'
    BY <1>7, NoCallChanges, MainRequest DEF ReplayEnds
  <2>2. main' \in {"complete", "down", "serving"}
    BY <1>7 DEF ReplayEnds, GiveUp
  <2>3. UNCHANGED <<boot, association, lastRecovery, todo, failed, store, proc, up, link, faults>>
    BY <1>7 DEF ReplayEnds
  <2>t. Types'
    BY <1>t, <2>1, <2>2, <2>3 DEF up, Types
  <2> QED
    BY <2>t, <2>1, <2>2, <2>3, Halves DEF up
<1>8. CASE Completed
  <2>1. Transactions'
    BY <1>8, EndCall, Zenon DEF Completed
  <2>2. main' = "serving" /\ boot' \in BOOLEAN
    BY <1>8, Zenon DEF Completed
  <2>3. UNCHANGED <<association, lastRecovery, todo, failed, store, proc, up, link, faults>>
    BY <1>8 DEF Completed
  <2>t. Types'
    BY <1>t, <2>1, <2>2, <2>3 DEF up, Types
  <2> QED
    BY <2>t, <2>1, <2>2, <2>3, Halves DEF up
<1>9. CASE CompleteFails
  <2>1. Transactions'
    BY <1>9, EndCall, Zenon DEF CompleteFails
  <2>t. Types'
    BY <1>t, <1>9, <2>1 DEF CompleteFails, GiveUp, up, Types
  <2> QED
    BY <2>t, <1>9, <2>1, Halves DEF CompleteFails, GiveUp, up
<1> QED
  BY <1>1, <1>2, <1>3, <1>4, <1>5, <1>6, <1>7, <1>8, <1>9 DEF MainStep

-----------------------------------------------------------------------------
(* Replay workers and procedures.                                           *)

LEMMA WorkerInv ==
    ASSUME IInv, NEW s \in Sessions, WorkerStep(s)
    PROVE  IInv' /\ UNCHANGED rules
<1>t. Types
  BY Halves
<1> USE ThreadsDiffer
<1>1. CASE Replay(s)
  <2>1. Transactions'
    <3> DEFINE c == Request("establish", s, 0)
    <3>1. CASE UNCHANGED call
      BY <1>1, <3>1, NoCallChanges DEF Replay
    <3>2. CASE store[s] # 0 /\ call' = [call EXCEPT ![s] = c]
      <4>1. c \in CallState /\ Path(c) /\ c.kind = "establish" /\ c.s = s
        BY EstablishFields, Zenon
      <4>2. UNCHANGED <<store, proc>> /\ ~(Deleting /\ proc.s = s)
        BY <1>1 DEF Replay, Locked
      <4> HIDE DEF c
      <4> QED
        BY <3>2, <4>1, <4>2, OneCall, Zenon
    <3> QED
      BY <1>1, <3>1, <3>2 DEF Replay
  <2>2. todo' \subseteq todo
    BY <1>1 DEF Replay
  <2>4. failed' \in BOOLEAN
    BY <1>1, Zenon DEF Replay, IInv, TypeOK
  <2>3. UNCHANGED <<main, boot, association, lastRecovery, store, proc, up, link, faults>>
    BY <1>1 DEF Replay
  <2>t. Types'
    BY <1>t, <2>1, <2>2, <2>3, <2>4 DEF up, Types
  <2> QED
    BY <2>t, <2>1, <2>2, <2>3, <2>4, Halves DEF up
<1>2. CASE Replayed(s)
  <2>1. call[s] \in CallState /\ call[s] # NoCall /\ call[s].seid \in Seids
    BY <1>2, NoCallFields DEF Replayed, Accepted, Answered, IInv, TypeOK, CallState
  <2>2. /\ call' = [call EXCEPT ![s] = NoCall] /\ store' = [store EXCEPT ![s] = call[s].seid]
        /\ proc' = proc
    BY <1>2 DEF Replayed
  <2>3. call' \in [Threads -> CallState] /\ \A r \in Threads : call'[r] = IF r = s THEN NoCall ELSE call[r]
    BY <2>2, NoCallFields DEF IInv, TypeOK
  <2>4. Handlers' /\ MainCalls'
    BY <2>3, NoCallFields DEF IInv, Handlers, Path, MainCalls
  <2>5. \A r \in Sessions : r # s => store'[r] = store[r]
    BY <2>2 DEF IInv, TypeOK
  <2>6. Replays'
    BY <2>2, <2>3, <2>5 DEF IInv, Replays, Deleting
  <2>7. ~(Creating /\ proc.s = s)
    BY <2>1 DEF IInv, Replays, Procedures
  <2>8. Procedures'
    <3>1. Creating => store'[proc.s] = 0
      BY <2>2, <2>7 DEF IInv, TypeOK, Procedures
    <3> QED
      BY <2>2, <2>3, <3>1 DEF IInv, Procedures, Creating
  <2>9. Transactions'
    BY <2>3, <2>4, <2>6, <2>8 DEF Transactions
  <2>t. Types'
    BY <1>t, <1>2, <2>1, <2>9 DEF Replayed, up, Types
  <2> QED
    BY <2>t, <1>2, <2>1, <2>9, Halves DEF Replayed, up
<1>3. CASE ReplayFails(s)
  <2>1. Transactions'
    BY <1>3, EndCall, Zenon DEF ReplayFails
  <2>t. Types'
    BY <1>t, <1>3, <2>1 DEF ReplayFails, up, Types
  <2> QED
    BY <2>t, <1>3, <2>1, Halves DEF ReplayFails, up
<1> QED
  BY <1>1, <1>2, <1>3 DEF WorkerStep

(* A create or a delete begins: its thread has the request c. *)
LEMMA ProcedureBegins ==
    ASSUME IInv, NEW s \in Sessions, NEW c \in CallState, Path(c), c.s = s,
           call' = [call EXCEPT !["proc"] = c], UNCHANGED store, proc'.s = s,
           \/ proc'.op = "create" /\ store[s] = 0 /\ c.kind = "establish"
           \/ proc'.op = "delete" /\ call[s] = NoCall /\ c.kind = "delete",
           proc = NoProc
    PROVE  Transactions'
<1> USE ThreadsDiffer
<1>1. /\ call' \in [Threads -> CallState]
      /\ \A r \in Threads : call'[r] = IF r = "proc" THEN c ELSE call[r]
  BY DEF IInv, TypeOK
<1>2. Handlers' /\ MainCalls'
  BY <1>1 DEF IInv, Handlers, Path, MainCalls
<1>3. Replays'
  BY <1>1 DEF IInv, Replays, Deleting
<1>4. Procedures'
  BY <1>1 DEF IInv, Procedures, Creating
<1> QED
  BY <1>1, <1>2, <1>3, <1>4 DEF Transactions

LEMMA CreateInv ==
    ASSUME IInv, NEW s \in Sessions, Create(s)
    PROVE  IInv' /\ UNCHANGED rules
<1>t. Types
  BY Halves
<1> DEFINE c == Request("establish", s, 0)
<1>1. c \in CallState /\ Path(c) /\ c.kind = "establish" /\ c.s = s
  BY EstablishFields, Zenon
<1>2. /\ call' = [call EXCEPT !["proc"] = c] /\ proc' = [op |-> "create", s |-> s, seid |-> 0]
      /\ store[s] = 0 /\ proc = NoProc
      /\ UNCHANGED <<main, boot, association, lastRecovery, todo, failed, store, up, link, faults>>
  BY DEF Create
<1> HIDE DEF c
<1>3. proc'.op = "create" /\ proc'.s = s
  BY <1>2
<1>4. Transactions'
  BY <1>1, <1>2, <1>3, ProcedureBegins, Zenon
<1>5. Types'
  BY <1>t, <1>2 DEF Types, up, Seids
<1> QED
  BY <1>2, <1>4, <1>5, Halves DEF up

LEMMA DeleteInv ==
    ASSUME IInv, NEW s \in Sessions, Delete(s)
    PROVE  IInv' /\ UNCHANGED rules
<1>t. Types
  BY Halves
<1> DEFINE c == Request("delete", s, store[s])
<1>0. store[s] \in Seids
  BY DEF IInv, TypeOK
<1>1. c \in CallState /\ Path(c) /\ c.kind = "delete" /\ c.s = s
  BY <1>0, Zenon DEF Request, NoCall, CallState, Path
<1>2. /\ call' = [call EXCEPT !["proc"] = c] /\ proc = NoProc
      /\ proc' = [op |-> "delete", s |-> s, seid |-> store[s]]
      /\ call[s] = NoCall
      /\ UNCHANGED <<main, boot, association, lastRecovery, todo, failed, store, up, link, faults>>
  BY DEF Delete, Locked
<1> HIDE DEF c
<1>3. proc'.op = "delete" /\ proc'.s = s
  BY <1>2
<1>4. Transactions'
  BY <1>1, <1>2, <1>3, ProcedureBegins, Zenon
<1>5. Types'
  BY <1>t, <1>0, <1>2 DEF Types, up
<1> QED
  BY <1>2, <1>4, <1>5, Halves DEF up

LEMMA ProcedureInv ==
    ASSUME IInv, ProcStep
    PROVE  IInv' /\ UNCHANGED rules
<1>t. Types
  BY Halves
<1> USE ThreadsDiffer
<1> DEFINE Ended == /\ call' \in [Threads -> CallState]
                    /\ \A r \in Threads : call'[r] = IF r = "proc" THEN NoCall ELSE call[r]
<1>0. ASSUME call' = [call EXCEPT !["proc"] = NoCall]
      PROVE  Ended /\ Handlers' /\ MainCalls'
  <2>1. Ended
    BY <1>0, NoCallFields DEF IInv, TypeOK
  <2> QED
    BY <2>1, NoCallFields DEF IInv, Handlers, Path, MainCalls
<1>1. CASE ProcedureAnswered
  <2>1. /\ call' = [call EXCEPT !["proc"] = NoCall]
        /\ UNCHANGED <<main, boot, association, lastRecovery, todo, failed, store, up, link, faults>>
    BY <1>1 DEF ProcedureAnswered
  <2>2. call["proc"].seid \in Seids
    BY DEF IInv, TypeOK, CallState
  <2>3. /\ proc' \in [op : {"store", "remove"}, s : Sessions \cup {NoSession}, seid : Seids]
        /\ proc'.s = proc.s /\ (proc'.op = "store" <=> proc.op = "create")
    BY <1>1, <2>2, Zenon DEF ProcedureAnswered, IInv, TypeOK
  <2>4. proc.op \in {"create", "store", "delete", "remove"}
    BY <1>1 DEF ProcedureAnswered, IInv, TypeOK
  <2>5. Replays'
    <3> SUFFICES ASSUME NEW s \in Sessions, call'[s] # NoCall
                 PROVE  call'[s].s = s /\ store[s] # 0 /\ proc'.s # s
      BY <2>1 DEF Replays
    <3>1. call'[s] = call[s]
      BY <1>0, <2>1
    <3>2. call[s].s = s /\ store[s] # 0 /\ ~(Deleting /\ proc.s = s)
      BY <3>1 DEF IInv, Replays
    <3>3. ~(Creating /\ proc.s = s)
      BY <3>2 DEF IInv, Procedures
    <3> QED
      BY <2>3, <2>4, <3>1, <3>2, <3>3 DEF Creating, Deleting
  <2>6. Procedures'
    BY <1>0, <2>1, <2>3, NoCallFields DEF IInv, Procedures, Creating
  <2>7. Transactions'
    BY <1>0, <2>1, <2>5, <2>6 DEF Transactions
  <2>t. Types'
    BY <1>t, <2>1, <2>3, <2>7 DEF Types, up
  <2> QED
    BY <2>t, <2>1, <2>3, <2>7, Halves DEF up
<1>2. CASE ProcedureFails
  <2>1. /\ call' = [call EXCEPT !["proc"] = NoCall] /\ proc' = NoProc
        /\ UNCHANGED <<main, boot, association, lastRecovery, todo, failed, store, up, link, faults>>
    BY <1>2 DEF ProcedureFails
  <2>2. proc'.op = "none"
    BY <2>1 DEF NoProc
  <2>3. Replays' /\ Procedures'
    BY <1>0, <2>1, <2>2, NoCallFields DEF IInv, Replays, Procedures, Creating, Deleting
  <2>4. Transactions'
    BY <1>0, <2>1, <2>3 DEF Transactions
  <2>t. Types'
    BY <1>t, <2>1, <2>4 DEF Types, up, NoProc, Seids
  <2> QED
    BY <2>t, <2>1, <2>4, Halves DEF up, NoProc, Seids
<1>3. CASE ProcedureCommits
  <2>1. /\ proc.op \in {"store", "remove"} /\ proc' = NoProc
        /\ store' = [store EXCEPT ![proc.s] = IF proc.op = "store" THEN proc.seid ELSE 0]
        /\ UNCHANGED <<main, boot, association, lastRecovery, todo, failed, call, up, link, faults>>
    BY <1>3 DEF ProcedureCommits
  <2>2. proc'.op = "none"
    BY <2>1 DEF NoProc
  <2>3. store' \in [Sessions -> Seids] /\ \A s \in Sessions : s # proc.s => store'[s] = store[s]
    BY <2>1, Zenon DEF IInv, TypeOK, Seids
  <2>4. Handlers' /\ MainCalls' /\ call' \in [Threads -> CallState]
    BY <2>1 DEF IInv, TypeOK, Handlers, Path, MainCalls
  <2>5. \A s \in Sessions : call[s] # NoCall => s # proc.s
    BY <2>1 DEF IInv, Replays, Procedures, Creating, Deleting
  <2>6. Replays'
    BY <2>1, <2>2, <2>3, <2>5 DEF IInv, Replays, Deleting
  <2>7. Procedures'
    BY <2>1, <2>2 DEF IInv, Procedures, Creating
  <2>8. Transactions'
    BY <2>4, <2>6, <2>7 DEF Transactions
  <2>t. Types'
    BY <1>t, <2>1, <2>3, <2>8 DEF Types, up, NoProc, Seids
  <2> QED
    BY <2>t, <2>1, <2>3, <2>8, Halves DEF up, NoProc, Seids
<1> QED
  BY <1>1, <1>2, <1>3 DEF ProcStep

-----------------------------------------------------------------------------
(* The handlers of SGW-U.                                                   *)

(* The handlers that leave the rules alone. *)
LEMMA QuietHandlerInv ==
    ASSUME IInv, NEW t \in Threads,
           \/ HandleSetup(t) \/ BeginReconciliation(t) \/ HandleEstablish(t) \/ Reaffirm(t)
           \/ Own(t) \/ Disown(t) \/ HandleUpdate(t) \/ CompletePeer(t) \/ Discard(t)
    PROVE  IInv' /\ UNCHANGED rules
<1>t. Types
  BY Halves
<1>0. {"accepted", "rejected", "notfound"} \subseteq Causes
      /\ {"begin", "reconcile", "create", "take", "disown"} \subseteq Places
  BY DEF Causes, Places
<1>1. CASE HandleSetup(t)
  <2>1. /\ call[t].at # "idle" /\ (Advance(t, "begin") \/ Respond(t, "accepted"))
        /\ UNCHANGED <<cp, rules, owner, pending, sweep, link, faults>>
    BY <1>1 DEF HandleSetup
  <2>2. Transactions'
    BY <1>0, <2>1, HandlerAdvances, HandlerResponds DEF cp
  <2>3. call[t].caller \in BOOLEAN
    BY DEF IInv, TypeOK, CallState
  <2>4. peer' \in [state : {"associated", "reconciling"}, current : BOOLEAN]
    BY <1>1, <2>3 DEF HandleSetup
  <2>t. Types'
    BY <1>t, <2>1, <2>2, <2>4 DEF cp, Types
  <2> QED
    BY <2>t, <2>1, <2>2, <2>4, Halves DEF cp
<1>2. CASE BeginReconciliation(t)
  <2>1. Transactions'
    BY <1>0, <1>2, HandlerResponds, Zenon DEF BeginReconciliation, cp
  <2>t. Types'
    BY <1>t, <1>2, <2>1 DEF BeginReconciliation, cp, Types
  <2> QED
    BY <2>t, <1>2, <2>1, Halves DEF BeginReconciliation, cp
<1>3. CASE HandleEstablish(t)
  <2>1. /\ call[t].at # "idle" /\ call[t].kind = "establish"
        /\ Advance(t, "reconcile") \/ Advance(t, "create") \/ Respond(t, "rejected")
        /\ UNCHANGED <<cp, up, link, faults>>
    BY <1>3 DEF HandleEstablish
  <2>2. Transactions'
    BY <1>0, <2>1, HandlerAdvances, HandlerResponds DEF cp
  <2>t. Types'
    BY <1>t, <2>1, <2>2 DEF cp, up, Types
  <2> QED
    BY <2>t, <2>1, <2>2, Halves DEF cp, up
<1>4. CASE Reaffirm(t)
  <2>1. Transactions'
    BY <1>0, <1>4, HandlerResponds, Zenon DEF Reaffirm, cp
  <2>2. call[t].seid \in SEIDs
    BY <1>4 DEF Reaffirm, IInv, Handlers, Path
  <2>t. Types'
    BY <1>t, <1>4, <2>1, <2>2 DEF Reaffirm, cp, Types
  <2> QED
    BY <2>t, <1>4, <2>1, <2>2, Halves DEF Reaffirm, cp
<1>5. CASE Own(t)
  <2>1. Transactions'
    BY <1>0, <1>5, HandlerResponds, Zenon DEF Own, cp
  <2>2. call[t].seid \in SEIDs
    BY <1>5, Zenon DEF Own, IInv, Handlers, Path
  <2>t. Types'
    BY <1>t, <1>5, <2>1, <2>2 DEF Own, cp, Types
  <2> QED
    BY <2>t, <1>5, <2>1, <2>2, Halves, Zenon DEF Own, cp
<1>6. CASE Disown(t)
  <2>1. Transactions'
    BY <1>0, <1>6, HandlerResponds, Zenon DEF Disown, cp
  <2>t. Types'
    BY <1>t, <1>6, <2>1 DEF Disown, cp, Types
  <2> QED
    BY <2>t, <1>6, <2>1, Halves, Zenon DEF Disown, cp
<1>7. CASE HandleUpdate(t)
  <2>1. /\ call[t].at # "idle"
        /\ Advance(t, "take") \/ Respond(t, "accepted") \/ Respond(t, "rejected")
        /\ UNCHANGED <<cp, up, link, faults>>
    BY <1>7 DEF HandleUpdate
  <2>2. Transactions'
    BY <1>0, <2>1, HandlerAdvances, HandlerResponds, Zenon DEF cp
  <2>t. Types'
    BY <1>t, <2>1, <2>2 DEF cp, up, Types
  <2> QED
    BY <2>t, <2>1, <2>2, Halves, Zenon DEF cp, up
<1>8. CASE CompletePeer(t)
  <2>1. Transactions'
    BY <1>0, <1>8, HandlerResponds DEF CompletePeer, cp
  <2>t. Types'
    BY <1>t, <1>8, <2>1 DEF CompletePeer, cp, Types
  <2> QED
    BY <2>t, <1>8, <2>1, Halves DEF CompletePeer, cp
<1>9. CASE Discard(t)
  <2>1. Transactions'
    BY <1>9, EndCall, Zenon DEF Discard, cp
  <2>t. Types'
    BY <1>t, <1>9, <2>1 DEF Discard, cp, up, Types
  <2> QED
    BY <2>t, <1>9, <2>1, Halves DEF Discard, cp, up
<1> QED
  BY <1>1, <1>2, <1>3, <1>4, <1>5, <1>6, <1>7, <1>8, <1>9

(* Reconcile finds the session's UP-SEID. *)
LEMMA ReconcileInv ==
    ASSUME IInv, NEW t \in Threads, Reconcile(t)
    PROVE  IInv' /\ UNCHANGED rules
<1>t. Types
  BY Halves
<1>1. call[t].at = "reconcile" /\ call[t].kind = "establish" /\ call[t].s \in Sessions
      /\ UNCHANGED <<cp, up, link, faults>>
  BY DEF Reconcile, IInv, Handlers, Path
<1>2. Transactions'
  <2>1. CASE Respond(t, "rejected")
    BY <1>1, <2>1, HandlerResponds DEF Causes, cp
  <2>2. CASE /\ rules[call[t].s] # 0
             /\ call' = [call EXCEPT ![t].at = "reaffirm", ![t].seid = rules[call[t].s]]
    <3> DEFINE c == [call[t] EXCEPT !.at = "reaffirm", !.seid = rules[call[t].s]]
    <3>1. call[t] \in CallState /\ rules[call[t].s] \in SEIDs
      BY <1>1, <2>2 DEF IInv, TypeOK, Seids
    <3>2. c \in CallState
      BY <3>1, FieldUpdates, Zenon DEF Places
    <3>3. /\ c.at = "reaffirm" /\ c.kind = call[t].kind /\ c.s = call[t].s
          /\ c.caller = call[t].caller /\ c.seid = rules[call[t].s]
      BY <3>1 DEF CallState
    <3>4. Path(c)
      BY <1>1, <3>1, <3>3 DEF Path
    <3>5. call' = [call EXCEPT ![t] = c]
      BY <2>2, Zenon
    <3> QED
      BY <1>1, <3>2, <3>3, <3>4, <3>5, HandlerMoves, Zenon DEF cp
  <2> QED
    BY <2>1, <2>2 DEF Reconcile
<1>3. Types'
  BY <1>t, <1>1, <1>2 DEF cp, up, Types
<1> QED
  BY <1>3, <1>1, <1>2, Halves DEF cp, up

(* What NoResurrection says of one step. *)
Installed ==
    \A s \in Sessions : rules[s] = 0 /\ rules'[s] # 0 =>
        store[s] # 0 \/ (Creating /\ proc.s = s) \/ ~call["proc"].caller

(* store.Create on SGW-U, the one step that makes rules appear. *)
LEMMA CreateRulesInv ==
    ASSUME IInv, NEW t \in Threads, CreateRules(t)
    PROVE  IInv' /\ Installed
<1>t. Types
  BY Halves
<1>1. call[t].at = "create" /\ call[t].kind = "establish" /\ call[t].s \in Sessions
      /\ UNCHANGED <<cp, peer, owner, pending, sweep, link, faults>>
  BY DEF CreateRules, IInv, Handlers, Path
<1>2. CASE Respond(t, "rejected") /\ UNCHANGED rules
  <2>1. Transactions'
    BY <1>1, <1>2, HandlerResponds DEF Causes, cp
  <2>t. Types'
    BY <1>t, <1>1, <1>2, <2>1 DEF cp, Types
  <2> QED
    BY <2>t, <1>1, <1>2, <2>1, Halves DEF cp, Installed
<1>3. ASSUME NEW seid \in SEIDs \ SEIDsInUse, rules' = [rules EXCEPT ![call[t].s] = seid],
             call' = [call EXCEPT ![t].at = "own", ![t].seid = seid]
      PROVE  IInv' /\ Installed
  <2> DEFINE c == [call[t] EXCEPT !.at = "own", !.seid = seid]
  <2>1. call[t] \in CallState /\ c \in CallState
    BY FieldUpdates, Zenon DEF IInv, TypeOK, Places
  <2>2. /\ c.at = "own" /\ c.kind = call[t].kind /\ c.s = call[t].s
        /\ c.caller = call[t].caller /\ c.seid = seid
    BY <2>1 DEF CallState
  <2>3. Path(c)
    BY <1>1, <2>2 DEF Path
  <2>4. call' = [call EXCEPT ![t] = c]
    BY <1>3, Zenon
  <2>5. Transactions'
    BY <1>1, <2>1, <2>2, <2>3, <2>4, HandlerMoves, Zenon DEF cp
  <2>6. seid \in SEIDs /\ \A s \in Sessions : rules[s] # seid
    BY DEF SEIDsInUse
  <2>7. /\ rules' \in [Sessions -> Seids]
        /\ \A s \in Sessions : rules'[s] = IF s = call[t].s THEN seid ELSE rules[s]
    BY <1>1, <1>3, <2>6 DEF IInv, TypeOK, Seids
  <2>8. \A s, r \in Sessions : rules'[s] # 0 /\ rules'[s] = rules'[r] => s = r
    BY <2>6, <2>7 DEF IInv, TypeOK
  <2>t. Types'
    BY <1>t, <1>1, <2>7, <2>8 DEF cp, Types
  <2>9. IInv'
    BY <2>t, <2>5, Halves
  <2>10. store[call[t].s] # 0 \/ (Creating /\ proc.s = call[t].s) \/ ~call["proc"].caller
    <3>1. CASE t \in Sessions
      BY <1>1, <3>1, NoCallFields DEF IInv, Replays
    <3>2. CASE t = "proc"
      BY <1>1, <3>2, Zenon DEF IInv, Procedures, Creating
    <3>3. t # "main"
      BY <1>1 DEF IInv, MainCalls
    <3> QED
      BY <3>1, <3>2, <3>3 DEF Threads
  <2> QED
    BY <2>7, <2>9, <2>10 DEF Installed
<1> QED
  BY <1>2, <1>3 DEF CreateRules

(* sessionDeletion, and the purge at the end of a reconciliation. *)
LEMMA RemovingHandlerInv ==
    ASSUME IInv, NEW t \in Threads, HandleDelete(t) \/ TakePending(t) \/ PurgePending(t)
    PROVE  IInv' /\ Installed
<1>t. Types
  BY Halves
<1>0. call[t] \in CallState /\ Types
  BY Halves DEF IInv, TypeOK
<1>1. CASE HandleDelete(t)
  <2>1. /\ call[t].at # "idle" /\ UNCHANGED <<cp, peer, owner, pending, sweep, link, faults>>
        /\ \/ Respond(t, "rejected") /\ UNCHANGED rules
           \/ Advance(t, "disown") /\ rules' = Without(call[t].seid)
           \/ Respond(t, "notfound") /\ UNCHANGED rules
    BY <1>1 DEF HandleDelete
  <2>2. Transactions'
    BY <2>1, HandlerAdvances, HandlerResponds, Zenon DEF Causes, Places, cp
  <2>3. /\ rules' \in [Sessions -> Seids]
        /\ \A s, r \in Sessions : rules'[s] # 0 /\ rules'[s] = rules'[r] => s = r
        /\ \A s \in Sessions : rules[s] = 0 => rules'[s] = 0
    <3>1. CASE UNCHANGED rules
      BY <1>0, <3>1 DEF Types
    <3> QED
      BY <1>0, <2>1, <3>1, WithoutTyped
  <2>t. Types'
    BY <1>t, <2>1, <2>2, <2>3 DEF cp, Types
  <2> QED
    BY <2>t, <2>1, <2>2, <2>3, Halves DEF cp, Installed
<1>2. CASE TakePending(t)
  <2> DEFINE c == [call[t] EXCEPT !.at = "purge", !.ids = pending]
  <2>1. /\ call[t].at = "take" /\ pending' = {} /\ call' = [call EXCEPT ![t] = c]
        /\ UNCHANGED <<cp, peer, rules, owner, sweep, link, faults>>
    BY <1>2, Zenon DEF TakePending
  <2>2. c \in CallState
    BY <1>0, FieldUpdates, Zenon DEF Places, Types
  <2>3. c.at = "purge" /\ c.kind = call[t].kind /\ c.s = call[t].s /\ c.caller = call[t].caller
    BY <1>0 DEF CallState
  <2>4. Path(c)
    BY <2>3 DEF IInv, Handlers, Path
  <2>5. Transactions'
    BY <2>1, <2>2, <2>3, <2>4, HandlerMoves, Zenon DEF cp
  <2>t. Types'
    BY <1>t, <2>1, <2>5 DEF cp, Types
  <2> QED
    BY <2>t, <2>1, <2>5, Halves DEF cp, Installed
<1>3. CASE PurgePending(t)
  <2>1. PICK seid \in call[t].ids :
          /\ rules' = Without(seid) /\ owner' = owner \ {seid}
          /\ call' = [call EXCEPT ![t].ids = @ \ {seid}]
    BY <1>3, Zenon DEF PurgePending
  <2> DEFINE c == [call[t] EXCEPT !.ids = call[t].ids \ {seid}]
  <2>2. call[t].at = "purge" /\ UNCHANGED <<cp, peer, pending, sweep, link, faults>>
    BY <1>3 DEF PurgePending
  <2>3. call[t].ids \in SUBSET SEIDs
    BY <1>0 DEF CallState
  <2>4. c \in CallState
    BY <1>0, <2>3, FieldUpdates, Zenon
  <2>5. c.at = "purge" /\ c.kind = call[t].kind /\ c.s = call[t].s /\ c.caller = call[t].caller
    BY <1>0, <2>2 DEF CallState
  <2>6. Path(c) /\ call' = [call EXCEPT ![t] = c]
    BY <2>1, <2>5 DEF IInv, Handlers, Path
  <2>7. Transactions'
    BY <2>2, <2>4, <2>5, <2>6, HandlerMoves, Zenon DEF cp
  <2>8. /\ rules' \in [Sessions -> Seids]
        /\ \A s, r \in Sessions : rules'[s] # 0 /\ rules'[s] = rules'[r] => s = r
        /\ \A s \in Sessions : rules[s] = 0 => rules'[s] = 0
    BY <1>0, <2>1, WithoutTyped
  <2>t. Types'
    BY <1>t, <2>1, <2>2, <2>7, <2>8 DEF cp, Types
  <2> QED
    BY <2>t, <2>1, <2>2, <2>7, <2>8, Halves DEF cp, Installed
<1> QED
  BY <1>1, <1>2, <1>3

-----------------------------------------------------------------------------
(* The sweeper, and the network.                                            *)

LEMMA SweepInv ==
    ASSUME IInv, SweepStep \/ EnterGrace \/ GraceExpires \/ LinkFails \/ LinkHeals
    PROVE  IInv' /\ Installed
<1>t. Types
  BY Halves
<1>1. UNCHANGED <<cp, call>>
  BY DEF SweepStep, CollectOwned, PurgeOwned, SweepEnds, EnterGrace, GraceExpires, LinkFails,
         LinkHeals
<1>2. Transactions'
  BY <1>1, NoCallChanges DEF cp
<1>3. CASE CollectOwned
  <2>t. Types'
    BY <1>t, <1>1, <1>2, <1>3 DEF CollectOwned, cp, Types
  <2> QED
    BY <2>t, <1>1, <1>2, <1>3, Halves, Zenon DEF CollectOwned, cp, Installed
<1>4. CASE PurgeOwned
  <2>1. PICK seid \in sweep.ids :
          /\ rules' = Without(seid) /\ owner' = owner \ {seid}
          /\ sweep' = [sweep EXCEPT !.ids = @ \ {seid}]
    BY <1>4 DEF PurgeOwned
  <2>2. /\ rules' \in [Sessions -> Seids]
        /\ \A s, r \in Sessions : rules'[s] # 0 /\ rules'[s] = rules'[r] => s = r
        /\ \A s \in Sessions : rules[s] = 0 => rules'[s] = 0
    BY <1>t, <2>1, WithoutTyped
  <2>3. sweep' \in [at : {"idle", "collect", "purge"}, ids : SUBSET SEIDs]
    BY <1>t, <2>1 DEF Types
  <2>4. UNCHANGED <<peer, pending, link, faults>>
    BY <1>4 DEF PurgeOwned
  <2>t. Types'
    BY <1>t, <1>1, <1>2, <2>1, <2>2, <2>3, <2>4 DEF cp, Types
  <2> QED
    BY <2>t, <1>1, <1>2, <2>1, <2>2, <2>3, <2>4, Halves DEF cp, Installed
<1>5. CASE SweepEnds
  <2>t. Types'
    BY <1>t, <1>1, <1>2, <1>5 DEF SweepEnds, NoSweep, cp, Types
  <2> QED
    BY <2>t, <1>1, <1>2, <1>5, Halves, Zenon DEF SweepEnds, NoSweep, cp, Installed
<1>6. CASE EnterGrace
  <2>t. Types'
    BY <1>t, <1>1, <1>2, <1>6 DEF EnterGrace, cp, Types
  <2> QED
    BY <2>t, <1>1, <1>2, <1>6, Halves DEF EnterGrace, cp, Installed
<1>7. CASE GraceExpires
  <2>t. Types'
    BY <1>t, <1>1, <1>2, <1>7 DEF GraceExpires, cp, Types
  <2> QED
    BY <2>t, <1>1, <1>2, <1>7, Halves DEF GraceExpires, cp, Installed
<1>8. CASE LinkFails
  <2>1. faults' \in [crash : 0..MaxCrashes, restart : 0..MaxRestarts, outage : 0..MaxOutages]
    BY <1>t, <1>8, BoundsAssumption DEF LinkFails, Types
  <2>2. link' \in BOOLEAN /\ UNCHANGED up
    BY <1>8, Zenon DEF LinkFails
  <2>t. Types'
    BY <1>t, <1>1, <1>2, <2>1, <2>2 DEF cp, up, Types
  <2> QED
    BY <2>t, <1>1, <1>2, <2>1, <2>2, Halves DEF cp, up, Installed
<1>9. CASE LinkHeals
  <2>t. Types'
    BY <1>t, <1>1, <1>2, <1>9 DEF LinkHeals, cp, up, Types
  <2> QED
    BY <2>t, <1>1, <1>2, <1>9, Halves DEF LinkHeals, cp, up, Installed
<1> QED
  BY <1>3, <1>4, <1>5, <1>6, <1>7, <1>8, <1>9 DEF SweepStep

-----------------------------------------------------------------------------
(* Crashes and restarts touch every transaction at once.                    *)

LEMMA CpCrashInv ==
    ASSUME IInv, CpCrash
    PROVE  IInv' /\ UNCHANGED rules
<1> USE ThreadsDiffer
<1>t. Types
  BY Halves
<1>1. /\ proc' = NoProc /\ UNCHANGED <<store, up, link>>
      /\ call' = [t \in Threads |->
                    IF Busy(t) THEN [call[t] EXCEPT !.caller = FALSE] ELSE NoCall]
  BY DEF CpCrash
<1>2. ASSUME NEW t \in Threads
      PROVE  /\ call'[t] \in CallState /\ Path(call'[t])
             /\ call'[t] # NoCall =>
                   /\ call[t] # NoCall /\ call'[t].caller = FALSE
                   /\ call'[t].kind = call[t].kind /\ call'[t].s = call[t].s
  <2>1. call[t] \in CallState /\ Path(call[t])
    BY DEF IInv, TypeOK, Handlers
  <2>2. CASE Busy(t)
    <3>1. call'[t] = [call[t] EXCEPT !.caller = FALSE] /\ call'[t] \in CallState
      BY <1>1, <2>1, <2>2, FieldUpdates, Zenon
    <3>2. /\ call'[t].caller = FALSE /\ call'[t].kind = call[t].kind /\ call'[t].s = call[t].s
          /\ call'[t].at = call[t].at /\ call'[t].seid = call[t].seid
      BY <2>1, <3>1 DEF CallState
    <3>3. call[t] # NoCall
      BY <2>2, NoCallFields DEF Busy
    <3> QED
      BY <2>1, <3>1, <3>2, <3>3 DEF Path
  <2>3. CASE ~Busy(t)
    BY <1>1, <2>3, NoCallFields
  <2> QED
    BY <2>2, <2>3, Zenon
<1>3. call' \in [Threads -> CallState] /\ Handlers'
  BY <1>1, <1>2, Zenon DEF Handlers, Path
<1>4. MainCalls'
  BY <1>2, NoCallFields, Zenon DEF IInv, MainCalls
<1>5. proc'.op = "none"
  BY <1>1 DEF NoProc
<1>6. Replays'
  BY <1>1, <1>2, <1>5 DEF IInv, Replays, Deleting
<1>7. Procedures'
  BY <1>2, <1>5, NoCallFields, Zenon DEF Procedures, Creating
<1>8. Transactions'
  BY <1>3, <1>4, <1>6, <1>7 DEF Transactions
<1>9. faults' \in [crash : 0..MaxCrashes, restart : 0..MaxRestarts, outage : 0..MaxOutages]
  <2>1. faults' = [faults EXCEPT !.crash = @ + 1] /\ faults.crash < MaxCrashes
    BY DEF CpCrash
  <2> QED
    BY <1>t, <2>1, BoundsAssumption DEF Types
<1>10. /\ main' = "down" /\ boot' \in BOOLEAN /\ association' \in BOOLEAN /\ failed' \in BOOLEAN
       /\ lastRecovery' = "none" /\ todo' = {}
  BY Zenon DEF CpCrash
<1>11. Types'
  BY <1>t, <1>1, <1>9, <1>10 DEF Types, up, NoProc, Seids
<1> QED
  BY <1>1, <1>8, <1>11, Halves DEF up

LEMMA UpRestartInv ==
    ASSUME IInv, UpRestart
    PROVE  IInv' /\ \A s \in Sessions : rules'[s] = 0
<1> USE ThreadsDiffer
<1>t. Types
  BY Halves
<1>1. /\ rules' = [s \in Sessions |-> 0] /\ UNCHANGED <<store, proc>>
      /\ call' = [t \in Threads |->
            CASE Busy(t) /\ call[t].caller -> [call[t] EXCEPT !.at = "lost", !.ids = {}]
              [] Busy(t) /\ ~call[t].caller -> NoCall
              [] call[t].at = "done" -> [call[t] EXCEPT !.fresh = FALSE]
              [] OTHER -> call[t]]
  BY Zenon DEF UpRestart
<1>2. ASSUME NEW t \in Threads
      PROVE  /\ call'[t] \in CallState /\ Path(call'[t])
             /\ call'[t] # NoCall =>
                   /\ call[t] # NoCall /\ call'[t].caller = call[t].caller
                   /\ call'[t].kind = call[t].kind /\ call'[t].s = call[t].s
  <2>1. call[t] \in CallState /\ Path(call[t])
    BY DEF IInv, TypeOK, Handlers
  <2>2. CASE Busy(t) /\ call[t].caller
    <3>1. call'[t] = [call[t] EXCEPT !.at = "lost", !.ids = {}]
      BY <1>1, <2>2, Zenon DEF Busy
    <3>2. call'[t] \in CallState
      BY <2>1, <3>1, FieldUpdates, Zenon
    <3>3. /\ call'[t].caller = call[t].caller /\ call'[t].kind = call[t].kind
          /\ call'[t].s = call[t].s /\ call'[t].at = "lost"
      BY <2>1, <3>1 DEF CallState
    <3>4. call[t] # NoCall
      BY <2>2, NoCallFields DEF Busy
    <3> QED
      BY <2>1, <3>2, <3>3, <3>4 DEF Path
  <2>3. CASE Busy(t) /\ ~call[t].caller
    <3>1. call'[t] = NoCall
      BY <1>1, <2>3, Zenon DEF Busy
    <3> QED
      BY <3>1, NoCallFields
  <2>4. CASE call[t].at = "done"
    <3>1. call'[t] = [call[t] EXCEPT !.fresh = FALSE]
      BY <1>1, <2>4, Zenon DEF Busy
    <3>2. call'[t] \in CallState
      BY <2>1, <3>1, FieldUpdates, Zenon
    <3>3. /\ call'[t].caller = call[t].caller /\ call'[t].kind = call[t].kind
          /\ call'[t].s = call[t].s /\ call'[t].at = "done"
      BY <2>1, <2>4, <3>1 DEF CallState
    <3>4. call[t] # NoCall
      BY <2>4, NoCallFields
    <3> QED
      BY <2>1, <3>2, <3>3, <3>4 DEF Path
  <2>5. CASE ~Busy(t) /\ call[t].at # "done"
    <3>1. call'[t] = call[t]
      BY <1>1, <2>5, Zenon
    <3> QED
      BY <2>1, <3>1
  <2> QED
    BY <2>2, <2>3, <2>4, <2>5
<1>3. call' \in [Threads -> CallState] /\ Handlers'
  BY <1>1, <1>2, Zenon DEF Handlers, Path
<1>4. MainCalls'
  BY <1>2, NoCallFields DEF IInv, MainCalls
<1>5. Replays'
  BY <1>1, <1>2, Zenon DEF IInv, Replays, Deleting
<1>6. Procedures'
  BY <1>1, <1>2, NoCallFields, Zenon DEF IInv, Procedures, Creating
<1>7. Transactions'
  BY <1>3, <1>4, <1>5, <1>6 DEF Transactions
<1>8. faults' \in [crash : 0..MaxCrashes, restart : 0..MaxRestarts, outage : 0..MaxOutages]
  <2>1. faults' = [faults EXCEPT !.restart = @ + 1] /\ faults.restart < MaxRestarts
    BY Zenon DEF UpRestart
  <2> QED
    BY <1>t, <2>1, BoundsAssumption DEF Types
<1>9. /\ peer' = NoPeer /\ pending' = {} /\ owner' = {} /\ sweep' = NoSweep
      /\ lastRecovery' \in {"none", "old"}
      /\ UNCHANGED <<main, boot, association, todo, failed, store, proc, link>>
  BY Zenon DEF UpRestart
<1>10. Types'
  BY <1>t, <1>1, <1>8, <1>9, Zenon DEF Types, NoPeer, NoSweep, Seids
<1> QED
  BY <1>1, <1>7, <1>10, Halves, Zenon

-----------------------------------------------------------------------------
LEMMA InitInv == Init => IInv
<1> SUFFICES ASSUME Init PROVE IInv
  OBVIOUS
<1> USE ThreadsDiffer
<1>1. PICK live \in SUBSET Sessions, seid \in [Sessions -> 1..Cardinality(Sessions)] :
        /\ \A s, r \in Sessions : s # r => seid[s] # seid[r]
        /\ store = [s \in Sessions |-> IF s \in live THEN seid[s] ELSE 0]
        /\ rules = store
        /\ owner = {seid[s] : s \in live}
  BY DEF Init
<1>2. \A s \in Sessions : seid[s] \in SEIDs
  BY SessionsAssumption
<1>3. /\ rules = store /\ store \in [Sessions -> Seids] /\ owner \subseteq SEIDs
      /\ \A s, r \in Sessions : rules[s] # 0 /\ rules[s] = rules[r] => s = r
  BY <1>1, <1>2 DEF Seids
<1>4. call \in [Threads -> CallState] /\ \A t \in Threads : call[t] = NoCall
  BY NoCallFields DEF Init
<1>5. proc.op = "none"
  BY DEF Init, NoProc
<1>6. Handlers /\ MainCalls /\ Replays
  BY <1>4, NoCallFields DEF Handlers, MainCalls, Replays
<1>7. Procedures
  BY <1>4, <1>5, NoCallFields DEF Procedures, Creating
<1>8. faults \in [crash : 0..MaxCrashes, restart : 0..MaxRestarts, outage : 0..MaxOutages]
  BY BoundsAssumption DEF Init
<1>9. proc \in [op : {"none", "create", "store", "delete", "remove"},
                s : Sessions \cup {NoSession}, seid : Seids]
  BY DEF Init, NoProc, Seids
<1>10. TypeOK
  BY <1>3, <1>4, <1>8, <1>9, Zenon DEF TypeOK, Init, NoSweep
<1> QED
  BY <1>6, <1>7, <1>10 DEF IInv

(* Every step keeps the invariant, and installs rules only for a session    *)
(* that is stored or being created.                                         *)
LEMMA NextInv ==
    ASSUME IInv, [Next]_vars
    PROVE  IInv' /\ (Installed \/ UNCHANGED vars)
<1>t. Types
  BY Halves
<1>1. ASSUME CpStart \/ HeartbeatSucceeds \/ MainStep PROVE IInv' /\ Installed
  BY <1>1, MainInv DEF Installed
<1>2. ASSUME ProcStep PROVE IInv' /\ Installed
  BY <1>2, ProcedureInv DEF Installed
<1>3. ASSUME NEW s \in Sessions, WorkerStep(s) \/ Create(s) \/ Delete(s) PROVE IInv' /\ Installed
  BY <1>3, WorkerInv, CreateInv, DeleteInv DEF Installed
<1>4. ASSUME NEW t \in Threads, HandlerStep(t) PROVE IInv' /\ Installed
  <2>1. CASE Reconcile(t)
    BY <2>1, ReconcileInv DEF Installed
  <2>2. CASE CreateRules(t)
    BY <2>2, CreateRulesInv
  <2>3. CASE HandleDelete(t) \/ TakePending(t) \/ PurgePending(t)
    BY <2>3, RemovingHandlerInv
  <2>4. CASE \/ HandleSetup(t) \/ BeginReconciliation(t) \/ HandleEstablish(t) \/ Reaffirm(t)
             \/ Own(t) \/ Disown(t) \/ HandleUpdate(t) \/ CompletePeer(t) \/ Discard(t)
    BY <2>4, QuietHandlerInv DEF Installed
  <2> QED
    BY <1>4, <2>1, <2>2, <2>3, <2>4 DEF HandlerStep
<1>5. ASSUME SweepStep \/ EnterGrace \/ GraceExpires \/ LinkFails \/ LinkHeals
      PROVE  IInv' /\ Installed
  BY <1>5, SweepInv
<1>6. ASSUME CpCrash PROVE IInv' /\ Installed
  BY <1>6, CpCrashInv DEF Installed
<1>7. ASSUME UpRestart PROVE IInv' /\ Installed
  BY <1>7, UpRestartInv DEF Installed
<1>8. ASSUME UNCHANGED vars PROVE IInv'
  <2>1. Transactions'
    BY <1>8, NoCallChanges DEF vars
  <2>t. Types'
    BY <1>t, <1>8, <2>1 DEF vars, Types
  <2> QED
    BY <2>t, <1>8, <2>1, Halves DEF vars
<1> QED
  BY <1>1, <1>2, <1>3, <1>4, <1>5, <1>6, <1>7, <1>8 DEF Next

(* Type correctness of the two gateways and the transactions between them:  *)
(* among the rest, no UP-SEID that allocateSEID hands out names two         *)
(* sessions, for any number of sessions, workers, crashes and restarts.     *)
THEOREM SxaTypeCorrect == Spec => []TypeOK
<1>1. Init => IInv
  BY InitInv
<1>2. IInv /\ [Next]_vars => IInv'
  BY NextInv
<1>3. IInv => TypeOK
  BY DEF IInv
<1> QED
  BY <1>1, <1>2, <1>3, PTL DEF Spec

(* No replay and no create brings a session back that is gone: SGW-U's      *)
(* store.Create installs rules only for a session that SGW-C's durable      *)
(* store holds, that a create in progress is adding, or whose create died   *)
(* with the process that sent it, under every timing of crashes, restarts,  *)
(* outages and expiries.                                                    *)
THEOREM NeverResurrected == Spec => NoResurrection
<1>1. Init => IInv
  BY InitInv
<1>2. IInv /\ [Next]_vars => IInv'
  BY NextInv
<1>3. IInv /\ [Next]_vars =>
        [\A s \in Sessions : rules[s] = 0 /\ rules'[s] # 0 =>
            store[s] # 0 \/ (Creating /\ proc.s = s) \/ ~call["proc"].caller]_vars
  BY NextInv DEF Installed
<1> QED
  BY <1>1, <1>2, <1>3, PTL DEF Spec, NoResurrection
=============================================================================
