----------------------------- MODULE Transport -----------------------------
(***************************************************************************)
(* The request/response transport of GTPv2-C and PFCP                      *)
(* (internal/gtpv2/transport, internal/pfcp/transport,                     *)
(* internal/responsecache): Do on the requesting side; the reader, the     *)
(* in-flight table, the worker pool and the response cache on the other.   *)
(* The network loses, duplicates and reorders datagrams.                   *)
(*                                                                         *)
(* One requester and one message type: both are part of every key.  A call *)
(* stands for the content of its request, and a response for the call it   *)
(* was computed from.                                                      *)
(***************************************************************************)
EXTENDS Integers, Sequences, FiniteSets, SequencesExt

CONSTANTS
    Calls,            \* calls of Do
    Silent,           \* calls whose handler returns no response
    MaxSequence,      \* largest sequence number
    MaxRetransmits,   \* Config.MaxRetransmits
    Workers,          \* slots of the worker semaphore
    CacheSize,        \* Config.ResponseCacheSize
    MaxReplays,       \* maxInflightResponseReplays
    ReaderPreempted,  \* a worker may finish between two steps of the reader
    None

ASSUME CallsAssumption == Silent \subseteq Calls /\ None \notin Calls \cup (0..MaxReplays)
ASSUME BoundsAssumption ==
    /\ MaxSequence \in Nat \ {0} /\ MaxRetransmits \in Nat /\ MaxReplays \in Nat
    /\ CacheSize \in Nat \ {0} /\ ReaderPreempted \in BOOLEAN

VARIABLES
    call,       \* progress of each Do
    next,       \* Endpoint.next of the requester
    reqs,       \* request datagrams in the network
    resps,      \* response datagrams in the network
    reader,     \* the Serve goroutine: idle, or a request that missed the cache
    inflight,   \* sequence number -> replays wanted, None if not in flight
    worker,     \* worker slot -> what it is executing
    cache,      \* responsecache, least recently used first
    executed    \* ghost: how often the handler ran for each call, up to MaxCounted

vars == <<call, next, reqs, resps, reader, inflight, worker, cache, executed>>
requester == <<call, next>>
responder == <<reader, inflight, worker, cache, executed>>

SequenceNumbers == 1..MaxSequence
Datagram == [seq : SequenceNumbers, of : Calls]
Idle == [at |-> "idle", seq |-> 0, of |-> None]

Init ==
    /\ call = [c \in Calls |-> [at |-> "new", seq |-> 0, attempt |-> 0, got |-> None]]
    /\ next \in 0..MaxSequence
    /\ reqs = {} /\ resps = {}
    /\ reader = Idle
    /\ inflight = [seq \in SequenceNumbers |-> None]
    /\ worker = [w \in Workers |-> Idle]
    /\ cache = <<>>
    /\ executed = [c \in Calls |-> 0]

-----------------------------------------------------------------------------
(* The requester: Do.                                                       *)

(* Endpoint.pending *)
Pending(seq) == \E c \in Calls : call[c].at = "waiting" /\ call[c].seq = seq

Traces(seq) ==
    \/ \E d \in reqs \cup resps : d.seq = seq
    \/ \E i \in 1..Len(cache) : cache[i].seq = seq
    \/ reader.seq = seq \/ \E w \in Workers : worker[w].seq = seq

(* Mutant: the number is taken without looking for a pending transaction. *)
AllocatedUnchecked(from) == {(from % MaxSequence) + 1}

(* allocateSequence and the registration loop: the first number after next  *)
(* that is not zero and not pending.  The k-th number tried is k numbers    *)
(* after next; the last number is followed by 1.                            *)
Tried(from, k) == ((from + k - 1) % MaxSequence) + 1
Allocated(from) ==
    {Tried(from, k) : k \in {i \in 1..MaxSequence :
        ~Pending(Tried(from, i)) /\ \A j \in 1..(i - 1) : Pending(Tried(from, j))}}

(* A number comes round again only after the datagrams and cached responses *)
(* of its last use are gone: 2^24 calls take longer than the cache's TTL.   *)
Do(c) ==
    /\ call[c].at = "new"
    /\ \E seq \in Allocated(next) :
          /\ ~Traces(seq)
          /\ next' = seq
          /\ call' = [call EXCEPT ![c] = [at |-> "waiting", seq |-> seq, attempt |-> 0,
                                          got |-> None]]
          /\ reqs' = reqs \cup {[seq |-> seq, of |-> c]}
    /\ UNCHANGED <<resps, responder>>

Retransmit(c) ==
    /\ call[c].at = "waiting" /\ call[c].attempt < MaxRetransmits
    /\ call' = [call EXCEPT ![c].attempt = @ + 1]
    /\ reqs' = reqs \cup {[seq |-> call[c].seq, of |-> c]}
    /\ UNCHANGED <<next, resps, responder>>

(* Every number tried is pending: ErrTransactionCollision.  One round of    *)
(* all numbers stands for the 128 attempts.                                 *)
Collide(c) ==
    /\ call[c].at = "new" /\ Allocated(next) = {}
    /\ call' = [call EXCEPT ![c].at = "failed"]
    /\ UNCHANGED <<next, reqs, resps, responder>>

(* The context ends, the endpoint closes, or a write fails. *)
Abort(c) ==
    /\ call[c].at = "waiting"
    /\ call' = [call EXCEPT ![c].at = "failed"]
    /\ UNCHANGED <<next, reqs, resps, responder>>

TimeOut(c) ==
    /\ call[c].at = "waiting" /\ call[c].attempt = MaxRetransmits
    /\ call' = [call EXCEPT ![c].at = "timeout"]
    /\ UNCHANGED <<next, reqs, resps, responder>>

(* dispatch of a response: it goes to the transaction pending under its     *)
(* number, or nowhere.                                                      *)
ReceiveResponse(d) ==
    /\ d \in resps
    /\ \E c \in Calls :
          /\ call[c].at = "waiting" /\ call[c].seq = d.seq
          /\ call' = [call EXCEPT ![c].at = "ok", ![c].got = d.of]
    /\ UNCHANGED <<next, reqs, resps, responder>>

-----------------------------------------------------------------------------
(* The responder: dispatch of a request.                                    *)

CachedAt(seq) == {i \in 1..Len(cache) : cache[i].seq = seq}

(* Cache hit: the response is sent again and becomes most recently used. *)
AnswerFromCache(d) ==
    /\ d \in reqs /\ reader = Idle
    /\ \E i \in CachedAt(d.seq) :
          /\ resps' = resps \cup {cache[i]}
          /\ cache' = Append(RemoveAt(cache, i), cache[i])
    /\ UNCHANGED <<requester, reqs, reader, inflight, worker, executed>>

MissCache(d) ==
    /\ d \in reqs /\ reader = Idle /\ CachedAt(d.seq) = {}
    /\ reader' = [at |-> "missed", seq |-> d.seq, of |-> d.of]
    /\ UNCHANGED <<requester, reqs, resps, inflight, worker, cache, executed>>

(* A duplicate of a request in flight is counted, not executed. *)
Coalesce ==
    /\ reader.at = "missed" /\ inflight[reader.seq] # None
    /\ inflight' = [inflight EXCEPT ![reader.seq] = IF @ < MaxReplays THEN @ + 1 ELSE @]
    /\ reader' = Idle
    /\ UNCHANGED <<requester, reqs, resps, worker, cache, executed>>

(* The ghost counter stops at two executions: more tell nothing apart. *)
MaxCounted == 2
Counted(n) == IF n < MaxCounted THEN n + 1 ELSE n

(* Mutant: requests in flight are not looked up. *)
ClaimUnchecked(w) ==
    /\ reader.at = "missed" /\ worker[w] = Idle
    /\ inflight' = [inflight EXCEPT ![reader.seq] = 0]
    /\ worker' = [worker EXCEPT ![w] = [reader EXCEPT !.at = "run"]]
    /\ executed' = [executed EXCEPT ![reader.of] = Counted(@)]
    /\ reader' = Idle
    /\ UNCHANGED <<requester, reqs, resps, cache>>

(* The request is registered in flight and a worker runs the handler. *)
Claim(w) ==
    /\ reader.at = "missed" /\ inflight[reader.seq] = None /\ worker[w] = Idle
    /\ inflight' = [inflight EXCEPT ![reader.seq] = 0]
    /\ worker' = [worker EXCEPT ![w] = [reader EXCEPT !.at = "run"]]
    /\ executed' = [executed EXCEPT ![reader.of] = Counted(@)]
    /\ reader' = Idle
    /\ UNCHANGED <<requester, reqs, resps, cache>>

(* All workers busy: the request is dropped and forgotten. *)
DropBusy ==
    /\ reader.at = "missed" /\ inflight[reader.seq] = None
    /\ \A w \in Workers : worker[w] # Idle
    /\ reader' = Idle
    /\ UNCHANGED <<requester, reqs, resps, inflight, worker, cache, executed>>

MayFinish == ReaderPreempted \/ reader = Idle

(* Mutant: a silent handler leaves its request in flight. *)
FinishSilentLeaks(w) ==
    /\ worker[w].at = "run" /\ worker[w].of \in Silent /\ MayFinish
    /\ worker' = [worker EXCEPT ![w] = Idle]
    /\ UNCHANGED <<requester, reqs, resps, reader, inflight, cache, executed>>

(* The handler returned nothing: finishRequest. *)
FinishSilent(w) ==
    /\ worker[w].at = "run" /\ worker[w].of \in Silent /\ MayFinish
    /\ inflight' = [inflight EXCEPT ![worker[w].seq] = None]
    /\ worker' = [worker EXCEPT ![w] = Idle]
    /\ UNCHANGED <<requester, reqs, resps, reader, cache, executed>>

Response(w) == [seq |-> worker[w].seq, of |-> worker[w].of]

(* Mutant: the response is not put in the cache. *)
CacheResponseSkipped(w) ==
    /\ worker[w].at = "run" /\ worker[w].of \notin Silent /\ MayFinish
    /\ worker' = [worker EXCEPT ![w].at = "cached"]
    /\ UNCHANGED <<requester, reqs, resps, reader, inflight, cache, executed>>

(* putCached: Put replaces the entry of its key, or evicts the oldest one   *)
(* when full.                                                               *)
Others(seq) ==
    IF CachedAt(seq) = {} THEN cache ELSE RemoveAt(cache, CHOOSE i \in CachedAt(seq) : TRUE)
CacheResponse(w) ==
    /\ worker[w].at = "run" /\ worker[w].of \notin Silent /\ MayFinish
    /\ LET others == Others(worker[w].seq)
           kept == IF Len(others) >= CacheSize THEN Tail(others) ELSE others
       IN  cache' = Append(kept, Response(w))
    /\ worker' = [worker EXCEPT ![w].at = "cached"]
    /\ UNCHANGED <<requester, reqs, resps, reader, inflight, executed>>

(* completeRequest, then one response for the request and one per replay. *)
SendResponse(w) ==
    /\ worker[w].at = "cached" /\ MayFinish
    /\ inflight' = [inflight EXCEPT ![worker[w].seq] = None]
    /\ resps' = resps \cup {Response(w)}
    /\ worker' = [worker EXCEPT ![w] = Idle]
    /\ UNCHANGED <<requester, reqs, reader, cache, executed>>

(* The TTL of an entry ends when no datagram of its call is left: the TTL   *)
(* is longer than Do retransmits and datagrams live.                        *)
Expire ==
    /\ \E i \in 1..Len(cache) :
          /\ ~Pending(cache[i].seq)
          /\ \A d \in reqs : d.seq # cache[i].seq
          /\ reader.seq # cache[i].seq
          /\ cache' = RemoveAt(cache, i)
    /\ UNCHANGED <<requester, reqs, resps, reader, inflight, worker, executed>>

-----------------------------------------------------------------------------
(* External: datagrams are delivered any number of times, or lost. *)
LoseRequest(d) ==
    d \in reqs /\ reqs' = reqs \ {d} /\ UNCHANGED <<requester, resps, responder>>
LoseResponse(d) ==
    d \in resps /\ resps' = resps \ {d} /\ UNCHANGED <<requester, reqs, responder>>

(* Every call has returned and nothing is left to do. *)
Quiet ==
    /\ \A c \in Calls : call[c].at \in {"ok", "timeout", "failed"}
    /\ reqs = {} /\ resps = {} /\ reader = Idle /\ \A w \in Workers : worker[w] = Idle
    /\ UNCHANGED vars

Requester(c) == Do(c) \/ Collide(c) \/ Abort(c) \/ Retransmit(c) \/ TimeOut(c)
Worker(w) == FinishSilent(w) \/ CacheResponse(w) \/ SendResponse(w)
Reader == Coalesce \/ DropBusy \/ \E w \in Workers : Claim(w)

Next ==
    \/ \E c \in Calls : Requester(c)
    \/ Reader \/ \E w \in Workers : Worker(w)
    \/ \E d \in Datagram :
          \/ AnswerFromCache(d) \/ MissCache(d) \/ ReceiveResponse(d)
          \/ LoseRequest(d) \/ LoseResponse(d)
    \/ Expire \/ Quiet

(* Timers fire and goroutines run; nothing is assumed of the network. *)
Spec ==
    /\ Init /\ [][Next]_vars
    /\ \A c \in Calls : WF_vars(Retransmit(c) \/ TimeOut(c))
    /\ WF_vars(Reader) /\ \A w \in Workers : WF_vars(Worker(w))

-----------------------------------------------------------------------------
CallState == [at : {"new", "waiting", "ok", "timeout", "failed"}, seq : 0..MaxSequence,
              attempt : 0..MaxRetransmits, got : Calls \cup {None}]
Step == [at : {"idle", "missed", "run", "cached"}, seq : 0..MaxSequence,
         of : Calls \cup {None}]

(* Every variable has its type and the cache its bound. *)
TypeOK ==
    /\ call \in [Calls -> CallState]
    /\ next \in 0..MaxSequence
    /\ reqs \subseteq Datagram /\ resps \subseteq Datagram
    /\ reader \in Step /\ worker \in [Workers -> Step]
    /\ inflight \in [SequenceNumbers -> (0..MaxReplays) \cup {None}]
    /\ cache \in Seq(Datagram) /\ Len(cache) <= CacheSize
    /\ executed \in [Calls -> 0..MaxCounted]

(* Do returns the response to its own request: a response of an earlier     *)
(* call, late or cached, is never taken for it, also when sequence numbers  *)
(* come round.                                                              *)
OwnResponse == \A c \in Calls : call[c].at = "ok" => call[c].got = c

(* A request stays in flight exactly as long as a worker executes it: a     *)
(* leaked entry would swallow every retransmission for ever.                *)
InflightHasWorker ==
    \A seq \in SequenceNumbers :
        inflight[seq] # None <=> \E w \in Workers : worker[w].seq = seq

(* Two workers never run the handler for the same request at once. *)
NoConcurrentExecution ==
    \A v, w \in Workers : v # w /\ worker[v] # Idle => worker[v].seq # worker[w].seq

(* "Make retransmissions idempotent": the handler runs at most once per     *)
(* call that it answers, however often the request is sent or duplicated.   *)
AtMostOnce == \A c \in Calls \ Silent : executed[c] <= 1

(* A call of Do that has not returned. *)
Waiting(c) == call[c].at = "waiting"
=============================================================================
