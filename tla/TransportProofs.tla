-------------------------- MODULE TransportProofs --------------------------
(***************************************************************************)
(* Proofs about the request/response transport, for any number of calls,   *)
(* workers and sequence numbers, any cache size and any retry limits:      *)
(* a call gets its own response, a request is in flight exactly as long as *)
(* a worker has it, and no two workers have the same request.              *)
(***************************************************************************)
EXTENDS Transport, SequenceTheorems, TLAPS

(* What the reader or a worker holds is a request, or nothing. *)
Holds(step, stages) ==
    step = Idle \/ (step.at \in stages /\ step.seq \in SequenceNumbers /\ step.of \in Calls)

Shapes ==
    /\ Holds(reader, {"missed"}) /\ \A w \in Workers : Holds(worker[w], {"run", "cached"})
    /\ \A c \in Calls : call[c].at = "waiting" => call[c].seq \in SequenceNumbers

(* Whatever bears the number of a waiting call, on either side or in the    *)
(* network, belongs to that call.                                           *)
OwnTraces ==
    \A c \in Calls : call[c].at = "waiting" =>
        /\ \A d \in reqs \cup resps : d.seq = call[c].seq => d.of = c
        /\ \A i \in 1..Len(cache) : cache[i].seq = call[c].seq => cache[i].of = c
        /\ reader.seq = call[c].seq => reader.of = c
        /\ \A w \in Workers : worker[w].seq = call[c].seq => worker[w].of = c

(* allocateSequence never gives two pending transactions the same number. *)
OneWaiting ==
    \A b, c \in Calls :
        call[b].at = "waiting" /\ call[c].at = "waiting" /\ call[b].seq = call[c].seq => b = c

IInv ==
    /\ TypeOK /\ Shapes /\ OneWaiting /\ OwnTraces
    /\ OwnResponse /\ InflightHasWorker /\ NoConcurrentExecution

USE CallsAssumption, BoundsAssumption

-----------------------------------------------------------------------------
(* Facts about the cache and the sequence numbers.                          *)

(* RemoveAt leaves a sequence of the same elements that is one shorter.     *)
LEMMA RemoveAtProperties ==
    ASSUME NEW S, NEW s \in Seq(S), NEW i \in 1..Len(s)
    PROVE  /\ RemoveAt(s, i) \in Seq(S)
           /\ Len(RemoveAt(s, i)) = Len(s) - 1
           /\ \A j \in 1..Len(RemoveAt(s, i)) :
                 \E k \in 1..Len(s) : k # i /\ RemoveAt(s, i)[j] = s[k]
<1> DEFINE a == SubSeq(s, 1, i - 1)
           b == SubSeq(s, i + 1, Len(s))
<1>0. Len(s) \in Nat /\ i \in Nat /\ i >= 1 /\ i <= Len(s)
  BY LenProperties
<1>1. a \in Seq(S) /\ Len(a) = i - 1 /\ \A j \in 1..i - 1 : a[j] = s[j]
  BY SubSeqProperties
<1>2. b \in Seq(S) /\ Len(b) = Len(s) - i /\ \A j \in 1..Len(s) - i : b[j] = s[i + j]
  BY SubSeqProperties
<1> HIDE DEF a, b
<1>3. /\ a \o b \in Seq(S) /\ Len(a \o b) = Len(s) - 1
      /\ \A j \in 1..Len(s) - 1 : (a \o b)[j] = IF j <= i - 1 THEN a[j] ELSE b[j - (i - 1)]
  <2>0. a \in Seq(S) /\ b \in Seq(S)
    BY <1>1, <1>2
  <2>1. /\ a \o b \in Seq(S) /\ Len(a \o b) = Len(a) + Len(b)
        /\ \A j \in 1..Len(a) + Len(b) : (a \o b)[j] = IF j <= Len(a) THEN a[j] ELSE b[j - Len(a)]
    BY ONLY <2>0, ConcatProperties
  <2>2. Len(a) + Len(b) = Len(s) - 1
    BY <1>0, <1>1, <1>2
  <2> QED
    BY <1>1, <2>1, <2>2
<1>4. ASSUME NEW j \in 1..Len(s) - 1
      PROVE  \E k \in 1..Len(s) : k # i /\ (a \o b)[j] = s[k]
  <2>1. CASE j <= i - 1
    BY <1>1, <1>3, <2>1
  <2>2. CASE j > i - 1
    <3>1. j + 1 \in 1..Len(s) /\ j + 1 # i /\ (a \o b)[j] = s[j + 1]
      BY <1>2, <1>3, <2>2
    <3> QED
      BY <3>1
  <2>3. j <= i - 1 \/ j > i - 1
    BY <1>0
  <2> QED
    BY <2>1, <2>2, <2>3, Zenon
<1>5. RemoveAt(s, i) = a \o b
  BY DEF RemoveAt, a, b
<1> QED
  BY <1>3, <1>4, <1>5, Zenon

(* A number that allocateSequence gives is a number and is not pending.     *)
LEMMA AllocatedProperties ==
    ASSUME TypeOK, NEW seq \in Allocated(next)
    PROVE  seq \in SequenceNumbers /\ ~Pending(seq)
<1>1. PICK k \in 1..MaxSequence : seq = Tried(next, k) /\ ~Pending(Tried(next, k))
  BY DEF Allocated
<1>2. next + k - 1 \in Nat
  BY DEF TypeOK
<1>3. (next + k - 1) % MaxSequence \in 0..MaxSequence - 1
  BY <1>2
<1> QED
  BY <1>1, <1>3 DEF Tried, SequenceNumbers

(* Others leaves a cache without the entry of a number, if it had one.      *)
LEMMA OthersProperties ==
    ASSUME TypeOK, NEW seq
    PROVE  /\ Others(seq) \in Seq(Datagram) /\ Len(Others(seq)) <= CacheSize
           /\ \A j \in 1..Len(Others(seq)) : \E k \in 1..Len(cache) : Others(seq)[j] = cache[k]
<1>1. CASE CachedAt(seq) = {}
  BY <1>1 DEF Others, TypeOK
<1>2. CASE CachedAt(seq) # {}
  <2> DEFINE i == CHOOSE i \in CachedAt(seq) : TRUE
  <2>1. i \in 1..Len(cache)
    BY <1>2 DEF CachedAt
  <2>2. Others(seq) = RemoveAt(cache, i)
    BY <1>2 DEF Others
  <2> HIDE DEF i
  <2>3. cache \in Seq(Datagram) /\ Len(cache) <= CacheSize /\ Len(cache) \in Nat
    BY LenProperties DEF TypeOK
  <2>4. /\ RemoveAt(cache, i) \in Seq(Datagram) /\ Len(RemoveAt(cache, i)) = Len(cache) - 1
        /\ \A j \in 1..Len(RemoveAt(cache, i)) :
              \E k \in 1..Len(cache) : k # i /\ RemoveAt(cache, i)[j] = cache[k]
    BY <2>1, <2>3, RemoveAtProperties
  <2>5. Len(cache) - 1 <= CacheSize
    BY <2>3
  <2> QED
    BY <2>2, <2>4, <2>5
<1> QED
  BY <1>1, <1>2

(* Put: the new entry joins entries that were there, and the bound holds.   *)
LEMMA PutProperties ==
    ASSUME TypeOK, NEW w \in Workers, CacheResponse(w),
           worker[w].seq \in SequenceNumbers, worker[w].of \in Calls
    PROVE  /\ cache' \in Seq(Datagram) /\ Len(cache') <= CacheSize
           /\ \A j \in 1..Len(cache') :
                 cache'[j] = Response(w) \/ \E k \in 1..Len(cache) : cache'[j] = cache[k]
<1> DEFINE others == Others(worker[w].seq)
           kept == IF Len(others) >= CacheSize THEN Tail(others) ELSE others
<1>1. cache' = Append(kept, Response(w)) /\ Response(w) \in Datagram
  BY DEF CacheResponse, Response, Datagram
<1>2. /\ others \in Seq(Datagram) /\ Len(others) <= CacheSize
      /\ \A j \in 1..Len(others) : \E k \in 1..Len(cache) : others[j] = cache[k]
  BY OthersProperties
<1> HIDE DEF others
<1>3. Len(others) \in Nat /\ CacheSize \in Nat \ {0}
  BY <1>2, LenProperties
<1>4. /\ kept \in Seq(Datagram) /\ Len(kept) < CacheSize
      /\ \A j \in 1..Len(kept) : \E k \in 1..Len(others) : kept[j] = others[k]
  <2>1. CASE Len(others) >= CacheSize
    <3>1. others # <<>>
      BY <1>3, <2>1
    <3>2. /\ Tail(others) \in Seq(Datagram) /\ Len(Tail(others)) = Len(others) - 1
          /\ \A j \in 1..Len(Tail(others)) : Tail(others)[j] = others[j + 1]
      BY <1>2, <3>1, HeadTailProperties
    <3>3. \A j \in 1..Len(others) - 1 : j + 1 \in 1..Len(others)
      BY <1>3
    <3> QED
      BY <1>2, <1>3, <2>1, <3>2, <3>3
  <2>2. CASE Len(others) < CacheSize
    BY <1>2, <1>3, <2>2
  <2> QED
    BY <1>3, <2>1, <2>2
<1> HIDE DEF kept
<1>5. /\ cache' \in Seq(Datagram) /\ Len(cache') = Len(kept) + 1
      /\ \A j \in 1..Len(kept) : cache'[j] = kept[j]
      /\ cache'[Len(kept) + 1] = Response(w)
  BY <1>1, <1>4, AppendProperties
<1>6. Len(kept) \in Nat
  BY <1>4, LenProperties
<1>7. \A j \in 1..Len(cache') : j \in 1..Len(kept) \/ j = Len(kept) + 1
  BY <1>5, <1>6
<1>8. Len(kept) + 1 <= CacheSize
  BY <1>3, <1>4, <1>6
<1>9. ASSUME NEW j \in 1..Len(cache')
      PROVE  cache'[j] = Response(w) \/ \E k \in 1..Len(cache) : cache'[j] = cache[k]
  <2>1. CASE j \in 1..Len(kept)
    <3>1. PICK k \in 1..Len(others) : kept[j] = others[k]
      BY <1>4, <2>1
    <3>2. PICK l \in 1..Len(cache) : others[k] = cache[l]
      BY <1>2
    <3> QED
      BY <1>5, <2>1, <3>1, <3>2
  <2>2. CASE j = Len(kept) + 1
    BY <1>5, <2>2
  <2> QED
    BY <1>7, <2>1, <2>2
<1> QED
  BY <1>5, <1>8, <1>9
-----------------------------------------------------------------------------
(* Every action preserves the inductive invariant.                          *)

(* A call that changes in one or two fields is still a call.                *)
LEMMA CallFields ==
    ASSUME NEW r \in CallState
    PROVE  /\ \A n \in 0..MaxRetransmits : [r EXCEPT !.attempt = n] \in CallState
           /\ \A a \in {"ok", "failed", "timeout"} : [r EXCEPT !.at = a] \in CallState
           /\ \A c \in Calls : [r EXCEPT !.at = "ok", !.got = c] \in CallState
  BY Zenon DEF CallState

LEMMA DoInv ==
    ASSUME IInv, NEW c \in Calls, Do(c)
    PROVE  IInv'
<1>0. PICK seq \in Allocated(next) :
        /\ ~Traces(seq) /\ seq \in SequenceNumbers /\ ~Pending(seq)
        /\ next' = seq
        /\ call' = [call EXCEPT ![c] = [at |-> "waiting", seq |-> seq, attempt |-> 0, got |-> None]]
        /\ reqs' = reqs \cup {[seq |-> seq, of |-> c]}
  BY AllocatedProperties, Zenon DEF IInv, Do
<1>1. TypeOK'
  BY <1>0 DEF IInv, TypeOK, CallState, Do, responder, SequenceNumbers, Datagram
<1>2. Shapes'
  BY <1>0 DEF IInv, TypeOK, Shapes, Holds, Do, responder
<1>3. OwnTraces'
  BY <1>0 DEF IInv, TypeOK, Shapes, Holds, OwnTraces, Do, responder, Traces, Pending
<1>4. OwnResponse'
  BY <1>0 DEF IInv, TypeOK, OwnTraces, OwnResponse, Do, responder
<1>5. InflightHasWorker'
  BY <1>0 DEF IInv, TypeOK, Shapes, Holds, InflightHasWorker, NoConcurrentExecution, Do, responder
<1>6. NoConcurrentExecution'
  BY <1>0 DEF IInv, TypeOK, Shapes, Holds, InflightHasWorker, NoConcurrentExecution, Do, responder
<1>7. OneWaiting'
  BY <1>0 DEF IInv, TypeOK, OneWaiting, Pending
<1> QED
  BY <1>1, <1>2, <1>3, <1>4, <1>5, <1>6, <1>7 DEF IInv

LEMMA RetransmitInv ==
    ASSUME IInv, NEW c \in Calls, Retransmit(c)
    PROVE  IInv'
<1>0. /\ call[c].at = "waiting" /\ call[c].seq \in SequenceNumbers
      /\ call[c].attempt + 1 \in 0..MaxRetransmits
      /\ [seq |-> call[c].seq, of |-> c] \in Datagram
      /\ \A b \in Calls : call'[b] = IF b = c THEN [call[c] EXCEPT !.attempt = call[c].attempt + 1]
                                            ELSE call[b]
      /\ reqs' = reqs \cup {[seq |-> call[c].seq, of |-> c]}
  <2>1. call[c].at = "waiting" /\ call[c].seq \in SequenceNumbers
    BY DEF IInv, Shapes, Retransmit
  <2>2. call[c].attempt \in 0..MaxRetransmits /\ call[c].attempt < MaxRetransmits
    BY DEF IInv, TypeOK, CallState, Retransmit
  <2>3. call[c].attempt + 1 \in 0..MaxRetransmits
    BY <2>2
  <2>4. [seq |-> call[c].seq, of |-> c] \in Datagram
    BY <2>1 DEF Datagram
  <2> QED
    BY <2>1, <2>3, <2>4 DEF IInv, TypeOK, Retransmit
<1>1. \A b \in Calls : /\ call'[b].at = call[b].at /\ call'[b].seq = call[b].seq
                       /\ call'[b].got = call[b].got
  BY <1>0 DEF IInv, TypeOK, CallState
<1>2. TypeOK'
  <2>0. [call[c] EXCEPT !.attempt = call[c].attempt + 1] \in CallState
    BY <1>0, CallFields, Zenon DEF IInv, TypeOK
  <2>1. call' \in [Calls -> CallState]
    BY <1>0, <2>0 DEF IInv, TypeOK, Retransmit
  <2> QED
    BY <1>0, <2>1 DEF IInv, TypeOK, Retransmit, responder
<1>3. Shapes'
  BY <1>1 DEF IInv, Shapes, Holds, Retransmit, responder
<1>4. OwnTraces'
  <2>1. ASSUME NEW b \in Calls, call'[b].at = "waiting", NEW d \in reqs' \cup resps',
               d.seq = call'[b].seq
        PROVE  d.of = b
    <3>1. CASE d \in reqs \cup resps
      BY <1>1, <2>1, <3>1 DEF IInv, OwnTraces
    <3>2. CASE d = [seq |-> call[c].seq, of |-> c]
      BY <1>0, <1>1, <2>1, <3>2 DEF IInv, OneWaiting
    <3> QED
      BY <1>0, <3>1, <3>2 DEF Retransmit
  <2> QED
    BY <1>1, <2>1 DEF IInv, OwnTraces, Retransmit, responder
<1>5. OwnResponse' /\ OneWaiting'
  BY <1>1 DEF IInv, OwnResponse, OneWaiting
<1>6. InflightHasWorker' /\ NoConcurrentExecution'
  BY DEF IInv, InflightHasWorker, NoConcurrentExecution, Retransmit, responder
<1> QED
  BY <1>2, <1>3, <1>4, <1>5, <1>6 DEF IInv

(* A call ends without a response: Collide, Abort and TimeOut. *)
LEMMA EndedInv ==
    ASSUME IInv, NEW c \in Calls, NEW end \in {"failed", "timeout"},
           call' = [call EXCEPT ![c].at = end], UNCHANGED <<next, reqs, resps, responder>>
    PROVE  IInv'
<1>1. /\ call'[c].at = end /\ call'[c].seq = call[c].seq /\ call'[c].got = call[c].got
      /\ \A b \in Calls \ {c} : call'[b] = call[b]
  BY DEF IInv, TypeOK, CallState
<1>2. TypeOK'
  <2>1. call' \in [Calls -> CallState]
    BY CallFields, Zenon DEF IInv, TypeOK
  <2> QED
    BY <2>1 DEF IInv, TypeOK, responder
<1>3. Shapes'
  BY <1>1 DEF IInv, Shapes, Holds, responder
<1>4. OwnTraces'
  BY <1>1 DEF IInv, OwnTraces, responder
<1>5. OwnResponse' /\ OneWaiting'
  BY <1>1 DEF IInv, OwnResponse, OneWaiting
<1>6. InflightHasWorker' /\ NoConcurrentExecution'
  BY DEF IInv, InflightHasWorker, NoConcurrentExecution, responder
<1> QED
  BY <1>2, <1>3, <1>4, <1>5, <1>6 DEF IInv

LEMMA ReceiveResponseInv ==
    ASSUME IInv, NEW d \in Datagram, ReceiveResponse(d)
    PROVE  IInv'
<1>0. PICK c \in Calls :
        /\ call[c].at = "waiting" /\ call[c].seq = d.seq
        /\ call' = [call EXCEPT ![c].at = "ok", ![c].got = d.of]
  BY Zenon DEF ReceiveResponse
<1>1. d.of = c
  BY <1>0 DEF ReceiveResponse, IInv, OwnTraces
<1>2. /\ call'[c] = [call[c] EXCEPT !.at = "ok", !.got = c]
      /\ \A b \in Calls \ {c} : call'[b] = call[b]
  BY <1>0, <1>1 DEF IInv, TypeOK
<1>3. /\ call'[c].at = "ok" /\ call'[c].got = c
      /\ call'[c].seq = call[c].seq /\ call'[c].attempt = call[c].attempt
  BY <1>2 DEF IInv, TypeOK, CallState
<1>4. TypeOK'
  <2>0. [call[c] EXCEPT !.at = "ok", !.got = c] \in CallState
    BY CallFields, Zenon DEF IInv, TypeOK
  <2>1. call' \in [Calls -> CallState]
    BY <1>0, <1>2, <2>0 DEF IInv, TypeOK
  <2> QED
    BY <2>1 DEF IInv, TypeOK, ReceiveResponse, responder
<1>5. Shapes'
  BY <1>2, <1>3, Zenon DEF IInv, Shapes, Holds, ReceiveResponse, responder
<1>6. OwnTraces'
  <2>1. \A b \in Calls : call'[b].at = "waiting" => b # c /\ call'[b] = call[b]
    BY <1>2, <1>3, Zenon
  <2>2. UNCHANGED <<reqs, resps, cache, reader, worker>>
    BY DEF ReceiveResponse, responder
  <2> QED
    BY <2>1, <2>2 DEF IInv, OwnTraces
<1>7. OwnResponse' /\ OneWaiting'
  <2>1. \A b \in Calls : call'[b].at = "waiting" => call[b].at = "waiting" /\ call'[b].seq = call[b].seq
    BY <1>2, <1>3, Zenon
  <2>2. \A b \in Calls : call'[b].at = "ok" => call'[b].got = b
    BY <1>2, <1>3, Zenon DEF IInv, OwnResponse
  <2>3. OneWaiting'
    BY <2>1 DEF IInv, OneWaiting
  <2> QED
    BY <2>2, <2>3 DEF OwnResponse
<1>8. InflightHasWorker' /\ NoConcurrentExecution'
  BY DEF IInv, InflightHasWorker, NoConcurrentExecution, ReceiveResponse, responder
<1> QED
  BY <1>4, <1>5, <1>6, <1>7, <1>8 DEF IInv

LEMMA AnswerFromCacheInv ==
    ASSUME IInv, NEW d \in Datagram, AnswerFromCache(d)
    PROVE  IInv'
<1>0. PICK i \in 1..Len(cache) :
        /\ resps' = resps \cup {cache[i]}
        /\ cache' = Append(RemoveAt(cache, i), cache[i])
  BY DEF AnswerFromCache, CachedAt
<1>1. cache \in Seq(Datagram) /\ Len(cache) \in Nat /\ Len(cache) <= CacheSize /\ cache[i] \in Datagram
  BY LenProperties, ElementOfSeq DEF IInv, TypeOK
<1> DEFINE rest == RemoveAt(cache, i)
<1>2. /\ rest \in Seq(Datagram) /\ Len(rest) = Len(cache) - 1
      /\ \A j \in 1..Len(rest) : \E k \in 1..Len(cache) : k # i /\ rest[j] = cache[k]
  BY <1>1, RemoveAtProperties
<1> HIDE DEF rest
<1>3. /\ Append(rest, cache[i]) \in Seq(Datagram) /\ Len(Append(rest, cache[i])) = Len(rest) + 1
      /\ \A j \in 1..Len(rest) : Append(rest, cache[i])[j] = rest[j]
      /\ Append(rest, cache[i])[Len(rest) + 1] = cache[i]
  BY <1>1, <1>2, AppendProperties
<1>4. cache' = Append(rest, cache[i])
  BY <1>0 DEF rest
<1>5. cache' \in Seq(Datagram) /\ Len(cache') = Len(cache)
  BY <1>1, <1>2, <1>3, <1>4
<1>6. ASSUME NEW j \in 1..Len(cache')
      PROVE  \E k \in 1..Len(cache) : cache'[j] = cache[k]
  <2>1. j \in 1..Len(rest) \/ j = Len(rest) + 1
    BY <1>1, <1>2, <1>5
  <2>2. CASE j \in 1..Len(rest)
    BY <1>2, <1>3, <1>4, <2>2
  <2>3. CASE j = Len(rest) + 1
    BY <1>3, <1>4, <2>3
  <2> QED
    BY <2>1, <2>2, <2>3
<1>7. UNCHANGED <<call, next, reqs, reader, inflight, worker, executed>>
  BY DEF AnswerFromCache, requester
<1>8. TypeOK'
  BY <1>0, <1>1, <1>5, <1>7 DEF IInv, TypeOK
<1>9. OwnTraces'
  <2>1. \A e \in reqs' \cup resps' : e \in reqs \cup resps \/ e = cache[i]
    BY <1>0, <1>7
  <2> QED
    BY <1>6, <1>7, <2>1 DEF IInv, OwnTraces
<1>10. Shapes' /\ OneWaiting' /\ OwnResponse' /\ InflightHasWorker' /\ NoConcurrentExecution'
  BY <1>7 DEF IInv, Shapes, Holds, OneWaiting, OwnResponse, InflightHasWorker, NoConcurrentExecution
<1> QED
  BY <1>8, <1>9, <1>10 DEF IInv

LEMMA MissCacheInv ==
    ASSUME IInv, NEW d \in Datagram, MissCache(d)
    PROVE  IInv'
<1>1. /\ d \in reqs /\ d.seq \in SequenceNumbers /\ d.of \in Calls
      /\ reader' = [at |-> "missed", seq |-> d.seq, of |-> d.of]
      /\ UNCHANGED <<call, next, reqs, resps, inflight, worker, cache, executed>>
  BY DEF MissCache, requester, Datagram
<1>2. reader' \in Step /\ Holds(reader', {"missed"})
  BY <1>1 DEF Step, Holds, SequenceNumbers
<1>3. TypeOK'
  BY <1>1, <1>2 DEF IInv, TypeOK
<1>4. OwnTraces'
  BY <1>1 DEF IInv, OwnTraces
<1>5. Shapes'
  BY <1>1, <1>2 DEF IInv, Shapes, Holds
<1>6. OneWaiting' /\ OwnResponse' /\ InflightHasWorker' /\ NoConcurrentExecution'
  BY <1>1 DEF IInv, OneWaiting, OwnResponse, InflightHasWorker, NoConcurrentExecution
<1> QED
  BY <1>3, <1>4, <1>5, <1>6 DEF IInv

(* The reader is free again, and nothing else changes but the replays       *)
(* wanted of a request in flight: Coalesce and DropBusy.                    *)
LEMMA ReaderFreedInv ==
    ASSUME IInv, reader' = Idle, inflight' \in [SequenceNumbers -> (0..MaxReplays) \cup {None}],
           \A seq \in SequenceNumbers : inflight'[seq] = None <=> inflight[seq] = None,
           UNCHANGED <<requester, reqs, resps, worker, cache, executed>>
    PROVE  IInv'
<1>1. UNCHANGED <<call, next, reqs, resps, worker, cache, executed>>
  BY DEF requester
<1>2. Idle \in Step /\ Holds(Idle, {"missed"}) /\ Idle.seq = 0
  BY DEF Idle, Step, Holds
<1>3. TypeOK'
  BY <1>1, <1>2 DEF IInv, TypeOK
<1>4. OwnTraces'
  <2>1. \A c \in Calls : call[c].at = "waiting" => call[c].seq # 0
    BY DEF IInv, Shapes, SequenceNumbers
  <2> QED
    BY <1>1, <1>2, <2>1 DEF IInv, OwnTraces
<1>5. Shapes'
  BY <1>1, <1>2 DEF IInv, Shapes, Holds
<1>6. OneWaiting' /\ OwnResponse' /\ InflightHasWorker' /\ NoConcurrentExecution'
  BY <1>1 DEF IInv, OneWaiting, OwnResponse, InflightHasWorker, NoConcurrentExecution
<1> QED
  BY <1>3, <1>4, <1>5, <1>6 DEF IInv

LEMMA CoalesceInv ==
    ASSUME IInv, Coalesce
    PROVE  IInv'
<1>1. reader.seq \in SequenceNumbers
  BY DEF IInv, Shapes, Holds, Coalesce, Idle
<1>2. inflight[reader.seq] \in 0..MaxReplays
  BY <1>1 DEF IInv, TypeOK, Coalesce
<1> DEFINE wanted == IF inflight[reader.seq] < MaxReplays THEN inflight[reader.seq] + 1 ELSE inflight[reader.seq]
<1>3. wanted \in 0..MaxReplays
  BY <1>2
<1> HIDE DEF wanted
<1>4. inflight' = [inflight EXCEPT ![reader.seq] = wanted] /\ inflight[reader.seq] # None
  BY DEF Coalesce, wanted
<1>5. inflight' \in [SequenceNumbers -> (0..MaxReplays) \cup {None}]
  BY <1>1, <1>3, <1>4 DEF IInv, TypeOK
<1>6. \A seq \in SequenceNumbers : inflight'[seq] = None <=> inflight[seq] = None
  BY <1>1, <1>3, <1>4 DEF IInv, TypeOK
<1> QED
  BY <1>5, <1>6, ReaderFreedInv DEF Coalesce

LEMMA DropBusyInv ==
    ASSUME IInv, DropBusy
    PROVE  IInv'
<1>1. /\ inflight' \in [SequenceNumbers -> (0..MaxReplays) \cup {None}]
      /\ \A seq \in SequenceNumbers : inflight'[seq] = None <=> inflight[seq] = None
  BY DEF IInv, TypeOK, DropBusy
<1> QED
  BY <1>1, ReaderFreedInv DEF DropBusy

LEMMA ClaimInv ==
    ASSUME IInv, NEW w \in Workers, Claim(w)
    PROVE  IInv'
<1> DEFINE job == [reader EXCEPT !.at = "run"]
<1>1. reader.seq \in SequenceNumbers /\ reader.of \in Calls /\ reader \in Step
  BY DEF IInv, TypeOK, Shapes, Holds, Claim, Idle
<1>2. job.at = "run" /\ job.seq = reader.seq /\ job.of = reader.of /\ job \in Step
  BY <1>1 DEF Step
<1> HIDE DEF job
<1>3. /\ inflight[reader.seq] = None /\ worker[w] = Idle
      /\ inflight' = [inflight EXCEPT ![reader.seq] = 0]
      /\ worker' = [worker EXCEPT ![w] = job]
      /\ executed' = [executed EXCEPT ![reader.of] = Counted(executed[reader.of])]
      /\ reader' = Idle
      /\ UNCHANGED <<call, next, reqs, resps, cache>>
  BY DEF Claim, requester, job
<1>4. Idle \in Step /\ Holds(Idle, {"missed"}) /\ Idle.seq = 0
  BY DEF Idle, Step, Holds
<1>5. worker'[w] = job /\ \A v \in Workers \ {w} : worker'[v] = worker[v]
  BY <1>3 DEF IInv, TypeOK
<1>6. /\ inflight'[reader.seq] = 0 /\ 0 # None
      /\ \A seq \in SequenceNumbers \ {reader.seq} : inflight'[seq] = inflight[seq]
  BY <1>1, <1>3 DEF IInv, TypeOK
<1>7. TypeOK'
  <2>1. worker' \in [Workers -> Step]
    BY <1>2, <1>3 DEF IInv, TypeOK
  <2>2. inflight' \in [SequenceNumbers -> (0..MaxReplays) \cup {None}]
    BY <1>1, <1>3 DEF IInv, TypeOK
  <2>3. executed[reader.of] \in 0..MaxCounted
    BY <1>1 DEF IInv, TypeOK
  <2>4. Counted(executed[reader.of]) \in 0..MaxCounted
    BY <2>3 DEF Counted, MaxCounted
  <2>5. executed' \in [Calls -> 0..MaxCounted]
    BY <1>1, <1>3, <2>4 DEF IInv, TypeOK
  <2> QED
    BY <1>3, <1>4, <2>1, <2>2, <2>5 DEF IInv, TypeOK
<1>8. Shapes'
  <2>1. Holds(job, {"run", "cached"})
    BY <1>1, <1>2 DEF Holds
  <2>2. \A v \in Workers : Holds(worker'[v], {"run", "cached"})
    BY <1>5, <2>1 DEF IInv, Shapes
  <2> QED
    BY <1>3, <1>4, <2>2 DEF IInv, Shapes
<1>9. OwnTraces'
  <2>1. \A c \in Calls : call[c].at = "waiting" => call[c].seq # 0
    BY DEF IInv, Shapes, SequenceNumbers
  <2>2. \A v \in Workers : worker'[v] = worker[v] \/ (worker'[v].seq = reader.seq /\ worker'[v].of = reader.of)
    BY <1>2, <1>5
  <2> QED
    BY <1>3, <1>4, <2>1, <2>2 DEF IInv, OwnTraces
<1>10. \A v \in Workers : worker[v].seq # reader.seq
  BY <1>1, <1>3 DEF IInv, InflightHasWorker
<1>11. InflightHasWorker'
  <2>1. ASSUME NEW seq \in SequenceNumbers
        PROVE  inflight'[seq] # None <=> \E v \in Workers : worker'[v].seq = seq
    <3>1. CASE seq = reader.seq
      BY <1>2, <1>5, <1>6, <3>1
    <3>2. CASE seq # reader.seq
      <4>1. \A v \in Workers : worker'[v].seq = seq <=> worker[v].seq = seq
        BY <1>2, <1>3, <1>4, <1>5, <3>2 DEF SequenceNumbers
      <4> QED
        BY <1>6, <3>2, <4>1 DEF IInv, InflightHasWorker
    <3> QED
      BY <3>1, <3>2
  <2> QED
    BY <2>1 DEF InflightHasWorker
<1>12. NoConcurrentExecution'
  <2>1. ASSUME NEW u \in Workers, NEW v \in Workers, u # v, worker'[u] # Idle
        PROVE  worker'[u].seq # worker'[v].seq
    <3>1. CASE u = w
      BY <1>2, <1>5, <1>10, <2>1, <3>1
    <3>2. CASE v = w
      BY <1>2, <1>5, <1>10, <2>1, <3>2
    <3>3. CASE u # w /\ v # w
      BY <1>5, <2>1, <3>3 DEF IInv, NoConcurrentExecution
    <3> QED
      BY <3>1, <3>2, <3>3
  <2> QED
    BY <2>1 DEF NoConcurrentExecution
<1>13. OneWaiting' /\ OwnResponse'
  BY <1>3 DEF IInv, OneWaiting, OwnResponse
<1> QED
  BY <1>7, <1>8, <1>9, <1>11, <1>12, <1>13 DEF IInv

(* A worker is done: its request leaves the in-flight table with it, and a  *)
(* response of it may be in the network (FinishSilent and SendResponse).    *)
LEMMA WorkerFreedInv ==
    ASSUME IInv, NEW w \in Workers, worker[w].at \in {"run", "cached"},
           inflight' = [inflight EXCEPT ![worker[w].seq] = None],
           worker' = [worker EXCEPT ![w] = Idle],
           resps' = resps \/ resps' = resps \cup {Response(w)},
           UNCHANGED <<requester, reqs, reader, cache, executed>>
    PROVE  IInv'
<1>1. worker[w] # Idle /\ worker[w].seq \in SequenceNumbers /\ worker[w].of \in Calls
  BY DEF IInv, Shapes, Holds, Idle
<1>2. Idle \in Step /\ Holds(Idle, {"run", "cached"}) /\ Idle.seq = 0
  BY DEF Idle, Step, Holds
<1>3. UNCHANGED <<call, next, reqs, reader, cache, executed>>
  BY DEF requester
<1>4. worker'[w] = Idle /\ \A v \in Workers \ {w} : worker'[v] = worker[v]
  BY DEF IInv, TypeOK
<1>5. /\ inflight'[worker[w].seq] = None
      /\ \A seq \in SequenceNumbers \ {worker[w].seq} : inflight'[seq] = inflight[seq]
  BY <1>1 DEF IInv, TypeOK
<1>6. /\ Response(w).seq = worker[w].seq /\ Response(w).of = worker[w].of
      /\ Response(w) \in Datagram
  BY <1>1 DEF Response, Datagram
<1>7. TypeOK'
  <2>1. worker' \in [Workers -> Step] /\ resps' \subseteq Datagram
    BY <1>2, <1>6 DEF IInv, TypeOK
  <2>2. inflight' \in [SequenceNumbers -> (0..MaxReplays) \cup {None}]
    BY <1>1 DEF IInv, TypeOK
  <2> QED
    BY <1>3, <2>1, <2>2 DEF IInv, TypeOK
<1>8. Shapes'
  <2>1. \A v \in Workers : Holds(worker'[v], {"run", "cached"})
    BY <1>2, <1>4 DEF IInv, Shapes
  <2> QED
    BY <1>3, <2>1 DEF IInv, Shapes
<1>9. OwnTraces'
  <2>1. \A c \in Calls : call[c].at = "waiting" => call[c].seq # 0
    BY DEF IInv, Shapes, SequenceNumbers
  <2>2. \A v \in Workers : worker'[v] = worker[v] \/ worker'[v].seq = 0
    BY <1>2, <1>4
  <2>3. \A d \in reqs' \cup resps' : d \in reqs \cup resps \/ (d.seq = worker[w].seq /\ d.of = worker[w].of)
    BY <1>3, <1>6
  <2> QED
    BY <1>3, <2>1, <2>2, <2>3 DEF IInv, OwnTraces
<1>10. InflightHasWorker'
  <2>1. ASSUME NEW seq \in SequenceNumbers
        PROVE  inflight'[seq] # None <=> \E v \in Workers : worker'[v].seq = seq
    <3>1. CASE seq = worker[w].seq
      <4>1. \A v \in Workers : worker'[v].seq # seq
        BY <1>1, <1>2, <1>4, <3>1 DEF IInv, NoConcurrentExecution, SequenceNumbers
      <4> QED
        BY <1>5, <3>1, <4>1
    <3>2. CASE seq # worker[w].seq
      <4>1. \A v \in Workers : worker'[v].seq = seq <=> worker[v].seq = seq
        BY <1>2, <1>4, <3>2 DEF SequenceNumbers
      <4> QED
        BY <1>5, <3>2, <4>1 DEF IInv, InflightHasWorker
    <3> QED
      BY <3>1, <3>2
  <2> QED
    BY <2>1 DEF InflightHasWorker
<1>11. NoConcurrentExecution'
  <2>1. ASSUME NEW u \in Workers, NEW v \in Workers, u # v, worker'[u] # Idle
        PROVE  worker'[u].seq # worker'[v].seq
    <3>1. u # w /\ worker'[u] = worker[u]
      BY <1>4, <2>1
    <3>2. CASE v = w
      <4>1. worker[u].seq \in SequenceNumbers
        BY <2>1, <3>1 DEF IInv, Shapes, Holds
      <4> QED
        BY <1>2, <1>4, <3>1, <3>2, <4>1 DEF SequenceNumbers
    <3>3. CASE v # w
      BY <1>4, <2>1, <3>1, <3>3 DEF IInv, NoConcurrentExecution
    <3> QED
      BY <3>2, <3>3
  <2> QED
    BY <2>1 DEF NoConcurrentExecution
<1>12. OneWaiting' /\ OwnResponse'
  BY <1>3 DEF IInv, OneWaiting, OwnResponse
<1> QED
  BY <1>7, <1>8, <1>9, <1>10, <1>11, <1>12 DEF IInv

LEMMA CacheResponseInv ==
    ASSUME IInv, NEW w \in Workers, CacheResponse(w)
    PROVE  IInv'
<1>1. worker[w].at = "run" /\ worker[w].seq \in SequenceNumbers /\ worker[w].of \in Calls
  BY DEF IInv, Shapes, Holds, Idle, CacheResponse
<1>2. /\ cache' \in Seq(Datagram) /\ Len(cache') <= CacheSize
      /\ \A j \in 1..Len(cache') :
            cache'[j] = Response(w) \/ \E k \in 1..Len(cache) : cache'[j] = cache[k]
  BY <1>1, PutProperties DEF IInv
<1>3. UNCHANGED <<call, next, reqs, resps, reader, inflight, executed>>
  BY DEF CacheResponse, requester
<1> DEFINE done == [worker[w] EXCEPT !.at = "cached"]
<1>4. /\ done \in Step /\ done.at = "cached"
      /\ done.seq = worker[w].seq /\ done.of = worker[w].of
  BY Zenon DEF IInv, TypeOK, Step
<1>5. worker' = [worker EXCEPT ![w] = done]
  BY DEF CacheResponse
<1> HIDE DEF done
<1>6. worker'[w] = done /\ \A v \in Workers \ {w} : worker'[v] = worker[v]
  BY <1>5 DEF IInv, TypeOK
<1>7. \A v \in Workers : worker'[v].seq = worker[v].seq /\ worker'[v].of = worker[v].of
  BY <1>4, <1>6
<1>8. Response(w).seq = worker[w].seq /\ Response(w).of = worker[w].of
  BY DEF Response
<1>9. TypeOK'
  <2>1. worker' \in [Workers -> Step]
    BY <1>4, <1>5 DEF IInv, TypeOK
  <2> QED
    BY <1>2, <1>3, <2>1 DEF IInv, TypeOK
<1>10. Shapes'
  <2>1. Holds(done, {"run", "cached"})
    BY <1>1, <1>4 DEF Holds
  <2>2. \A v \in Workers : Holds(worker'[v], {"run", "cached"})
    BY <1>6, <2>1 DEF IInv, Shapes
  <2> QED
    BY <1>3, <2>2 DEF IInv, Shapes
<1>11. OwnTraces'
  BY <1>2, <1>3, <1>7, <1>8 DEF IInv, OwnTraces
<1>12. InflightHasWorker'
  BY <1>3, <1>7 DEF IInv, InflightHasWorker
<1>13. NoConcurrentExecution'
  <2>1. worker[w] # Idle
    BY <1>1 DEF Idle
  <2>2. \A v \in Workers : worker'[v] # Idle => worker[v] # Idle
    BY <1>6, <2>1
  <2> QED
    BY <1>7, <2>2 DEF IInv, NoConcurrentExecution
<1>14. OneWaiting' /\ OwnResponse'
  BY <1>3 DEF IInv, OneWaiting, OwnResponse
<1> QED
  BY <1>9, <1>10, <1>11, <1>12, <1>13, <1>14 DEF IInv

(* An entry leaves the cache, or datagrams are lost: Expire, LoseRequest,   *)
(* LoseResponse.                                                            *)
LEMMA ForgottenInv ==
    ASSUME IInv, reqs' \subseteq reqs, resps' \subseteq resps,
           cache' = cache \/ \E i \in 1..Len(cache) : cache' = RemoveAt(cache, i),
           UNCHANGED <<requester, reader, inflight, worker, executed>>
    PROVE  IInv'
<1>1. cache \in Seq(Datagram) /\ Len(cache) \in Nat /\ Len(cache) <= CacheSize
  BY LenProperties DEF IInv, TypeOK
<1>2. /\ cache' \in Seq(Datagram) /\ Len(cache') <= CacheSize
      /\ \A j \in 1..Len(cache') : \E k \in 1..Len(cache) : cache'[j] = cache[k]
  <2>1. CASE cache' = cache
    BY <1>1, <2>1
  <2>2. ASSUME NEW i \in 1..Len(cache), cache' = RemoveAt(cache, i)
        PROVE  /\ cache' \in Seq(Datagram) /\ Len(cache') <= CacheSize
               /\ \A j \in 1..Len(cache') : \E k \in 1..Len(cache) : cache'[j] = cache[k]
    <3>1. /\ RemoveAt(cache, i) \in Seq(Datagram) /\ Len(RemoveAt(cache, i)) = Len(cache) - 1
          /\ \A j \in 1..Len(RemoveAt(cache, i)) :
                \E k \in 1..Len(cache) : k # i /\ RemoveAt(cache, i)[j] = cache[k]
      BY <1>1, RemoveAtProperties
    <3>2. Len(cache) - 1 <= CacheSize
      BY <1>1
    <3> QED
      BY <2>2, <3>1, <3>2
  <2> QED
    BY <2>1, <2>2
<1>3. UNCHANGED <<call, next, reader, inflight, worker, executed>>
  BY DEF requester
<1>4. TypeOK'
  BY <1>2, <1>3 DEF IInv, TypeOK
<1>5. OwnTraces'
  BY <1>2, <1>3 DEF IInv, OwnTraces
<1>6. Shapes' /\ OneWaiting' /\ OwnResponse' /\ InflightHasWorker' /\ NoConcurrentExecution'
  BY <1>3 DEF IInv, Shapes, Holds, OneWaiting, OwnResponse, InflightHasWorker, NoConcurrentExecution
<1> QED
  BY <1>4, <1>5, <1>6 DEF IInv

LEMMA StutterInv ==
    ASSUME IInv, UNCHANGED vars
    PROVE  IInv'
<1>1. UNCHANGED <<call, next, reqs, resps, reader, inflight, worker, cache, executed>>
  BY DEF vars
<1>2. TypeOK' /\ Shapes' /\ OneWaiting'
  BY <1>1 DEF IInv, TypeOK, Shapes, Holds, OneWaiting
<1>3. OwnTraces' /\ OwnResponse'
  BY <1>1 DEF IInv, OwnTraces, OwnResponse
<1>4. InflightHasWorker' /\ NoConcurrentExecution'
  BY <1>1 DEF IInv, InflightHasWorker, NoConcurrentExecution
<1> QED
  BY <1>2, <1>3, <1>4 DEF IInv

LEMMA InitInv == Init => IInv
<1> SUFFICES ASSUME Init PROVE IInv
  OBVIOUS
<1>1. Idle \in Step /\ Idle.seq = 0
  BY DEF Idle, Step
<1>2. cache \in Seq(Datagram) /\ Len(cache) = 0
  BY DEF Init
<1>3. TypeOK
  BY <1>1, <1>2 DEF Init, TypeOK, CallState, MaxCounted
<1>4. \A c \in Calls : call[c].at = "new"
  BY DEF Init
<1>5. Shapes /\ OneWaiting /\ OwnTraces /\ OwnResponse
  BY <1>4 DEF Init, Shapes, Holds, OneWaiting, OwnTraces, OwnResponse
<1>6. InflightHasWorker /\ NoConcurrentExecution
  BY <1>1 DEF Init, InflightHasWorker, NoConcurrentExecution, SequenceNumbers
<1> QED
  BY <1>3, <1>5, <1>6 DEF IInv

(* Every step of the transport preserves the inductive invariant. *)
LEMMA NextInv == IInv /\ [Next]_vars => IInv'
<1> SUFFICES ASSUME IInv, [Next]_vars PROVE IInv'
  OBVIOUS
<1>1. ASSUME NEW c \in Calls, Requester(c) PROVE IInv'
  <2>1. CASE Do(c)
    BY <2>1, DoInv
  <2>2. CASE Retransmit(c)
    BY <2>2, RetransmitInv
  <2>3. CASE Collide(c)
    BY <2>3, EndedInv, Zenon DEF Collide
  <2>4. CASE Abort(c)
    BY <2>4, EndedInv, Zenon DEF Abort
  <2>5. CASE TimeOut(c)
    BY <2>5, EndedInv, Zenon DEF TimeOut
  <2> QED
    BY <1>1, <2>1, <2>2, <2>3, <2>4, <2>5 DEF Requester
<1>2. CASE Reader
  BY <1>2, CoalesceInv, DropBusyInv, ClaimInv DEF Reader
<1>3. ASSUME NEW w \in Workers, Worker(w) PROVE IInv'
  <2>1. CASE FinishSilent(w)
    BY <2>1, WorkerFreedInv, Zenon DEF FinishSilent
  <2>2. CASE CacheResponse(w)
    BY <2>2, CacheResponseInv
  <2>3. CASE SendResponse(w)
    BY <2>3, WorkerFreedInv, Zenon DEF SendResponse
  <2> QED
    BY <1>3, <2>1, <2>2, <2>3 DEF Worker
<1>4. ASSUME NEW d \in Datagram,
             AnswerFromCache(d) \/ MissCache(d) \/ ReceiveResponse(d)
      PROVE  IInv'
  BY <1>4, AnswerFromCacheInv, MissCacheInv, ReceiveResponseInv
<1>5. ASSUME NEW d \in Datagram, LoseRequest(d) \/ LoseResponse(d)
      PROVE  IInv'
  BY <1>5, ForgottenInv DEF LoseRequest, LoseResponse, responder, requester
<1>6. CASE Expire
  BY <1>6, ForgottenInv DEF Expire
<1>7. CASE Quiet \/ UNCHANGED vars
  BY <1>7, StutterInv DEF Quiet
<1> QED
  BY <1>1, <1>2, <1>3, <1>4, <1>5, <1>6, <1>7 DEF Next

(* The inductive invariant holds in every reachable state. *)
LEMMA Invariance == Spec => []IInv
<1>1. Init => IInv
  BY InitInv
<1>2. IInv /\ [Next]_vars => IInv'
  BY NextInv
<1> QED
  BY <1>1, <1>2, PTL DEF Spec

-----------------------------------------------------------------------------
(* Every variable keeps its type, and the response cache never holds more   *)
(* than Config.ResponseCacheSize entries.                                   *)
THEOREM TransportTypeCorrect == Spec => []TypeOK
  BY Invariance, PTL DEF IInv

(* Do never returns the response to another call, although sequence numbers *)
(* come round, responses are cached and datagrams arrive late or twice.     *)
THEOREM ResponseIsOwn == Spec => []OwnResponse
  BY Invariance, PTL DEF IInv

(* A request is in the in-flight table exactly while a worker has it.       *)
THEOREM InflightExactly == Spec => []InflightHasWorker
  BY Invariance, PTL DEF IInv

(* Two workers never run the handler for the same request at once.          *)
THEOREM ExecutionsExclude == Spec => []NoConcurrentExecution
  BY Invariance, PTL DEF IInv
=============================================================================
