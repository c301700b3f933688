----------------------------- MODULE IdleBuffer -----------------------------
(***************************************************************************)
(* SGW-U's portable downlink path (internal/sgwu/dataplane): the core      *)
(* reader, the idle buffer with its class pools, and the flushes that both *)
(* the reader and the PFCP handlers run when a bearer's FAR forwards.      *)
(* Downlink packets of one session are numbered as they arrive; a key is a *)
(* downlink PDR.  The rule lookups are atomic (SgwuRules models them), the *)
(* buffer's mutex makes each of its operations a step, and everything else *)
(* interleaves.  Reports to SGW-C are in AccessBearers.                    *)
(***************************************************************************)
EXTENDS Naturals, FiniteSets, SequencesExt

CONSTANTS
    Keys, Handlers, Tunnels,
    Classes,            \* the configured QCIs; 0 is among them
    QCIs,               \* the QCIs of bearers
    MaxPackets, MaxBytes, MaxPerBearer,  \* by class
    MaxFrame, sizeOf,   \* packets that arrive, and their sizes
    MaxCommits,         \* rule changes
    ReaderPreempted,    \* rules may change between the reader's lookup and its return
    RestorePreempted,   \* and between a flush's look at the FAR and its restore
    None

VARIABLES
    rule,       \* key to FAR action, tunnel and QCI
    alive,      \* the session exists
    queues,     \* key to bearer buffer; keys without one are not in the domain
    pool,       \* class to its counters
    thread,     \* what the reader and the handlers are doing
    batch,      \* the reader's output batch: packets forwarded directly
    next,       \* number of the next packet
    commits,
    out,        \* ghost: packets sent or dropped
    tried,      \* ghost: packets offered to the buffer
    sent,       \* ghost: key to the last packet sent from its buffer
    late        \* ghost: thread to its sends, since the last commit, to a removed tunnel

vars == <<rule, alive, queues, pool, thread, batch, next, commits, out, tried, sent, late>>
rules == <<rule, alive, commits>>
buffer == <<queues, pool>>
ghosts == <<out, tried, sent, late>>

Reader == "reader"
Threads == Handlers \cup {Reader}
Frames == 1..MaxFrame
Idle == [pc |-> "idle", key |-> None, qci |-> 0, tun |-> None, hand |-> <<>>, from |-> 0,
         todo |-> {}]
NewPool == [packets |-> 0, bytes |-> 0, enqueued |-> 0, flushed |-> 0, expired |-> 0,
            overflow |-> 0, purged |-> 0]

Init ==
    /\ rule \in [Keys -> [act : {"drop", "buffer"}, tun : {None}, qci : QCIs]]
    /\ alive = TRUE /\ queues = <<>> /\ pool = [c \in Classes |-> NewPool]
    /\ thread = [t \in Threads |-> Idle] /\ batch = <<>> /\ next = 1 /\ commits = 0
    /\ out = {} /\ tried = 0 /\ sent = [k \in Keys |-> 0] /\ late = [t \in Threads |-> 0]

-----------------------------------------------------------------------------
At(t, pc) == thread[t].pc = pc
Goto(t, r) == thread' = [thread EXCEPT ![t] = r]
To(t, pc) == [thread[t] EXCEPT !.pc = pc]

bytesOf[fs \in Seq(Frames)] == IF fs = <<>> THEN 0 ELSE sizeOf[Head(fs)] + bytesOf[Tail(fs)]
Without(k) == [x \in DOMAIN queues \ {k} |-> queues[x]]
With(k, q) == [x \in DOMAIN queues \cup {k} |-> IF x = k THEN q ELSE queues[x]]
FramesAt(k) == IF k \in DOMAIN queues THEN queues[k].frames ELSE <<>>

(* The pool of a QCI: its own class, or class 0.                           *)
PoolOf(qci) == IF qci \in Classes THEN qci ELSE 0

(* A pool less the frames of a queue, and plus frames.                     *)
Less(p, fs) == [p EXCEPT !.packets = @ - Len(fs), !.bytes = @ - bytesOf[fs]]
Plus(p, fs) == [p EXCEPT !.packets = @ + Len(fs), !.bytes = @ + bytesOf[fs]]

Forwards(k) == alive /\ rule[k].act = "forward"
Buffers(k) == alive /\ rule[k].act = "buffer"

-----------------------------------------------------------------------------
(* enqueue: a queue of another class is dropped first; the packet is       *)
(* refused when its bearer or its class is full.                           *)
Full(c, pools, fs, n) ==
    \/ Len(fs) >= MaxPerBearer[c]
    \/ pools[c].packets >= MaxPackets[c]
    \/ sizeOf[n] > MaxBytes[c] - pools[c].bytes

(* Mutant: a packet is put in front of the others. *)
QueuedFirst(fs, n) == <<n>> \o fs
Queued(fs, n) == Append(fs, n)

(* The reader then flushes, in case the bearer was activated meanwhile.    *)
AfterEnqueue == [To(Reader, "lookup") EXCEPT !.hand = <<>>]

(* The pools without the queue of a bearer whose class became c.           *)
purgeQueueLocked(k, c) ==
    [pool EXCEPT ![queues[k].pool] =
        [Less(@, FramesAt(k)) EXCEPT !.overflow = @ + Len(FramesAt(k))]]

enqueue ==
    LET t == thread[Reader]
        k == t.key
        c == PoolOf(t.qci)
        n == t.hand[1]
        moved == k \in DOMAIN queues /\ queues[k].pool # c
        fs == IF moved THEN <<>> ELSE FramesAt(k)
        cleared == IF moved THEN purgeQueueLocked(k, c) ELSE pool
        lost == IF moved THEN Range(FramesAt(k)) ELSE {}
    IN  /\ At(Reader, "enqueue")
        /\ Goto(Reader, AfterEnqueue)
        /\ \/ /\ Full(c, cleared, fs, n)
              /\ queues' = With(k, [pool |-> c, frames |-> fs])
              /\ pool' = [cleared EXCEPT ![c].overflow = @ + 1]
              /\ out' = out \cup lost \cup {n}
           \/ /\ ~Full(c, cleared, fs, n)
              /\ queues' = With(k, [pool |-> c, frames |-> Queued(fs, n)])
              /\ pool' = [cleared EXCEPT ![c] = [Plus(@, <<n>>) EXCEPT !.enqueued = @ + 1]]
              /\ out' = out \cup lost
        /\ tried' = tried + 1
        /\ UNCHANGED <<rules, batch, next, sent, late>>

(* flushBuffered ends: the reader is free, a handler takes its next key.   *)
Done(t) == IF t = Reader THEN Idle ELSE [Idle EXCEPT !.pc = "keys", !.todo = thread[t].todo]

(* flushBuffered: nothing to do unless the bearer forwards.                *)
flushBuffered(t) ==
    /\ At(t, "lookup")
    /\ Goto(t, IF Forwards(thread[t].key) THEN To(t, "drain") ELSE Done(t))
    /\ UNCHANGED <<rules, buffer, batch, next, ghosts>>

(* Mutant: the queue keeps the frames that are handed out. *)
drainCopies(t) ==
    LET k == thread[t].key
    IN  /\ At(t, "drain")
        /\ IF FramesAt(k) = <<>> THEN Goto(t, Done(t))
           ELSE Goto(t, [To(t, "frame") EXCEPT !.hand = FramesAt(k), !.from = queues[k].pool])
        /\ UNCHANGED <<buffer, rules, batch, next, ghosts>>

drain(t) ==
    LET k == thread[t].key
        fs == FramesAt(k)
    IN  /\ At(t, "drain")
        /\ IF fs = <<>> THEN Goto(t, Done(t)) /\ UNCHANGED pool
           ELSE /\ Goto(t, [To(t, "frame") EXCEPT !.hand = fs, !.from = queues[k].pool])
                /\ pool' = [pool EXCEPT ![queues[k].pool] =
                                [Less(@, fs) EXCEPT !.flushed = @ + Len(fs)]]
        /\ queues' = Without(k)
        /\ UNCHANGED <<rules, batch, next, ghosts>>

(* After a frame: the flush goes on with the rest.                         *)
Rest(t) == IF Len(thread[t].hand) = 1 THEN Done(t)
           ELSE [To(t, "frame") EXCEPT !.hand = Tail(@)]

(* The FAR is read again for every frame.                                  *)
TunnelNow(t) == rule[thread[t].key].tun
frame(t) ==
    LET k == thread[t].key
    IN  /\ At(t, "frame")
        /\ \/ /\ Buffers(k) /\ UNCHANGED out
              /\ Goto(t, [To(t, "restore") EXCEPT !.qci = rule[k].qci])
           \/ /\ Forwards(k) /\ UNCHANGED out
              /\ Goto(t, [To(t, "send") EXCEPT !.tun = TunnelNow(t)])
           \/ /\ ~Buffers(k) /\ ~Forwards(k)
              /\ Goto(t, Rest(t)) /\ out' = out \cup {Head(thread[t].hand)}
        /\ UNCHANGED <<rules, buffer, batch, next, tried, sent, late>>

(* The frame is sent, or dropped by its QERs or by the socket.             *)
send(t) ==
    LET k == thread[t].key
        n == Head(thread[t].hand)
    IN  /\ At(t, "send") /\ Goto(t, Rest(t)) /\ out' = out \cup {n}
        /\ \/ /\ sent' = [sent EXCEPT ![k] = n]
              /\ late' = [late EXCEPT ![t] =
                            IF Forwards(k) /\ rule[k].tun = thread[t].tun THEN @ ELSE @ + 1]
           \/ UNCHANGED <<sent, late>>
        /\ UNCHANGED <<rules, buffer, batch, next, tried>>

(* restore puts the drained frames before those that came meanwhile, as    *)
(* many as the limits allow.                                               *)
Kept(c, pools, fs) ==
    LET room == IF MaxPackets[c] - pools[c].packets > MaxPerBearer[c] THEN MaxPerBearer[c]
                ELSE MaxPackets[c] - pools[c].packets
        fits == {i \in 0..Len(fs) : i <= room /\ bytesOf[SubSeq(fs, 1, i)]
                                                    <= MaxBytes[c] - pools[c].bytes}
    IN  SubSeq(fs, 1, CHOOSE i \in fits : \A j \in fits : j <= i)

Candidates(drained, existing) == drained \o existing

(* The drained frames were not flushed after all.                          *)
Unflushed(c, n) == [pool EXCEPT ![c].flushed = @ - n]

restore(t) ==
    LET k == thread[t].key
        c == PoolOf(thread[t].qci)
        fs == thread[t].hand
        there == FramesAt(k)
        unflushed == Unflushed(thread[t].from, Len(fs))
        cleared == IF k \notin DOMAIN queues THEN unflushed
                   ELSE [unflushed EXCEPT ![queues[k].pool] = Less(@, there)]
        all == Candidates(fs, there)
        kept == Kept(c, cleared, all)
    IN  /\ At(t, "restore") /\ Goto(t, Done(t))
        /\ queues' = IF kept = <<>> THEN Without(k) ELSE With(k, [pool |-> c, frames |-> kept])
        /\ pool' = [cleared EXCEPT ![c] =
                        [Plus(@, kept) EXCEPT !.overflow = @ + Len(all) - Len(kept)]]
        /\ out' = out \cup (Range(all) \ Range(kept))
        /\ UNCHANGED <<rules, batch, next, tried, sent, late>>

-----------------------------------------------------------------------------
(* prepare: the reader takes a downlink packet and looks its rule up once. *)
(* A packet of another peer, a malformed one, one without a rule and one   *)
(* that a gate or a rate refuses is dropped.                               *)
prepare(k) ==
    /\ At(Reader, "idle") /\ next <= MaxFrame /\ next' = next + 1
    /\ \/ /\ Buffers(k) /\ UNCHANGED <<batch, out>>
          /\ Goto(Reader, [Idle EXCEPT !.pc = "enqueue", !.key = k, !.qci = rule[k].qci,
                                       !.hand = <<next>>])
       \/ /\ Forwards(k) /\ UNCHANGED <<thread, out>>
          /\ batch' = Append(batch, next)
       \/ /\ UNCHANGED <<thread, batch>>
          /\ out' = out \cup {next}
    /\ UNCHANGED <<rules, buffer, tried, sent, late>>

(* writeOutputBatch: what the socket does not take is dropped.             *)
writeOutputBatch ==
    /\ At(Reader, "idle") /\ batch # <<>> /\ batch' = <<>>
    /\ out' = out \cup Range(batch)
    /\ UNCHANGED <<rules, buffer, thread, next, tried, sent, late>>

(* A rule commit is kept from the moments the constants exclude.           *)
MayCommit ==
    /\ commits < MaxCommits /\ alive
    /\ ~ReaderPreempted => At(Reader, "idle")
    /\ ~RestorePreempted => \A t \in Threads : ~At(t, "restore")

Committed == commits' = commits + 1 /\ late' = [t \in Threads |-> 0]

(* A session modification commits: a bearer is activated, moved, released  *)
(* to idle, or gets another QCI; then SessionChanged runs.                 *)
sessionModification(h, k) ==
    /\ At(h, "idle") /\ MayCommit /\ Committed
    /\ \/ \E n \in Tunnels : rule' = [rule EXCEPT ![k].act = "forward", ![k].tun = n]
       \/ /\ rule[k].act # "drop"
          /\ rule' = [rule EXCEPT ![k].act = "buffer", ![k].tun = None]
       \/ \E q \in QCIs : rule' = [rule EXCEPT ![k].qci = q]
    /\ Goto(h, [Idle EXCEPT !.pc = "changed"])
    /\ UNCHANGED <<alive, buffer, batch, next, out, tried, sent>>

(* SessionChanged lists the session's queues and flushes them one by one.  *)
SessionChanged(h) ==
    /\ At(h, "changed") /\ Goto(h, [Idle EXCEPT !.pc = "keys", !.todo = DOMAIN queues])
    /\ UNCHANGED <<rules, buffer, batch, next, ghosts>>

NextKey(h) ==
    /\ At(h, "keys")
    /\ \/ thread[h].todo = {} /\ Goto(h, Idle)
       \/ \E k \in thread[h].todo :
            Goto(h, [Idle EXCEPT !.pc = "lookup", !.key = k, !.todo = thread[h].todo \ {k}])
    /\ UNCHANGED <<rules, buffer, batch, next, ghosts>>

(* A session deletion or purge commits; then SessionDeleted purges.        *)
sessionDeletion(h) ==
    /\ At(h, "idle") /\ MayCommit /\ Committed
    /\ alive' = FALSE /\ Goto(h, [Idle EXCEPT !.pc = "deleted"])
    /\ UNCHANGED <<rule, buffer, batch, next, out, tried, sent>>

purgeSession(h) ==
    /\ At(h, "deleted") /\ Goto(h, Idle) /\ queues' = <<>>
    /\ pool' = [c \in Classes |->
         LET fs == UNION {Range(FramesAt(k)) : k \in {x \in DOMAIN queues : queues[x].pool = c}}
             gone == SetToSeq(fs)
         IN  [Less(pool[c], gone) EXCEPT !.purged = @ + Len(gone)]]
    /\ out' = out \cup UNION {Range(FramesAt(k)) : k \in DOMAIN queues}
    /\ UNCHANGED <<rules, batch, next, tried, sent, late>>

(* Mutant: the last frame of a queue does not expire. *)
DueButLast(q, due) ==
    LET over == {i \in 0..Len(q.frames) : /\ \A j \in 1..i : q.frames[j] <= due[q.pool]
                                          /\ i = Len(q.frames) => i = 0}
    IN  CHOOSE i \in over : \A j \in over : j <= i
Due(q, due) ==
    LET over == {i \in 0..Len(q.frames) : \A j \in 1..i : q.frames[j] <= due[q.pool]}
    IN  CHOOSE i \in over : \A j \in over : j <= i

(* expire: of every queue the leading frames that are due in its class.    *)
(* due[c] is the newest packet that class c has held for its hold time.    *)
expire(due) ==
    LET cut(k) == Due(queues[k], due)
        gone(k) == SubSeq(queues[k].frames, 1, cut(k))
        left(k) == SubSeq(queues[k].frames, cut(k) + 1, Len(queues[k].frames))
        hit == {k \in DOMAIN queues : cut(k) > 0}
    IN  /\ hit # {}
        /\ queues' = [k \in {x \in DOMAIN queues : x \in hit => left(x) # <<>>} |->
                        [queues[k] EXCEPT !.frames = left(k)]]
        /\ pool' = [c \in Classes |->
             LET fs == SetToSeq(UNION {Range(gone(k)) : k \in {x \in hit : queues[x].pool = c}})
             IN  [Less(pool[c], fs) EXCEPT !.expired = @ + Len(fs)]]
        /\ out' = out \cup UNION {Range(gone(k)) : k \in hit}
        /\ UNCHANGED <<rules, thread, batch, next, tried, sent, late>>

(* The hold time is over for everything that is buffered.                  *)
AllDue == [c \in Classes |-> MaxFrame]

Flush(t) == flushBuffered(t) \/ drain(t) \/ frame(t) \/ send(t) \/ restore(t)
readLoop == enqueue \/ writeOutputBatch \/ Flush(Reader) \/ \E k \in Keys : prepare(k)
Step(h) == SessionChanged(h) \/ NextKey(h) \/ purgeSession(h)

Finished ==
    /\ next > MaxFrame /\ (commits = MaxCommits \/ ~alive)
    /\ batch = <<>> /\ \A t \in Threads : At(t, "idle")
    /\ UNCHANGED vars

Next ==
    \/ readLoop
    \/ \E h \in Handlers : Flush(h) \/ Step(h) \/ sessionDeletion(h)
    \/ \E h \in Handlers, k \in Keys : sessionModification(h, k)
    \/ \E due \in [Classes -> Frames] : expire(due)
    \/ Finished

Spec == Init /\ [][Next]_vars
FairSpec ==
    /\ Spec /\ WF_vars(expire(AllDue)) /\ WF_vars(enqueue) /\ WF_vars(writeOutputBatch)
    /\ \A t \in Threads : WF_vars(Flush(t))
    /\ \A h \in Handlers : WF_vars(Step(h))

-----------------------------------------------------------------------------
Held(c) == {k \in DOMAIN queues : queues[k].pool = c}
TypeOK ==
    /\ rule \in [Keys -> [act : {"drop", "buffer", "forward"}, tun : Tunnels \cup {None},
                          qci : QCIs]]
    /\ alive \in BOOLEAN /\ commits \in 0..MaxCommits
    /\ DOMAIN queues \subseteq Keys /\ \A k \in DOMAIN queues : queues[k].pool \in Classes
    /\ \A c \in Classes : \A f \in DOMAIN NewPool : pool[c][f] \in Nat
    /\ next \in 1..MaxFrame + 1 /\ out \subseteq Frames /\ tried \in 0..MaxFrame

(* Every class stays within its configured packets and bytes and every     *)
(* bearer within its own limit, whatever enqueue, drain, restore, expiry   *)
(* and purge do and in whatever order; and a class's occupancy counters    *)
(* are what its queues hold.  A restore is where a class could overflow.   *)
PoolsBounded ==
    \A c \in Classes :
        LET fs == UNION {Range(FramesAt(k)) : k \in Held(c)}
        IN  /\ pool[c].packets = Cardinality(fs) /\ pool[c].bytes = bytesOf[SetToSeq(fs)]
            /\ pool[c].packets <= MaxPackets[c] /\ pool[c].bytes <= MaxBytes[c]
            /\ \A k \in Held(c) : Len(FramesAt(k)) <= MaxPerBearer[c]

(* A packet is never duplicated and never lost without trace: it is in one *)
(* queue, or in the hands of one thread, or has been sent or dropped once. *)
Places(n) ==
    Cardinality({<<k, i>> \in Keys \X Frames : i <= Len(FramesAt(k)) /\ FramesAt(k)[i] = n})
    + Cardinality({<<t, i>> \in Threads \X Frames :
                     i <= Len(thread[t].hand) /\ thread[t].hand[i] = n})
    + Cardinality({i \in DOMAIN batch : batch[i] = n}) + (IF n \in out THEN 1 ELSE 0)
Conserved == \A n \in 1..next - 1 : Places(n) = 1

(* The exported counters account for every packet offered to the buffer:   *)
(* it is held, flushed, expired, refused or purged, and counted as one of  *)
(* them only (restored packets are not counted as flushed).                *)
total[S \in SUBSET Classes] ==
    IF S = {} THEN 0
    ELSE LET c == CHOOSE x \in S : TRUE
         IN  pool[c].packets + pool[c].flushed + pool[c].expired + pool[c].overflow
                + pool[c].purged + total[S \ {c}]
Accounted == total[Classes] = tried

(* A flush reads the FAR again for every packet: after a release, handover *)
(* or deletion commits, a flush that is under way sends at most the one    *)
(* packet it had already read the FAR for to the tunnel that was removed.  *)
OneLateSend == \A t \in Threads : late[t] <= 1

(* The lookup/update race is closed: when nothing is under way and a       *)
(* bearer forwards, its buffer holds no packet.                            *)
Quiet == \A t \in Threads : At(t, "idle")
NothingStranded == Quiet => \A k \in Keys : Forwards(k) => FramesAt(k) = <<>>

(* Packets leave the buffer of a bearer in the order they arrived.         *)
OrderedRelease == \A k \in Keys : sent'[k] # sent[k] => sent'[k] > sent[k]

(* A deleted session leaves no packet and no queue in the buffer.          *)
DeletedLeavesNothing == Quiet /\ ~alive => queues = <<>>

(* No packet stays in the buffer: it is released, dropped, purged, or it   *)
(* expires.                                                                *)
BufferedLeaves ==
    \A n \in Frames : (\E k \in Keys : n \in Range(FramesAt(k))) ~> n \in out
=============================================================================
