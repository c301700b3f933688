---------------------------- MODULE UsageReport ----------------------------
(***************************************************************************)
(* Usage reporting of one session, from the packet meters of a user plane  *)
(* to the durable ledger of its control plane: policyEngine.recordUsage,   *)
(* usagereport.Emitter with its workers, sendUsageReport, the control      *)
(* plane's handleSessionReport and usagereport.Ledger over its journal.    *)
(* SGW-U with SGW-C and PGW-U with PGW-C use the same code.                *)
(*                                                                         *)
(* Requests and answers may be lost; a sender that timed out leaves its    *)
(* request to be executed later.  Either side may restart, the user plane  *)
(* may purge the session, and the control plane gives it back (Recover);   *)
(* how they do that is SxRecovery.  A byte stands for a second too, so the *)
(* byte count dates a report.                                              *)
(***************************************************************************)
EXTENDS Integers, Sequences, FiniteSets, TLC

CONSTANTS URRs,          \* URR ids: the default bearer's, and a dedicated bearer's
          DefaultURR,
          Threshold,     \* UsageReportingThreshold, in bytes
          QueueSize, Workers,
          MaxRecords,    \* records that fit in the ledger's journal
          MaxUPSEID,     \* bound: UP-SEIDs given to the session
          MaxBytes,      \* bound: bytes metered
          MaxFaults,     \* bound: losses, time-outs, failed appends, restarts, purges
          MaxChanges,    \* bound: dedicated bearers removed and added, sessions deleted
          LookupPreempted, \* whether Delete may run between a handler's look-up and Accept
          ReuseURR,      \* whether a removed bearer's URR id is given to a new bearer
          Reestablish    \* whether a session may be established anew by a user plane that
                         \* did not restart: after a purge, or a crash inside Delete

VARIABLES up,        \* UP-SEID of the installed session, 0 when there is none
          lastUP,    \* last UP-SEID allocated
          epoch,     \* the user plane's recovery time stamp
          ready,     \* its association with the owner is in state Associated
          meter,     \* policyShard.usage of the session
          states,    \* Emitter.states, by UP-SEID and URR
          jobs, sending, results,   \* the emitter's channels, and the workers' requests
          handlers,  \* report handlers of the control plane that passed the look-up
          assoc, upOf,              \* Client.association (its stamp, or 0), Client.upSEIDByCP
          bearers,   \* URRs of the session's bearers in the control plane's store; {} if deleted
          deleting,  \* next step of Client.Delete
          book,      \* Ledger: checkpoints and totals in memory
          log,       \* records of its journal
          broken,    \* the journal refuses every append
          metered, counted, twice, refused, \* ghosts: bytes metered; reports counted;
                                            \* one was counted twice; one was answered
                                            \* with a gap or a conflict
          faults, changes                   \* bounds

upVars == <<up, lastUP, epoch, ready, meter, states, jobs, sending, results, metered>>
cpVars == <<handlers, assoc, upOf, bearers, deleting, book, log, broken, counted, twice, refused>>
vars == <<upVars, cpVars, faults, changes>>

Fault == faults < MaxFaults /\ faults' = faults + 1
Change == changes < MaxChanges /\ changes' = changes + 1
NoReport == [bytes |-> 0]
NoState == [seq |-> -1]
NoCheckpoint == [seq |-> -1]
Epochs == 1..(1 + MaxFaults)
Keys == (1..MaxUPSEID) \X URRs
Installed == IF up = 0 THEN {} ELSE bearers
Put(f, k, v) == [x \in DOMAIN f \union {k} |-> IF x = k THEN v ELSE f[x]]
Drop(f, S) == [x \in DOMAIN f \ S |-> f[x]]

----------------------------------------------------------------------------
(* Meters *)

NewMeter == [bytes |-> 0, events |-> 0, next |-> Threshold, last |-> 0]

\* recordUsage for a packet of n bytes: how many thresholds it crosses.
Metered(m, n) ==
  LET total == m.bytes + n
      crossed == IF total >= m.next THEN (total - m.next) \div Threshold + 1 ELSE 0
  IN [bytes |-> total, events |-> m.events + crossed, next |-> m.next + crossed * Threshold,
      last |-> metered + n]
Packet(u, n) ==
  /\ u \in Installed
  /\ metered + n <= MaxBytes
  /\ meter' = Put(meter, u, Metered(IF u \in DOMAIN meter THEN meter[u] ELSE NewMeter, n))
  /\ metered' = metered + n
  /\ UNCHANGED <<up, lastUP, epoch, ready, states, jobs, sending, results, cpVars, faults, changes>>

----------------------------------------------------------------------------
(* Emitter *)

Baseline(m) == [bytes |-> m.bytes, events |-> m.events]
NewEmitterState == [seq |-> 0, base |-> [bytes |-> 0, events |-> 0], pending |-> NoReport,
                    scheduled |-> FALSE, waiting |-> FALSE]
countersDecreased(m, b) == m.bytes < b.bytes \/ m.events < b.events
makeIntervalReport(u, s, m) == [urr |-> u, seq |-> s.seq, bytes |-> m.bytes - s.base.bytes, at |-> m.last]

\* resolveUsageCPSEID
Resolves == up # 0 /\ ready

\* poll, for one measured URR.
Observed(u, s, m) ==
  LET report == makeIntervalReport(u, s, m)
  IN CASE s.pending = NoReport /\ countersDecreased(m, s.base) -> [s EXCEPT !.base = Baseline(m)]
       [] s.pending = NoReport /\ ~countersDecreased(m, s.base) /\ m.events > s.base.events
            /\ Resolves /\ report.bytes # 0
            -> [s EXCEPT !.pending = report, !.seq = @ + 1, !.base = Baseline(m), !.waiting = FALSE]
       [] OTHER -> s

AfterPoll ==
  [k \in Keys |->
     IF k[1] = up /\ k[2] \in DOMAIN meter
     THEN Observed(k[2], IF states[k] = NoState THEN NewEmitterState ELSE states[k], meter[k[2]])
     ELSE IF states[k] # NoState /\ states[k].pending = NoReport THEN NoState ELSE states[k]]

\* scheduleLocked: what is due goes to the queue, in the order of a map, as
\* far as the queue has room; the rest waits for RetryBase.
Poll ==
  LET due == {k \in Keys : AfterPoll[k] # NoState /\ AfterPoll[k].pending # NoReport
                             /\ ~AfterPoll[k].scheduled /\ ~AfterPoll[k].waiting}
      room == QueueSize - Cardinality(jobs)
  IN \E S \in SUBSET due :
       /\ Cardinality(S) = (IF Cardinality(due) < room THEN Cardinality(due) ELSE room)
       /\ states' = [k \in Keys |-> IF k \in S THEN [AfterPoll[k] EXCEPT !.scheduled = TRUE]
                                    ELSE IF k \in due THEN [AfterPoll[k] EXCEPT !.waiting = TRUE]
                                    ELSE AfterPoll[k]]
       /\ jobs' = jobs \union {[key |-> k, report |-> AfterPoll[k].pending] : k \in S}
  /\ UNCHANGED <<up, lastUP, epoch, ready, meter, sending, results, metered, cpVars, faults, changes>>

BackoffEnds(k) ==
  /\ states[k] # NoState /\ states[k].waiting
  /\ states' = [states EXCEPT ![k].waiting = FALSE]
  /\ UNCHANGED <<up, lastUP, epoch, ready, meter, jobs, sending, results, metered, cpVars, faults, changes>>

Result(j, ok) == [key |-> j.key, seq |-> j.report.seq, ok |-> ok]

\* A worker takes a job; sendUsageReport.
Send(j) ==
  /\ Cardinality(sending) < Workers
  /\ jobs' = jobs \ {j}
  /\ \/ up = j.key[1] /\ ready /\ sending' = sending \union {j} /\ UNCHANGED results
     \/ ~(up = j.key[1] /\ ready) /\ results' = results \union {Result(j, FALSE)} /\ UNCHANGED sending
  /\ UNCHANGED <<up, lastUP, epoch, ready, meter, states, metered, cpVars, faults, changes>>

\* Handlers whose answer nobody waits for any more.
Abandoned(hs, js) == {[h EXCEPT !.awaited = @ /\ h.job \notin js] : h \in hs}

\* ReportTimeout, or every copy of the request or of the answer lost.
SendFails(j) ==
  /\ Fault
  /\ sending' = sending \ {j}
  /\ results' = results \union {Result(j, FALSE)}
  /\ handlers' = Abandoned(handlers, {j})
  /\ UNCHANGED <<up, lastUP, epoch, ready, meter, states, jobs, metered, assoc, upOf, bearers, deleting,
                 book, log, broken, counted, twice, refused, changes>>

\* Mutant: a report that failed stays scheduled.
CompleteStaysScheduled(r) ==
  /\ results' = results \ {r}
  /\ states' = IF states[r.key] = NoState \/ states[r.key].pending = NoReport \/ states[r.key].pending.seq # r.seq
               THEN states
               ELSE [states EXCEPT ![r.key].pending = IF r.ok THEN NoReport ELSE @,
                                   ![r.key].scheduled = ~r.ok,
                                   ![r.key].waiting = ~r.ok]
  /\ UNCHANGED <<up, lastUP, epoch, ready, meter, jobs, sending, metered, cpVars, faults, changes>>
complete(r) ==
  /\ results' = results \ {r}
  /\ states' = IF states[r.key] = NoState \/ states[r.key].pending = NoReport \/ states[r.key].pending.seq # r.seq
               THEN states
               ELSE [states EXCEPT ![r.key].scheduled = FALSE,
                                   ![r.key].pending = IF r.ok THEN NoReport ELSE @,
                                   ![r.key].waiting = ~r.ok]
  /\ UNCHANGED <<up, lastUP, epoch, ready, meter, jobs, sending, metered, cpVars, faults, changes>>

----------------------------------------------------------------------------
(* Ledger *)

EmptyBook == [checkpoints |-> [k \in Epochs \X URRs |-> NoCheckpoint], bytes |-> 0]
\* Mutant: the last sequence number is accepted again.
AcceptsRepeated(b, e, r) == r.seq - b.checkpoints[<<e, r.urr>>].seq \in 0..1
Accepts(b, e, r) == b.checkpoints[<<e, r.urr>>].seq + 1 = r.seq
Enter(b, e, r) == [b EXCEPT !.checkpoints[<<e, r.urr>>] = r, !.bytes = @ + r.bytes]
Forget(b) == [b EXCEPT !.checkpoints = EmptyBook.checkpoints]

AcceptRecord(e, r) == [kind |-> "accept", epoch |-> e, report |-> r]
DeleteRecord == [kind |-> "delete"]

\* Ledger.replay of one record; ok tells that none was refused.
Replayed(b, f) ==
  CASE f.kind = "accept" -> IF b.ok /\ Accepts(b.book, f.epoch, f.report)
                            THEN [b EXCEPT !.book = Enter(@, f.epoch, f.report)] ELSE [b EXCEPT !.ok = FALSE]
    [] f.kind = "delete" -> [b EXCEPT !.book = Forget(@)]
    [] f.kind = "snapshot" -> [b EXCEPT !.book = f.book, !.ok = @ /\ b.book = EmptyBook]
Replay(l) ==
  LET after[n \in 0..Len(l)] == IF n = 0 THEN [book |-> EmptyBook, ok |-> TRUE] ELSE Replayed(after[n - 1], l[n])
  IN after[Len(l)]

\* compactIfNeeded and Append: the snapshot's records count as one here.
compactIfNeeded(l) == IF Len(l) < MaxRecords THEN l ELSE <<[kind |-> "snapshot", book |-> book]>>

----------------------------------------------------------------------------
(* The control plane's report handler *)

Answer(j, ok) == sending' = sending \ {j} /\ results' = results \union {Result(j, ok)}
Reply(h, ok) ==
  /\ handlers' = handlers \ {h}
  /\ IF h.awaited THEN Answer(h.job, ok) ELSE UNCHANGED <<sending, results>>

\* The look-up of handleSessionReport, for a request in flight.
Known == assoc # 0 /\ upOf # 0
Receive(j) ==
  /\ \A h \in handlers : h.awaited => h.job # j
  /\ \/ Known /\ handlers' = handlers \union {[job |-> j, epoch |-> assoc, awaited |-> TRUE]} /\ UNCHANGED <<sending, results>>
     \/ ~Known /\ Answer(j, FALSE) /\ UNCHANGED handlers
  /\ UNCHANGED <<up, lastUP, epoch, ready, meter, states, jobs, metered, assoc, upOf, bearers, deleting,
                 book, log, broken, counted, twice, refused, faults, changes>>

Id(h) == [epoch |-> h.epoch, key |-> h.job.key, report |-> h.job.report]

AcceptNew(h) ==
  /\ ~broken
  /\ Accepts(book, h.epoch, h.job.report)
  /\ log' = Append(compactIfNeeded(log), AcceptRecord(h.epoch, h.job.report))
  /\ book' = Enter(book, h.epoch, h.job.report)
  /\ counted' = counted \union {Id(h)} /\ twice' = (twice \/ Id(h) \in counted)
  /\ Reply(h, TRUE)
  /\ UNCHANGED <<up, lastUP, epoch, ready, meter, states, jobs, metered, assoc, upOf, bearers, deleting,
                 broken, refused, faults, changes>>

AcceptDuplicate(h) ==
  /\ book.checkpoints[<<h.epoch, h.job.report.urr>>] = h.job.report
  /\ Reply(h, TRUE)
  /\ UNCHANGED <<up, lastUP, epoch, ready, meter, states, jobs, metered, assoc, upOf, bearers, deleting,
                 book, log, broken, counted, twice, refused, faults, changes>>

\* ErrSequenceGap, ErrSequenceConflict
Refuse(h) ==
  /\ ~Accepts(book, h.epoch, h.job.report)
  /\ book.checkpoints[<<h.epoch, h.job.report.urr>>] # h.job.report
  /\ refused' = (refused \/ h.awaited)
  /\ Reply(h, FALSE)
  /\ UNCHANGED <<up, lastUP, epoch, ready, meter, states, jobs, metered, assoc, upOf, bearers, deleting,
                 book, log, broken, counted, twice, faults, changes>>

\* The append fails, now or since an earlier failure; the record may be in
\* the file all the same.
AppendFails(h) ==
  /\ Accepts(book, h.epoch, h.job.report)
  /\ IF broken THEN UNCHANGED <<log, broken, faults, counted>>
     ELSE /\ Fault /\ broken' = TRUE
          /\ \/ UNCHANGED <<log, counted>>
             \/ /\ log' = Append(compactIfNeeded(log), AcceptRecord(h.epoch, h.job.report))
                /\ counted' = counted \union {Id(h)}
  /\ Reply(h, FALSE)
  /\ UNCHANGED <<up, lastUP, epoch, ready, meter, states, jobs, metered, assoc, upOf, bearers, deleting,
                 book, twice, refused, changes>>

----------------------------------------------------------------------------
(* Sessions and bearers *)

\* Session deletion: Client.Delete after SGW-U or PGW-U answered, in the two
\* steps it takes, then the store forgets the session.
DeleteUP ==
  /\ deleting = "no" /\ bearers # {} /\ assoc # 0 /\ Change
  /\ up' = 0 /\ meter' = <<>>
  /\ deleting' = "lookup"
  /\ UNCHANGED <<lastUP, epoch, ready, states, jobs, sending, results, metered, handlers, assoc, upOf, bearers,
                 book, log, broken, counted, twice, refused, faults>>
DeleteLookup ==
  /\ deleting = "lookup"
  /\ handlers = {} \/ LookupPreempted
  /\ upOf' = 0
  /\ deleting' = "ledger"
  /\ UNCHANGED <<upVars, handlers, assoc, bearers, book, log, broken, counted, twice, refused, faults, changes>>
RemoveSession ==
  /\ deleting = "ledger"
  /\ IF broken \/ book.checkpoints = EmptyBook.checkpoints
     THEN UNCHANGED <<log, book>>
     ELSE log' = Append(compactIfNeeded(log), DeleteRecord) /\ book' = Forget(book)
  /\ deleting' = "no" /\ bearers' = {}
  /\ UNCHANGED <<upVars, handlers, assoc, upOf, broken, counted, twice, refused, faults, changes>>

reconcileSession(m, kept) == Drop(m, DOMAIN m \ kept)

\* A dedicated bearer goes; reconcileSession drops its meter.
RemoveBearer(u) ==
  /\ u \in bearers /\ u # DefaultURR /\ deleting = "no" /\ up # 0 /\ ready /\ Change
  /\ bearers' = bearers \ {u}
  /\ meter' = reconcileSession(meter, bearers')
  /\ UNCHANGED <<up, lastUP, epoch, ready, states, jobs, sending, results, metered, handlers, assoc, upOf, deleting,
                 book, log, broken, counted, twice, refused, faults>>
\* The lowest free URR id goes to the next one.
AddBearer(u) ==
  /\ ReuseURR
  /\ u \notin bearers /\ bearers # {} /\ deleting = "no" /\ up # 0 /\ ready /\ Change
  /\ bearers' = bearers \union {u}
  /\ UNCHANGED <<upVars, handlers, assoc, upOf, deleting, book, log, broken, counted, twice, refused, faults>>

----------------------------------------------------------------------------
(* Restarts *)

UPRestart ==
  /\ Fault
  /\ up' = 0 /\ ready' = FALSE /\ epoch' = epoch + 1
  /\ meter' = <<>> /\ states' = [k \in Keys |-> NoState]
  /\ jobs' = {} /\ sending' = {} /\ results' = {}
  /\ handlers' = Abandoned(handlers, sending)
  /\ UNCHANGED <<lastUP, metered, assoc, upOf, bearers, deleting, book, log, broken, counted, twice, refused, changes>>

\* The grace window ends before the control plane is back.
Purge ==
  /\ Reestablish /\ Fault
  /\ up # 0
  /\ up' = 0 /\ ready' = FALSE /\ meter' = <<>>
  /\ UNCHANGED <<lastUP, epoch, states, jobs, sending, results, metered, cpVars, changes>>

CPRestart ==
  /\ Fault
  /\ deleting = "no" \/ Reestablish
  /\ assoc' = 0 /\ upOf' = 0 /\ handlers' = {}
  /\ book' = Replay(log).book /\ broken' = FALSE
  /\ deleting' = "no"
  /\ ready' = FALSE
  /\ UNCHANGED <<up, lastUP, epoch, meter, states, jobs, sending, results, metered, bearers, log, counted, twice,
                 refused, changes>>

\* Association and replay: the session is established again if the user plane
\* has lost it.
Recover ==
  /\ deleting = "no" /\ (~ready \/ assoc # epoch)
  /\ assoc' = epoch /\ ready' = TRUE
  /\ IF bearers = {} \/ up # 0 THEN UNCHANGED <<up, lastUP>>
     ELSE lastUP < MaxUPSEID /\ lastUP' = lastUP + 1 /\ up' = lastUP'
  /\ upOf' = IF bearers = {} THEN 0 ELSE up'
  /\ UNCHANGED <<epoch, meter, states, jobs, sending, results, metered, handlers, bearers, deleting,
                 book, log, broken, counted, twice, refused, faults, changes>>

----------------------------------------------------------------------------

Init ==
  /\ up = 1 /\ lastUP = 1 /\ epoch = 1 /\ ready = TRUE
  /\ meter = <<>> /\ states = [k \in Keys |-> NoState]
  /\ jobs = {} /\ sending = {} /\ results = {} /\ handlers = {}
  /\ assoc = 1 /\ upOf = 1 /\ bearers = URRs /\ deleting = "no"
  /\ book = EmptyBook /\ log = <<>> /\ broken = FALSE
  /\ metered = 0 /\ counted = {} /\ twice = FALSE /\ refused = FALSE
  /\ faults = 0 /\ changes = 0

Handle(h) == AcceptNew(h) \/ AcceptDuplicate(h) \/ Refuse(h) \/ AppendFails(h)

Next ==
  \/ \E u \in URRs : (\E n \in 1..2 : Packet(u, n)) \/ RemoveBearer(u) \/ AddBearer(u)
  \/ Poll
  \/ \E k \in Keys : BackoffEnds(k)
  \/ \E j \in jobs : Send(j)
  \/ \E j \in sending : SendFails(j) \/ Receive(j)
  \/ \E r \in results : complete(r)
  \/ \E h \in handlers : Handle(h)
  \/ DeleteUP \/ DeleteLookup \/ RemoveSession
  \/ UPRestart \/ Purge \/ CPRestart \/ Recover

Spec == Init /\ [][Next]_vars

\* The poll ticker and the back-off timer fire, the channels are first in
\* first out, workers and handlers run, the control plane associates and
\* replays.
FairSpec ==
  /\ Spec
  /\ WF_vars(Poll) /\ WF_vars(Recover)
  /\ \A k \in Keys :
       /\ WF_vars(BackoffEnds(k))
       /\ WF_vars(\E j \in jobs : j.key = k /\ Send(j))
       /\ WF_vars(\E j \in sending : j.key = k /\ Receive(j))
       /\ WF_vars(\E r \in results : r.key = k /\ complete(r))
       /\ WF_vars(\E h \in handlers : h.job.key = k /\ Handle(h))

----------------------------------------------------------------------------
(* Properties *)

\* Every variable has its shape.
TypeOK ==
  /\ up \in 0..lastUP /\ lastUP \in 1..MaxUPSEID /\ epoch \in Epochs /\ assoc \in 0..epoch /\ upOf \in 0..lastUP
  /\ {ready, broken, twice, refused} \subseteq BOOLEAN
  /\ DOMAIN meter \subseteq Installed /\ bearers \subseteq URRs
  /\ Cardinality(jobs) <= QueueSize /\ Cardinality(sending) <= Workers
  /\ deleting \in {"no", "lookup", "ledger"} /\ Len(log) <= MaxRecords + 1
  /\ metered \in 0..MaxBytes

\* Ledger.Accept: however often a report is sent, and whoever restarts, its
\* volume is counted at most once.
CountedOnce == ~twice

\* makeIntervalReport, Accept: what the ledger counted, and what is still on
\* its way to it, never exceeds what was metered.
CountedWasMetered ==
  LET open == {k \in Keys : states[k] # NoState /\ states[k].pending # NoReport
                              /\ [epoch |-> epoch, key |-> k, report |-> states[k].pending] \notin counted}
      volume[S \in SUBSET open] == IF S = {} THEN 0
                                   ELSE LET k == CHOOSE x \in S : TRUE
                                        IN states[k].pending.bytes + volume[S \ {k}]
  IN book.bytes + volume[open] <= metered

\* Accept, Compact, RemoveSession: the journal restores the ledger that is in
\* memory, and the ledger accepts its own journal.
LedgerMatchesJournal == Replay(log).ok /\ (~broken => Replay(log).book = book)

\* complete, scheduleLocked: a report is in the hands of one worker, queue or
\* result at a time, so reports of one URR cannot overtake each other.
OneDelivery ==
  \A k \in Keys : Cardinality({j \in jobs : j.key = k}) + Cardinality({j \in sending : j.key = k})
                    + Cardinality({r \in results : r.key = k})
                  = IF states[k] # NoState /\ states[k].scheduled THEN 1 ELSE 0

\* Emitter, Accept: the control plane finds neither gap nor conflict in the
\* reports a user plane waits to have acknowledged, which it numbers one after
\* the other.
NoGapOrConflict == ~refused

\* RemoveSession: no checkpoint outlives its session.
CheckpointsBounded ==
  bearers = {} /\ handlers = {} /\ ~broken /\ faults = 0 => book.checkpoints = EmptyBook.checkpoints

\* worker, retryDelay: a report the emitter holds is counted in the end,
\* unless its session is gone or the ledger's journal failed.
ReportsArrive ==
  \A k \in Keys : (states[k] # NoState /\ states[k].pending # NoReport)
                    ~> (states[k] = NoState \/ states[k].pending = NoReport \/ up # k[1] \/ broken)
=============================================================================
