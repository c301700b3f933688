---------------------------- MODULE Association ----------------------------
(***************************************************************************)
(* The PFCP association manager of SGW-U and PGW-U                         *)
(* (internal/pfcp/association): one record per control-plane peer, a       *)
(* forwarding grace window after contact is lost, and explicit             *)
(* reconciliation before the peer may create sessions again.               *)
(*                                                                         *)
(* Time is a natural number; 0 stands for Go's zero time.                  *)
(***************************************************************************)
EXTENDS Integers

CONSTANTS
    Peers,        \* control-plane addresses
    Recoveries,   \* recovery time stamps a peer may present
    Timeout,      \* Config.Timeout
    GraceWindow,  \* Config.GraceWindow
    MaxTime,      \* bound on the modelled clock
    NoRecord,     \* "the map has no entry"
    NoRecovery    \* zero recovery time of a restored record

ASSUME TimesAssumption ==
    /\ Timeout \in Nat \ {0}
    /\ GraceWindow \in Nat \ {0}
    /\ MaxTime \in Nat

VARIABLES
    records,   \* Manager.records
    now        \* the clock

vars == <<records, now>>

States == {"unavailable", "associated", "grace", "reconciling"}
Zero == 0

RecordType == [state : States, recovery : Recoveries \cup {NoRecovery},
               lastSeen : Nat, started : Nat, deadline : Nat]

ASSUME NamesAssumption == NoRecovery \notin Recoveries /\ NoRecord \notin RecordType

Record(st, re, seen, from, to) ==
    [state |-> st, recovery |-> re, lastSeen |-> seen, started |-> from, deadline |-> to]

Known(p) == records[p] # NoRecord
InWindow(p) == Known(p) /\ records[p].state \in {"grace", "reconciling"}

(* State: an unknown peer counts as unavailable. *)
State(p) == IF Known(p) THEN records[p].state ELSE "unavailable"
CanCreate(p) == State(p) = "associated"
CanMutate(p) == State(p) \in {"associated", "reconciling"}

(* RestoreUnavailable: what the server seeds, before it serves, for a peer  *)
(* recovered from durable user-plane state.                                 *)
Restored == Record("unavailable", NoRecovery, Zero, Zero, Zero)

Init == records \in [Peers -> {NoRecord, Restored}] /\ now = 1

(* Whether an accepted Association Setup starts a reconciliation. *)
Reconciles(p, recovery) ==
    Known(p) /\ \/ records[p].state \in {"grace", "reconciling", "unavailable"}
                \/ records[p].recovery # recovery

(* Setup: a window that is already open keeps its deadline. *)
Setup(p, recovery) ==
    /\ records' = [records EXCEPT ![p] =
          IF ~Reconciles(p, recovery)
          THEN Record("associated", recovery, now, Zero, Zero)
          ELSE IF records[p].started # Zero
          THEN Record("reconciling", recovery, now,
                      records[p].started, records[p].deadline)
          ELSE Record("reconciling", recovery, now, now, now + GraceWindow)]
    /\ UNCHANGED now

(* Touch: any request of an allowed peer.  It never leaves grace. *)
Touch(p) ==
    /\ Known(p)
    /\ records' = [records EXCEPT ![p].lastSeen = now]
    /\ UNCHANGED now

NotHeard(p) == records[p].lastSeen # Zero /\ now - records[p].lastSeen >= Timeout

(* What one sweep makes of a record. *)
Swept(p) ==
    CASE Known(p) /\ records[p].state = "associated" /\ NotHeard(p) ->
            [records[p] EXCEPT !.state = "grace", !.started = now,
                               !.deadline = now + GraceWindow]
      [] InWindow(p) /\ records[p].deadline # Zero /\ now >= records[p].deadline ->
            [records[p] EXCEPT !.state = "unavailable", !.started = Zero,
                               !.deadline = Zero]
      [] OTHER -> records[p]

Sweep == records' = [p \in Peers |-> Swept(p)] /\ UNCHANGED now

(* Mutant: completion leaves the deadline set. *)
CompleteLeavesWindow(p) ==
    /\ Known(p) /\ records[p].state = "reconciling"
    /\ records' = [records EXCEPT ![p].state = "associated", ![p].lastSeen = now]
    /\ UNCHANGED now

(* Mutant: completion is accepted in any state. *)
CompleteAnyState(p) ==
    /\ Known(p)
    /\ records' = [records EXCEPT ![p] =
          Record("associated", records[p].recovery, now, Zero, Zero)]
    /\ UNCHANGED now

(* Complete: only a reconciling peer becomes associated. *)
Complete(p) ==
    /\ Known(p) /\ records[p].state = "reconciling"
    /\ records' = [records EXCEPT ![p] =
          Record("associated", records[p].recovery, now, Zero, Zero)]
    /\ UNCHANGED now

Release(p) ==
    /\ Known(p)
    /\ records' = [records EXCEPT ![p] = NoRecord]
    /\ UNCHANGED now

(* External: time passes. *)
Tick == now < MaxTime /\ now' = now + 1 /\ UNCHANGED records

Next ==
    \/ Tick \/ Sweep
    \/ \E p \in Peers :
          \/ Touch(p) \/ Complete(p) \/ Release(p)
          \/ \E recovery \in Recoveries : Setup(p, recovery)

(* The sweep runs from a one-second ticker for as long as the server does. *)
Spec == Init /\ [][Next]_vars /\ WF_vars(Tick) /\ WF_vars(Sweep)

-----------------------------------------------------------------------------
(* Every record has its type and no contact lies in the future, so the      *)
(* silence Sweep measures is never negative.                                *)
TypeOK ==
    /\ records \in [Peers -> RecordType \cup {NoRecord}]
    /\ now \in Nat \ {0}
    /\ \A p \in Peers : Known(p) => records[p].lastSeen <= now

(* The window is open exactly in grace and reconciling, its deadline is     *)
(* GraceWindow after its start and it started in the past: Setup, Sweep and *)
(* Complete keep the two times consistent in every order they can run.      *)
WindowConsistent ==
    \A p \in Peers : Known(p) =>
        IF InWindow(p)
        THEN /\ records[p].started \in 1..now
             /\ records[p].deadline = records[p].started + GraceWindow
        ELSE records[p].started = Zero /\ records[p].deadline = Zero

(* Rules never outlive the outage that made them stale by more than the     *)
(* grace window: as long as the peer does not complete a reconciliation, no *)
(* sequence of Setup, Touch and Sweep calls moves the deadline.             *)
DeadlineNeverMoves ==
    [][\A p \in Peers : InWindow(p) /\ InWindow(p)' =>
          records'[p].deadline = records[p].deadline]_vars

(* A peer that lost contact becomes associated again only by completing a   *)
(* reconciliation: not by traffic, and not by Association Setup alone.      *)
AuthorityNeedsReplay ==
    [][\A p \in Peers :
          Known(p) /\ State(p) \in {"grace", "unavailable"} => State(p)' # "associated"]_vars

(* The window ends: a peer in grace or reconciling is not left there.       *)
WindowEnds ==
    \A p \in Peers : InWindow(p) /\ records[p].deadline <= MaxTime ~> ~InWindow(p)
=============================================================================
