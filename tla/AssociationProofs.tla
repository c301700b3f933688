------------------------- MODULE AssociationProofs -------------------------
(***************************************************************************)
(* Proofs about the PFCP association manager: its type invariant, the      *)
(* consistency of the grace window, and the two action properties that     *)
(* rest on it.  WindowConsistent is inductive together with TypeOK: the    *)
(* type gives the arithmetic, the window the times Setup carries over.     *)
(***************************************************************************)
EXTENDS Association, TLAPS

IInv == TypeOK /\ WindowConsistent

(* What IInv says of one record. *)
Sound(rec, t) ==
    rec = NoRecord \/
    /\ rec \in RecordType
    /\ rec.lastSeen <= t
    /\ IF rec.state \in {"grace", "reconciling"}
       THEN rec.started \in 1..t /\ rec.deadline = rec.started + GraceWindow
       ELSE rec.started = Zero /\ rec.deadline = Zero

(* IInv, record by record. *)
LEMMA RecordWise ==
    IInv <=> /\ now \in Nat \ {0}
             /\ records \in [Peers -> RecordType \cup {NoRecord}]
             /\ \A p \in Peers : Sound(records[p], now)
  BY DEF IInv, TypeOK, WindowConsistent, Sound, Known, InWindow

(* The same for the next state. *)
LEMMA RecordWiseNext ==
    IInv' <=> /\ now' \in Nat \ {0}
              /\ records' \in [Peers -> RecordType \cup {NoRecord}]
              /\ \A p \in Peers : Sound(records'[p], now')
  BY DEF IInv, TypeOK, WindowConsistent, Sound, Known, InWindow

(* A step that gives one peer a sound record keeps the invariant. *)
LEMMA OneRecord ==
    ASSUME IInv, NEW p \in Peers, NEW rec, Sound(rec, now),
           records' = [records EXCEPT ![p] = rec], now' = now
    PROVE  IInv'
<1>1. rec \in RecordType \cup {NoRecord}
  BY DEF Sound
<1>2. /\ records' \in [Peers -> RecordType \cup {NoRecord}]
      /\ \A q \in Peers : records'[q] = IF q = p THEN rec ELSE records[q]
  BY <1>1, RecordWise
<1>3. \A q \in Peers : Sound(records'[q], now')
  BY <1>2, RecordWise
<1> QED
  BY <1>2, <1>3, RecordWise, RecordWiseNext

(* A record with the given fields is of record type, with those fields. *)
LEMMA RecordFields ==
    ASSUME NEW st \in States, NEW re \in Recoveries \cup {NoRecovery},
           NEW seen \in Nat, NEW from \in Nat, NEW to \in Nat
    PROVE  LET rec == Record(st, re, seen, from, to)
           IN  /\ rec \in RecordType /\ rec # NoRecord
               /\ rec.state = st /\ rec.recovery = re /\ rec.lastSeen = seen
               /\ rec.started = from /\ rec.deadline = to
  BY NamesAssumption DEF Record, RecordType

(* Init establishes the invariant. *)
LEMMA InitInv == Init => IInv
<1> SUFFICES ASSUME Init PROVE IInv
  OBVIOUS
<1>1. "unavailable" \in States /\ Zero \in Nat /\ Zero = 0
  BY DEF States, Zero
<1>2. /\ Restored \in RecordType /\ Restored.state = "unavailable"
      /\ Restored.lastSeen = Zero /\ Restored.started = Zero
      /\ Restored.deadline = Zero
  BY <1>1, RecordFields DEF Restored
<1>3. \A p \in Peers : Sound(records[p], now)
  BY <1>1, <1>2 DEF Init, Sound
<1> QED
  BY <1>2, <1>3, RecordWise DEF Init

(* An accepted Association Setup keeps the invariant. *)
LEMMA SetupInv ==
    ASSUME IInv, NEW p \in Peers, NEW recovery \in Recoveries, Setup(p, recovery)
    PROVE  IInv'
<1> DEFINE rec == records[p]
<1>1. now \in Nat \ {0} /\ Sound(rec, now) /\ now' = now
  BY RecordWise DEF Setup
<1>2. CASE ~Reconciles(p, recovery)
  <2> DEFINE new == Record("associated", recovery, now, Zero, Zero)
  <2>3. "associated" \in States /\ Zero \in Nat
    BY DEF States, Zero
  <2>4. /\ new \in RecordType /\ new.state = "associated" /\ new.lastSeen = now
        /\ new.started = Zero /\ new.deadline = Zero
    BY <1>1, <2>3 DEF Record, RecordType
  <2>1. Sound(new, now)
    BY <1>1, <2>4 DEF Sound
  <2>2. records' = [records EXCEPT ![p] = new]
    BY <1>2 DEF Setup
  <2> QED
    BY <2>1, <2>2, <1>1, OneRecord, Zenon
<1>3. CASE Reconciles(p, recovery) /\ rec.started # Zero
  <2> DEFINE new == Record("reconciling", recovery, now, rec.started, rec.deadline)
  <2>1. /\ rec.started \in 1..now /\ rec.deadline = rec.started + GraceWindow
        /\ rec.deadline \in Nat
    BY <1>1, <1>3, TimesAssumption DEF Sound, Reconciles, Known
  <2>0. "reconciling" \in States /\ rec.started \in Nat
    BY <2>1 DEF States
  <2>4. /\ new \in RecordType /\ new.state = "reconciling" /\ new.lastSeen = now
        /\ new.started = rec.started /\ new.deadline = rec.deadline
    BY <1>1, <2>0, <2>1 DEF Record, RecordType
  <2>2. Sound(new, now)
    BY <1>1, <2>1, <2>4 DEF Sound
  <2>3. records' = [records EXCEPT ![p] = new]
    BY <1>3 DEF Setup
  <2> QED
    BY <2>2, <2>3, <1>1, OneRecord, Zenon
<1>4. CASE Reconciles(p, recovery) /\ rec.started = Zero
  <2> DEFINE new == Record("reconciling", recovery, now, now, now + GraceWindow)
  <2>3. "reconciling" \in States /\ now + GraceWindow \in Nat
    BY <1>1, TimesAssumption DEF States
  <2>4. /\ new \in RecordType /\ new.state = "reconciling" /\ new.lastSeen = now
        /\ new.started = now /\ new.deadline = now + GraceWindow
    BY <1>1, <2>3 DEF Record, RecordType
  <2>1. Sound(new, now)
    BY <1>1, <2>4 DEF Sound
  <2>2. records' = [records EXCEPT ![p] = new]
    BY <1>4 DEF Setup
  <2> QED
    BY <2>1, <2>2, <1>1, OneRecord, Zenon
<1> QED
  BY <1>2, <1>3, <1>4

(* Contact keeps the invariant: only lastSeen moves. *)
LEMMA TouchInv ==
    ASSUME IInv, NEW p \in Peers, Touch(p)
    PROVE  IInv'
<1> DEFINE new == [records[p] EXCEPT !.lastSeen = now]
<1>1. now \in Nat /\ Sound(records[p], now) /\ now' = now /\ records[p] # NoRecord
  BY RecordWise DEF Touch, Known
<1>2. Sound(new, now)
  BY <1>1 DEF Sound, RecordType
<1>3. records' = [records EXCEPT ![p] = new]
  BY DEF Touch
<1> QED
  BY <1>1, <1>2, <1>3, OneRecord, Zenon

(* Completion closes the window. *)
LEMMA CompleteInv ==
    ASSUME IInv, NEW p \in Peers, Complete(p)
    PROVE  IInv'
<1> DEFINE new == Record("associated", records[p].recovery, now, Zero, Zero)
<1>1. /\ now \in Nat /\ Sound(records[p], now) /\ now' = now
      /\ records[p] # NoRecord
  BY RecordWise DEF Complete, Known
<1>2. records[p].recovery \in Recoveries \cup {NoRecovery}
  BY <1>1 DEF Sound, RecordType
<1>5. "associated" \in States /\ Zero \in Nat
  BY DEF States, Zero
<1>6. /\ new \in RecordType /\ new.state = "associated" /\ new.lastSeen = now
      /\ new.started = Zero /\ new.deadline = Zero
  BY <1>1, <1>2, <1>5 DEF Record, RecordType
<1>3. Sound(new, now)
  BY <1>1, <1>6 DEF Sound
<1>4. records' = [records EXCEPT ![p] = new]
  BY DEF Complete
<1> QED
  BY <1>1, <1>3, <1>4, OneRecord, Zenon

(* What one sweep makes of a sound record is sound, and no sweep opens a    *)
(* window for a peer that was not associated.                               *)
LEMMA SweptSound ==
    ASSUME IInv, NEW p \in Peers
    PROVE  /\ Sound(Swept(p), now)
           /\ Swept(p) # NoRecord =>
                 /\ Known(p)
                 /\ \/ Swept(p) = records[p]
                    \/ records[p].state = "associated" /\ Swept(p).state = "grace"
                    \/ Swept(p).state = "unavailable"
<1>1. now \in Nat \ {0} /\ Sound(records[p], now)
  BY RecordWise
<1>2. CASE Known(p) /\ records[p].state = "associated" /\ NotHeard(p)
  <2>1. Swept(p) = [records[p] EXCEPT !.state = "grace", !.started = now,
                                      !.deadline = now + GraceWindow]
    BY <1>2 DEF Swept, InWindow
  <2>2. records[p] \in RecordType /\ records[p].lastSeen <= now
    BY <1>1, <1>2 DEF Sound, Known
  <2>3. now + GraceWindow \in Nat /\ "grace" \in States
    BY <1>1, TimesAssumption DEF States
  <2>4. /\ Swept(p) \in RecordType /\ Swept(p).state = "grace"
        /\ Swept(p).started = now /\ Swept(p).deadline = now + GraceWindow
        /\ Swept(p).lastSeen = records[p].lastSeen
    BY <1>1, <2>1, <2>2, <2>3, Zenon DEF RecordType
  <2> QED
    BY <1>1, <1>2, <2>2, <2>4 DEF Sound
<1>3. CASE InWindow(p) /\ records[p].deadline # Zero /\ now >= records[p].deadline
  <2>1. Swept(p) = [records[p] EXCEPT !.state = "unavailable", !.started = Zero,
                                      !.deadline = Zero]
    BY <1>3 DEF Swept, InWindow
  <2>2. records[p] \in RecordType /\ records[p].lastSeen <= now /\ Known(p)
    BY <1>1, <1>3 DEF Sound, Known, InWindow
  <2>3. Zero \in Nat /\ "unavailable" \in States
    BY DEF States, Zero
  <2>4. /\ Swept(p) \in RecordType /\ Swept(p).state = "unavailable"
        /\ Swept(p).started = Zero /\ Swept(p).deadline = Zero
        /\ Swept(p).lastSeen = records[p].lastSeen
    BY <2>1, <2>2, <2>3, Zenon DEF RecordType
  <2> QED
    BY <2>2, <2>4 DEF Sound
<1>4. CASE /\ ~(Known(p) /\ records[p].state = "associated" /\ NotHeard(p))
           /\ ~(InWindow(p) /\ records[p].deadline # Zero /\ now >= records[p].deadline)
  <2>1. Swept(p) = records[p]
    BY <1>4 DEF Swept
  <2> QED
    BY <1>1, <2>1 DEF Known
<1> QED
  BY <1>2, <1>3, <1>4

(* The periodic sweep keeps the invariant. *)
LEMMA SweepInv ==
    ASSUME IInv, Sweep
    PROVE  IInv'
<1>1. /\ now' = now /\ now \in Nat \ {0}
      /\ \A p \in Peers : records'[p] = Swept(p)
  BY RecordWise DEF Sweep
<1>2. \A p \in Peers : Sound(Swept(p), now)
  BY SweptSound, Zenon
<1>3. \A p \in Peers : Swept(p) \in RecordType \cup {NoRecord}
  BY <1>2, Zenon DEF Sound
<1>4. records' \in [Peers -> RecordType \cup {NoRecord}]
  BY <1>3 DEF Sweep
<1> QED
  BY <1>1, <1>2, <1>4, RecordWiseNext

(* Every step keeps the invariant. *)
LEMMA NextInv == IInv /\ [Next]_vars => IInv'
<1> SUFFICES ASSUME IInv, [Next]_vars PROVE IInv'
  OBVIOUS
<1>1. CASE Tick
  <2>1. /\ now' = now + 1 /\ records' = records /\ now \in Nat \ {0}
        /\ records \in [Peers -> RecordType \cup {NoRecord}]
        /\ \A p \in Peers : Sound(records[p], now)
    BY <1>1, RecordWise DEF Tick
  <2>2. \A p \in Peers : Sound(records'[p], now')
    BY <2>1 DEF Sound, RecordType
  <2> QED
    BY <2>1, <2>2, RecordWiseNext
<1>2. CASE Sweep
  BY <1>2, SweepInv
<1>3. ASSUME NEW p \in Peers, Release(p) PROVE IInv'
  BY <1>3, OneRecord, Zenon DEF Release, Sound
<1>4. CASE UNCHANGED vars
  BY <1>4 DEF vars, IInv, TypeOK, WindowConsistent, Known, InWindow
<1> QED
  BY <1>1, <1>2, <1>3, <1>4, TouchInv, CompleteInv, SetupInv DEF Next

(* Association records keep their type: no state outside the four, no       *)
(* contact in the future, for any peers, timeout and grace window.          *)
THEOREM TypeCorrect == Spec => []TypeOK
<1>1. IInv => TypeOK
  BY DEF IInv
<1> QED
  BY <1>1, InitInv, NextInv, PTL DEF Spec

(* The grace window is open exactly while a peer is in grace or reconciling *)
(* and always lasts GraceWindow from the moment contact was lost.           *)
THEOREM WindowAlwaysConsistent == Spec => []WindowConsistent
<1>1. IInv => WindowConsistent
  BY DEF IInv
<1> QED
  BY <1>1, InitInv, NextInv, PTL DEF Spec

(* One step inside a window leaves its deadline alone. *)
LEMMA StepKeepsDeadline ==
    ASSUME IInv, [Next]_vars, NEW p \in Peers, InWindow(p), InWindow(p)'
    PROVE  records'[p].deadline = records[p].deadline
<1>1. /\ Sound(records[p], now) /\ records[p] # NoRecord /\ now \in Nat \ {0}
      /\ records \in [Peers -> RecordType \cup {NoRecord}]
      /\ records[p].state \in {"grace", "reconciling"}
      /\ records'[p].state \in {"grace", "reconciling"}
      /\ records'[p] # NoRecord
  BY RecordWise DEF InWindow, Known
<1>2. records[p].started # Zero
  BY <1>1 DEF Sound, Zero
<1>3. ASSUME NEW q \in Peers, NEW recovery \in Recoveries, Setup(q, recovery)
      PROVE  records'[p].deadline = records[p].deadline
  <2>1. CASE q = p
    <3>1. Reconciles(p, recovery)
      BY <1>1 DEF Reconciles, Known
    <3>2. records'[p] = Record("reconciling", recovery, now,
                               records[p].started, records[p].deadline)
      BY <1>1, <1>2, <1>3, <2>1, <3>1 DEF Setup
    <3> QED
      BY <3>2 DEF Record
  <2>2. CASE q # p
    BY <1>1, <1>3, <2>2 DEF Setup
  <2> QED
    BY <2>1, <2>2
<1>4. CASE Sweep
  <2>1. records'[p] = Swept(p)
    BY <1>4 DEF Sweep
  <2> QED
    BY <1>1, <2>1, SweptSound
<1>5. ASSUME NEW q \in Peers, Touch(q)
      PROVE  records'[p].deadline = records[p].deadline
  BY <1>1, <1>5 DEF Touch, RecordType
<1>6. ASSUME NEW q \in Peers, Complete(q)
      PROVE  records'[p].deadline = records[p].deadline
  <2>1. q # p
    BY <1>1, <1>6 DEF Complete, Record
  <2> QED
    BY <1>1, <1>6, <2>1 DEF Complete
<1>7. ASSUME NEW q \in Peers, Release(q)
      PROVE  records'[p].deadline = records[p].deadline
  BY <1>1, <1>7 DEF Release
<1>8. CASE Tick \/ UNCHANGED vars
  BY <1>8 DEF Tick, vars
<1> QED
  BY <1>3, <1>4, <1>5, <1>6, <1>7, <1>8 DEF Next

(* No sequence of Setup, Touch and Sweep calls prolongs an outage window:   *)
(* stale rules never outlive GraceWindow without a completed reconciliation. *)
THEOREM DeadlineFixed == Spec => DeadlineNeverMoves
<1>1. IInv /\ [Next]_vars =>
         [\A p \in Peers : InWindow(p) /\ InWindow(p)' =>
             records'[p].deadline = records[p].deadline]_vars
  BY StepKeepsDeadline
<1> QED
  BY <1>1, InitInv, NextInv, PTL DEF Spec, DeadlineNeverMoves

(* One step never takes a peer that lost contact straight to associated. *)
LEMMA StepKeepsAuthority ==
    ASSUME IInv, [Next]_vars, NEW p \in Peers, Known(p),
           State(p) \in {"grace", "unavailable"}
    PROVE  State(p)' # "associated"
<1>1. /\ records[p] # NoRecord /\ records[p].state \in {"grace", "unavailable"}
      /\ records \in [Peers -> RecordType \cup {NoRecord}]
  BY RecordWise DEF State, Known
<1>0. ASSUME records'[p] # NoRecord => records'[p].state # "associated"
      PROVE  State(p)' # "associated"
  BY <1>0 DEF State, Known
<1>3. ASSUME NEW q \in Peers, NEW recovery \in Recoveries, Setup(q, recovery)
      PROVE  records'[p].state # "associated"
  <2>1. CASE q = p
    <3>1. Reconciles(p, recovery)
      BY <1>1 DEF Reconciles, Known
    <3>2. \E t, from, to : records'[p] = Record("reconciling", recovery, t, from, to)
      BY <1>1, <1>3, <2>1, <3>1 DEF Setup
    <3> QED
      BY <3>2 DEF Record
  <2>2. CASE q # p
    BY <1>1, <1>3, <2>2 DEF Setup
  <2> QED
    BY <2>1, <2>2
<1>4. CASE Sweep
  <2>1. records'[p] = Swept(p)
    BY <1>4 DEF Sweep
  <2> QED
    BY <1>0, <1>1, <2>1, SweptSound
<1>5. ASSUME NEW q \in Peers, Touch(q)
      PROVE  records'[p].state # "associated"
  BY <1>1, <1>5 DEF Touch, RecordType
<1>6. ASSUME NEW q \in Peers, Complete(q)
      PROVE  records'[p].state # "associated"
  BY <1>1, <1>6 DEF Complete
<1>7. ASSUME NEW q \in Peers, Release(q)
      PROVE  records'[p] = NoRecord \/ records'[p] = records[p]
  BY <1>1, <1>7 DEF Release
<1>8. CASE Tick \/ UNCHANGED vars
  BY <1>0, <1>1, <1>8 DEF Tick, vars
<1> QED
  BY <1>0, <1>1, <1>3, <1>4, <1>5, <1>6, <1>7, <1>8 DEF Next

(* After contact is lost only a completed reconciliation restores the right *)
(* to create sessions; Association Setup and traffic do not.                *)
THEOREM AuthorityOnlyByReplay == Spec => AuthorityNeedsReplay
<1>1. IInv /\ [Next]_vars =>
         [\A p \in Peers :
             Known(p) /\ State(p) \in {"grace", "unavailable"} =>
                State(p)' # "associated"]_vars
  BY StepKeepsAuthority
<1> QED
  BY <1>1, InitInv, NextInv, PTL DEF Spec, AuthorityNeedsReplay
=============================================================================
