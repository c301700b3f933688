----------------------------- MODULE SgwcStore ------------------------------
(***************************************************************************)
(* The SGW-C session store (internal/sgwc/session): sessions with          *)
(* revisions, five indexes over them, and the write-ahead log every        *)
(* mutation goes through first.  Each operation holds the store's mutex    *)
(* from its checks to its last index change, so it is one step; a commit   *)
(* that fails half way leaves the record in doubt.                         *)
(*                                                                         *)
(* Of a session the model keeps the fields the store looks at: who owns    *)
(* it, the tunnel identifiers, the PFCP SEIDs, the bearers (EBI to "is the *)
(* default bearer"), the creation time, and whether the time of the last   *)
(* update follows it.                                                      *)
(***************************************************************************)
EXTENDS SessionLog

CONSTANTS
    Candidates,   \* sessions the gateway may ask to create
    EBIs, TEIDs, SEIDs,
    MaxSessions,  \* Store.max
    MaxRevision,  \* bound on updates of one session
    MaxID,        \* bound on creations
    Times,        \* wall-clock readings
    ClockSteps,   \* TRUE: the wall clock may be set back
    NoSession     \* the nil session

VARIABLES
    byID, byS11, byS5, byPFCP, byOwner, byBearer, nextID,
    poisoned, snapshots, log, disk,   \* see SessionWAL
    proc,         \* "down", "opened", "restored", "started"
    clock

indexes == <<byID, byS11, byS5, byPFCP, byOwner, byBearer>>
file == <<log, disk>>
vars == <<byID, byS11, byS5, byPFCP, byOwner, byBearer, nextID, poisoned,
          snapshots, log, disk, proc, clock>>

Without(f, S) == Restrict(f, DOMAIN f \ S)
Assigned(f, S, v) == [x \in DOMAIN f \cup S |-> IF x \in S THEN v ELSE f[x]]

ownerKey(s) == <<s.subscriber, s.apn>>
bearerOwnerKeys(s) == {<<s.subscriber, e>> : e \in DOMAIN s.bearers}
sameS11Owner(l, r) == <<l.subscriber, l.mme, l.s11>> = <<r.subscriber, r.mme, r.s11>>
bearersOverlap(l, r) == DOMAIN l.bearers \cap DOMAIN r.bearers # {}
Siblings(teid) == IF teid \in DOMAIN byS11 THEN byS11[teid] ELSE {}

(* Owner, tunnels and SEIDs are present and one bearer is the default. *)
validate(s) ==
    /\ 0 \notin {s.s11, s.s5, s.cp, s.up}
    /\ \E d \in DOMAIN s.bearers :
          \A e \in DOMAIN s.bearers : s.bearers[e] = (e = d)

validateWALSession(s) ==
    /\ s.id # 0 /\ s.revision # 0 /\ s.ordered
    /\ validate(s)

validWALUpdate(p, n) ==
    /\ n.id = p.id /\ n.revision = p.revision + 1
    /\ ownerKey(n) = ownerKey(p) /\ n.s11 = p.s11 /\ n.mme = p.mme
    /\ n.cp = p.cp /\ n.created = p.created

Init ==
    /\ byID = <<>> /\ byS11 = <<>> /\ byS5 = <<>> /\ byPFCP = <<>>
    /\ byOwner = <<>> /\ byBearer = <<>> /\ nextID = 0
    /\ poisoned = "no" /\ snapshots = <<>> /\ log = <<>> /\ disk = Empty
    /\ proc = "down" /\ clock \in Times

checkMutable == proc = "started" /\ poisoned = "no"

-----------------------------------------------------------------------------
(* The WAL (module SessionWAL) with this store's sessions and updates. *)
WAL == INSTANCE SessionWAL WITH ValidSession <- validateWALSession,
                                ValidUpdate <- validWALUpdate

(* Mutant: the error of a failed commit is not returned. *)
persistIgnored(prev, next, changed) ==
    (WAL!CommitSucceeds(prev, next) \/ WAL!CommitFails(prev, next)) /\ changed

persist(prev, next, changed) ==
    \/ WAL!CommitSucceeds(prev, next) /\ changed
    \/ WAL!CommitFails(prev, next) /\ UNCHANGED indexes

-----------------------------------------------------------------------------
Creatable(c) ==
    /\ validate(c)
    /\ ownerKey(c) \notin DOMAIN byOwner
    /\ bearerOwnerKeys(c) \cap DOMAIN byBearer = {}
    /\ \A id \in Siblings(c.s11) :
          sameS11Owner(byID[id], c) /\ ~bearersOverlap(byID[id], c)
    /\ c.s5 \notin DOMAIN byS5 /\ c.cp \notin DOMAIN byPFCP
    /\ Cardinality(DOMAIN byID) < MaxSessions

IndexesAfterCreate(s) ==
    /\ byID' = Assigned(byID, {s.id}, s)
    /\ byS11' = Assigned(byS11, {s.s11}, Siblings(s.s11) \cup {s.id})
    /\ byS5' = Assigned(byS5, {s.s5}, s.id)
    /\ byPFCP' = Assigned(byPFCP, {s.cp}, s.id)
    /\ byOwner' = Assigned(byOwner, {ownerKey(s)}, s.id)
    /\ byBearer' = Assigned(byBearer, bearerOwnerKeys(s), s.id)

Create(c) ==
    LET s == c @@ [id |-> nextID + 1, revision |-> 1,
                   created |-> clock, ordered |-> TRUE]
    IN  /\ checkMutable /\ Creatable(c) /\ nextID < MaxID
        /\ nextID' = nextID + 1
        /\ persist(NoSession, s, IndexesAfterCreate(s))
        /\ UNCHANGED <<proc, clock>>

(* What a caller's mutation may turn a session into and Update lets pass:  *)
(* new bearers or a new S5 tunnel, no other identity.                      *)
Updatable(id, n) ==
    /\ validate(n)
    /\ \A sibling \in Siblings(n.s11) \ {id} : ~bearersOverlap(byID[sibling], n)
    /\ \A k \in bearerOwnerKeys(n) \cap DOMAIN byBearer : byBearer[k] = id
    /\ n.s5 # byID[id].s5 => n.s5 \notin DOMAIN byS5

BearerMaps == UNION {[E -> BOOLEAN] : E \in SUBSET EBIs}

Mutations(s) ==
    {[s EXCEPT !.bearers = b] : b \in BearerMaps}
    \cup {[s EXCEPT !.s5 = t] : t \in TEIDs}

Revised(s) == [s EXCEPT !.revision = @ + 1, !.ordered = (s.created <= clock)]

IndexesAfterUpdate(cur, n) ==
    /\ byS5' = IF n.s5 # cur.s5
               THEN Assigned(Without(byS5, {cur.s5}), {n.s5}, n.id) ELSE byS5
    /\ byBearer' = Assigned(Without(byBearer, bearerOwnerKeys(cur) \ bearerOwnerKeys(n)),
                            bearerOwnerKeys(n), n.id)
    /\ byID' = Assigned(byID, {n.id}, n)
    /\ UNCHANGED <<byS11, byPFCP, byOwner>>

Current(id, expected) == id \in DOMAIN byID /\ byID[id].revision = expected

Update(id, expected) ==
    /\ checkMutable /\ Current(id, expected) /\ expected < MaxRevision
    /\ \E m \in Mutations(byID[id]) :
          /\ Updatable(id, m)
          /\ persist(byID[id], Revised(m), IndexesAfterUpdate(byID[id], Revised(m)))
    /\ UNCHANGED <<nextID, proc, clock>>

(* A user plane that restarted gave the replayed session a new UP-SEID. *)
ReconcilePFCPUserSEID(id, expected, up) ==
    LET n == Revised([byID[id] EXCEPT !.up = up]) IN
    /\ checkMutable /\ Current(id, expected) /\ expected < MaxRevision
    /\ up # 0 /\ byID[id].up # up
    /\ persist(byID[id], n, /\ byID' = Assigned(byID, {id}, n)
                            /\ UNCHANGED <<byS11, byS5, byPFCP, byOwner, byBearer>>)
    /\ UNCHANGED <<nextID, proc, clock>>

IndexesAfterDelete(s) ==
    /\ byID' = Without(byID, {s.id})
    /\ byS11' = IF Siblings(s.s11) = {s.id} THEN Without(byS11, {s.s11})
                ELSE [byS11 EXCEPT ![s.s11] = @ \ {s.id}]
    /\ byS5' = Without(byS5, {s.s5})
    /\ byPFCP' = Without(byPFCP, {s.cp})
    /\ byOwner' = Without(byOwner, {ownerKey(s)})
    /\ byBearer' = Without(byBearer, bearerOwnerKeys(s))

DeleteSession(id, expected) ==
    /\ checkMutable /\ Current(id, expected)
    /\ persist(byID[id], NoSession, IndexesAfterDelete(byID[id]))
    /\ UNCHANGED <<nextID, proc, clock>>

-----------------------------------------------------------------------------
(* Start-up: replay the log, restore the store from it, record the epoch.  *)

validateRecoveredIndexes(db) ==
    \A i, j \in DOMAIN db : i # j =>
        LET l == db[i]  r == db[j] IN
        /\ ownerKey(l) # ownerKey(r) /\ l.s5 # r.s5 /\ l.cp # r.cp
        /\ l.s11 = r.s11 => sameS11Owner(l, r) /\ ~bearersOverlap(l, r)

OpenWAL ==
    /\ proc = "down" /\ disk.ok /\ validateRecoveredIndexes(disk.db)
    /\ snapshots' = disk.db /\ proc' = "opened"
    /\ UNCHANGED <<indexes, nextID, poisoned, file, clock>>

RestoreAccepts(db) ==
    /\ Cardinality(DOMAIN db) <= MaxSessions
    /\ validateRecoveredIndexes(db)
    /\ \A i, j \in DOMAIN db : i # j =>
          bearerOwnerKeys(db[i]) \cap bearerOwnerKeys(db[j]) = {}

(* The index over the keys of each session. *)
Index(keys) ==
    [k \in UNION Range(keys) |-> CHOOSE i \in DOMAIN keys : k \in keys[i]]

S11Index(db) ==
    [t \in {db[i].s11 : i \in DOMAIN db} |-> {i \in DOMAIN db : db[i].s11 = t}]

Restore ==
    /\ proc = "opened" /\ RestoreAccepts(snapshots)
    /\ byID' = snapshots /\ byS11' = S11Index(snapshots)
    /\ byS5' = Index([i \in DOMAIN snapshots |-> {snapshots[i].s5}])
    /\ byPFCP' = Index([i \in DOMAIN snapshots |-> {snapshots[i].cp}])
    /\ byOwner' = Index([i \in DOMAIN snapshots |-> {ownerKey(snapshots[i])}])
    /\ byBearer' = Index([i \in DOMAIN snapshots |-> bearerOwnerKeys(snapshots[i])])
    /\ nextID' = Max(DOMAIN snapshots \cup {0})
    /\ proc' = "restored"
    /\ UNCHANGED <<poisoned, snapshots, file, clock>>

Start ==
    /\ proc = "restored" /\ Fits(Append(log, Boot))
    /\ WAL!Write(Append(log, Boot)) /\ proc' = "started"
    /\ UNCHANGED <<indexes, nextID, poisoned, snapshots, clock>>

(* Mutant: the last frame is still in a buffer when the process exits. *)
ExitUnflushed ==
    /\ proc # "down"
    /\ byID' = <<>> /\ byS11' = <<>> /\ byS5' = <<>> /\ byPFCP' = <<>>
    /\ byOwner' = <<>> /\ byBearer' = <<>> /\ nextID' = 0
    /\ poisoned' = "no" /\ snapshots' = <<>> /\ proc' = "down"
    /\ WAL!Write(IF log = <<>> THEN log ELSE Front(log)) /\ UNCHANGED clock

(* Process death, or an exit because start-up failed. *)
Exit ==
    /\ proc # "down"
    /\ byID' = <<>> /\ byS11' = <<>> /\ byS5' = <<>> /\ byPFCP' = <<>>
    /\ byOwner' = <<>> /\ byBearer' = <<>> /\ nextID' = 0
    /\ poisoned' = "no" /\ snapshots' = <<>> /\ proc' = "down"
    /\ UNCHANGED <<file, clock>>

(* External: the wall clock, which the stored timestamps are taken from. *)
Clock ==
    /\ \E t \in Times \ {clock} : (ClockSteps \/ t > clock) /\ clock' = t
    /\ UNCHANGED <<indexes, nextID, poisoned, snapshots, file, proc>>

Next ==
    \/ \E c \in Candidates : Create(c)
    \/ \E id \in 1..MaxID, r \in 1..MaxRevision :
          \/ Update(id, r) \/ DeleteSession(id, r)
          \/ \E up \in SEIDs : ReconcilePFCPUserSEID(id, r, up)
    \/ OpenWAL \/ Restore \/ Start \/ Exit \/ Clock

Spec == Init /\ [][Next]_vars

-----------------------------------------------------------------------------
(* Find...: the lookups of the gateway, through the indexes. *)
Found(f, k) == IF k \in DOMAIN f THEN byID[f[k]] ELSE NoSession
FindByS5TEID(t) == Found(byS5, t)
FindByPFCPControlSEID(c) == Found(byPFCP, c)
FindByOwner(s) == Found(byOwner, ownerKey(s))
FindBySubscriberAndEBI(u, e) == Found(byBearer, <<u, e>>)
FindByS11TEID(t) == IF Siblings(t) = {} THEN NoSession ELSE byID[Max(Siblings(t))]
FindByS11TEIDAndEBI(t, e) ==
    LET ids == {i \in Siblings(t) : e \in DOMAIN byID[i].bearers} IN
    IF ids = {} THEN NoSession ELSE byID[Max(ids)]

(* The store's variables have the shapes its Go types give them. *)
TypeOK ==
    /\ DOMAIN byID \subseteq 1..MaxID /\ nextID \in 0..MaxID
    /\ \A i \in DOMAIN byID : byID[i].id = i /\ byID[i].revision \in 1..MaxRevision
    /\ poisoned \in {"no", "journal", "refused"}
    /\ proc \in {"down", "opened", "restored", "started"}
    /\ Cardinality(DOMAIN byID) <= MaxSessions /\ Bytes(log) <= MaxBytes

(* No index entry outlives its session (a lookup would dereference nil),   *)
(* and every session is found under each of its keys and nothing else is:  *)
(* S5 tunnel, CP-SEID, owner, and each bearer both below its S11 tunnel    *)
(* and by subscriber.                                                      *)
LookupsAgree ==
    /\ Range(byS5) \cup Range(byPFCP) \cup Range(byOwner) \cup Range(byBearer)
         \subseteq DOMAIN byID
    /\ UNION Range(byS11) \subseteq DOMAIN byID /\ {} \notin Range(byS11)
    /\ \A i \in DOMAIN byID : LET s == byID[i] IN
          /\ FindByS5TEID(s.s5) = s /\ FindByPFCPControlSEID(s.cp) = s
          /\ FindByOwner(s) = s
          /\ FindByS11TEID(s.s11) # NoSession
          /\ sameS11Owner(FindByS11TEID(s.s11), s)
    /\ \A t \in TEIDs, e \in EBIs, u \in {c.subscriber : c \in Candidates} :
          /\ FindByS11TEIDAndEBI(t, e)
               \in {NoSession} \cup {s \in Range(byID) : s.s11 = t /\ e \in DOMAIN s.bearers}
          /\ FindBySubscriberAndEBI(u, e) # NoSession
               <=> \E s \in Range(byID) : s.subscriber = u /\ e \in DOMAIN s.bearers

(* Whatever the order of creates, updates, deletes, failed commits,        *)
(* compactions and restarts, the log in the file is one that OpenWAL       *)
(* replays and Restore indexes: the store never locks itself out.          *)
OwnLogReplays == disk.ok /\ validateRecoveredIndexes(disk.db) /\ RestoreAccepts(disk.db)

(* While the store accepts mutations, memory, the WAL's snapshots and what *)
(* a restart would recover from the file are the same sessions.  After a   *)
(* failed commit they differ in the one session whose record is in doubt.  *)
MemoryOnDisk ==
    proc = "started" =>
        /\ byID = snapshots
        /\ poisoned = "no" => byID = disk.db
        /\ \E k \in 1..MaxID : Without(byID, {k}) = Without(disk.db, {k})

(* The WAL's own checks (canonical previous snapshot, immutable identity,  *)
(* revision, timestamps) never contradict what the store has validated.    *)
(* Only a journal failure poisons the store.                               *)
PoisonedByJournalOnly == poisoned # "refused"

(* A capacity failure at start-up means that the live sessions and one     *)
(* more transition do not fit into the journal, even compacted.            *)
StartFailsOnlyWhenFull ==
    proc = "restored" /\ ~Fits(Append(log, Boot)) =>
        BootBytes + SnapshotBytes(snapshots) + DataBytes > MaxBytes
=============================================================================
