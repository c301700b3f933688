----------------------------- MODULE PgwcStore ------------------------------
(***************************************************************************)
(* The PGW-C session store (internal/pgwc/session) over its WAL.  As in    *)
(* SGW-C every operation is one step under the store's mutex.  The five    *)
(* lookup maps are kept in one variable, by name.  Of a session the model  *)
(* keeps owner, default EBI, UE address, tunnels, SEIDs, the dedicated     *)
(* bearers (EBI to policy, tunnel and rule identifiers); what timestamps   *)
(* do to the WAL is in SgwcStore.                                          *)
(***************************************************************************)
EXTENDS SessionLog

CONSTANTS
    Candidates,    \* sessions the gateway may ask to create
    Bearers,       \* dedicated bearers it may ask to add
    EBIs, Remotes, SEIDs,
    MaxSessions, MaxDedicatedBearers, MaxRevision, MaxID,
    NoSession

VARIABLES
    byID,
    index,         \* byControl, byOwner, byBearer, byUE and byPFCP
    nextID, poisoned, snapshots, log, disk, proc

file == <<log, disk>>
vars == <<byID, index, nextID, poisoned, snapshots, log, disk, proc>>

Indexes == {"control", "owner", "bearer", "ue", "pfcp"}

ownerKey(s) == <<s.subscriber, s.apn>>
bearerOwnerKeys(s) == {<<s.subscriber, e>> : e \in DOMAIN s.dedicated \cup {s.ebi}}
KeysIn(n, s) ==
    CASE n = "control" -> {s.control} [] n = "owner" -> {ownerKey(s)}
      [] n = "bearer" -> bearerOwnerKeys(s) [] n = "ue" -> {s.ue}
      [] n = "pfcp" -> {s.cp}

Assigned(f, S, v) == [x \in DOMAIN f \cup S |-> IF x \in S THEN v ELSE f[x]]
Without(f, S) == Restrict(f, DOMAIN f \ S)

(* No two dedicated bearers of a session share a tunnel, a policy or a     *)
(* rule identifier, and none uses the default bearer's EBI or rules.       *)
validate(s) ==
    /\ 0 \notin {s.control, s.cp, s.up}
    /\ s.ebi \notin DOMAIN s.dedicated
    /\ Cardinality(DOMAIN s.dedicated) <= MaxDedicatedBearers
    /\ \A e \in DOMAIN s.dedicated : LET b == s.dedicated[e] IN
          /\ b.local # s.user /\ b.rule # 1
          /\ \A f \in DOMAIN s.dedicated \ {e} : LET c == s.dedicated[f] IN
                b.local # c.local /\ b.rule # c.rule /\ b.policy # c.policy

validateWALSession(s) == s.id # 0 /\ s.revision # 0 /\ validate(s)

validWALUpdate(p, n) ==
    /\ n.id = p.id /\ n.revision = p.revision + 1 /\ ownerKey(n) = ownerKey(p)
    /\ <<n.ue, n.control, n.user, n.cp, n.ebi>> = <<p.ue, p.control, p.user, p.cp, p.ebi>>

WAL == INSTANCE SessionWAL WITH ValidSession <- validateWALSession,
                                ValidUpdate <- validWALUpdate

Init ==
    /\ byID = <<>> /\ index = [n \in Indexes |-> <<>>] /\ nextID = 0
    /\ poisoned = "no" /\ snapshots = <<>> /\ log = <<>> /\ disk = Empty
    /\ proc = "down"

checkMutable == proc = "started" /\ poisoned = "no"

persist(prev, next, changed) ==
    \/ WAL!CommitSucceeds(prev, next) /\ changed
    \/ WAL!CommitFails(prev, next) /\ UNCHANGED <<byID, index>>

-----------------------------------------------------------------------------
Creatable(c) ==
    /\ validate(c)
    /\ \A n \in Indexes : KeysIn(n, c) \cap DOMAIN index[n] = {}
    /\ Cardinality(DOMAIN byID) < MaxSessions

Create(c) ==
    LET s == c @@ [id |-> nextID + 1, revision |-> 1]
    IN  /\ checkMutable /\ Creatable(c) /\ nextID < MaxID
        /\ nextID' = nextID + 1
        /\ persist(NoSession, s,
             /\ byID' = Assigned(byID, {s.id}, s)
             /\ index' = [n \in Indexes |-> Assigned(index[n], KeysIn(n, s), s.id)])
        /\ UNCHANGED proc

(* What the gateway's mutations do: add, replace or remove a dedicated     *)
(* bearer, or move the session to another SGW-U tunnel.                    *)
Mutations(s) ==
    {[s EXCEPT !.dedicated = Assigned(@, {e}, b)] : e \in EBIs, b \in Bearers}
    \cup {[s EXCEPT !.dedicated = Without(@, {e})] : e \in DOMAIN s.dedicated}
    \cup {[s EXCEPT !.remote = r] : r \in Remotes}

Updatable(id, n) ==
    /\ validate(n)
    /\ \A k \in bearerOwnerKeys(n) \cap DOMAIN index["bearer"] : index["bearer"][k] = id

Revised(s) == [s EXCEPT !.revision = @ + 1]

Reindexed(cur, n) ==
    [index EXCEPT !["bearer"] =
        Assigned(Without(@, bearerOwnerKeys(cur) \ bearerOwnerKeys(n)),
                 bearerOwnerKeys(n), n.id)]

Current(id, expected) == id \in DOMAIN byID /\ byID[id].revision = expected

Update(id, expected) ==
    /\ checkMutable /\ Current(id, expected) /\ expected < MaxRevision
    /\ \E m \in Mutations(byID[id]) :
          /\ Updatable(id, m)
          /\ persist(byID[id], Revised(m),
               /\ byID' = Assigned(byID, {id}, Revised(m))
               /\ index' = Reindexed(byID[id], m))
    /\ UNCHANGED <<nextID, proc>>

ReconcilePFCPUserSEID(id, expected, up) ==
    LET n == Revised([byID[id] EXCEPT !.up = up]) IN
    /\ checkMutable /\ Current(id, expected) /\ expected < MaxRevision
    /\ up # 0 /\ byID[id].up # up
    /\ persist(byID[id], n, byID' = Assigned(byID, {id}, n) /\ UNCHANGED index)
    /\ UNCHANGED <<nextID, proc>>

DeleteSession(id, expected) ==
    LET s == byID[id] IN
    /\ checkMutable /\ Current(id, expected)
    /\ persist(s, NoSession,
         /\ byID' = Without(byID, {id})
         /\ index' = [n \in Indexes |-> Without(index[n], KeysIn(n, s))])
    /\ UNCHANGED <<nextID, proc>>

-----------------------------------------------------------------------------
Distinct(db, names) ==
    \A i, j \in DOMAIN db : i # j =>
        \A n \in names : KeysIn(n, db[i]) \cap KeysIn(n, db[j]) = {}

validateRecoveredIndexes(db) == Distinct(db, Indexes \ {"bearer"})

OpenWAL ==
    /\ proc = "down" /\ disk.ok /\ validateRecoveredIndexes(disk.db)
    /\ snapshots' = disk.db /\ proc' = "opened"
    /\ UNCHANGED <<byID, index, nextID, poisoned, file>>

RestoreAccepts(db) == Cardinality(DOMAIN db) <= MaxSessions /\ Distinct(db, Indexes)

Restore ==
    /\ proc = "opened" /\ RestoreAccepts(snapshots)
    /\ byID' = snapshots
    /\ index' = [n \in Indexes |->
          [k \in UNION {KeysIn(n, snapshots[i]) : i \in DOMAIN snapshots} |->
             CHOOSE i \in DOMAIN snapshots : k \in KeysIn(n, snapshots[i])]]
    /\ nextID' = Max(DOMAIN snapshots \cup {0})
    /\ proc' = "restored"
    /\ UNCHANGED <<poisoned, snapshots, file>>

Start ==
    /\ proc = "restored" /\ Fits(Append(log, Boot))
    /\ WAL!Write(Append(log, Boot)) /\ proc' = "started"
    /\ UNCHANGED <<byID, index, nextID, poisoned, snapshots>>

(* Mutant: the last frame is still in a buffer when the process exits. *)
ExitUnflushed ==
    /\ proc # "down"
    /\ byID' = <<>> /\ index' = [n \in Indexes |-> <<>>] /\ nextID' = 0
    /\ poisoned' = "no" /\ snapshots' = <<>> /\ proc' = "down"
    /\ WAL!Write(IF log = <<>> THEN log ELSE Front(log))

Exit ==
    /\ proc # "down"
    /\ byID' = <<>> /\ index' = [n \in Indexes |-> <<>>] /\ nextID' = 0
    /\ poisoned' = "no" /\ snapshots' = <<>> /\ proc' = "down"
    /\ UNCHANGED file

Next ==
    \/ \E c \in Candidates : Create(c)
    \/ \E id \in 1..MaxID, r \in 1..MaxRevision :
          \/ Update(id, r) \/ DeleteSession(id, r)
          \/ \E up \in SEIDs : ReconcilePFCPUserSEID(id, r, up)
    \/ OpenWAL \/ Restore \/ Start \/ Exit

Spec == Init /\ [][Next]_vars

-----------------------------------------------------------------------------
(* Each Find... reads one map; an entry without a session finds nothing. *)
findLocked(n, k) ==
    IF k \in DOMAIN index[n] /\ index[n][k] \in DOMAIN byID
    THEN byID[index[n][k]] ELSE NoSession

(* The variables have the shapes of the Go types; the bounds are kept. *)
TypeOK ==
    /\ DOMAIN byID \subseteq 1..MaxID /\ nextID \in 0..MaxID
    /\ \A i \in DOMAIN byID : byID[i].id = i /\ validateWALSession(byID[i])
    /\ poisoned \in {"no", "journal", "refused"}
    /\ proc \in {"down", "opened", "restored", "started"}
    /\ Cardinality(DOMAIN byID) <= MaxSessions /\ Bytes(log) <= MaxBytes

(* Every map holds exactly the keys of the live sessions, so FindBy... for *)
(* a control TEID, an owner, a bearer, a UE address or a SEID returns the  *)
(* session that has it and nothing else.                                   *)
LookupsAgree ==
    \A n \in Indexes :
        /\ DOMAIN index[n] = UNION {KeysIn(n, s) : s \in Range(byID)}
        /\ \A s \in Range(byID) : \A k \in KeysIn(n, s) : findLocked(n, k) = s

(* The log always replays and Restore always accepts it, bearers included, *)
(* although the WAL itself does not compare them.                          *)
OwnLogReplays == disk.ok /\ validateRecoveredIndexes(disk.db) /\ RestoreAccepts(disk.db)

(* While the store accepts mutations, memory and file hold the same        *)
(* sessions; a failed commit puts at most one session in doubt, and the    *)
(* WAL refuses nothing the store has validated.                            *)
MemoryOnDisk ==
    proc = "started" =>
        /\ byID = snapshots /\ poisoned # "refused"
        /\ poisoned = "no" => byID = disk.db
        /\ \E k \in 1..MaxID : Without(byID, {k}) = Without(disk.db, {k})
=============================================================================
