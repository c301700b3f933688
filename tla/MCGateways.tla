---------------------------- MODULE MCGateways ----------------------------
(* The address pool, PGW-C's procedures and SGW-C's procedures, the latter *)
(* without and with dedicated bearers.  part says which of them a          *)
(* behaviour runs; the variables of the others keep one value.             *)
EXTENDS AddressPool, TLC

CONSTANTS o1, o2, o3, o4, o5, p1, p2, u1, a1, a2, e1, e2, w1, x1, x2, c1, c2, MME

Leases(o) == {[owner |-> o, addr |-> n] : n \in {-1, 1, 2, 5, 8}}
(* Lists of up to two leases: legal ones, reserved and foreign addresses,  *)
(* one address or one owner twice, an empty owner.                         *)
MCRecoveries ==
    {<<>>} \cup {<<x>> : x \in Leases(o1) \cup Leases(None)}
    \cup {<<x, y>> : x \in Leases(o1), y \in Leases(o1) \cup Leases(o2)}
MCProcs == {p1, p2}
MCSubscribers == {u1}
MCAPNs == {a1, a2}
MCOneAPN == {a1}
MCEBIs == {e1, e2}
MCSGWs == {w1}
MCRemotes == {1}
MCAddresses == {x1, x2}     \* of UEs; also SGW-C's S11 TEIDs
MCOneS11 == {x1}
MCIdents == {c1, c2}
MCSymmetry ==
    UNION {Permutations(S) : S \in {MCProcs, MCAPNs, MCEBIs, MCAddresses, MCIdents}}

VARIABLES part,
    sessions, nextID, poisoned, held, up, recovery, counter, mu, proc, restarts,
    failures, lost,        \* shared
    lease,                 \* pgwc
    pgw, seen, refused     \* sgwc

Pgwc == INSTANCE PgwcGateway WITH
    Procs <- MCProcs, Subscribers <- MCSubscribers, APNs <- MCAPNs, EBIs <- MCEBIs,
    SGWs <- MCSGWs, Remotes <- MCRemotes, Addresses <- MCAddresses, Idents <- MCIdents,
    MaxID <- 2, MaxCounter <- 2, MaxRestarts <- 0,
    LostReplies <- TRUE, OldRequests <- FALSE
Sgwc == INSTANCE SgwcGateway WITH
    Procs <- MCProcs, Subscribers <- MCSubscribers, APNs <- MCAPNs, EBIs <- MCEBIs,
    S11s <- MCOneS11, Idents <- MCIdents,
    MaxID <- 2, MaxCounter <- 2, MaxRestarts <- 0, SharedPGW <- TRUE,
    PGWRestarts <- FALSE, Dedicated <- FALSE, LostReplies <- TRUE
Dedicated == INSTANCE SgwcGateway WITH
    Procs <- MCProcs, Subscribers <- MCSubscribers, APNs <- MCOneAPN, EBIs <- MCEBIs,
    S11s <- MCAddresses, Idents <- MCIdents,
    MaxID <- 2, MaxCounter <- 1, MaxRestarts <- 1, SharedPGW <- TRUE,
    PGWRestarts <- FALSE, Dedicated <- TRUE, LostReplies <- FALSE

shared == <<sessions, nextID, poisoned, held, up, recovery, counter, mu, proc,
            restarts, failures, lost>>
sgwcVars == <<pgw, seen, refused>>
allVars == <<vars, part, shared, lease, sgwcVars>>

NoShared ==
    /\ sessions = 0 /\ nextID = 0 /\ poisoned = 0 /\ held = 0 /\ up = 0 /\ recovery = 0
    /\ counter = 0 /\ mu = 0 /\ proc = 0 /\ restarts = 0 /\ failures = 0 /\ lost = 0
NoSgwc == pgw = 0 /\ seen = 0 /\ refused = 0

MCInit ==
    /\ New
    /\ \/ part = "pool" /\ NoShared /\ lease = 0 /\ NoSgwc
       \/ part = "pgwc" /\ Pgwc!Init /\ NoSgwc
       \/ part = "sgwc" /\ Sgwc!Init /\ lease = 0
       \/ part = "dedicated" /\ Dedicated!Init /\ lease = 0

MCNext ==
    /\ UNCHANGED part
    /\ \/ part = "pool" /\ Next /\ UNCHANGED <<shared, lease, sgwcVars>>
       \/ part = "pgwc" /\ Pgwc!Next /\ UNCHANGED <<vars, sgwcVars>>
       \/ part = "sgwc" /\ Sgwc!Next /\ UNCHANGED <<vars, lease>>
       \/ part = "dedicated" /\ Dedicated!Next /\ UNCHANGED <<vars, lease>>

MCSpec == MCInit /\ [][MCNext]_allVars

(* What the sessions of a gateway name is held: lease, TEIDs, SEIDs and    *)
(* session IDs are taken as long as the store has the session, the S11     *)
(* TEID that the PDNs of a subscriber share included.  When no procedure   *)
(* runs, all that is taken belongs to a session, whatever call of the      *)
(* procedures before failed: no path of a create or delete loses one.      *)
NothingLeaks ==
    /\ part = "pool" => TypeOK /\ LowestFirst
    /\ part = "pgwc" => Pgwc!TypeOK /\ Pgwc!ResourcesHeld /\ Pgwc!NothingLeaks
    /\ part = "sgwc" => Sgwc!TypeOK /\ Sgwc!IdentifiersHeld /\ Sgwc!NothingLeaks
    /\ part = "dedicated" => Dedicated!IdentifiersHeld

(* A message that got past observeRecovery with a new counter of its peer  *)
(* leaves no session of an earlier incarnation of the SGW at PGW-C, or of  *)
(* the MME at SGW-C, however often the purge failed before.                *)
PurgedFirst ==
    /\ part = "pgwc" => Pgwc!PurgedFirst
    /\ part = "sgwc" => Sgwc!PurgedEverywhere

(* When a purge for an MME or a Delete Session takes a session out of      *)
(* SGW-C's store, the PGW has no context for it any more; and what a purge *)
(* of PGW-C removes is stale, never a session that the present incarnation *)
(* of the SGW created.                                                     *)
NoOrphan ==
    [][/\ part = "sgwc" => Sgwc!NoOrphan
       /\ part = "pgwc" => Pgwc!OnlyStalePurged]_allVars

(* Once SGW-C's handlers have returned and no call failed, SGW-U and the   *)
(* PGW have exactly the stored sessions with their dedicated bearers; after *)
(* one failed call SGW-U still has no other session.  At PGW-C, if no      *)
(* answer was lost, a stored session is at PGW-U with its tunnel unless    *)
(* the store is poisoned, and PGW-U has nothing that is not stored.        *)
PlanesAgree ==
    /\ part = "dedicated" => Dedicated!PlanesAgree
    /\ part = "pgwc" => Pgwc!PlanesAgree
=============================================================================
