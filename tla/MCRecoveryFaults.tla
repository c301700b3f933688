-------------------------- MODULE MCRecoveryFaults --------------------------
(* The two recovery protocols under every timing of faults that they name. *)
(* part says which of them a behaviour runs; the variables of the other    *)
(* one keep one value.                                                     *)
EXTENDS SxRecovery, TLC

CONSTANTS s1, s2
MCSessions == {s1, s2}
MCSEIDs == 1..6
MCSymmetry == Permutations(MCSessions)

VARIABLES part, client, count, bStore, bProc, bCall, bPeer, bRules, bOwner, bPending, bSweep, bLink

SxbFaults == {"overlap", "interrupted_delete", "loss_in_replay", "slow_heartbeat", "journal"}
SxbBound == [crash |-> 0, restart |-> 1, outage |-> 1, failing |-> 1, expiry |-> 1]
Sxb == INSTANCE SxbRecovery WITH
    Faults <- SxbFaults, Bound <- SxbBound, cp <- client, store <- bStore, proc <- bProc,
    call <- bCall, peer <- bPeer, rules <- bRules, owner <- bOwner, pending <- bPending,
    sweep <- bSweep, link <- bLink

sxb == <<client, count, bStore, bProc, bCall, bPeer, bRules, bOwner, bPending, bSweep, bLink>>

NoSxa ==
    /\ main = 0 /\ boot = 0 /\ association = 0 /\ lastRecovery = 0 /\ todo = 0 /\ failed = 0
    /\ store = 0 /\ proc = 0 /\ call = 0 /\ peer = 0 /\ owner = 0 /\ pending = 0
    /\ rules = [s \in Sessions |-> 0] /\ sweep = 0 /\ link = 0 /\ faults = 0
NoSxb ==
    /\ client = 0 /\ count = 0 /\ bStore = 0 /\ bProc = 0 /\ bCall = 0 /\ bPeer = 0
    /\ bRules = 0 /\ bOwner = 0 /\ bPending = 0 /\ bSweep = 0 /\ bLink = 0

MCInit ==
    \/ part = "sxa" /\ Init /\ NoSxb
    \/ part = "sxb" /\ Sxb!Init /\ NoSxa

MCNext ==
    /\ UNCHANGED part
    /\ \/ part = "sxa" /\ Next /\ UNCHANGED sxb
       \/ part = "sxb" /\ Sxb!Next /\ UNCHANGED vars

MCSpec == MCInit /\ [][MCNext]_<<vars, part, sxb>>

(* ReconcileAll and the creates of PGW-C: rules appear at PGW-U only for a *)
(* session that the store still holds or a create is adding, whatever      *)
(* expires or is lost meanwhile; and a replay whose result cannot be       *)
(* stored never takes away a session that PGW-U had only reaffirmed.       *)
NothingResurrected ==
    [][part = "sxb" => Sxb!NoResurrection /\ Sxb!UndoSparesReaffirmed']_sxb
=============================================================================
