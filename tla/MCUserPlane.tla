---------------------------- MODULE MCUserPlane ----------------------------
(* Rules at PGW-U (user-space plane, kernel plane, late requests) and at   *)
(* SGW-U (procedures, packet readers, late requests).  part says which of  *)
(* them a behaviour runs; variables that it does not use are zero.         *)
EXTENDS PgwuRules, TLC

CONSTANTS s1, s2, u1, u2, u3, dflt, ded, t1, t2, e1, h1, h2, r1

VARIABLES part, owner, byUP, active, tunnels, writer, reader, losses

OneSession == {s1}
TwoSessions == {s1, s2}
MCUPSEIDs == {u1, u2, u3}
OneDedicated == {ded}
OneTEID == {t1}
TwoTEIDs == {t1, t2}
MCENBs == {e1}
OneQCI == {1}
TwoQCIs == {1, 2}
OneHandler == {h1}
TwoHandlers == {h1, h2}
OneReader == {r1}
MCGenerations == 1..5

Sgwu == INSTANCE SgwuRules WITH
    Sessions <- OneSession, UPSEIDs <- MCUPSEIDs, Default <- dflt, Dedicated <- OneDedicated,
    TEIDs <- TwoTEIDs, ENBs <- MCENBs, QCIs <- TwoQCIs, Handlers <- OneHandler, Readers <- {},
    Generations <- MCGenerations, MaxSessions <- 2, DefaultQoS <- FALSE, Late <- FALSE,
    PurgeRaces <- FALSE, MaxLosses <- 2
SgwuRead == INSTANCE SgwuRules WITH
    Sessions <- TwoSessions, UPSEIDs <- MCUPSEIDs, Default <- dflt, Dedicated <- {},
    TEIDs <- OneTEID, ENBs <- MCENBs, QCIs <- OneQCI, Handlers <- OneHandler,
    Readers <- OneReader, Generations <- MCGenerations, MaxSessions <- 2,
    DefaultQoS <- FALSE, Late <- FALSE, PurgeRaces <- FALSE, MaxLosses <- 1
SgwuLate == INSTANCE SgwuRules WITH
    Sessions <- OneSession, UPSEIDs <- MCUPSEIDs, Default <- dflt, Dedicated <- {},
    TEIDs <- OneTEID, ENBs <- MCENBs, QCIs <- OneQCI, Handlers <- TwoHandlers, Readers <- {},
    Generations <- MCGenerations, MaxSessions <- 2, DefaultQoS <- FALSE, Late <- TRUE,
    PurgeRaces <- FALSE, MaxLosses <- 1

MCFilters == [voice |-> <<[dir |-> "both", copies |-> 1]>>,
              games |-> <<[dir |-> "uplink", copies |-> 2], [dir |-> "downlink", copies |-> 1]>>]
MCTemplates == DOMAIN MCFilters
OneEBI == {6}
TwoEBIs == {6, 7}
OneRate == {1}
TwoRates == {1, 2}
QCI5 == {5}
QCI1And5 == {1, 5}
OneTunnel == {"sgw1"}
TwoTunnels == {"sgw1", "sgw2"}
LocalTEIDs == {1, 2}
MCSEIDs == 1..4

Kernel == INSTANCE PgwuRules WITH
    EBIs <- TwoEBIs, Templates <- MCTemplates, Filters <- MCFilters, Rates <- TwoRates,
    QCIs <- QCI1And5, Tunnels <- TwoTunnels, TEIDs <- LocalTEIDs, SEIDs <- MCSEIDs,
    QCI1Plane <- TRUE, Metadata <- FALSE, MaxIDs <- 10, MaxFaults <- 2,
    Handlers <- OneHandler, Late <- FALSE
PgwuLate == INSTANCE PgwuRules WITH
    EBIs <- OneEBI, Templates <- MCTemplates, Filters <- MCFilters, Rates <- OneRate,
    QCIs <- QCI5, Tunnels <- OneTunnel, TEIDs <- LocalTEIDs, SEIDs <- MCSEIDs,
    QCI1Plane <- FALSE, Metadata <- TRUE, MaxIDs <- 10, MaxFaults <- 2,
    Handlers <- TwoHandlers, Late <- TRUE

MCSymmetry ==
    Permutations(MCUPSEIDs)

sgwuVars == <<owner, byUP, active, tunnels, writer, reader, losses>>
pgwuVars == <<up, faults>>
allVars == <<vars, part, sgwuVars>>

NoSgwu ==
    /\ owner = 0 /\ byUP = 0 /\ active = 0 /\ tunnels = 0 /\ writer = 0 /\ reader = 0 /\ losses = 0
NoPgwu == up = 0 /\ faults = 0

MCInit ==
    \/ /\ NoPgwu
       /\ \/ part = "sgwu" /\ Sgwu!Init
          \/ part = "readers" /\ SgwuRead!Init
          \/ part = "sgwu_late" /\ SgwuLate!Init
    \/ /\ NoSgwu
       /\ \/ part = "pgwu" /\ Init
          \/ part = "kernel" /\ Kernel!Init
          \/ part = "pgwu_late" /\ PgwuLate!Init

MCNext ==
    /\ UNCHANGED part
    /\ \/ part = "sgwu" /\ Sgwu!Next /\ UNCHANGED pgwuVars
       \/ part = "readers" /\ SgwuRead!Next /\ UNCHANGED pgwuVars
       \/ part = "sgwu_late" /\ SgwuLate!Next /\ UNCHANGED pgwuVars
       \/ part = "pgwu" /\ Next /\ UNCHANGED sgwuVars
       \/ part = "kernel" /\ Kernel!Next /\ UNCHANGED sgwuVars
       \/ part = "pgwu_late" /\ PgwuLate!Next /\ UNCHANGED sgwuVars

MCSpec == MCInit /\ [][MCNext]_allVars

(* The client of each control plane against the PFCP server of its user    *)
(* plane: while every call was answered, or a replay has since been        *)
(* accepted, the user plane forwards what the control plane's bearers say, *)
(* and at PGW-U exactly what a new establishment would install.  As long   *)
(* as every call was answered neither the client nor the user plane        *)
(* refuses what the gateway asks for: rule ids are free at both ends, and  *)
(* what is stored can be replayed.                                         *)
BothPlanesAgree ==
    /\ part = "sgwu" => Sgwu!TypeOK /\ Sgwu!PlanesAgree /\ Sgwu!NoSpuriousRefusal
    /\ part = "pgwu" => TypeOK /\ PlanesAgree /\ NoSpuriousRefusal
    /\ part = "kernel" => Kernel!TypeOK /\ Kernel!PlanesAgree /\ Kernel!NoSpuriousRefusal

(* LookupPacket and Active of SGW-U: as long as the flag of the rule that  *)
(* a packet goroutine has loaded is set, the store holds that rule for its *)
(* PDR, or the session's deletion is under way; and between two writers    *)
(* the tunnel index holds exactly the tunnels of the stored sessions.      *)
HeldRuleIsCurrent ==
    part = "readers" => /\ SgwuRead!TypeOK /\ SgwuRead!IndexMatchesStore
                        /\ SgwuRead!HeldRuleIsCurrent

(* With requests that run after their caller gave up, every session in     *)
(* SGW-U's store still has an owner when no handler runs, so that a purge  *)
(* finds it; and every dedicated bearer in PGW-U's store has exactly the   *)
(* filters of one template in both directions, also when ids are reused.   *)
LateRequestsHarmless ==
    /\ part = "sgwu_late" => SgwuLate!StoredSessionsOwned
    /\ part = "pgwu_late" => PgwuLate!WholeBearers
=============================================================================
