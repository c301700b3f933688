----------------------------- MODULE PgwuRules -----------------------------
(***************************************************************************)
(* The rules of one PFCP session between PGW-C and PGW-U.  PGW-C's gateway *)
(* chooses rule ids and its client (internal/pgwc/pfcpclient) turns bearer *)
(* operations into PDRs, FARs, QERs and URRs; PGW-U's server               *)
(* (internal/pgwu/pfcpserver) groups them into bearers again and gives the *)
(* result to the rule store, which checks the revision the server read.    *)
(*                                                                         *)
(* A traffic flow template is a name and a sequence of packet filters,     *)
(* each with a direction and the number of SDF filters it expands to; an   *)
(* SDF filter is its template, filter and copy.  Rates and QCI make one    *)
(* QoS value.  Association, owners and purges are in SxbRecovery, the      *)
(* steps of the store and its log in PgwuStore.                            *)
(***************************************************************************)
EXTENDS Integers, Sequences, FiniteSets

CONSTANTS
    EBIs,           \* dedicated bearers
    Templates,      \* names of traffic flow templates
    Filters,        \* template to sequence of [dir, copies]
    Rates, QCIs,    \* QoS a policy may ask for
    Tunnels,        \* SGW-U endpoints
    TEIDs,          \* local tunnel ids for dedicated bearers (numbers)
    SEIDs,          \* UP-SEIDs (positive numbers)
    QCI1Plane,      \* PGW-U has a second address, for QCI 1, in the kernel
    Metadata,       \* the private QCI/ARP element is configured
    MaxIDs,         \* bound on rule ids
    MaxFaults,      \* timeouts, failing data-plane calls
    Handlers,       \* PFCP server workers
    Late            \* a request may be executed after its caller gave up

VARIABLES
    cp,         \* PGW-C's stored session, or NoCP
    sure,       \* ghost: PGW-C got an answer to all it sent since the last replay
    op,         \* PGW-C's call under way (the session lock is held)
    handler,    \* PFCP server workers of PGW-U
    up,         \* PGW-U's stored session, or NoSession
    faults

vars == <<cp, sure, op, handler, up, faults>>

Range(f) == {f[i] : i \in DOMAIN f}
Least(S) == CHOOSE x \in S : \A y \in S : x <= y

-----------------------------------------------------------------------------
(* Traffic flow templates *)

(* SDFPlansFromTFT: one plan for each flow description of each filter.      *)
SDFPlansFromTFT(t) ==
    LET f == Filters[t]
        plans[i \in 0..Len(f)] ==
            IF i = 0 THEN <<>>
            ELSE plans[i - 1] \o [c \in 1..f[i].copies |-> [tft |-> t, filter |-> i, copy |-> c]]
    IN plans[Len(f)]
Direction(plan) == Filters[plan.tft][plan.filter].dir

(* directionalSDFPlans: a bidirectional plan is used in both directions.    *)
uplinkPlans(t) == SelectSeq(SDFPlansFromTFT(t), LAMBDA p : Direction(p) \in {"uplink", "both"})
downlinkPlans(t) == SelectSeq(SDFPlansFromTFT(t), LAMBDA p : Direction(p) \in {"downlink", "both"})

(* directionalPDRCounts: the gateway's own count of the same plans.         *)
directionalPDRCounts(t) ==
    LET P == {i \in DOMAIN SDFPlansFromTFT(t) : TRUE}
        dir(i) == Direction(SDFPlansFromTFT(t)[i])
    IN [up |-> Cardinality({i \in P : dir(i) \in {"uplink", "both"}}),
        down |-> Cardinality({i \in P : dir(i) \in {"downlink", "both"}})]

-----------------------------------------------------------------------------
(* Rule ids *)

defaultRuleIDs == [up |-> <<1>>, down |-> <<2>>, upFAR |-> 1, downFAR |-> 2, qer |-> 1, urr |-> 1]
NoIDs == [up |-> <<>>, down |-> <<>>, upFAR |-> 0, downFAR |-> 0, qer |-> 0, urr |-> 0]

PDRs(ids) == Range(ids.up) \cup Range(ids.down)
FARs(ids) == {ids.upFAR, ids.downFAR}

(* freePDRIDs and freeUint32IDs: the n lowest unused ids, in order.         *)
freeIDs(used, n) ==
    LET free[k \in 0..n] ==
            IF k = 0 THEN <<>>
            ELSE Append(free[k - 1], Least((1..MaxIDs) \ (used \cup Range(free[k - 1]))))
    IN free[n]

(* allocateBearerRuleIDs: held are the ids of the session's other bearers.  *)
allocateBearerRuleIDs(held, n) ==
    LET all == held \cup {defaultRuleIDs}
        pdrs == freeIDs(UNION {PDRs(ids) : ids \in all}, n.up + n.down)
        fars == freeIDs(UNION {FARs(ids) : ids \in all}, 2)
    IN [up |-> SubSeq(pdrs, 1, n.up), down |-> SubSeq(pdrs, n.up + 1, n.up + n.down),
        upFAR |-> fars[1], downFAR |-> fars[2],
        qer |-> freeIDs({ids.qer : ids \in all}, 1)[1],
        urr |-> freeIDs({ids.urr : ids \in all}, 1)[1]]

-----------------------------------------------------------------------------
(* PGW-C: bearer plans and the elements that encode them *)

NoPlan == [ids |-> NoIDs, local |-> 0, remote |-> "none", rate |-> 0, qci |-> 0, tft |-> "none"]
NoCP == [up |-> 0, remote |-> "none", bearers |-> [e \in EBIs |-> NoPlan]]
Live(c) == {e \in EBIs : c.bearers[e] # NoPlan}
IDsOf(c) == {c.bearers[e].ids : e \in Live(c)}
WithBearer(c, e, plan) == [c EXCEPT !.bearers[e] = plan]

DefaultTEID == 0

Elements(pdrs, fars, qers, urrs) == [pdr |-> pdrs, far |-> fars, qer |-> qers, urr |-> urrs]
NoElements == Elements({}, {}, {}, {})
NoSDF == [tft |-> "none", filter |-> 0, copy |-> 0]
NoOuter == "none"

(* createPDR and its likes.  A QER carries QCI and ARP in the private       *)
(* element only.  Gates are always open.                                    *)
createPDR(id, source, teid, sdf, far, ids) ==
    [id |-> id, source |-> source, local |-> teid, sdf |-> sdf, far |-> far,
     qer |-> ids.qer, urr |-> ids.urr]
createForwardingFAR(id, dest, outer) == [id |-> id, dest |-> dest, outer |-> outer]
createQER(id, rate, qci) == [id |-> id, rate |-> rate, qci |-> IF Metadata THEN qci ELSE 0]
createURR(id) == [id |-> id]

Uplink(ids, i, teid, sdf) == createPDR(ids.up[i], "access", teid, sdf, ids.upFAR, ids)
Downlink(ids, i, sdf) == createPDR(ids.down[i], "core", -1, sdf, ids.downFAR, ids)
OtherRules(ids, remote, rate, qci) ==
    Elements({}, {createForwardingFAR(ids.upFAR, "core", NoOuter),
                  createForwardingFAR(ids.downFAR, "access", remote)},
             {createQER(ids.qer, rate, qci)}, {createURR(ids.urr)})

(* bearerCreateIEs *)
bearerCreateIEs(p) ==
    LET upl == uplinkPlans(p.tft)
        dnl == downlinkPlans(p.tft)
    IN [OtherRules(p.ids, p.remote, p.rate, p.qci) EXCEPT
          !.pdr = {Uplink(p.ids, i, p.local, upl[i]) : i \in DOMAIN upl}
                    \cup {Downlink(p.ids, i, dnl[i]) : i \in DOMAIN dnl}]

(* establishmentIEs: the default bearer, then the dedicated ones.           *)
establishmentIEs(c) ==
    LET ids == defaultRuleIDs
        default == [OtherRules(ids, c.remote, 0, 0) EXCEPT
                      !.pdr = {Uplink(ids, 1, DefaultTEID, NoSDF), Downlink(ids, 1, NoSDF)}]
        with(k) == default[k] \cup UNION {bearerCreateIEs(c.bearers[e])[k] : e \in Live(c)}
    IN [k \in DOMAIN default |-> with(k)]

(* validateRuleIDs and validateBearerPlan; validateEstablishment and        *)
(* ensureRuleIDsAvailable ask for distinct ids.                             *)
validateBearerPlan(p) ==
    /\ p.qci # 0 /\ p.remote # "none"
    /\ p.ids.upFAR # p.ids.downFAR
    /\ Cardinality(PDRs(p.ids)) = Len(p.ids.up) + Len(p.ids.down)
    /\ Len(p.ids.up) = Len(uplinkPlans(p.tft)) /\ Len(p.ids.up) > 0
    /\ Len(p.ids.down) = Len(downlinkPlans(p.tft)) /\ Len(p.ids.down) > 0
Disjoint(a, b) ==
    /\ PDRs(a) \cap PDRs(b) = {} /\ FARs(a) \cap FARs(b) = {}
    /\ a.qer # b.qer /\ a.urr # b.urr
ensureRuleIDsAvailable(c, ids) == \A x \in IDsOf(c) \cup {defaultRuleIDs} : Disjoint(ids, x)
validateEstablishment(c) ==
    \A e \in Live(c) :
        /\ validateBearerPlan(c.bearers[e])
        /\ ensureRuleIDsAvailable(WithBearer(c, e, NoPlan), c.bearers[e].ids)

-----------------------------------------------------------------------------
(* PGW-U: from elements to bearers *)

Unique(S) == \A x, y \in S : x.id = y.id => x = y
IDs(S) == {x.id : x \in S}
ByID(S, id) == CHOOSE x \in S : x.id = id
Group(el, p) == {x \in el.pdr : x.qer = p.qer /\ x.urr = p.urr}
From(g, source) == {p \in g : p.source = source}

(* validatePDRTopology *)
validatePDRTopology(p, far) ==
    \/ p.source = "access" /\ p.local >= 0 /\ far.dest = "core" /\ far.outer = NoOuter
    \/ p.source = "core" /\ p.local = -1 /\ far.dest = "access" /\ far.outer # NoOuter

(* What decodeSession and decodeCreatedDedicatedBearers refuse alike: ids   *)
(* that repeat, references that do not resolve, rules nobody references,    *)
(* bearers with one direction, PDRs of one direction that disagree.         *)
WellFormed(el) ==
    /\ Unique(el.pdr) /\ Unique(el.far) /\ Unique(el.qer) /\ Unique(el.urr)
    /\ {p.far : p \in el.pdr} = IDs(el.far)
    /\ {p.qer : p \in el.pdr} = IDs(el.qer)
    /\ {p.urr : p \in el.pdr} = IDs(el.urr)
    /\ \A p \in el.pdr : validatePDRTopology(p, ByID(el.far, p.far))
    /\ \A p \in el.pdr : \A source \in {"access", "core"} :
          LET side == From(Group(el, p), source)
          IN side # {} /\ \A x, y \in side : x.far = y.far /\ x.local = y.local

(* compileDedicatedBearer and packetFilterFromSDF; populateDefaultBearer is *)
(* the same without filters.                                                *)
compileDedicatedBearer(el, p) ==
    LET g == Group(el, p)
        ul == CHOOSE x \in From(g, "access") : TRUE
        dl == CHOOSE x \in From(g, "core") : TRUE
        qer == ByID(el.qer, p.qer)
    IN [filters |-> {[pdr |-> x.id, source |-> x.source, sdf |-> x.sdf] : x \in g},
        local |-> ul.local, remote |-> ByID(el.far, dl.far).outer,
        upFAR |-> ul.far, downFAR |-> dl.far, qer |-> p.qer, urr |-> p.urr,
        rate |-> qer.rate, qci |-> qer.qci]

(* normalizeDedicatedUserPlane: without metadata the address says QCI 1.    *)
normalized(b) == IF QCI1Plane /\ b.qci = 0 THEN [b EXCEPT !.qci = 1] ELSE b
Normal(b) == QCI1Plane => normalized(b).qci = 1

Bearers(el) == {compileDedicatedBearer(el, p) : p \in el.pdr}
Filtered(b) == \A f \in b.filters : f.sdf # NoSDF
Unfiltered(b) == \A f \in b.filters : f.sdf = NoSDF

(* compileSession: one unfiltered bearer with one PDR each way.             *)
Compiles(el) ==
    /\ WellFormed(el)
    /\ \A b \in Bearers(el) : Filtered(b) \/ (Unfiltered(b) /\ Cardinality(b.filters) = 2)
    /\ Cardinality({b \in Bearers(el) : Unfiltered(b)}) = 1
    /\ \A b \in Bearers(el) : IF Filtered(b) THEN Normal(b) ELSE b.local = DefaultTEID
Session(default, bearers) == [default |-> default, bearers |-> bearers]
compileSession(el) ==
    Session(CHOOSE b \in Bearers(el) : Unfiltered(b),
            {normalized(b) : b \in {x \in Bearers(el) : Filtered(x)}})

(* compileDedicatedOnly: created bearers carry filters.                     *)
CompilesDedicated(el) ==
    WellFormed(el) /\ \A b \in Bearers(el) : Filtered(b) /\ Normal(b)
compileDedicatedOnly(el) == {normalized(b) : b \in Bearers(el)}

BearerPDRs(b) == {f.pdr : f \in b.filters}
BearerFARs(b) == {b.upFAR, b.downFAR}
AllBearers(s) == {s.default} \cup s.bearers

(* Modifications *)
Modification(remove, create, far, qer) ==
    [remove |-> remove, create |-> create, far |-> far, qer |-> qer]
NothingRemoved == [pdr |-> {}, far |-> {}, qer |-> {}, urr |-> {}]
NoChange == Modification(NothingRemoved, NoElements, {}, {})

Touched(b, r) == \/ BearerPDRs(b) \cap r.pdr # {} \/ BearerFARs(b) \cap r.far # {}
                 \/ b.qer \in r.qer \/ b.urr \in r.urr
(* Mutant: the rules that are named go, without a look at their bearers. *)
RemovesNamedRules(s, r) ==
    LET left(b) == [b EXCEPT !.filters = {f \in @ : f.pdr \notin r.pdr}]
    IN [ok |-> TRUE, s |-> [s EXCEPT !.bearers = {b \in {left(x) : x \in @} : b.filters # {}}]]
(* removeDedicatedBearers: every rule of each bearer it touches, no others. *)
removeDedicatedBearers(s, r) ==
    LET gone == {b \in s.bearers : Touched(b, r)}
    IN [ok |-> /\ r.pdr = UNION {BearerPDRs(b) : b \in gone}
               /\ r.far = UNION {BearerFARs(b) : b \in gone}
               /\ r.qer = {b.qer : b \in gone}
               /\ r.urr = {b.urr : b \in gone},
        s |-> [s EXCEPT !.bearers = @ \ gone]]

(* sessionRuleIDs: created ids must be new.                                 *)
Creatable(s, el) ==
    /\ IDs(el.pdr) \cap UNION {BearerPDRs(b) : b \in AllBearers(s)} = {}
    /\ IDs(el.far) \cap UNION {BearerFARs(b) : b \in AllBearers(s)} = {}
    /\ IDs(el.qer) \cap {b.qer : b \in AllBearers(s)} = {}
    /\ IDs(el.urr) \cap {b.urr : b \in AllBearers(s)} = {}
    /\ CompilesDedicated(el)
AfterCreates(s, el) == [s EXCEPT !.bearers = @ \cup compileDedicatedOnly(el)]

OnBearers(s, Change(_)) == [default |-> Change(s.default), bearers |-> {Change(b) : b \in s.bearers}]

(* Mutant: an update of the default bearer is lost. *)
DefaultFARKept(s, fars) ==
    LET change(b) == IF b.downFAR \in IDs(fars) /\ b # s.default
                     THEN [b EXCEPT !.remote = ByID(fars, b.downFAR).outer] ELSE b
    IN OnBearers(s, change)
(* applyFARUpdates: downlink FARs only.                                     *)
applyFARUpdates(s, fars) ==
    LET change(b) == IF b.downFAR \in IDs(fars)
                     THEN [b EXCEPT !.remote = ByID(fars, b.downFAR).outer] ELSE b
    IN OnBearers(s, change)

(* applyQERUpdates: QCI and ARP change only if the element carries them.    *)
applyQERUpdates(s, qers) ==
    LET change(b) == IF b.qer \notin IDs(qers) THEN b
                     ELSE LET q == ByID(qers, b.qer)
                          IN [b EXCEPT !.rate = q.rate,
                                       !.qci = IF q.qci # 0 /\ b # s.default THEN q.qci ELSE @]
    IN OnBearers(s, change)

(* applyModifications: removals, creations, FAR updates, QER updates.       *)
Applicable(s, m) ==
    LET removal == removeDedicatedBearers(s, m.remove)
        kept == removal.s
    IN /\ removal.ok
       /\ m.create # NoElements => Creatable(kept, m.create)
       /\ LET new == IF m.create # NoElements THEN AfterCreates(kept, m.create) ELSE kept
          IN /\ IDs(m.far) \subseteq {b.downFAR : b \in AllBearers(new)}
             /\ IDs(m.qer) \subseteq {b.qer : b \in AllBearers(new)}
applyModifications(s, m) ==
    LET kept == removeDedicatedBearers(s, m.remove).s
        new == IF m.create # NoElements THEN AfterCreates(kept, m.create) ELSE kept
    IN applyQERUpdates(applyFARUpdates(new, m.far), m.qer)

(* validate of the rule store: local tunnels and rule ids are distinct, a   *)
(* dedicated bearer classifies both directions.  KernelForwarder's          *)
(* validateSession: one bearer, of QCI 1, on the QCI 1 plane.               *)
validate(s) ==
    \A b, c \in AllBearers(s) : b # c =>
        /\ b.local # c.local
        /\ BearerPDRs(b) \cap BearerPDRs(c) = {} /\ BearerFARs(b) \cap BearerFARs(c) = {}
        /\ b.qer # c.qer /\ b.urr # c.urr
KernelAccepts(s) ==
    QCI1Plane => Cardinality(s.bearers) <= 1 /\ \A b \in s.bearers : b.qci = 1

-----------------------------------------------------------------------------
(* PGW-C's calls *)

Idle == [pc |-> "idle"]
NoBearer == [filters |-> {}, local |-> 0, remote |-> "none", upFAR |-> 0, downFAR |-> 0,
             qer |-> 0, urr |-> 0, rate |-> 0, qci |-> 0]
NoSession == [seid |-> 0, s |-> Session(NoBearer, {})]
Fault == faults < MaxFaults /\ faults' = faults + 1
Merge(r, fields) == [k \in DOMAIN r \cup DOMAIN fields |->
                        IF k \in DOMAIN fields THEN fields[k] ELSE r[k]]

(* A call the client refuses before it sends anything, or endpoint.Do.      *)
(* next is what PGW-C stores on success, undo the call that takes it back.  *)
Do(kind, valid, body, next, undo) ==
    /\ op.pc = "idle"
    /\ \/ /\ ~valid
          /\ op' = [pc |-> "refused", kind |-> kind]
          /\ UNCHANGED handler
       \/ /\ valid
          /\ \E h \in Handlers :
                /\ handler[h].pc = "idle"
                /\ handler' = [handler EXCEPT ![h] =
                      [pc |-> "sent", kind |-> kind, seid |-> cp.up, body |-> body,
                       fresh |-> FALSE, result |-> "none"]]
                /\ op' = [pc |-> "wait", kind |-> kind, h |-> h, next |-> next, undo |-> undo]
    /\ UNCHANGED <<cp, sure, up, faults>>

Establish ==
    /\ cp = NoCP
    /\ \E r \in Tunnels :
          LET c == [NoCP EXCEPT !.remote = r]
          IN Do("establish", validateEstablishment(c), establishmentIEs(c), c, NoChange)

(* reconcileSession: the stored session is sent again, to a PGW-U that is   *)
(* reconciling and finds the session by its CP-SEID.                        *)
Replay == cp # NoCP /\ Do("reconcile", validateEstablishment(cp), establishmentIEs(cp), cp, NoChange)

UpdateRemote ==
    /\ cp # NoCP
    /\ \E r \in Tunnels \ {cp.remote} :
          LET change(t) == Modification(NothingRemoved, NoElements,
                               {createForwardingFAR(defaultRuleIDs.downFAR, "access", t)}, {})
          IN Do("modify", TRUE, change(r), [cp EXCEPT !.remote = r], change(cp.remote))

(* dedicatedUserIP: with a QCI 1 plane no other QCI, and one bearer.        *)
Supported(qci) == QCI1Plane => qci = 1
FreeTEIDs == TEIDs \ {cp.bearers[e].local : e \in EBIs}

Installs(plan) == Modification(NothingRemoved, bearerCreateIEs(plan), {}, {})
Removes(ids) ==
    Modification([pdr |-> PDRs(ids), far |-> FARs(ids), qer |-> {ids.qer}, urr |-> {ids.urr}],
                 NoElements, {}, {})
ChangesQoS(ids, rate, qci) ==
    Modification(NothingRemoved, NoElements, {}, {createQER(ids.qer, rate, qci)})

AddBearer ==
    /\ cp # NoCP /\ Live(cp) # EBIs
    /\ QCI1Plane => Live(cp) = {}
    /\ FreeTEIDs # {}
    /\ \E t \in Templates, rate \in Rates, qci \in {q \in QCIs : Supported(q)}, r \in Tunnels :
          LET e == Least(EBIs \ Live(cp))
              ids == allocateBearerRuleIDs(IDsOf(cp), directionalPDRCounts(t))
              plan == [ids |-> ids, local |-> Least(FreeTEIDs), remote |-> r, rate |-> rate,
                       qci |-> qci, tft |-> t]
          IN Do("modify", validateBearerPlan(plan) /\ ensureRuleIDsAvailable(cp, ids),
                Installs(plan), WithBearer(cp, e, plan), Removes(ids))

UpdateBearerQoS ==
    \E e \in Live(cp), rate \in Rates, qci \in {q \in QCIs : Supported(q)} :
        LET p == cp.bearers[e]
        IN /\ <<rate, qci>> # <<p.rate, p.qci>>
           /\ Do("modify", TRUE, ChangesQoS(p.ids, rate, qci),
                 WithBearer(cp, e, [p EXCEPT !.rate = rate, !.qci = qci]),
                 ChangesQoS(p.ids, p.rate, p.qci))

RemoveBearer ==
    \E e \in Live(cp) :
        LET p == cp.bearers[e]
        IN Do("remove", TRUE, Removes(p.ids), WithBearer(cp, e, NoPlan), Installs(p))

Delete == cp # NoCP /\ Do("delete", TRUE, NoChange, NoCP, NoChange)

(* The answer: a Delete takes Session Not Found for success.  What undoes a *)
(* call is not repeated: if it fails, PGW-U keeps what PGW-C does not have. *)
Answer ==
    /\ op.pc = "wait"
    /\ LET h == handler[op.h]
           won == h.result = "ok" \/ (op.kind = "delete" /\ h.result = "notfound")
           whole == op.kind \in {"establish", "reconcile", "delete"}
       IN /\ h.pc = "answer"
          /\ cp' = IF ~won THEN cp
                   ELSE IF op.kind \in {"establish", "reconcile"}
                   THEN [op.next EXCEPT !.up = h.seid] ELSE op.next
          /\ sure' = IF op.kind = "undo" /\ h.result = "failed" THEN FALSE
                     ELSE sure \/ (whole /\ h.result = "ok")
          /\ op' = IF h.result \in {"refused", "notfound"} /\ ~won
                   THEN [pc |-> "refused", kind |-> op.kind] ELSE Idle
          /\ handler' = [handler EXCEPT ![op.h] = Idle]
    /\ UNCHANGED <<up, faults>>

(* PGW-U has done it, but then the SGW refuses or the session store fails:  *)
(* rollback, rollbackPFCP and restorePFCP of the bearer procedures.         *)
Undo ==
    /\ op.pc = "wait" /\ op.kind \in {"modify", "remove"} /\ Fault
    /\ handler[op.h].pc = "answer" /\ handler[op.h].result = "ok"
    /\ handler' = [handler EXCEPT ![op.h] =
          [pc |-> "sent", kind |-> "undo", seid |-> cp.up, body |-> op.undo,
           fresh |-> FALSE, result |-> "none"]]
    /\ op' = [op EXCEPT !.kind = "undo", !.next = cp, !.undo = NoChange]
    /\ UNCHANGED <<cp, sure, up>>

(* The procedure that called reports the refusal. *)
Refused == op.pc = "refused" /\ op' = Idle /\ UNCHANGED <<cp, sure, handler, up, faults>>

(* The request or its answer was lost, or the handler is slow.  A Delete    *)
(* that releases a session PGW-C could not store is not repeated.           *)
Timeout ==
    /\ op.pc = "wait" /\ Fault
    /\ \/ handler[op.h].pc \in {"sent", "answer"} /\ handler' = [handler EXCEPT ![op.h] = Idle]
       \/ Late /\ handler[op.h].pc # "answer" /\ handler' = handler
    /\ cp' \in (IF op.kind = "delete" THEN {cp, NoCP} ELSE {cp})
    /\ sure' = FALSE
    /\ op' = Idle
    /\ UNCHANGED up

-----------------------------------------------------------------------------
(* PGW-U's handlers *)

Set(h, fields) == handler' = [handler EXCEPT ![h] = Merge(handler[h], fields)]
Reply(h, result) == Set(h, [pc |-> "answer", result |-> result])

(* FindByUPSEID or FindByCPSEID: the revision read here must be current     *)
(* when the store commits.  A new session gets an unused UP-SEID.           *)
Find(h) ==
    /\ handler[h].pc = "sent"
    /\ LET m == handler[h]
           known == up # NoSession /\ (m.kind = "reconcile" \/ up.seid = m.seid)
           used == {up.seid, cp.up} \cup {handler[x].seid : x \in {y \in Handlers : handler[y].pc # "idle"}}
       IN \/ /\ m.kind = "establish"
             /\ \E u \in SEIDs \ used :
                   (\A x \in SEIDs \ used : u <= x) /\ Set(h, [pc |-> "commit", seid |-> u])
          \/ m.kind # "establish" /\ known /\ Set(h, [pc |-> "commit", seid |-> up.seid, fresh |-> TRUE])
          \/ m.kind # "establish" /\ ~known /\ Reply(h, "notfound")
    /\ UNCHANGED <<cp, sure, op, up, faults>>

(* The revision the handler has read is still the stored one.               *)
Current(h) == up # NoSession /\ up.seid = handler[h].seid /\ handler[h].fresh

(* The session that would be stored, and whether it may be.                 *)
Candidate(m) == IF m.kind \in {"establish", "reconcile"} THEN compileSession(m.body)
                ELSE applyModifications(up.s, m.body)
Acceptable(h) ==
    LET m == handler[h]
    IN CASE m.kind = "establish" -> up = NoSession /\ Compiles(m.body)
         [] m.kind = "reconcile" -> up # NoSession /\ Compiles(m.body)
         [] m.kind \in {"modify", "remove", "undo"} -> Current(h) /\ Applicable(up.s, m.body)
         [] m.kind = "delete" -> Current(h)

(* store.Create, Reconcile, Update or Delete.  A new revision makes what    *)
(* other handlers have read stale; a replay of the same rules makes none.   *)
Commit(h) ==
    /\ handler[h].pc = "commit"
    /\ LET m == handler[h]
           next == IF m.kind = "delete" THEN NoSession
                   ELSE [seid |-> IF m.kind = "reconcile" THEN up.seid ELSE m.seid,
                         s |-> Candidate(m)]
           stale(x) == IF handler[x].pc = "commit" /\ next # up
                       THEN [handler[x] EXCEPT !.fresh = FALSE] ELSE handler[x]
       IN IF Acceptable(h) /\ (m.kind # "delete" => validate(next.s) /\ KernelAccepts(next.s))
          THEN /\ up' = next
               /\ handler' = [x \in Handlers |->
                     IF x = h THEN Merge(m, [pc |-> "answer", result |-> "ok", seid |-> next.seid])
                     ELSE stale(x)]
          ELSE Reply(h, "refused") /\ UNCHANGED up
    /\ UNCHANGED <<cp, sure, op, faults>>

(* The data plane or the log refuses: nothing is stored.                    *)
CommitFails(h) ==
    /\ handler[h].pc = "commit" /\ Fault
    /\ Reply(h, "failed")
    /\ UNCHANGED <<cp, sure, op, up>>

(* A handler whose caller has given up. *)
Discard(h) ==
    /\ handler[h].pc = "answer"
    /\ op.pc = "wait" => op.h # h
    /\ handler' = [handler EXCEPT ![h] = Idle]
    /\ UNCHANGED <<cp, sure, op, up, faults>>

Init ==
    /\ cp = NoCP /\ sure = TRUE /\ op = Idle
    /\ handler = [h \in Handlers |-> Idle]
    /\ up = NoSession /\ faults = 0

Next ==
    \/ Establish \/ Replay \/ UpdateRemote \/ AddBearer \/ UpdateBearerQoS \/ RemoveBearer
    \/ Delete \/ Answer \/ Undo \/ Refused \/ Timeout
    \/ \E h \in Handlers : Find(h) \/ Commit(h) \/ CommitFails(h) \/ Discard(h)

Spec == Init /\ [][Next]_vars

-----------------------------------------------------------------------------
(* Each variable has its type; rule ids stay within the bound.              *)
TypeOK ==
    /\ cp.up \in SEIDs \cup {0} /\ cp.remote \in Tunnels \cup {"none"}
    /\ \A e \in EBIs : cp.bearers[e].tft \in Templates \cup {"none"}
    /\ \A e \in EBIs : PDRs(cp.bearers[e].ids) \subseteq 1..MaxIDs
    /\ sure \in BOOLEAN /\ faults \in 0..MaxFaults
    /\ op.pc \in {"idle", "wait", "refused"}
    /\ \A h \in Handlers : handler[h].pc \in {"idle", "sent", "commit", "answer"}
    /\ up.seid \in SEIDs \cup {0}
    /\ \A b \in up.s.bearers : b.local \in TEIDs /\ b.remote \in Tunnels

Quiet == op = Idle /\ \A h \in Handlers : handler[h] = Idle

(* Incremental modifications and a replay have the same result: whenever    *)
(* PGW-C has been answered by all it sent, PGW-U holds exactly the rules it *)
(* would compile from a new establishment of the stored session, so a       *)
(* recovery changes nothing (rule ids, tunnels, rates, QCI, filters).       *)
PlanesAgree ==
    sure /\ Quiet =>
        IF cp = NoCP THEN up = NoSession
        ELSE up.seid = cp.up /\ up.s = compileSession(establishmentIEs(cp))

(* As long as every call was answered, neither the client nor PGW-U refuses *)
(* what the gateway asks for: its rule ids are free at both ends, its PDR   *)
(* counts fit the template's expansion, and what PGW-C stores can always be *)
(* replayed.  (A failing data plane is not a refusal.)                      *)
NoSpuriousRefusal == sure => op.pc # "refused"

(* PGW-U rejects partial rule removal, so no half-installed classifier can  *)
(* commit: every dedicated bearer in the store has exactly the filters of   *)
(* one template in both directions, also when ids are used again and        *)
(* requests are lost or run late.                                           *)
WholeBearers ==
    \A b \in up.s.bearers : \E t \in Templates :
        /\ {f.sdf : f \in From(b.filters, "access")} = Range(uplinkPlans(t))
        /\ {f.sdf : f \in From(b.filters, "core")} = Range(downlinkPlans(t))

(* Deleting a policy is idempotent: a RemoveBearer that is repeated because *)
(* the first answer was lost is not refused by a PGW-U that has the session. *)
DeleteIsIdempotent == ~(op.pc = "refused" /\ op.kind = "remove" /\ up # NoSession /\ up.seid = cp.up)
=============================================================================
