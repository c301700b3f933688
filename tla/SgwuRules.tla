----------------------------- MODULE SgwuRules -----------------------------
(***************************************************************************)
(* The forwarding rules of SGW-U and the client that writes them.  SGW-C's *)
(* PFCP client (internal/sgwc/pfcpclient) turns bearer operations into     *)
(* Create, Update and Remove rule elements; the PFCP server                *)
(* (internal/sgwu/pfcpserver) applies them to a copy of the session; the   *)
(* rule store (internal/sgwu/rules) validates the copy and swaps it into   *)
(* the indexes that packet goroutines read without a lock.  A swap is      *)
(* visible in phases: the old generation is made inactive, the index is    *)
(* rebuilt, the new generation is made active.                             *)
(*                                                                         *)
(* A rule set is one function from rule keys to contents.  The rules of    *)
(* bearer b have keys made of b: SGW-C allocates disjoint rule ids.        *)
(* Generations are heap objects, so a number is reused once nothing refers *)
(* to it; a session's generation changes exactly when its revision does    *)
(* and stands for it.  Association state and ownership are in SxRecovery.  *)
(***************************************************************************)
EXTENDS FiniteSets, Integers

CONSTANTS Sessions,     \* CP-SEIDs
          UPSEIDs,
          Default, Dedicated,   \* bearers: the default one, and a set
          TEIDs,        \* local tunnel ids; SGW-C uses one for both sides here
          ENBs,         \* eNodeB tunnel endpoints
          QCIs,
          Handlers,     \* PFCP server workers
          Readers,      \* packet goroutines
          Generations,  \* positive numbers for the generation objects
          MaxSessions,  \* capacity of the rule store
          DefaultQoS,   \* whether Update Bearer may address the default bearer
          Late,         \* whether a request may be executed after its timeout
          PurgeRaces,   \* whether a purge may meet a handler of the same session
          MaxLosses     \* bound: timeouts, purges and user-plane restarts

VARIABLES cp,       \* what SGW-C holds: bearers of each session, its UP-SEID
          sure,     \* ghost: SGW-C has been answered by all it changed
          op,       \* per session (its lock): the PFCP call under way
          handler,  \* PFCP server workers
          owner,    \* UP-SEIDs that have an owner
          byUP,     \* rule store: sessions by UP-SEID
          active,   \* generations whose active flag is set
          tunnels,  \* byTunnel: <<interface, TEID>> to compiled rules
          writer,   \* handler that holds the store mutex, or None
          reader,   \* packet goroutines
          losses    \* bound: faults so far

vars == <<cp, sure, op, handler, owner, byUP, active, tunnels, writer, reader, losses>>

None == "none"
Bearers == {Default} \union Dedicated
Interfaces == {"access", "core"}

----------------------------------------------------------------------------
(* Rules *)

PDR(b, side) == <<"PDR", b, side>>
FAR(b, side) == <<"FAR", b, side>>
QER(b) == <<"QER", b, "">>
URR(b) == <<"URR", b, "">>
BAR(q) == <<"BAR", q, "">>
NoBAR == BAR(0)

\* The values the client encodes (createPDR and its likes) and the server
\* decodes into rules (decodePDR and its likes).
NewPDR(b, side, t) ==
  [side |-> side, teid |-> t, far |-> FAR(b, side), qer |-> QER(b), urr |-> URR(b)]
ForwardingFAR(remote) == [action |-> "forward", remote |-> remote, bar |-> NoBAR]
DropFAR == [action |-> "drop", remote |-> None, bar |-> NoBAR]
BufferingFAR(q) == [action |-> "buffer", remote |-> None, bar |-> BAR(q)]
NewQER(q) == [qci |-> q]
NewURR == [volume |-> TRUE]
NewBAR == [delay |-> "configured"]

BearerKeys(b) ==
  {PDR(b, "access"), PDR(b, "core"), FAR(b, "access"), FAR(b, "core"), QER(b), URR(b)}

\* The six rules of a bearer; downlink is the FAR of the core-side PDR.
BearerRules(b, plan, downlink) ==
  [k \in BearerKeys(b) |->
     CASE k = PDR(b, "access") -> NewPDR(b, "access", plan.teid)
       [] k = PDR(b, "core")   -> NewPDR(b, "core", plan.teid)
       [] k = FAR(b, "access") -> ForwardingFAR("pgw")
       [] k = FAR(b, "core")   -> downlink
       [] k = QER(b)           -> NewQER(plan.qci)
       [] k = URR(b)           -> NewURR]

Plan(t, enb, q) == [teid |-> t, enb |-> enb, qci |-> q]
NoPlan == Plan(None, None, 0)
NoRules == [k \in {} |-> 0]
Merge(f, g) == [k \in DOMAIN f \union DOMAIN g |-> IF k \in DOMAIN g THEN g[k] ELSE f[k]]

\* establishmentIEs: the BAR is named after the default bearer's QCI, and a
\* bearer without an eNodeB endpoint buffers in it.
EstablishmentRules(plans) ==
  LET bar == plans[Default].qci
      live == {b \in Bearers : plans[b] # NoPlan}
      rules(b) == BearerRules(b, plans[b], IF plans[b].enb = None THEN BufferingFAR(bar)
                                           ELSE ForwardingFAR(plans[b].enb))
  IN [k \in {BAR(bar)} \union UNION {BearerKeys(b) : b \in live} |->
        IF k = BAR(bar) THEN NewBAR
        ELSE rules(CHOOSE b \in live : k \in BearerKeys(b))[k]]

Modification(remove, create, update) ==
  [remove |-> remove, create |-> create, update |-> update]
Creation(plans) == Modification({}, EstablishmentRules(plans), NoRules)
NoChange == Modification({}, NoRules, NoRules)

\* applyModifications: removals, then creations, then updates whose absent
\* fields keep their value; an unknown or a duplicate id refuses all of it.
Removable(rules, m) == m.remove \subseteq DOMAIN rules
AfterRemovals(rules, m) == [k \in DOMAIN rules \ m.remove |-> rules[k]]
Creatable(rules, m) == DOMAIN m.create \cap DOMAIN AfterRemovals(rules, m) = {}
AfterCreates(rules, m) == Merge(AfterRemovals(rules, m), m.create)
Updatable(rules, m) == DOMAIN m.update \subseteq DOMAIN AfterCreates(rules, m)
applyModifications(rules, m) ==
  [k \in DOMAIN AfterCreates(rules, m) |->
     IF k \in DOMAIN m.update
     THEN Merge(AfterCreates(rules, m)[k], m.update[k])
     ELSE AfterCreates(rules, m)[k]]

\* validate: references resolve, a forwarding FAR has an outer header.
validate(rules) ==
  LET pdrs == {k \in DOMAIN rules : k[1] = "PDR"}
      fars == {k \in DOMAIN rules : k[1] = "FAR"}
  IN /\ pdrs # {}
     /\ \A p \in pdrs : {rules[p].far, rules[p].qer, rules[p].urr} \subseteq DOMAIN rules
     /\ \A f \in fars : /\ rules[f].action = "forward" => rules[f].remote # None
                        /\ rules[f].bar # NoBAR => rules[f].bar \in DOMAIN rules

\* compilePacketRule: what the packet path needs of a PDR, as one value.
compilePacketRule(rules, p) ==
  [far |-> rules[rules[p].far], qer |-> rules[rules[p].qer]]

Tunnel(pdr) == <<pdr.side, pdr.teid>>
PDRs(rules) == {k \in DOMAIN rules : k[1] = "PDR"}
TunnelsOf(rules) == {Tunnel(rules[p]) : p \in PDRs(rules)}

NoSession == [cp |-> None, rules |-> NoRules, gen |-> 0]
InUse == {u \in UPSEIDs : byUP[u] # NoSession}

checkTunnelConflicts(rules, u) ==
  \A k \in TunnelsOf(rules) \cap DOMAIN tunnels : tunnels[k].up = u

\* indexSession and unindexSession on the tunnel index.
indexSession(index, u, rules, gen) ==
  [k \in DOMAIN index \union TunnelsOf(rules) |->
     IF k \in TunnelsOf(rules)
     THEN LET p == CHOOSE p \in PDRs(rules) : Tunnel(rules[p]) = k
          IN [up |-> u, pdr |-> p, rule |-> compilePacketRule(rules, p), gen |-> gen]
     ELSE index[k]]
unindexSession(index, u, rules) ==
  [k \in {x \in DOMAIN index : ~(x \in TunnelsOf(rules) /\ index[x].up = u)} |-> index[k]]

----------------------------------------------------------------------------
(* The store mutex, generations and readers *)

Idle == [pc |-> "idle"]
Referenced ==
  {byUP[u].gen : u \in UPSEIDs} \union {tunnels[k].gen : k \in DOMAIN tunnels}
    \union {reader[r].held.gen : r \in {x \in Readers : reader[x].pc # "idle"}}
    \union {handler[h].gen : h \in {x \in Handlers : handler[x].pc # "idle"}}
Fresh == CHOOSE g \in Generations \ Referenced : \A x \in Generations \ Referenced : g <= x

\* FindByUPSEID, FindByCPSEID: clones taken under the read lock.
FindByCPSEID(s) == {u \in InUse : byUP[u].cp = s}

----------------------------------------------------------------------------
(* SGW-C's client *)

NoPlans == [b \in Bearers |-> NoPlan]
NoCP == [up |-> None, plans |-> NoPlans]
Live(s) == {b \in Bearers : cp[s].plans[b] # NoPlan}
WithPlan(c, b, plan) == [c EXCEPT !.plans[b] = plan]

\* The allocator hands out tunnel ids that no bearer SGW-C knows of uses.
Allocated == UNION {{cp[s].plans[b].teid : b \in Live(s)} : s \in Sessions}
               \union {op[s].teid : s \in {x \in Sessions : op[x].pc = "wait"}}

\* endpoint.Do: the request goes to a free worker.  next is what SGW-C records
\* when the answer is Accepted, forget what it may record when it gives up.
Do(s, kind, up, body, next, forget, t) ==
  /\ op[s].pc = "idle"
  /\ \E h \in Handlers :
       /\ handler[h].pc = "idle"
       /\ handler' = [handler EXCEPT ![h] = [pc |-> "sent", kind |-> kind, s |-> s, up |-> up,
                                             body |-> body, rules |-> NoRules, gen |-> 0, ok |-> FALSE]]
       /\ op' = [op EXCEPT ![s] = [pc |-> "wait", h |-> h, kind |-> kind, next |-> next,
                                   forget |-> forget, teid |-> t]]
  /\ UNCHANGED <<cp, sure, owner, byUP, active, tunnels, writer, reader, losses>>

modifySession(s, m, next, forget, t) == Do(s, "modify", cp[s].up, m, next, forget, t)

Establish(s) ==
  /\ cp[s] = NoCP
  /\ \E t \in TEIDs \ Allocated, q \in QCIs, enb \in ENBs \union {None} :
       LET plans == [NoPlans EXCEPT ![Default] = Plan(t, enb, q)]
       IN Do(s, "establish", None, Creation(plans), [NoCP EXCEPT !.plans = plans], NoCP, t)

\* The replay of a committed session: every bearer it holds is complete.
Replay(s) ==
  /\ cp[s] # NoCP
  /\ \A b \in Live(s) : cp[s].plans[b].enb # "closed"
  /\ \E kind \in {"establish", "reconcile"} :
       Do(s, kind, None, Creation(cp[s].plans), cp[s], cp[s], None)

\* ActivateBearer: the FAR forwards to the eNodeB; its BAR id is not sent.
ActivateBearer(s, b) ==
  /\ b \in Live(s)
  /\ \E enb \in ENBs :
       LET patch == [action |-> "forward", remote |-> enb]
       IN modifySession(s, Modification({}, NoRules, [k \in {FAR(b, "core")} |-> patch]),
                        WithPlan(cp[s], b, [cp[s].plans[b] EXCEPT !.enb = enb]), cp[s], None)

\* DeactivateBearer: the BAR id is the default bearer's QCI of today.
DeactivateBearer(s, b) ==
  /\ b \in Live(s)
  /\ cp[s].plans[b].enb \in ENBs
  /\ LET patch == [action |-> "buffer", bar |-> BAR(cp[s].plans[Default].qci)]
     IN modifySession(s, Modification({}, NoRules, [k \in {FAR(b, "core")} |-> patch]),
                      WithPlan(cp[s], b, [cp[s].plans[b] EXCEPT !.enb = None]), cp[s], None)

\* AddBearer: the downlink starts closed.
AddBearer(s, b) ==
  /\ cp[s] # NoCP
  /\ b \in Dedicated \ Live(s)
  /\ \E t \in TEIDs \ Allocated, q \in QCIs :
       LET plan == Plan(t, "closed", q)
       IN modifySession(s, Modification({}, BearerRules(b, plan, DropFAR), NoRules),
                        WithPlan(cp[s], b, plan), cp[s], t)

\* UpdateBearerQoS replaces the QER's values and keeps its id.
UpdateBearerQoS(s, b) ==
  /\ b \in Live(s)
  /\ b = Default => DefaultQoS
  /\ \E q \in QCIs \ {cp[s].plans[b].qci} :
       modifySession(s, Modification({}, NoRules, [k \in {QER(b)} |-> NewQER(q)]),
                     WithPlan(cp[s], b, [cp[s].plans[b] EXCEPT !.qci = q]), cp[s], None)

\* RemoveBearer: SGW-C may forget the bearer even when no answer comes (a
\* roll-back) and give its tunnel ids to another.
RemoveBearer(s, b) ==
  /\ b \in Dedicated \cap Live(s)
  /\ LET gone == WithPlan(cp[s], b, NoPlan)
     IN modifySession(s, Modification(BearerKeys(b), NoRules, NoRules), gone, gone, None)

Delete(s) ==
  /\ cp[s] # NoCP
  /\ Do(s, "delete", cp[s].up, NoChange, NoCP, NoCP, None)

\* accepted: a deletion also takes Session Not Found for success.
Answer(s) ==
  /\ op[s].pc = "wait"
  /\ LET h == handler[op[s].h]
         won == h.ok \/ (op[s].kind = "delete" /\ h.up = None)
     IN /\ h.pc = "answer"
        /\ cp' = IF ~won THEN cp
                 ELSE [cp EXCEPT ![s] = IF op[s].kind \in {"establish", "reconcile"}
                                        THEN [op[s].next EXCEPT !.up = h.up] ELSE op[s].next]
        /\ sure' = IF won /\ op[s].kind \in {"establish", "reconcile", "delete"}
                   THEN [sure EXCEPT ![s] = h.ok] ELSE sure
  /\ handler' = [handler EXCEPT ![op[s].h] = Idle]
  /\ op' = [op EXCEPT ![s] = Idle]
  /\ UNCHANGED <<owner, byUP, active, tunnels, writer, reader, losses>>

\* The call gives up: the request or the answer was lost, or it is late.
Timeout(s) ==
  /\ op[s].pc = "wait"
  /\ losses < MaxLosses
  /\ losses' = losses + 1
  /\ \/ handler[op[s].h].pc \in {"sent", "answer"} /\ handler' = [handler EXCEPT ![op[s].h] = Idle]
     \/ Late /\ handler[op[s].h].pc # "answer" /\ handler' = handler
  /\ \E next \in {cp[s], op[s].forget} : cp' = [cp EXCEPT ![s] = next]
  /\ sure' = [sure EXCEPT ![s] = FALSE]
  /\ op' = [op EXCEPT ![s] = Idle]
  /\ UNCHANGED <<owner, byUP, active, tunnels, writer, reader>>

----------------------------------------------------------------------------
(* The PFCP server and the rule store *)

Set(h, fields) == handler' = [handler EXCEPT ![h] = Merge(handler[h], fields)]
Reply(h, good) == IF handler[h].kind = "purge" THEN handler' = [handler EXCEPT ![h] = Idle]
                  ELSE Set(h, [pc |-> "answer", ok |-> good])
NotFound(h) == IF handler[h].kind = "purge" THEN Set(h, [pc |-> "disown"])
               ELSE Set(h, [pc |-> "answer", ok |-> FALSE, up |-> None])

\* The look-up that precedes the store call; the revision read here is the
\* one the store must still have.  A new session gets an unused UP-SEID.
Find(h) ==
  /\ handler[h].pc = "sent"
  /\ writer = None
  /\ LET m == handler[h]
         found == IF m.kind = "reconcile" THEN FindByCPSEID(m.s)
                  ELSE {u \in InUse : u = m.up /\ (m.kind = "purge" \/ u \in owner)}
     IN \/ /\ m.kind = "establish"
           /\ \E u \in UPSEIDs \ (InUse \union owner \union {cp[s].up : s \in Sessions}
                                \union {handler[x].up : x \in {y \in Handlers : handler[y].pc # "idle"}}) :
                Set(h, [pc |-> "ready", up |-> u])
        \/ /\ m.kind # "establish" /\ found # {}
           /\ \E u \in found : Set(h, [pc |-> "ready", up |-> u, gen |-> byUP[u].gen])
        \/ m.kind # "establish" /\ found = {} /\ NotFound(h)
  /\ UNCHANGED <<cp, sure, op, owner, byUP, active, tunnels, writer, reader, losses>>

\* What the store accepts, and the rules that result.
Candidate(m) == applyModifications(IF m.kind = "modify" THEN byUP[m.up].rules ELSE NoRules, m.body)
MayCreate(m) == /\ FindByCPSEID(m.s) = {}
                /\ Cardinality(InUse) < MaxSessions
MayUpdate(m) == /\ byUP[m.up] # NoSession
                /\ byUP[m.up].gen = m.gen
                /\ Removable(byUP[m.up].rules, m.body)
                /\ Creatable(byUP[m.up].rules, m.body)
                /\ Updatable(byUP[m.up].rules, m.body)
MayReconcile(m) == byUP[m.up] # NoSession
Acceptable(m) == /\ CASE m.kind = "establish" -> MayCreate(m)
                      [] m.kind = "modify"    -> MayUpdate(m)
                      [] m.kind = "reconcile" -> MayReconcile(m)
                 /\ validate(Candidate(m))
                 /\ checkTunnelConflicts(Candidate(m), m.up)

Writes(h) == handler[h].kind \in {"establish", "modify", "reconcile"}
Refused(h) ==
  /\ handler[h].pc = "ready" /\ Writes(h) /\ writer = None
  /\ ~Acceptable(handler[h])
  /\ Reply(h, FALSE)
  /\ UNCHANGED <<cp, sure, op, owner, byUP, active, tunnels, writer, reader, losses>>

\* Reconcile with the rules the store has already: nothing is swapped.
Unchanged(h) ==
  /\ handler[h].pc = "ready" /\ handler[h].kind = "reconcile" /\ writer = None
  /\ Acceptable(handler[h])
  /\ byUP[handler[h].up].rules = Candidate(handler[h])
  /\ Set(h, [pc |-> "own"])
  /\ UNCHANGED <<cp, sure, op, owner, byUP, active, tunnels, writer, reader, losses>>

\* Create, Update and Reconcile: the old generation is switched off first.
Deactivate(h) ==
  /\ handler[h].pc = "ready" /\ Writes(h) /\ writer = None
  /\ Acceptable(handler[h])
  /\ handler[h].kind = "reconcile" => byUP[handler[h].up].rules # Candidate(handler[h])
  /\ writer' = h
  /\ active' = active \ {byUP[handler[h].up].gen}
  /\ Set(h, [pc |-> "index", rules |-> Candidate(handler[h])])
  /\ UNCHANGED <<cp, sure, op, owner, byUP, tunnels, reader, losses>>

\* Mutant: the new rules share the active flag of the old ones.
IndexSameFlag(h) ==
  /\ handler[h].pc = "index"
  /\ LET m == handler[h]
         flag == IF byUP[m.up] = NoSession THEN Fresh ELSE byUP[m.up].gen
     IN /\ tunnels' = indexSession(unindexSession(tunnels, m.up, byUP[m.up].rules), m.up, m.rules, flag)
        /\ byUP' = [byUP EXCEPT ![m.up] = [cp |-> m.s, rules |-> m.rules, gen |-> flag]]
  /\ Set(h, [pc |-> "activate"])
  /\ UNCHANGED <<cp, sure, op, owner, active, writer, reader, losses>>

\* The old rules leave the index, the new ones enter it under a generation
\* that is not active yet.
Index(h) ==
  /\ handler[h].pc = "index"
  /\ LET m == handler[h]
     IN /\ tunnels' = indexSession(unindexSession(tunnels, m.up, byUP[m.up].rules), m.up, m.rules, Fresh)
        /\ byUP' = [byUP EXCEPT ![m.up] = [cp |-> m.s, rules |-> m.rules, gen |-> Fresh]]
  /\ Set(h, [pc |-> "activate"])
  /\ UNCHANGED <<cp, sure, op, owner, active, writer, reader, losses>>

Activate(h) ==
  /\ handler[h].pc = "activate"
  /\ active' = active \union {byUP[handler[h].up].gen}
  /\ writer' = None
  /\ IF handler[h].kind = "modify" THEN Reply(h, TRUE) ELSE Set(h, [pc |-> "own"])
  /\ UNCHANGED <<cp, sure, op, owner, byUP, tunnels, reader, losses>>

Own(h) ==
  /\ handler[h].pc = "own"
  /\ owner' = owner \union {handler[h].up}
  /\ Reply(h, TRUE)
  /\ UNCHANGED <<cp, sure, op, byUP, active, tunnels, writer, reader, losses>>

\* Delete with a revision that is no longer current removes nothing.  The
\* server answers System Failure; the purge forgets the owner all the same.
Conflict(h) ==
  /\ handler[h].pc = "ready" /\ ~Writes(h) /\ writer = None
  /\ byUP[handler[h].up].gen # handler[h].gen
  /\ IF handler[h].kind = "purge" THEN Set(h, [pc |-> "disown"]) ELSE Reply(h, FALSE)
  /\ UNCHANGED <<cp, sure, op, owner, byUP, active, tunnels, writer, reader, losses>>

Unlist(h) ==
  /\ handler[h].pc = "ready" /\ ~Writes(h) /\ writer = None
  /\ byUP[handler[h].up] # NoSession /\ byUP[handler[h].up].gen = handler[h].gen
  /\ writer' = h
  /\ byUP' = [byUP EXCEPT ![handler[h].up] = NoSession]
  /\ Set(h, [pc |-> "unindex", rules |-> byUP[handler[h].up].rules])
  /\ UNCHANGED <<cp, sure, op, owner, active, tunnels, reader, losses>>

Unindex(h) ==
  /\ handler[h].pc = "unindex"
  /\ active' = active \ {handler[h].gen}
  /\ tunnels' = unindexSession(tunnels, handler[h].up, handler[h].rules)
  /\ writer' = None
  /\ Set(h, [pc |-> "disown"])
  /\ UNCHANGED <<cp, sure, op, owner, byUP, reader, losses>>

Disown(h) ==
  /\ handler[h].pc = "disown"
  /\ owner' = owner \ {handler[h].up}
  /\ Reply(h, TRUE)
  /\ UNCHANGED <<cp, sure, op, byUP, active, tunnels, writer, reader, losses>>

\* A worker whose caller has given up.
Discard(h) ==
  /\ handler[h].pc = "answer"
  /\ \A s \in Sessions : op[s].pc # "idle" => op[s].h # h
  /\ handler' = [handler EXCEPT ![h] = Idle]
  /\ UNCHANGED <<cp, sure, op, owner, byUP, active, tunnels, writer, reader, losses>>

\* purgePeerSessions and completeReconciliation on one owned session: one that
\* SGW-C does not hold, or any when the grace period has expired.
Purge(h) ==
  /\ handler[h].pc = "idle"
  /\ losses < MaxLosses
  /\ \E u \in owner :
       /\ \/ PurgeRaces
          \/ /\ \A s \in Sessions : cp[s].up # u
             /\ \A x \in Handlers : handler[x].pc # "idle" => handler[x].up # u /\ handler[x].s # byUP[u].cp
       /\ handler' = [handler EXCEPT ![h] = [pc |-> "sent", kind |-> "purge", s |-> None, up |-> u,
                                             body |-> NoChange, rules |-> NoRules, gen |-> 0, ok |-> FALSE]]
       /\ sure' = [s \in Sessions |-> sure[s] /\ cp[s].up # u]
  /\ losses' = losses + 1
  /\ UNCHANGED <<cp, op, owner, byUP, active, tunnels, writer, reader>>

UserPlaneRestart ==
  /\ losses < MaxLosses
  /\ losses' = losses + 1
  /\ handler' = [h \in Handlers |-> Idle]
  /\ op' = [s \in Sessions |-> Idle]
  /\ sure' = [s \in Sessions |-> cp[s] = NoCP]
  /\ owner' = {} /\ byUP' = [u \in UPSEIDs |-> NoSession]
  /\ active' = {} /\ tunnels' = NoRules /\ writer' = None
  /\ reader' = [r \in Readers |-> Idle]
  /\ UNCHANGED cp

----------------------------------------------------------------------------
(* Packet goroutines: LookupPacket loads the entry, then its active flag. *)

Load(r) ==
  /\ reader[r].pc = "idle"
  /\ \E k \in DOMAIN tunnels : reader' = [reader EXCEPT ![r] = [pc |-> "loaded", held |-> tunnels[k]]]
  /\ UNCHANGED <<cp, sure, op, handler, owner, byUP, active, tunnels, writer, losses>>
CheckActive(r) ==
  /\ reader[r].pc = "loaded"
  /\ reader' = [reader EXCEPT ![r] = IF reader[r].held.gen \in active
                                     THEN [reader[r] EXCEPT !.pc = "matched"] ELSE Idle]
  /\ UNCHANGED <<cp, sure, op, handler, owner, byUP, active, tunnels, writer, losses>>
Used(r) ==
  /\ reader[r].pc = "matched"
  /\ reader' = [reader EXCEPT ![r] = Idle]
  /\ UNCHANGED <<cp, sure, op, handler, owner, byUP, active, tunnels, writer, losses>>

Init ==
  /\ cp = [s \in Sessions |-> NoCP] /\ sure = [s \in Sessions |-> TRUE]
  /\ op = [s \in Sessions |-> Idle] /\ handler = [h \in Handlers |-> Idle]
  /\ owner = {} /\ byUP = [u \in UPSEIDs |-> NoSession]
  /\ active = {} /\ tunnels = NoRules /\ writer = None
  /\ reader = [r \in Readers |-> Idle] /\ losses = 0

Next ==
  \/ \E s \in Sessions : \/ Establish(s) \/ Replay(s) \/ Delete(s) \/ Answer(s) \/ Timeout(s)
                         \/ \E b \in Bearers : \/ ActivateBearer(s, b) \/ DeactivateBearer(s, b)
                                               \/ AddBearer(s, b) \/ UpdateBearerQoS(s, b) \/ RemoveBearer(s, b)
  \/ \E h \in Handlers : \/ Find(h) \/ Refused(h) \/ Unchanged(h) \/ Deactivate(h) \/ Index(h) \/ Activate(h)
                         \/ Own(h) \/ Conflict(h) \/ Unlist(h) \/ Unindex(h) \/ Disown(h) \/ Discard(h) \/ Purge(h)
  \/ \E r \in Readers : Load(r) \/ CheckActive(r) \/ Used(r)
  \/ UserPlaneRestart

Spec == Init /\ [][Next]_vars

----------------------------------------------------------------------------
(* Properties *)

Plans == [teid : TEIDs, enb : ENBs \union {None, "closed"}, qci : QCIs]
\* Every variable has its shape: SGW-C's plans, the stored sessions, the
\* compiled entries and the holders of the store mutex.
TypeOK ==
  /\ \A s \in Sessions : /\ cp[s].up \in UPSEIDs \union {None}
                          /\ \A b \in Bearers : cp[s].plans[b] \in Plans \union {NoPlan}
                          /\ sure[s] \in BOOLEAN
  /\ owner \subseteq UPSEIDs /\ active \subseteq Generations
  /\ \A u \in InUse : byUP[u].cp \in Sessions /\ byUP[u].gen \in Generations /\ validate(byUP[u].rules)
  /\ DOMAIN tunnels \subseteq Interfaces \X TEIDs
  /\ writer \in Handlers \union {None}
  /\ losses \in 0..MaxLosses

\* LookupPacket, Active: as long as the flag of the rule a packet goroutine
\* has loaded is set, that rule is what the store holds for its PDR.  Only a
\* session whose deletion is under way may still be seen for a moment.
HeldRuleIsCurrent ==
  \A r \in Readers :
    reader[r].pc # "idle" /\ reader[r].held.gen \in active =>
      LET held == reader[r].held
      IN \/ /\ byUP[held.up] # NoSession
            /\ held.pdr \in PDRs(byUP[held.up].rules)
            /\ compilePacketRule(byUP[held.up].rules, held.pdr) = held.rule
         \/ writer # None /\ handler[writer].pc = "unindex" /\ handler[writer].up = held.up

\* Create, Update, Reconcile, Delete: between two writers the tunnel index
\* holds exactly the tunnels of the stored sessions, each with the rule
\* compiled from its own session, and exactly their generations are active.
IndexMatchesStore ==
  writer = None =>
    /\ DOMAIN tunnels = UNION {TunnelsOf(byUP[u].rules) : u \in InUse}
    /\ active = {byUP[u].gen : u \in InUse}
    /\ \A u \in InUse : \A p \in PDRs(byUP[u].rules) :
         tunnels[Tunnel(byUP[u].rules[p])] =
           [up |-> u, pdr |-> p, rule |-> compilePacketRule(byUP[u].rules, p), gen |-> byUP[u].gen]

\* The forwarding behaviour a plan stands for.
Serves(rules, b, plan) ==
  /\ BearerKeys(b) \subseteq DOMAIN rules
  /\ \A side \in Interfaces : Tunnel(rules[PDR(b, side)]) = <<side, plan.teid>>
  /\ compilePacketRule(rules, PDR(b, "access")).far.action = "forward"
  /\ LET down == compilePacketRule(rules, PDR(b, "core"))
     IN /\ down.qer.qci = plan.qci
        /\ CASE plan.enb = "closed" -> down.far.action = "drop"
             [] plan.enb = None     -> down.far.action = "buffer" /\ down.far.bar \in DOMAIN rules
             [] OTHER               -> down.far.action = "forward" /\ down.far.remote = plan.enb

\* Establish, ActivateBearer, DeactivateBearer, AddBearer, UpdateBearerQoS,
\* RemoveBearer, Delete against decodeSession and applyModifications: while
\* every call was answered, or a replay has since been accepted, the rules of
\* the user plane do what SGW-C's bearers say, with no bearer more or less.
PlanesAgree ==
  \A s \in Sessions :
    sure[s] /\ op[s].pc = "idle" =>
      IF cp[s] = NoCP THEN FindByCPSEID(s) = {}
      ELSE /\ FindByCPSEID(s) = {cp[s].up}
           /\ LET rules == byUP[cp[s].up].rules
              IN /\ PDRs(rules) = {PDR(b, side) : b \in Live(s), side \in Interfaces}
                 /\ \A b \in Live(s) : Serves(rules, b, cp[s].plans[b])

\* sessionModification, applyModifications: SGW-C never asks for something
\* that a user plane in agreement with it refuses, other than a tunnel id that
\* a forgotten session still holds.
NoSpuriousRefusal ==
  \A s \in Sessions :
    op[s].pc = "wait" /\ sure[s] /\ handler[op[s].h].pc = "ready" /\ op[s].kind = "modify" =>
      \/ Acceptable(handler[op[s].h])
      \/ ~checkTunnelConflicts(Candidate(handler[op[s].h]), handler[op[s].h].up)

\* purgePeerSessions: a session in the rule store has an owner, who can modify
\* and delete it, unless a handler is at work.
StoredSessionsOwned ==
  (\A h \in Handlers : handler[h].pc \in {"idle", "sent", "answer"}) => InUse \subseteq owner
=============================================================================
