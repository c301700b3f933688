-------------------------- MODULE DedicatedBearers --------------------------
(***************************************************************************)
(* PGW-initiated dedicated bearers of one PDN: PGW-C's Create, Update and  *)
(* DeleteDedicatedBearer (internal/pgwc/gateway/dedicated_bearer.go), the  *)
(* S5 handlers of SGW-C (internal/sgwc/gateway/dedicated_bearer.go), both  *)
(* user planes and the MME, with the compensations of each, against a      *)
(* Delete Session from the MME that crosses them.                          *)
(*                                                                         *)
(* The rules of a bearer at a user plane are one slot, which the control   *)
(* plane chooses.  A tunnel stands for SGW-U's S5-U endpoint of a bearer.  *)
(* The subscriber lock and the session lock of a control plane, always     *)
(* taken together here, are one.  A plan leaves the EBI to PGW-C.          *)
(***************************************************************************)
EXTENDS Naturals, FiniteSets, Functions, FiniteSetsExt

CONSTANTS
    Handlers,       \* goroutines of SGW-C that serve S5 bearer requests
    EBIs, Slots, Tunnels,   \* sets of numbers
    QoS,
    Ops,            \* the procedures explored
    MaxFailures,    \* failing calls
    None

VARIABLES
    pgwHas, pgw,    \* PGW-C: the session is stored; EBI to bearer
    pgwu,           \* PGW-U: slot to QoS and SGW tunnel
    sgwHas, sgw,    \* SGW-C, likewise
    sgwu,           \* SGW-U: slot to QoS, tunnel, whether the downlink forwards
    mme,            \* EBI to QoS
    poisoned,       \* control planes whose journal failed
    pgwLock, sgwLock,
    op,             \* the procedure of PGW-C
    handler,        \* handlers of SGW-C
    del, pgwDel,    \* Delete Session at SGW-C and its request at PGW-C
    failures, kinds \* how many calls failed, and how

vars == <<pgwHas, pgw, pgwu, sgwHas, sgw, sgwu, mme, poisoned, pgwLock, sgwLock, op,
          handler, del, pgwDel, failures, kinds>>
pgwSide == <<pgwHas, pgw, pgwu, pgwLock, op, pgwDel>>
sgwSide == <<sgwHas, sgw, sgwu, mme, sgwLock, handler, del>>
faults == <<failures, kinds>>

NoOp == [pc |-> "idle", kind |-> None, ebi |-> None, q |-> None, slot |-> None,
         old |-> None, tun |-> None, h |-> None, undo |-> FALSE]
NoHandler == [pc |-> "idle", kind |-> None, ebi |-> None, q |-> None, slot |-> None,
              tun |-> None, old |-> None, waited |-> FALSE]

Init ==
    /\ pgwHas = TRUE /\ sgwHas = TRUE
    /\ pgw = <<>> /\ pgwu = <<>> /\ sgw = <<>> /\ sgwu = <<>> /\ mme = <<>>
    /\ poisoned = {} /\ pgwLock = None /\ sgwLock = None
    /\ op = NoOp /\ handler = [h \in Handlers |-> NoHandler]
    /\ del = "idle" /\ pgwDel = "idle"
    /\ failures = 0 /\ kinds = {}

-----------------------------------------------------------------------------
Put(f, x, v) == [y \in DOMAIN f \cup {x} |-> IF y = x THEN v ELSE f[y]]
Drop(f, x) == Restrict(f, DOMAIN f \ {x})

Fail(kind) == failures < MaxFailures /\ failures' = failures + 1 /\ kinds' = kinds \cup {kind}

(* A call that changes a node if the node accepts it: done, refused, not   *)
(* delivered, or done with the answer lost.                                *)
Call(accepted, done, same, onSuccess, onFailure) ==
    \/ accepted /\ done /\ onSuccess /\ UNCHANGED faults
    \/ ~accepted /\ same /\ onFailure /\ UNCHANGED faults
    \/ Fail("refused") /\ same /\ onFailure
    \/ accepted /\ Fail("lost") /\ done /\ onFailure

(* The durable update of node's store; a failure poisons the journal.      *)
Commit(node, done, same, onSuccess, onFailure) ==
    \/ node \notin poisoned /\ done /\ onSuccess /\ UNCHANGED <<poisoned, faults>>
    \/ /\ node \notin poisoned /\ Fail("commit")
       /\ poisoned' = poisoned \cup {node} /\ same /\ onFailure
    \/ node \in poisoned /\ same /\ onFailure /\ UNCHANGED <<poisoned, faults>>

Values(f) == {f[x] : x \in DOMAIN f}
(* Tunnel endpoints are drawn from 2^32 values: a new one was not used by  *)
(* anything that is still around.                                          *)
FreshTunnel ==
    Min(Tunnels \ ({b.tun : b \in Values(pgw) \cup Values(pgwu) \cup Values(sgw) \cup Values(sgwu)}
                   \cup {handler[h].tun : h \in Handlers} \cup {op.tun}
                   \cup {b.tun : b \in {op.old} \ {None}}))
-----------------------------------------------------------------------------
(* SGW-C: a handler of an S5 request.                                      *)
H(h) == handler[h]
GotoH(h, r) == handler' = [handler EXCEPT ![h] = r]
ToH(h, pc) == [H(h) EXCEPT !.pc = pc]

(* Mutant: the early returns of a refusal keep the lock. *)
AnswerKeepsLock(h, answer) ==
    /\ GotoH(h, IF H(h).waited THEN [NoHandler EXCEPT !.pc = answer, !.tun = H(h).tun, !.waited = TRUE]
                ELSE NoHandler)
    /\ sgwLock' = IF answer = "refused" THEN h ELSE None

(* The handler answers and unlocks; nobody may wait for the answer.        *)
AnswerH(h, answer) ==
    /\ GotoH(h, IF H(h).waited THEN [NoHandler EXCEPT !.pc = answer, !.tun = H(h).tun, !.waited = TRUE]
                ELSE NoHandler)
    /\ sgwLock' = None

SgwRest == <<pgwSide, sgwHas, del>>

(* The rule slot: the first one no stored bearer uses. *)
allocateBearerRuleIDs(store) == Min(Slots \ {b.slot : b \in Values(store)})

ebiUsed(e) == e \in DOMAIN sgw

(* createBearer, updateBearer, deleteBearer: find the session by its S5    *)
(* TEID, take the locks, find it again and check the EBI.                  *)
s5Session(h) ==
    /\ H(h).pc = "arrived"
    /\ \/ /\ sgwHas /\ sgwLock = None
          /\ IF (H(h).kind = "create") = ebiUsed(H(h).ebi)
             THEN AnswerH(h, "refused")
             ELSE /\ sgwLock' = h
                  /\ GotoH(h, IF H(h).kind = "create"
                              THEN [ToH(h, "create") EXCEPT !.slot = allocateBearerRuleIDs(sgw), !.tun = FreshTunnel]
                              ELSE [ToH(h, H(h).kind) EXCEPT !.slot = sgw[H(h).ebi].slot, !.old = sgw[H(h).ebi]])
       \/ /\ ~sgwHas /\ UNCHANGED sgwLock
          /\ GotoH(h, IF H(h).waited THEN [NoHandler EXCEPT !.pc = "refused", !.waited = TRUE] ELSE NoHandler)
    /\ UNCHANGED <<SgwRest, sgw, sgwu, mme, poisoned, faults>>

SgwuCall(h, accepted, new, onSuccess, onFailure) ==
    /\ Call(sgwHas /\ accepted, sgwu' = new, UNCHANGED sgwu, onSuccess, onFailure)
    /\ UNCHANGED <<SgwRest, sgw, mme, poisoned>>
MmeCall(h, accepted, new, onSuccess, onFailure) ==
    /\ Call(accepted, mme' = new, UNCHANGED mme, onSuccess, onFailure)
    /\ UNCHANGED <<SgwRest, sgw, sgwu, poisoned>>
Next_(h, pc) == GotoH(h, ToH(h, pc)) /\ UNCHANGED sgwLock

HasRules(h) == H(h).slot \in DOMAIN sgwu
Provisional(h) == Put(sgwu, H(h).slot, [q |-> H(h).q, tun |-> H(h).tun, fwd |-> FALSE])
Activated(h) == [sgwu EXCEPT ![H(h).slot].fwd = TRUE]

(* Create Bearer: rules that drop the downlink, the MME, the downlink, the *)
(* commit; a failure removes the bearer at the MME, if it has accepted,    *)
(* and then the rules.                                                     *)
addBearer(h) ==
    /\ H(h).pc = "create"
    /\ SgwuCall(h, ~HasRules(h), Provisional(h), Next_(h, "create-mme"), AnswerH(h, "refused"))
createBearerForMME(h) ==
    /\ H(h).pc = "create-mme"
    /\ MmeCall(h, H(h).ebi \notin DOMAIN mme, Put(mme, H(h).ebi, H(h).q),
               Next_(h, "activate"), Next_(h, "remove-rules"))
activateBearer(h) ==
    /\ H(h).pc = "activate"
    /\ SgwuCall(h, HasRules(h), Activated(h), Next_(h, "create-commit"), Next_(h, "mme-undo"))
(* Mutant: a failed commit leaves the provisional rules. *)
createCommitKeepsRules(h) ==
    /\ H(h).pc = "create-commit"
    /\ Commit("sgwc", sgw' = Put(sgw, H(h).ebi, [q |-> H(h).q, slot |-> H(h).slot, tun |-> H(h).tun]),
              UNCHANGED sgw, AnswerH(h, "accepted"), AnswerH(h, "refused"))
    /\ UNCHANGED <<SgwRest, sgwu, mme>>
createCommit(h) ==
    /\ H(h).pc = "create-commit"
    /\ Commit("sgwc", sgw' = Put(sgw, H(h).ebi, [q |-> H(h).q, slot |-> H(h).slot, tun |-> H(h).tun]),
              UNCHANGED sgw, AnswerH(h, "accepted"), Next_(h, "mme-undo"))
    /\ UNCHANGED <<SgwRest, sgwu, mme>>
bestEffortDeleteBearerFromMME(h) ==
    /\ H(h).pc = "mme-undo"
    /\ MmeCall(h, H(h).ebi \in DOMAIN mme, Drop(mme, H(h).ebi), Next_(h, "remove-rules"), Next_(h, "remove-rules"))
removeBearerRules(h) ==
    /\ H(h).pc = "remove-rules"
    /\ SgwuCall(h, HasRules(h), Drop(sgwu, H(h).slot), AnswerH(h, "refused"), AnswerH(h, "refused"))

(* Update Bearer: SGW-U, the MME, the commit; a failure restores SGW-U.    *)
updateQoS(h) ==
    /\ H(h).pc = "update"
    /\ SgwuCall(h, HasRules(h), [sgwu EXCEPT ![H(h).slot].q = H(h).q],
                Next_(h, "update-mme"), AnswerH(h, "refused"))
updateBearerAtMME(h) ==
    /\ H(h).pc = "update-mme"
    /\ MmeCall(h, H(h).ebi \in DOMAIN mme, Put(mme, H(h).ebi, H(h).q),
               Next_(h, "update-commit"), Next_(h, "rollback-qos"))
updateCommit(h) ==
    /\ H(h).pc = "update-commit"
    /\ Commit("sgwc", sgw' = [sgw EXCEPT ![H(h).ebi].q = H(h).q], UNCHANGED sgw,
              AnswerH(h, "accepted"), Next_(h, "rollback-qos"))
    /\ UNCHANGED <<SgwRest, sgwu, mme>>
rollbackQoS(h) ==
    /\ H(h).pc = "rollback-qos"
    /\ SgwuCall(h, HasRules(h), [sgwu EXCEPT ![H(h).slot].q = H(h).old.q],
                AnswerH(h, "refused"), AnswerH(h, "refused"))

(* Delete Bearer: SGW-U, the MME, the commit; a failure installs the rules *)
(* again and then the downlink.                                            *)
removeBearer(h) ==
    /\ H(h).pc = "delete"
    /\ SgwuCall(h, HasRules(h), Drop(sgwu, H(h).slot), Next_(h, "delete-mme"), AnswerH(h, "refused"))
deleteBearerAtMME(h) ==
    /\ H(h).pc = "delete-mme"
    /\ MmeCall(h, H(h).ebi \in DOMAIN mme, Drop(mme, H(h).ebi),
               Next_(h, "delete-commit"), Next_(h, "restore-rules"))
deleteCommit(h) ==
    /\ H(h).pc = "delete-commit"
    /\ Commit("sgwc", sgw' = Drop(sgw, H(h).ebi), UNCHANGED sgw,
              AnswerH(h, "accepted"), Next_(h, "restore-rules"))
    /\ UNCHANGED <<SgwRest, sgwu, mme>>
restoreBearerRules(h) ==
    /\ H(h).pc = "restore-rules"
    /\ SgwuCall(h, ~HasRules(h), Put(sgwu, H(h).slot, [q |-> H(h).old.q, tun |-> H(h).old.tun, fwd |-> FALSE]),
                Next_(h, "restore-downlink"), AnswerH(h, "refused"))
restoreDownlink(h) ==
    /\ H(h).pc = "restore-downlink"
    /\ SgwuCall(h, HasRules(h), Activated(h), AnswerH(h, "refused"), AnswerH(h, "refused"))

Handle(h) ==
    \/ s5Session(h) \/ addBearer(h) \/ createBearerForMME(h) \/ activateBearer(h) \/ createCommit(h)
    \/ bestEffortDeleteBearerFromMME(h) \/ removeBearerRules(h)
    \/ updateQoS(h) \/ updateBearerAtMME(h) \/ updateCommit(h) \/ rollbackQoS(h)
    \/ removeBearer(h) \/ deleteBearerAtMME(h) \/ deleteCommit(h) \/ restoreBearerRules(h) \/ restoreDownlink(h)

-----------------------------------------------------------------------------
(* PGW-C: the procedure the policy API asks for.                           *)
GotoO(r) == op' = r
ToO(pc) == [op EXCEPT !.pc = pc]
FinishO == GotoO(NoOp) /\ pgwLock' = None
PgwRest == <<pgwHas, sgwHas, sgw, sgwu, mme, sgwLock, del, pgwDel>>
Stay(pc) == GotoO(ToO(pc)) /\ UNCHANGED pgwLock

allocateDedicatedEBI == Min(EBIs \ DOMAIN pgw)

(* The session is found, locked and found again; a create chooses the EBI  *)
(* and the rules, the others need the bearer.                              *)
CreateDedicatedBearer(q) ==
    /\ "create" \in Ops /\ op.pc = "idle" /\ pgwHas /\ pgwLock = None /\ EBIs # DOMAIN pgw
    /\ GotoO([NoOp EXCEPT !.pc = "s5", !.kind = "create", !.q = q, !.ebi = allocateDedicatedEBI,
                          !.slot = allocateBearerRuleIDs(pgw)])
    /\ pgwLock' = "op"
    /\ UNCHANGED <<PgwRest, pgw, pgwu, handler, poisoned, faults>>
StartOn(e, kind, q) ==
    /\ kind \in Ops /\ op.pc = "idle" /\ pgwHas /\ pgwLock = None /\ e \in DOMAIN pgw
    /\ GotoO([NoOp EXCEPT !.pc = kind, !.kind = kind, !.q = q, !.ebi = e,
                          !.slot = pgw[e].slot, !.old = pgw[e]])
    /\ pgwLock' = "op"
    /\ UNCHANGED <<PgwRest, pgw, pgwu, handler, poisoned, faults>>
UpdateDedicatedBearer(e, q) == q # pgw[e].q /\ StartOn(e, "update", q)
DeleteDedicatedBearer(e) == StartOn(e, "delete", None)

(* doBearerRequest sends to a free handler of SGW-C.  Whether the request  *)
(* is the procedure's own or a compensation, op.undo tells.                *)
doBearerRequest(h) ==
    LET kind == IF ~op.undo THEN op.kind
                ELSE CASE op.kind = "create" -> "delete" [] op.kind = "update" -> "update"
                       [] op.kind = "delete" -> "create"
        q == IF op.undo /\ op.old # None THEN op.old.q ELSE op.q
    IN  /\ op.pc = "s5" /\ H(h).pc = "idle"
        /\ GotoH(h, [NoHandler EXCEPT !.pc = "arrived", !.kind = kind, !.ebi = op.ebi, !.q = q, !.waited = TRUE])
        /\ GotoO([ToO("wait") EXCEPT !.h = h])
        /\ UNCHANGED <<PgwRest, pgw, pgwu, pgwLock, poisoned, faults>>

(* What follows the answer.  A create that failed returns; an update or a  *)
(* delete restores PGW-U first.  Compensations ignore the answer.          *)
AfterAnswer(ok, tun) ==
    IF op.undo \/ (~ok /\ op.kind = "create") THEN FinishO
    ELSE /\ UNCHANGED pgwLock
         /\ GotoO([ToO(IF ~ok THEN "restore" ELSE IF op.kind = "create" THEN "add" ELSE "commit")
                   EXCEPT !.tun = tun, !.h = None])

parseBearerResponse ==
    /\ op.pc = "wait" /\ H(op.h).pc \in {"accepted", "refused"}
    /\ AfterAnswer(H(op.h).pc = "accepted", H(op.h).tun)
    /\ GotoH(op.h, NoHandler)
    /\ UNCHANGED <<PgwRest, pgw, pgwu, poisoned, faults>>

(* The procedure timer: the request is lost, or its answer is, or SGW-C    *)
(* is not ready; it is when the handler cannot get its lock.               *)
timeout ==
    LET r == H(op.h)
    IN  /\ op.pc = "wait" /\ r.pc \notin {"accepted", "refused"}
        /\ \/ Fail("late")
           \/ r.pc = "arrived" /\ sgwLock = "del" /\ kinds' = kinds \cup {"late"} /\ UNCHANGED failures
        /\ AfterAnswer(FALSE, None)
        /\ \/ GotoH(op.h, [r EXCEPT !.waited = FALSE])
           \/ r.pc = "arrived" /\ GotoH(op.h, NoHandler)
        /\ UNCHANGED <<PgwRest, pgw, pgwu, poisoned>>
answerLost ==
    /\ op.pc = "wait" /\ H(op.h).pc \in {"accepted", "refused"}
    /\ Fail("late") /\ AfterAnswer(FALSE, None) /\ GotoH(op.h, NoHandler)
    /\ UNCHANGED <<PgwRest, pgw, pgwu, poisoned>>

PgwuCall(accepted, new, onSuccess, onFailure) ==
    /\ Call(pgwHas /\ accepted, pgwu' = new, UNCHANGED pgwu, onSuccess, onFailure)
    /\ UNCHANGED <<PgwRest, pgw, handler, poisoned>>
PgwuHas == op.slot \in DOMAIN pgwu
Undo(pc) == GotoO([ToO(pc) EXCEPT !.undo = TRUE]) /\ UNCHANGED pgwLock

(* The first step of an update and of a delete is PGW-U's.                 *)
updateAtPGWU ==
    /\ op.pc = "update"
    /\ PgwuCall(PgwuHas, [pgwu EXCEPT ![op.slot].q = op.q], Stay("s5"), FinishO)
removeAtPGWU ==
    /\ op.pc = "delete"
    /\ PgwuCall(PgwuHas, Drop(pgwu, op.slot), Stay("s5"), FinishO)
(* A create comes to PGW-U last; if it refuses, the SGW removes its part.  *)
addAtPGWU ==
    /\ op.pc = "add"
    /\ PgwuCall(~PgwuHas, Put(pgwu, op.slot, [q |-> op.q, tun |-> op.tun]), Stay("commit"), Undo("s5"))

Stored ==
    IF op.kind = "create" THEN Put(pgw, op.ebi, [q |-> op.q, slot |-> op.slot, tun |-> op.tun])
    ELSE IF op.kind = "update" THEN [pgw EXCEPT ![op.ebi].q = op.q] ELSE Drop(pgw, op.ebi)
commit ==
    /\ op.pc = "commit"
    /\ Commit("pgwc", pgw' = Stored, UNCHANGED pgw, FinishO, Undo("restore"))
    /\ UNCHANGED <<PgwRest, pgwu, handler>>

(* The roll-back at PGW-U; then, after a failed commit, the SGW's.         *)
(* bestEffortRestorePGWUBearer installs the stored bearer, with the tunnel *)
(* it had.                                                                 *)
bestEffortRestorePGWUBearer ==
    LET next == IF op.undo THEN Stay("s5") ELSE FinishO
    IN  /\ op.pc = "restore"
        /\ \/ op.kind = "create" /\ PgwuCall(PgwuHas, Drop(pgwu, op.slot), next, next)
           \/ op.kind = "update" /\ PgwuCall(PgwuHas, [pgwu EXCEPT ![op.slot].q = op.old.q], next, next)
           \/ /\ op.kind = "delete"
              /\ PgwuCall(~PgwuHas, Put(pgwu, op.slot, [q |-> op.old.q, tun |-> op.old.tun]), next, next)

Procedure ==
    \/ \E h \in Handlers : doBearerRequest(h)
    \/ parseBearerResponse \/ timeout
    \/ updateAtPGWU \/ removeAtPGWU \/ addAtPGWU \/ commit \/ bestEffortRestorePGWUBearer

-----------------------------------------------------------------------------
(* Delete Session from the MME: SGW-C holds its locks and asks PGW-C,      *)
(* which takes its own (their failures are in SgwcGateway and PgwcGateway).*)
deleteSession ==
    /\ "session" \in Ops /\ del = "idle" /\ pgwDel = "idle" /\ sgwHas /\ sgwLock = None
    /\ del' = "wait" /\ sgwLock' = "del" /\ pgwDel' = "arrived"
    /\ UNCHANGED <<pgwHas, pgw, pgwu, pgwLock, op, sgwHas, sgw, sgwu, mme, handler, poisoned, faults>>
pgwDeleteSession ==
    /\ pgwDel = "arrived" /\ pgwLock = None
    /\ pgwHas' = FALSE /\ pgw' = <<>> /\ pgwu' = <<>>
    /\ pgwDel' = IF del = "wait" THEN "answered" ELSE "idle"
    /\ UNCHANGED <<pgwLock, op, sgwSide, poisoned, faults>>
(* Accepted, or no such context at PGW-C: the SGW removes its part.        *)
deleteSessionAnswer ==
    /\ del = "wait" /\ pgwDel = "answered"
    /\ del' = "idle" /\ pgwDel' = "idle" /\ sgwLock' = None
    /\ sgwHas' = FALSE /\ sgw' = <<>> /\ sgwu' = <<>> /\ mme' = <<>>
    /\ UNCHANGED <<pgwHas, pgw, pgwu, pgwLock, op, handler, poisoned, faults>>
deleteSessionTimeout ==
    /\ del = "wait" /\ pgwDel = "arrived" /\ del' = "idle" /\ sgwLock' = None
    /\ \/ Fail("late")
       \/ pgwLock = "op" /\ kinds' = kinds \cup {"late"} /\ UNCHANGED failures
    /\ UNCHANGED <<pgwSide, sgwHas, sgw, sgwu, mme, handler, poisoned>>

(* An Echo Request changes nothing here and is answered at any time. *)
echoResponse == UNCHANGED vars

Next ==
    \/ \E q \in QoS : CreateDedicatedBearer(q)
    \/ \E e \in DOMAIN pgw : DeleteDedicatedBearer(e) \/ \E q \in QoS : UpdateDedicatedBearer(e, q)
    \/ Procedure \/ answerLost \/ \E h \in Handlers : Handle(h)
    \/ deleteSession \/ pgwDeleteSession \/ deleteSessionAnswer \/ deleteSessionTimeout
    \/ echoResponse

Spec == Init /\ [][Next]_vars
FairSpec ==
    /\ Spec /\ SF_vars(Procedure) /\ SF_vars(pgwDeleteSession)
    /\ WF_vars(deleteSessionAnswer) /\ WF_vars(deleteSessionTimeout)
    /\ \A h \in Handlers : SF_vars(Handle(h))

-----------------------------------------------------------------------------
Quiet ==
    /\ op = NoOp /\ \A h \in Handlers : handler[h] = NoHandler
    /\ del = "idle" /\ pgwDel = "idle"

BothHave == pgwHas /\ sgwHas
SameBearers(f, g) == DOMAIN f = DOMAIN g /\ \A e \in DOMAIN f : f[e].q = g[e].q
SameTunnels(f, g) == \A e \in DOMAIN f \cap DOMAIN g : f[e].tun = g[e].tun
(* What a user plane must have for the bearers of a store. *)
InstalledAs(store) ==
    [s \in {b.slot : b \in Values(store)} |-> CHOOSE b \in Values(store) : b.slot = s]

(* Every bearer has its types and a rule slot of its own, and a session    *)
(* that is gone has no rules.                                              *)
TypeOK ==
    /\ \A f \in {pgw, sgw} :
        /\ DOMAIN f \subseteq EBIs
        /\ \A e \in DOMAIN f : f[e].q \in QoS /\ f[e].slot \in Slots /\ f[e].tun \in Tunnels
        /\ \A d, e \in DOMAIN f : f[d].slot = f[e].slot => d = e
    /\ DOMAIN pgwu \subseteq Slots /\ DOMAIN sgwu \subseteq Slots
    /\ (~pgwHas => pgw = <<>> /\ pgwu = <<>>) /\ (~sgwHas => sgw = <<>> /\ sgwu = <<>>)
    /\ kinds \subseteq {"refused", "lost", "late", "commit"}

(* A bearer procedure is all or nothing: when PGW-C and SGW-C are done,    *)
(* both stores have the same bearers with the same QoS, each user plane    *)
(* has the rules of its store, and the downlink of every bearer forwards,  *)
(* also after a refusal by one node or a failed commit.  The tunnels agree *)
(* too, unless PGW-C's commit failed (see RestoredTunnelsAgree).           *)
BearersAgree ==
    (Quiet /\ BothHave /\ (kinds = {} \/ (failures = 1 /\ kinds \in {{"refused"}, {"commit"}}))) =>
        /\ SameBearers(pgw, sgw)
        /\ SameBearers(pgwu, InstalledAs(pgw)) /\ SameTunnels(pgwu, InstalledAs(pgw))
        /\ SameBearers(sgwu, InstalledAs(sgw)) /\ SameTunnels(sgwu, InstalledAs(sgw))
        /\ \A s \in DOMAIN sgwu : sgwu[s].fwd
        /\ "pgwc" \in poisoned \/ SameTunnels(pgw, sgw)

(* The MME has the bearers of SGW-C, also after one refusal. *)
MMEAgrees ==
    (Quiet /\ BothHave /\ (kinds = {} \/ (failures = 1 /\ kinds = {"refused"}))) =>
        mme = [e \in DOMAIN sgw |-> sgw[e].q]

(* Without a fault the two control planes lose a session together. *)
SessionsAgree == (Quiet /\ kinds = {}) => (pgwHas = sgwHas)

(* A failed commit at PGW-C leaves PGW-U and SGW-U joined: PGW-U sends to  *)
(* the tunnel SGW-C has for the bearer.                                    *)
RestoredTunnelsAgree ==
    (Quiet /\ BothHave /\ failures = 1 /\ kinds = {"commit"}) => SameTunnels(pgw, sgw)

(* A lost Create Bearer response leaves nothing behind at SGW-C.           *)
LostResponseRolledBack ==
    (Quiet /\ BothHave /\ failures = 1 /\ kinds = {"late"}) => DOMAIN sgw \subseteq DOMAIN pgw

(* Every procedure returns, also when a Delete Session and a bearer        *)
(* procedure wait for each other's locks across S5.                        *)
ProceduresReturn == (op.pc # "idle" ~> op.pc = "idle") /\ (del # "idle" ~> del = "idle")
=============================================================================
