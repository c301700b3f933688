------------------------- MODULE KernelOwnerProofs -------------------------
(***************************************************************************)
(* Proofs about the ownership of kernel objects: whatever the processes of *)
(* an installation do, no object of the administrator is removed, and one  *)
(* that serves has all of its objects.  The argument is that a process     *)
(* changes the objects of a link only while it holds the link's lock, that *)
(* the locks it holds are those of the links it registered and of the one  *)
(* it is opening, and what it knows of those links' objects at each step.  *)
(***************************************************************************)
EXTENDS KernelOwner, TLAPS

(* openLink, from the lock to the registration or to the last clean-up. *)
Setup == {"inspect", "removeLink", "removeFilter", "socket", "createFilter", "createLink",
          "resolve", "setAlias", "bringUp", "undoLink", "undoFilter", "undoOwner"}
(* Everything that follows on the QCI 1 link while both links are held. *)
Policy == {"policy", "removeRule", "addRoutes", "addRule", "openTable", "createTable", "attach",
           "serving", "closeTable"}
(* Controller.Close of one link. *)
Closing == {"closeRule", "closeLink", "closeFilter", "closeOwner"}

(* The links a process in state r has locked. *)
Owned(r) == r.links \cup IF r.pc \in Setup THEN {r.link} ELSE {}

(* What the place of a process says of its links. *)
Shape(r) ==
    /\ r.pc \in Setup => r.link \notin r.links
    /\ r.pc \in Policy \cup Closing \cup {"configure"} => r.link \in r.links
    /\ r.pc \in Policy \cup {"closeRule"} => r.link = "qci1"
    /\ r.pc \in {"down", "configure"} => r.link = "default"
    /\ r.pc \in Setup \cup Policy \cup {"acquire"} /\ r.link = "qci1" => "default" \in r.links

(* What it says of the objects k and the routes rt in the kernel. *)
Holds(r, k, rt) ==
    /\ \A l \in r.links : (r.pc \in Closing => r.link # l) =>
           k[<<"device", l>>] = "ours" /\ k[<<"filter", l>>] = "ours"
    /\ r.pc \in {"createLink", "resolve", "setAlias", "bringUp"} => k[<<"filter", r.link>>] = "ours"
    /\ r.pc \in {"addRule", "openTable", "createTable", "attach", "serving"} => rt
    /\ r.pc \in {"openTable", "createTable", "attach", "serving"} => k[Rule] = "ours"
    /\ r.pc \in {"attach", "serving"} => k[Table] = "ours"

(* The lock of a link is held by the process that owns it, and by no other. *)
Fenced == \A p \in Procs, l \in Links : lock[l] = p <=> l \in Owned(proc[p])

IInv ==
    /\ TypeOK /\ Fenced
    /\ \A p \in Procs : Shape(proc[p])
    /\ faults.admin = 0 => \A p \in Procs : Holds(proc[p], kernel, routes)

(* One step of process q, which becomes r: it leaves the other processes,   *)
(* their locks, the objects of links it has not locked and every foreign    *)
(* object alone, and what its new place says is so.                         *)
Effect(q, r) ==
    /\ r \in ProcState /\ Shape(r) /\ proc' = [proc EXCEPT ![q] = r]
    /\ kernel' \in [Objects -> Marks]
    /\ \A o \in Objects : kernel'[o] # kernel[o] =>
           /\ lock[o[2]] = q /\ kernel[o] # "foreign"
           /\ kernel'[o] = "unmarked" => o[1] = "device"
    /\ routes' \in BOOLEAN /\ (routes' # routes => lock["qci1"] = q)
    /\ lock' \in [Links -> Procs \cup {Nobody}]
    /\ \A l \in Links : lock'[l] # lock[l] => {lock[l], lock'[l]} \subseteq {q, Nobody}
    /\ \A l \in Links : lock'[l] = q <=> l \in Owned(r)
    /\ faults' \in [crashes : Nat, failing : Nat, undone : Nat, admin : Nat]
    /\ faults'.admin = faults.admin
    /\ faults.admin = 0 => Holds(r, kernel', routes')

-----------------------------------------------------------------------------
(* The objects, each with its link. *)
LEMMA ObjectNames ==
    /\ \A l \in Links : <<"device", l>> \in Objects /\ <<"filter", l>> \in Objects
    /\ Rule \in Objects /\ Table \in Objects
    /\ Rule[2] = "qci1" /\ Table[2] = "qci1" /\ Rule[1] = "rule" /\ Table[1] = "table"
    /\ Rule # Table
    /\ \A l \in Links : /\ <<"device", l>>[2] = l /\ <<"filter", l>>[2] = l
                        /\ <<"device", l>>[1] = "device" /\ <<"filter", l>>[1] = "filter"
                        /\ <<"device", l>> # Rule /\ <<"device", l>> # Table
                        /\ <<"filter", l>> # Rule /\ <<"filter", l>> # Table
    /\ \A l, m \in Links : /\ <<"device", l>> # <<"filter", m>>
                           /\ <<"device", l>> = <<"device", m>> => l = m
                           /\ <<"filter", l>> = <<"filter", m>> => l = m
    /\ \A o \in Objects : o[2] \in Links
    /\ \A o \in Objects : \/ o = Rule \/ o = Table
                          \/ \E l \in Links : o = <<"device", l>> \/ o = <<"filter", l>>
  BY DEF Objects, Rule, Table, Links

(* A step with an effect keeps the invariant. *)
LEMMA EffectInv ==
    ASSUME IInv, NEW q \in Procs, NEW r, Effect(q, r)
    PROVE  IInv'
<1>1. /\ proc' \in [Procs -> ProcState]
      /\ \A p \in Procs : proc'[p] = IF p = q THEN r ELSE proc[p]
  BY DEF IInv, TypeOK, Effect
<1>2. TypeOK'
  <2>1. \A o \in Objects : o[1] # "device" => kernel'[o] # "unmarked"
    BY DEF IInv, TypeOK, Effect
  <2> QED
    BY <1>1, <2>1 DEF TypeOK, Effect
<1>3. \A p \in Procs \ {q}, l \in Links : lock'[l] = p <=> lock[l] = p
  BY KernelOwnerAssumption DEF Effect
<1>4. Fenced'
  BY <1>1, <1>3 DEF IInv, Fenced, Effect
<1>5. \A p \in Procs : Shape(proc'[p])
  BY <1>1 DEF IInv, Effect
<1>6. ASSUME faults'.admin = 0, NEW p \in Procs
      PROVE  Holds(proc'[p], kernel', routes')
  <2>1. CASE p = q
    BY <1>1, <1>6, <2>1 DEF Effect
  <2>2. CASE p # q
    <3>1. proc'[p] = proc[p] /\ Holds(proc[p], kernel, routes) /\ Shape(proc[p])
          /\ proc[p] \in ProcState
      BY <1>1, <1>6, <2>2 DEF IInv, Effect, TypeOK
    <3>2. \A l \in Owned(proc[p]) : l \in Links /\ lock[l] = p
      BY <3>1 DEF IInv, Fenced, Owned, ProcState
    <3>3. \A o \in Objects : o[2] \in Owned(proc[p]) => kernel'[o] = kernel[o]
      BY <2>2, <3>2 DEF Effect
    <3>4. "qci1" \in Owned(proc[p]) => routes' = routes
      BY <2>2, <3>2 DEF Effect
    <3>5. \A l \in proc[p].links : /\ l \in Owned(proc[p]) /\ l \in Links
                                   /\ kernel'[<<"device", l>>] = kernel[<<"device", l>>]
                                   /\ kernel'[<<"filter", l>>] = kernel[<<"filter", l>>]
      BY <3>1, <3>2, <3>3, ObjectNames, Zenon DEF Owned
    <3>6. proc[p].pc \in Setup =>
             kernel'[<<"filter", proc[p].link>>] = kernel[<<"filter", proc[p].link>>]
      BY <3>1, <3>2, <3>3, ObjectNames, Zenon DEF Owned, ProcState
    <3>7. proc[p].pc \in Policy =>
             routes' = routes /\ kernel'[Rule] = kernel[Rule] /\ kernel'[Table] = kernel[Table]
      BY <3>1, <3>3, <3>4, ObjectNames DEF Owned, Shape
    <3> QED
      BY <3>1, <3>5, <3>6, <3>7 DEF Holds, Setup, Policy
  <2> QED
    BY <2>1, <2>2
<1> QED
  BY <1>2, <1>4, <1>5, <1>6 DEF IInv

-----------------------------------------------------------------------------
(* Steps that only move the process on.                                     *)

After(q, pc) == [proc[q] EXCEPT !.pc = pc]
FilterMade == {"createLink", "resolve", "setAlias", "bringUp"}

LEMMA AfterFields ==
    ASSUME TypeOK, NEW q \in Procs, NEW pc \in Pcs
    PROVE  /\ proc[q] \in ProcState /\ After(q, pc) \in ProcState
           /\ After(q, pc).pc = pc /\ After(q, pc).link = proc[q].link
           /\ After(q, pc).links = proc[q].links /\ proc[q].link \in Links
           /\ proc[q].links \subseteq Links /\ proc[q].pc \in Pcs
<1>1. proc[q] \in ProcState
  BY DEF TypeOK
<1>2. After(q, pc) \in ProcState
  BY <1>1, Zenon DEF After, ProcState
<1> QED
  BY <1>1, <1>2 DEF After, ProcState

(* A call that succeeds or fails spares the administrator's count. *)
FaultStep == UNCHANGED faults \/ Fails \/ FailsUndone

LEMMA FaultsKept ==
    ASSUME TypeOK, FaultStep
    PROVE  /\ faults' \in [crashes : Nat, failing : Nat, undone : Nat, admin : Nat]
           /\ faults'.admin = faults.admin
<1>1. CASE UNCHANGED faults
  BY <1>1 DEF TypeOK
<1>2. CASE Fails
  BY <1>2 DEF TypeOK, Fails
<1>3. CASE FailsUndone
  <2>1. faults.failing + 1 \in Nat /\ faults.undone + 1 \in Nat
    BY DEF TypeOK
  <2>2. faults' = [faults EXCEPT !.failing = faults.failing + 1, !.undone = faults.undone + 1]
    BY <1>3, Zenon DEF FailsUndone
  <2> QED
    BY <2>1, <2>2, Zenon DEF TypeOK
<1> QED
  BY <1>1, <1>2, <1>3 DEF FaultStep

(* The process moves on, changing at most one object and the routes. *)
LEMMA KernelMove ==
    ASSUME IInv, NEW q \in Procs, NEW pc \in Pcs, NEW o \in Objects, NEW v \in Marks,
           Keep(q, o, v, pc), UNCHANGED lock, FaultStep,
           v # kernel[o] => lock[o[2]] = q /\ kernel[o] # "foreign",
           v = "unmarked" => o[1] = "device",
           routes' \in BOOLEAN, routes' # routes => lock["qci1"] = q,
           pc \in Setup <=> proc[q].pc \in Setup, Shape(After(q, pc)),
           faults.admin = 0 => Holds(After(q, pc), kernel', routes')
    PROVE  Effect(q, After(q, pc))
<1>0. TypeOK
  BY DEF IInv
<1>1. After(q, pc) \in ProcState /\ proc' = [proc EXCEPT ![q] = After(q, pc)]
  BY <1>0, AfterFields DEF Keep, To, After
<1>2. /\ kernel' \in [Objects -> Marks]
      /\ \A x \in Objects : kernel'[x] # kernel[x] =>
             /\ lock[x[2]] = q /\ kernel[x] # "foreign"
             /\ kernel'[x] = "unmarked" => x[1] = "device"
  BY <1>0 DEF TypeOK, Keep
<1>3. \A l \in Links : lock'[l] = q <=> l \in Owned(After(q, pc))
  BY <1>0, AfterFields DEF IInv, Fenced, Owned
<1>4. /\ faults' \in [crashes : Nat, failing : Nat, undone : Nat, admin : Nat]
      /\ faults'.admin = faults.admin
  BY <1>0, FaultsKept
<1>5. lock' \in [Links -> Procs \cup {Nobody}]
  BY <1>0 DEF TypeOK
<1> QED
  BY <1>1, <1>2, <1>3, <1>4, <1>5 DEF Effect

(* The process moves on, changing nothing else. *)
LEMMA QuietMove ==
    ASSUME IInv, NEW q \in Procs, NEW pc \in Pcs, Refused(q, pc), FaultStep,
           pc \in Setup <=> proc[q].pc \in Setup, Shape(After(q, pc)),
           faults.admin = 0 => Holds(After(q, pc), kernel, routes)
    PROVE  Effect(q, After(q, pc))
<1>1. kernel[Rule] \in Marks /\ Rule \in Objects /\ routes \in BOOLEAN
      /\ kernel = [kernel EXCEPT ![Rule] = kernel[Rule]]
      /\ \A o \in Objects : o[1] # "device" => kernel[o] # "unmarked"
  BY ObjectNames DEF IInv, TypeOK
<1>2. Keep(q, Rule, kernel[Rule], pc) /\ UNCHANGED <<lock, routes, kernel>>
  BY <1>1 DEF Refused, Keep
<1>3. kernel[Rule] # "unmarked"
  BY <1>1, ObjectNames
<1> QED
  BY <1>1, <1>2, <1>3, KernelMove

(* Within openLink. *)
LEMMA SetupMove ==
    ASSUME IInv, NEW q \in Procs, NEW pc \in Setup, proc[q].pc \in Setup,
           pc \in FilterMade => proc[q].pc \in FilterMade, Refused(q, pc), FaultStep
    PROVE  Effect(q, After(q, pc))
<1>1. TypeOK /\ pc \in Pcs /\ pc \notin Policy \cup Closing \cup {"down", "configure", "closeRule"}
      /\ proc[q].pc \notin Policy \cup Closing
  BY DEF IInv, Setup, Pcs, Policy, Closing
<1>2. Shape(After(q, pc))
  BY <1>1, AfterFields DEF IInv, Shape
<1>3. faults.admin = 0 => Holds(After(q, pc), kernel, routes)
  <2>1. pc \notin {"addRule", "openTable", "createTable", "attach", "serving"}
    BY DEF Setup
  <2> QED
    BY <1>1, <2>1, AfterFields DEF IInv, Holds, FilterMade
<1> QED
  BY <1>1, <1>2, <1>3, QuietMove

(* To the clean-up of everything that was opened. *)
LEMMA ToClose ==
    ASSUME IInv, NEW q \in Procs, proc[q].pc \notin Setup \cup Closing, Refused(q, "close"),
           FaultStep
    PROVE  Effect(q, After(q, "close"))
<1>1. TypeOK /\ "close" \in Pcs
      /\ "close" \notin Setup \cup Policy \cup Closing \cup FilterMade
  BY DEF IInv, Setup, Pcs, Policy, Closing, FilterMade
<1>2. Shape(After(q, "close"))
  BY <1>1, AfterFields DEF Shape
<1>3. faults.admin = 0 => Holds(After(q, "close"), kernel, routes)
  BY <1>1, AfterFields DEF IInv, Holds
<1> QED
  BY <1>1, <1>2, <1>3, QuietMove

-----------------------------------------------------------------------------
(* Opening one link.                                                        *)

(* Taking the lock of the link. *)
LEMMA AcquireEffect ==
    ASSUME IInv, NEW q \in Procs, acquireOwnerLease(q)
    PROVE  \E r : Effect(q, r)
<1>0. TypeOK /\ proc[q].pc = "acquire" /\ "acquire" \notin Setup \cup Policy \cup Closing
  BY DEF IInv, acquireOwnerLease, At, Setup, Policy, Closing
<1>1. CASE Refused(q, "close") /\ UNCHANGED faults
  BY <1>0, <1>1, ToClose DEF FaultStep
<1>2. CASE /\ lock[proc[q].link] = Nobody /\ lock' = [lock EXCEPT ![proc[q].link] = q]
           /\ To(q, "inspect") /\ UNCHANGED <<kernel, routes, faults>>
  <2> DEFINE r == After(q, "inspect")
  <2>1. "inspect" \in Pcs /\ "inspect" \in Setup /\ "inspect" \notin FilterMade
        /\ "inspect" \notin Policy \cup Closing
    BY DEF Pcs, Setup, FilterMade, Policy, Closing
  <2>2. /\ r \in ProcState /\ proc[q] \in ProcState
        /\ r.pc = "inspect" /\ r.link = proc[q].link /\ r.links = proc[q].links
        /\ proc[q].link \in Links /\ proc[q].links \subseteq Links
    BY <1>0, <2>1, AfterFields
  <2>3. proc' = [proc EXCEPT ![q] = r]
    BY <1>2 DEF To, After
  <2> HIDE DEF r
  <2>4. Owned(proc[q]) = proc[q].links /\ Owned(r) = proc[q].links \cup {proc[q].link}
    BY <1>0, <2>1, <2>2 DEF Owned
  <2>5. proc[q].link \notin proc[q].links
    BY <1>2, <2>2, <2>4, KernelOwnerAssumption DEF IInv, Fenced
  <2>6. Shape(r)
    BY <1>0, <2>1, <2>2, <2>5 DEF IInv, Shape
  <2>7. \A l \in Links : /\ lock'[l] = q <=> l \in Owned(r)
                         /\ lock'[l] # lock[l] => {lock[l], lock'[l]} \subseteq {q, Nobody}
    BY <1>0, <1>2, <2>2, <2>4 DEF IInv, Fenced, TypeOK
  <2>8. lock' \in [Links -> Procs \cup {Nobody}]
    BY <1>0, <1>2, <2>2 DEF TypeOK
  <2>9. faults.admin = 0 => Holds(r, kernel', routes')
    BY <1>0, <1>2, <2>1, <2>2, Zenon DEF IInv, Holds, FilterMade
  <2>10. Effect(q, r)
    BY <1>0, <1>2, <2>2, <2>3, <2>6, <2>7, <2>8, <2>9 DEF Effect, TypeOK
  <2> QED
    BY <2>10
<1> QED
  BY <1>1, <1>2 DEF acquireOwnerLease

(* Releasing it when the link cannot be opened. *)
LEMMA UndoOwnerEffect ==
    ASSUME IInv, NEW q \in Procs, UndoOwner(q)
    PROVE  \E r : Effect(q, r)
<1> DEFINE r == After(q, "close")
<1>1. TypeOK /\ proc[q].pc = "undoOwner" /\ "undoOwner" \in Setup /\ "undoOwner" \notin Closing
  BY DEF IInv, UndoOwner, At, Setup, Closing
<1>2. "close" \in Pcs /\ "close" \notin Setup \cup Policy \cup Closing \cup FilterMade
  BY DEF Pcs, Setup, Policy, Closing, FilterMade
<1>3. /\ r \in ProcState /\ r.pc = "close" /\ r.link = proc[q].link /\ r.links = proc[q].links
      /\ proc[q].link \in Links /\ proc[q].links \subseteq Links
  BY <1>1, <1>2, AfterFields
<1>4. /\ proc' = [proc EXCEPT ![q] = r] /\ lock' = [lock EXCEPT ![proc[q].link] = Nobody]
      /\ UNCHANGED <<kernel, routes, faults>>
  BY DEF UndoOwner, To, After
<1> HIDE DEF r
<1>5. Owned(r) = proc[q].links /\ Owned(proc[q]) = proc[q].links \cup {proc[q].link}
      /\ proc[q].link \notin proc[q].links
  BY <1>1, <1>2, <1>3 DEF Owned, IInv, Shape
<1>6. \A l \in Links : /\ lock'[l] = q <=> l \in Owned(r)
                       /\ lock'[l] # lock[l] => {lock[l], lock'[l]} \subseteq {q, Nobody}
  BY <1>1, <1>3, <1>4, <1>5, KernelOwnerAssumption DEF IInv, Fenced, TypeOK
<1>7. lock' \in [Links -> Procs \cup {Nobody}]
  BY <1>1, <1>3, <1>4 DEF TypeOK
<1>8. Shape(r)
  BY <1>2, <1>3 DEF Shape
<1>9. faults.admin = 0 => Holds(r, kernel', routes')
  BY <1>1, <1>2, <1>3, <1>4, Zenon DEF IInv, Holds
<1>10. Effect(q, r)
  BY <1>1, <1>3, <1>4, <1>6, <1>7, <1>8, <1>9 DEF Effect, TypeOK
<1> QED
  BY <1>10

(* Steps of openLink that change no object of the kernel. *)
LEMMA SetupQuietEffect ==
    ASSUME IInv, NEW q \in Procs, OpenSocket(q) \/ Resolve(q)
    PROVE  \E r : Effect(q, r)
<1>1. {"socket", "createFilter", "undoOwner", "resolve", "setAlias", "undoFilter"} \subseteq Setup
      /\ "createFilter" \notin FilterMade /\ "undoOwner" \notin FilterMade
      /\ "resolve" \in FilterMade /\ "undoFilter" \notin FilterMade
  BY DEF Setup, FilterMade
<1>2. CASE OpenSocket(q)
  <2>1. proc[q].pc = "socket" /\ FaultStep /\ (Refused(q, "createFilter") \/ Refused(q, "undoOwner"))
    BY <1>2 DEF OpenSocket, At, FaultStep
  <2> QED
    BY <1>1, <2>1, SetupMove
<1>3. CASE Resolve(q)
  <2>1. proc[q].pc = "resolve" /\ FaultStep /\ (Refused(q, "setAlias") \/ Refused(q, "undoFilter"))
    BY <1>3 DEF Resolve, At, FaultStep
  <2> QED
    BY <1>1, <2>1, SetupMove
<1> QED
  BY <1>2, <1>3

(* A step of openLink that changes at most an object of the link. *)
LEMMA OpenMove ==
    ASSUME IInv, NEW q \in Procs, NEW r \in ProcState, NEW kind \in {"device", "filter"},
           NEW v \in Marks, proc[q].pc \in Setup, r.pc \in Setup,
           r.link = proc[q].link, r.links = proc[q].links, proc' = [proc EXCEPT ![q] = r],
           kernel' = [kernel EXCEPT ![<<kind, r.link>>] = v], UNCHANGED lock, FaultStep,
           v # kernel[<<kind, r.link>>] => kernel[<<kind, r.link>>] # "foreign",
           v = "unmarked" => kind = "device",
           routes' \in BOOLEAN, routes' # routes => r.link = "qci1",
           r.pc \in FilterMade => IF kind = "filter" THEN v = "ours"
                                                     ELSE proc[q].pc \in FilterMade
    PROVE  Effect(q, r)
<1>1. /\ TypeOK /\ Shape(proc[q]) /\ proc[q] \in ProcState
      /\ r.link \in Links /\ r.links \subseteq Links /\ r.link \notin r.links
      /\ proc[q].pc \notin Policy \cup Closing
      /\ r.pc \notin Policy \cup Closing \cup {"down", "configure", "closeRule"}
  BY DEF IInv, TypeOK, Shape, Setup, Policy, Closing, ProcState
<1>2. Shape(r)
  BY <1>1 DEF Shape
<1>3. lock[r.link] = q /\ \A l \in Links : lock'[l] = q <=> l \in Owned(r)
  BY <1>1 DEF IInv, Fenced, Owned
<1>4. /\ <<kind, r.link>> \in Objects /\ <<kind, r.link>>[2] = r.link
      /\ <<kind, r.link>>[1] = kind
  BY <1>1, ObjectNames, Zenon
<1>5. /\ kernel' \in [Objects -> Marks]
      /\ \A o \in Objects : kernel'[o] = IF o = <<kind, r.link>> THEN v ELSE kernel[o]
  BY <1>1, <1>4 DEF TypeOK
<1>6. \A o \in Objects : kernel'[o] # kernel[o] =>
          /\ lock[o[2]] = q /\ kernel[o] # "foreign"
          /\ kernel'[o] = "unmarked" => o[1] = "device"
  BY <1>3, <1>4, <1>5
<1>7. faults.admin = 0 => Holds(r, kernel', routes')
  <2> SUFFICES ASSUME faults.admin = 0 PROVE Holds(r, kernel', routes')
    OBVIOUS
  <2>1. Holds(proc[q], kernel, routes)
    BY DEF IInv
  <2>2. \A l \in r.links : kernel'[<<"device", l>>] = "ours" /\ kernel'[<<"filter", l>>] = "ours"
    <3>1. \A l \in r.links : /\ <<"device", l>> \in Objects /\ <<"filter", l>> \in Objects
                             /\ <<"device", l>> # <<kind, r.link>>
                             /\ <<"filter", l>> # <<kind, r.link>>
      BY <1>1, ObjectNames, Zenon
    <3>2. \A l \in r.links : kernel[<<"device", l>>] = "ours" /\ kernel[<<"filter", l>>] = "ours"
      BY <1>1, <2>1, Zenon DEF Holds
    <3> QED
      BY <1>5, <3>1, <3>2, Zenon
  <2>3. r.pc \in FilterMade => kernel'[<<"filter", r.link>>] = "ours"
    <3>1. CASE kind = "filter"
      BY <1>4, <1>5, <3>1
    <3>2. CASE kind = "device"
      <4>1. <<"filter", r.link>> \in Objects /\ <<"filter", r.link>> # <<kind, r.link>>
        BY <1>1, <3>2, ObjectNames
      <4>2. proc[q].pc \in FilterMade => kernel[<<"filter", r.link>>] = "ours"
        BY <2>1 DEF Holds, FilterMade
      <4> QED
        BY <1>5, <3>2, <4>1, <4>2
    <3> QED
      BY <3>1, <3>2
  <2>4. r.pc \notin {"addRule", "openTable", "createTable", "attach", "serving"}
    BY DEF Setup
  <2> QED
    BY <2>2, <2>3, <2>4 DEF Holds, FilterMade
<1>8. /\ faults' \in [crashes : Nat, failing : Nat, undone : Nat, admin : Nat]
      /\ faults'.admin = faults.admin
  BY <1>1, FaultsKept
<1>9. lock' \in [Links -> Procs \cup {Nobody}]
  BY <1>1 DEF TypeOK
<1> QED
  BY <1>2, <1>3, <1>5, <1>6, <1>7, <1>8, <1>9 DEF Effect

(* The same when only the place of the process changes. *)
LEMMA OpenKeep ==
    ASSUME IInv, NEW q \in Procs, NEW pc \in Setup, NEW kind \in {"device", "filter"},
           NEW v \in Marks, proc[q].pc \in Setup, Keep(q, Here(q, kind), v, pc),
           UNCHANGED lock, FaultStep, kernel[Here(q, kind)] # "foreign",
           v = "unmarked" => kind = "device",
           routes' \in BOOLEAN, routes' # routes => proc[q].link = "qci1",
           pc \in FilterMade => IF kind = "filter" THEN v = "ours"
                                                   ELSE proc[q].pc \in FilterMade
    PROVE  \E r : Effect(q, r)
<1> DEFINE r == After(q, pc)
<1>1. TypeOK /\ pc \in Pcs
  BY DEF IInv, Setup, Pcs
<1>2. r \in ProcState /\ r.pc = pc /\ r.link = proc[q].link /\ r.links = proc[q].links
  BY <1>1, AfterFields
<1>3. proc' = [proc EXCEPT ![q] = r]
  BY DEF Keep, To, After
<1> HIDE DEF r
<1>4. kernel' = [kernel EXCEPT ![<<kind, r.link>>] = v] /\ kernel[<<kind, r.link>>] # "foreign"
  BY <1>2 DEF Keep, Here
<1>5. Effect(q, r)
  BY <1>2, <1>3, <1>4, OpenMove, Zenon
<1> QED
  BY <1>5

LEMMA OpenLinkEffect ==
    ASSUME IInv, NEW q \in Procs,
           createPeerFirewall(q) \/ CreateLink(q) \/ setLinkAlias(q) \/ UndoLink(q)
    PROVE  \E r : Effect(q, r)
<1>0. {"createFilter", "createLink", "resolve", "setAlias", "bringUp", "undoLink", "undoFilter",
       "undoOwner"} \subseteq Setup
      /\ {"createLink", "resolve", "setAlias", "bringUp"} \subseteq FilterMade
      /\ "undoLink" \notin FilterMade /\ "undoFilter" \notin FilterMade
      /\ "undoOwner" \notin FilterMade
      /\ {"none", "ours", "unmarked"} \subseteq Marks /\ routes \in BOOLEAN
  BY DEF Setup, FilterMade, Marks, IInv, TypeOK
<1>1. CASE createPeerFirewall(q)
  <2>1. proc[q].pc = "createFilter" /\ FaultStep
    BY <1>1 DEF createPeerFirewall, At, FaultStep
  <2>2. CASE Refused(q, "undoOwner")
    BY <1>0, <2>1, <2>2, SetupMove
  <2>3. CASE /\ kernel[Here(q, "filter")] = "none" /\ Keep(q, Here(q, "filter"), "ours", "createLink")
             /\ UNCHANGED <<routes, lock>>
    BY <1>0, <2>1, <2>3, OpenKeep
  <2> QED
    BY <1>1, <2>2, <2>3 DEF createPeerFirewall
<1>2. CASE CreateLink(q)
  <2>1. proc[q].pc = "createLink" /\ FaultStep
    BY <1>2 DEF CreateLink, At, FaultStep
  <2>2. CASE Refused(q, "undoFilter")
    BY <1>0, <2>1, <2>2, SetupMove
  <2>3. ASSUME NEW v \in {"ours", "unmarked"}, kernel[Here(q, "device")] = "none",
               Keep(q, Here(q, "device"), v, "resolve"), UNCHANGED <<routes, lock>>
        PROVE  \E r : Effect(q, r)
    BY <1>0, <2>1, <2>3, OpenKeep
  <2> QED
    BY <1>2, <2>2, <2>3 DEF CreateLink
<1>3. CASE setLinkAlias(q)
  <2>1. proc[q].pc = "setAlias" /\ FaultStep
    BY <1>3 DEF setLinkAlias, At, FaultStep
  <2>2. CASE Refused(q, "undoLink")
    BY <1>0, <2>1, <2>2, SetupMove
  <2>3. CASE /\ kernel[Here(q, "device")] \in {"ours", "unmarked"}
             /\ Keep(q, Here(q, "device"), "ours", "bringUp") /\ UNCHANGED <<routes, lock>>
    BY <1>0, <2>1, <2>3, OpenKeep
  <2> QED
    BY <1>3, <2>2, <2>3 DEF setLinkAlias
<1>4. CASE UndoLink(q)
  <2>1. proc[q].pc = "undoLink" /\ FaultStep
    BY <1>4 DEF UndoLink, At, FaultStep
  <2>2. CASE Refused(q, "undoFilter")
    BY <1>0, <2>1, <2>2, SetupMove
  <2>3. CASE /\ kernel[Here(q, "device")] \in {"ours", "unmarked"}
             /\ DropDevice(Here(q, "device"), "undoFilter", q) /\ UNCHANGED lock
    <3>1. Keep(q, Here(q, "device"), "none", "undoFilter")
          /\ routes' = (routes /\ Here(q, "device") # <<"device", "qci1">>)
      BY <2>3 DEF DropDevice
    <3>2. proc[q].link \in Links
      BY DEF IInv, TypeOK, ProcState
    <3>3. routes' \in BOOLEAN /\ (proc[q].link # "qci1" => routes' = routes)
      BY <1>0, <3>1, <3>2, Zenon DEF Here, Links
    <3> QED
      BY <1>0, <2>1, <2>3, <3>1, <3>3, OpenKeep
  <2> QED
    BY <1>4, <2>2, <2>3 DEF UndoLink
<1> QED
  BY <1>1, <1>2, <1>3, <1>4

(* peerFirewall.Close at the three places it is called from. *)
LEMMA CloseFiltersEffect ==
    ASSUME IInv, NEW q \in Procs, CloseFilters(q)
    PROVE  \E r : Effect(q, r)
<1>0. /\ {"removeFilter", "socket", "undoFilter", "undoOwner"} \subseteq Setup
      /\ FilterMade \cap {"socket", "undoOwner"} = {} /\ "none" \in Marks /\ routes \in BOOLEAN
  BY DEF Setup, FilterMade, Marks, IInv, TypeOK
<1>1. ASSUME NEW pc \in {"removeFilter", "undoFilter"}, NEW next \in {"socket", "undoOwner"},
             NEW onError \in {"undoOwner"}, proc[q].pc = pc, FaultStep,
             \/ /\ kernel[Here(q, "filter")] # "foreign"
                /\ Keep(q, Here(q, "filter"), "none", next) /\ UNCHANGED <<routes, lock>>
             \/ Refused(q, onError)
      PROVE  \E r : Effect(q, r)
  <2>1. CASE Refused(q, onError)
    BY <1>0, <1>1, <2>1, SetupMove
  <2>2. CASE /\ kernel[Here(q, "filter")] # "foreign"
             /\ Keep(q, Here(q, "filter"), "none", next) /\ UNCHANGED <<routes, lock>>
    BY <1>0, <1>1, <2>2, OpenKeep
  <2> QED
    BY <1>1, <2>1, <2>2
<1>2. CASE closeFilter(q, "removeFilter", "socket", "undoOwner", Fails)
  BY <1>1, <1>2 DEF closeFilter, At, FaultStep
<1>3. CASE closeFilter(q, "undoFilter", "undoOwner", "undoOwner", FailsUndone)
  BY <1>1, <1>3 DEF closeFilter, At, FaultStep
<1>4. CASE closeFilter(q, "closeFilter", "closeOwner", "closeOwner", FailsUndone)
  <2> DEFINE r == After(q, "closeOwner")
             o == <<"filter", proc[q].link>>
  <2>1. /\ proc[q].pc = "closeFilter" /\ FaultStep /\ UNCHANGED <<routes, lock>>
        /\ \/ kernel[o] # "foreign" /\ Keep(q, o, "none", "closeOwner")
           \/ Refused(q, "closeOwner")
    BY <1>4 DEF closeFilter, At, FaultStep, Here, Refused
  <2>2. TypeOK /\ Shape(proc[q]) /\ "closeOwner" \in Pcs /\ "closeFilter" \notin Setup
        /\ {"closeFilter", "closeOwner"} \subseteq Closing
        /\ "closeOwner" \notin Setup \cup Policy \cup FilterMade
    BY DEF IInv, Pcs, Closing, Setup, Policy, FilterMade
  <2>3. /\ r.pc = "closeOwner" /\ r.link = proc[q].link /\ r.links = proc[q].links
        /\ proc[q].link \in Links /\ proc[q].links \subseteq Links
    BY <2>2, AfterFields
  <2>4. Shape(r)
    BY <2>1, <2>2, <2>3 DEF Shape
  <2>5. lock[proc[q].link] = q /\ o \in Objects /\ o[2] = proc[q].link /\ o[1] = "filter"
    BY <2>1, <2>2, <2>3, ObjectNames, Zenon DEF IInv, Fenced, Owned, Shape
  <2>6. CASE Refused(q, "closeOwner")
    <3>1. faults.admin = 0 => Holds(r, kernel, routes)
      BY <2>1, <2>2, <2>3 DEF IInv, Holds
    <3> QED
      BY <2>1, <2>2, <2>4, <2>6, <3>1, QuietMove
  <2>7. CASE kernel[o] # "foreign" /\ Keep(q, o, "none", "closeOwner")
    <3>1. \A x \in Objects : x # o => kernel'[x] = kernel[x]
      BY <2>2, <2>7 DEF Keep, TypeOK
    <3>2. \A l \in r.links : l # r.link => /\ kernel'[<<"device", l>>] = kernel[<<"device", l>>]
                                           /\ kernel'[<<"filter", l>>] = kernel[<<"filter", l>>]
      BY <2>3, <3>1, ObjectNames
    <3>3. faults.admin = 0 => Holds(r, kernel', routes')
      BY <2>1, <2>2, <2>3, <3>2 DEF IInv, Holds
    <3> HIDE DEF r, o
    <3>4. Effect(q, After(q, "closeOwner"))
      BY <1>0, <2>1, <2>2, <2>4, <2>5, <2>7, <3>3, KernelMove DEF r
    <3> QED
      BY <3>4
  <2> QED
    BY <2>1, <2>6, <2>7
<1> QED
  BY <1>2, <1>3, <1>4 DEF CloseFilters

(* What the recovery found is removed next. *)
LEMMA RecoveringPlaces ==
    ASSUME NEW found
    PROVE  Recovering(found) \in Setup /\ Recovering(found) \notin FilterMade /\ Recovering(found) \in Pcs
  BY DEF Recovering, Setup, FilterMade, Pcs

LEMMA RecoveryEffect ==
    ASSUME IInv, NEW q \in Procs, removeCrashLeftovers(q) \/ RemoveLink(q)
    PROVE  \E r : Effect(q, r)
<1>0. /\ {"inspect", "removeLink", "undoOwner"} \subseteq Setup /\ "undoOwner" \notin FilterMade
      /\ TypeOK /\ proc[q] \in ProcState /\ proc[q].link \in Links
      /\ "none" \in Marks /\ routes \in BOOLEAN
      /\ kernel[<<"device", proc[q].link>>] \in Marks
  BY ObjectNames, Zenon DEF Setup, FilterMade, IInv, TypeOK, ProcState, Marks
<1>1. CASE removeCrashLeftovers(q)
  <2>1. proc[q].pc = "inspect" /\ FaultStep
    BY <1>1 DEF removeCrashLeftovers, At, FaultStep
  <2>2. CASE Refused(q, "undoOwner")
    BY <1>0, <2>1, <2>2, SetupMove
  <2>3. CASE /\ proc' = [proc EXCEPT ![q].found = Present(q), ![q].pc = Recovering(Present(q))]
             /\ UNCHANGED <<kernel, routes, lock, faults>>
    <3> DEFINE r == [proc[q] EXCEPT !.found = Present(q), !.pc = Recovering(Present(q))]
               o == <<"device", proc[q].link>>
    <3>1. Present(q) \in SUBSET {"device", "filter"}
      BY DEF Present
    <3>2. r \in ProcState
      BY <1>0, <3>1, RecoveringPlaces, Zenon DEF ProcState
    <3>3. r.pc = Recovering(Present(q)) /\ r.link = proc[q].link /\ r.links = proc[q].links
      BY <1>0 DEF ProcState
    <3>4. proc' = [proc EXCEPT ![q] = r]
      BY <2>3, Zenon
    <3> HIDE DEF r
    <3>5. kernel' = [kernel EXCEPT ![<<"device", r.link>>] = kernel[o]]
          /\ kernel[o] = kernel[<<"device", r.link>>]
      BY <1>0, <2>3, <3>3, ObjectNames DEF TypeOK
    <3>6. r.pc \in Setup /\ r.pc \notin FilterMade /\ proc[q].pc \in Setup
      BY <1>0, <2>1, <3>3, RecoveringPlaces
    <3>7. UNCHANGED lock /\ routes' \in BOOLEAN /\ routes' = routes /\ kernel[o] \in Marks
      BY <1>0, <2>3
    <3> HIDE DEF o
    <3>8. Effect(q, r)
      BY <2>1, <3>2, <3>3, <3>4, <3>5, <3>6, <3>7, OpenMove, Zenon
    <3> QED
      BY <3>8
  <2> QED
    BY <1>1, <2>2, <2>3 DEF removeCrashLeftovers
<1>2. CASE RemoveLink(q)
  <2>1. proc[q].pc = "removeLink" /\ FaultStep
    BY <1>2 DEF RemoveLink, At, FaultStep
  <2>2. CASE Refused(q, "undoOwner")
    BY <1>0, <2>1, <2>2, SetupMove
  <2>3. CASE /\ kernel[Here(q, "device")] \in {"ours", "unmarked"}
             /\ kernel' = [kernel EXCEPT ![Here(q, "device")] = "none"]
             /\ routes' = (routes /\ proc[q].link # "qci1")
             /\ proc' = [proc EXCEPT ![q].removed = @ \cup {proc[q].link},
                             ![q].found = @ \ {"device"},
                             ![q].pc = Recovering(proc[q].found \ {"device"})]
             /\ UNCHANGED <<lock, faults>>
    <3> DEFINE next == Recovering(proc[q].found \ {"device"})
               r == [proc[q] EXCEPT !.removed = proc[q].removed \cup {proc[q].link},
                                    !.found = proc[q].found \ {"device"}, !.pc = next]
    <3>1. proc[q].removed \cup {proc[q].link} \in SUBSET Links
          /\ proc[q].found \ {"device"} \in SUBSET {"device", "filter"}
      BY <1>0 DEF ProcState
    <3>2. next \in Pcs /\ next \in Setup /\ next \notin FilterMade
      BY RecoveringPlaces
    <3>3. proc' = [proc EXCEPT ![q] = r]
      BY <2>3, Zenon
    <3> HIDE DEF next
    <3>4. r \in ProcState
      BY <1>0, <3>1, <3>2, Zenon DEF ProcState
    <3>5. r.pc = next /\ r.link = proc[q].link /\ r.links = proc[q].links
      BY <1>0 DEF ProcState
    <3> HIDE DEF r
    <3>6. kernel' = [kernel EXCEPT ![<<"device", r.link>>] = "none"]
          /\ kernel[<<"device", r.link>>] # "foreign"
      BY <2>3, <3>5 DEF Here
    <3>7. routes' \in BOOLEAN /\ (r.link # "qci1" => routes' = routes)
      BY <1>0, <2>3, <3>5
    <3>8. r.pc \in Setup /\ r.pc \notin FilterMade /\ proc[q].pc \in Setup /\ UNCHANGED lock
      BY <1>0, <2>1, <2>3, <3>2, <3>5
    <3>9. Effect(q, r)
      BY <1>0, <2>1, <3>3, <3>4, <3>5, <3>6, <3>7, <3>8, OpenMove, Zenon
    <3> QED
      BY <3>9
  <2> QED
    BY <1>2, <2>2, <2>3, Zenon DEF RemoveLink
<1> QED
  BY <1>1, <1>2

(* The opened link is registered. *)
LEMMA BringUpEffect ==
    ASSUME IInv, NEW q \in Procs, BringUp(q)
    PROVE  \E r : Effect(q, r)
<1>0. /\ {"bringUp", "undoLink"} \subseteq Setup /\ "undoLink" \notin FilterMade
      /\ "bringUp" \notin Policy \cup Closing
      /\ TypeOK /\ proc[q] \in ProcState /\ proc[q].link \in Links /\ Shape(proc[q])
      /\ proc[q].links \subseteq Links /\ {"policy", "configure"} \subseteq Pcs
      /\ {"policy", "configure"} \cap (Setup \cup Closing \cup {"acquire"}) = {}
      /\ "configure" \notin Policy
  BY DEF Setup, FilterMade, Policy, Closing, IInv, TypeOK, ProcState, Pcs
<1>1. proc[q].pc = "bringUp" /\ FaultStep
  BY DEF BringUp, At, FaultStep
<1>2. CASE Refused(q, "undoLink")
  BY <1>0, <1>1, <1>2, SetupMove
<1>3. CASE /\ kernel[Here(q, "device")] = "ours"
           /\ proc' = [proc EXCEPT ![q].links = @ \cup {proc[q].link},
                           ![q].pc = IF proc[q].link = "qci1" THEN "policy" ELSE "configure"]
           /\ UNCHANGED <<kernel, routes, lock, faults>>
  <2> DEFINE next == IF proc[q].link = "qci1" THEN "policy" ELSE "configure"
             r == [proc[q] EXCEPT !.links = proc[q].links \cup {proc[q].link}, !.pc = next]
  <2>1. proc' = [proc EXCEPT ![q] = r]
    BY <1>3, Zenon
  <2>2. next \in Pcs /\ next \in {"policy", "configure"} /\ (next = "policy" <=> proc[q].link = "qci1")
    BY <1>0
  <2> HIDE DEF next
  <2>3. r \in ProcState
    <3>1. proc[q].links \cup {proc[q].link} \in SUBSET Links
      BY <1>0
    <3> QED
      BY <1>0, <2>2, <3>1, Zenon DEF ProcState
  <2>4. r.pc = next /\ r.link = proc[q].link /\ r.links = proc[q].links \cup {proc[q].link}
    BY <1>0 DEF ProcState
  <2> HIDE DEF r
  <2>5. Shape(r)
    <3>1. proc[q].link = "qci1" => "default" \in proc[q].links
      BY <1>0, <1>1 DEF Shape
    <3>2. next # "down" /\ next # "closeRule" /\ (next = "configure" => proc[q].link = "default")
      BY <1>0, <2>2 DEF Links
    <3> QED
      BY <1>0, <2>2, <2>4, <3>1, <3>2 DEF Shape
  <2>6. Owned(r) = Owned(proc[q])
    BY <1>0, <1>1, <2>2, <2>4 DEF Owned
  <2>7. \A l \in Links : lock'[l] = q <=> l \in Owned(r)
    BY <1>3, <2>6 DEF IInv, Fenced
  <2>8. faults.admin = 0 => Holds(r, kernel', routes')
    BY <1>0, <1>1, <1>3, <2>2, <2>4 DEF IInv, Holds, Here
  <2>9. Effect(q, r)
    BY <1>0, <1>3, <2>1, <2>3, <2>5, <2>7, <2>8, Zenon DEF Effect, TypeOK
  <2> QED
    BY <2>9
<1> QED
  BY <1>2, <1>3 DEF BringUp

-----------------------------------------------------------------------------
(* OpenKernel around its links.                                             *)

LEMMA StartEffect ==
    ASSUME IInv, NEW q \in Procs, Start(q)
    PROVE  \E r : Effect(q, r)
<1>1. /\ proc[q].pc = "down" /\ Refused(q, "acquire") /\ FaultStep
  BY DEF Start, At, Refused, FaultStep
<1>2. /\ TypeOK /\ Shape(proc[q]) /\ "acquire" \in Pcs
      /\ "acquire" \notin Setup \cup Policy \cup Closing \cup FilterMade
      /\ "down" \notin Setup \cup Closing
  BY DEF IInv, Pcs, Setup, Policy, Closing, FilterMade
<1>3. Shape(After(q, "acquire"))
  BY <1>1, <1>2, AfterFields DEF Shape
<1>4. faults.admin = 0 => Holds(After(q, "acquire"), kernel, routes)
  BY <1>1, <1>2, AfterFields DEF IInv, Holds
<1>5. Effect(q, After(q, "acquire"))
  BY <1>1, <1>2, <1>3, <1>4, QuietMove
<1> QED
  BY <1>5

LEMMA ConfigureEffect ==
    ASSUME IInv, NEW q \in Procs, ConfigureIPv4(q)
    PROVE  \E r : Effect(q, r)
<1>0. /\ TypeOK /\ proc[q] \in ProcState /\ Shape(proc[q]) /\ "acquire" \in Pcs
      /\ proc[q].links \subseteq Links /\ "qci1" \in Links
      /\ "acquire" \notin Setup \cup Policy \cup Closing \cup FilterMade
      /\ "configure" \notin Setup \cup Closing
  BY DEF IInv, TypeOK, ProcState, Pcs, Links, Setup, Policy, Closing, FilterMade
<1>1. proc[q].pc = "configure" /\ FaultStep
  BY DEF ConfigureIPv4, At, FaultStep
<1>2. CASE Refused(q, "close")
  BY <1>0, <1>1, <1>2, ToClose
<1>3. CASE /\ proc' = [proc EXCEPT ![q].link = "qci1", ![q].pc = "acquire"]
           /\ UNCHANGED <<kernel, routes, lock, faults>>
  <2> DEFINE r == [proc[q] EXCEPT !.link = "qci1", !.pc = "acquire"]
  <2>1. proc' = [proc EXCEPT ![q] = r] /\ r \in ProcState
    BY <1>0, <1>3, Zenon DEF ProcState
  <2>2. r.pc = "acquire" /\ r.link = "qci1" /\ r.links = proc[q].links
    BY <1>0 DEF ProcState
  <2> HIDE DEF r
  <2>3. "default" \in proc[q].links
    BY <1>0, <1>1 DEF Shape
  <2>4. Shape(r)
    BY <1>0, <2>2, <2>3 DEF Shape
  <2>5. \A l \in Links : lock'[l] = q <=> l \in Owned(r)
    BY <1>0, <1>1, <1>3, <2>2 DEF IInv, Fenced, Owned
  <2>6. faults.admin = 0 => Holds(r, kernel', routes')
    BY <1>0, <1>1, <1>3, <2>2, Zenon DEF IInv, Holds
  <2>7. Effect(q, r)
    BY <1>0, <1>3, <2>1, <2>4, <2>5, <2>6, Zenon DEF Effect, TypeOK
  <2> QED
    BY <2>7
<1> QED
  BY <1>2, <1>3 DEF ConfigureIPv4

-----------------------------------------------------------------------------
(* The rule, the routes and the table of the QCI 1 link.                    *)

Routed == {"addRule", "openTable", "createTable", "attach", "serving"}
Ruled == {"openTable", "createTable", "attach", "serving"}
Tabled == {"attach", "serving"}

(* A step that changes at most one of the three. *)
LEMMA PolicyKeep ==
    ASSUME IInv, NEW q \in Procs, NEW pc \in Policy \cup {"close"}, proc[q].pc \in Policy,
           NEW o \in {Rule, Table}, NEW v \in {"none", "ours", "foreign"},
           Keep(q, o, v, pc), UNCHANGED lock, FaultStep, routes' \in BOOLEAN,
           v # kernel[o] => kernel[o] # "foreign",
           faults.admin = 0 => /\ pc \in Routed => routes'
                               /\ pc \in Ruled => kernel'[Rule] = "ours"
                               /\ pc \in Tabled => kernel'[Table] = "ours"
    PROVE  \E r : Effect(q, r)
<1> DEFINE r == After(q, pc)
<1>1. /\ TypeOK /\ Shape(proc[q]) /\ pc \in Pcs /\ v \in Marks
      /\ pc \notin Setup \cup Closing \cup FilterMade \cup {"down", "configure", "acquire"}
      /\ proc[q].pc \notin Setup \cup Closing
  BY DEF IInv, Pcs, Marks, Setup, Policy, Closing, FilterMade
<1>2. /\ r.pc = pc /\ r.link = proc[q].link /\ r.links = proc[q].links
      /\ proc[q].link = "qci1" /\ "qci1" \in proc[q].links /\ "default" \in proc[q].links
      /\ proc[q].links \subseteq Links
  BY <1>1, AfterFields DEF Shape
<1> HIDE DEF r
<1>3. Shape(r)
  BY <1>1, <1>2 DEF Shape, Closing
<1>4. lock["qci1"] = q /\ o \in Objects /\ o[2] = "qci1"
  BY <1>1, <1>2, ObjectNames DEF IInv, Fenced, Owned
<1>5. \A x \in Objects : x # o => kernel'[x] = kernel[x]
  BY <1>1 DEF TypeOK, Keep
<1>6. \A l \in r.links : /\ kernel'[<<"device", l>>] = kernel[<<"device", l>>]
                         /\ kernel'[<<"filter", l>>] = kernel[<<"filter", l>>]
  <2>1. \A l \in r.links : /\ <<"device", l>> \in Objects /\ <<"device", l>> # o
                           /\ <<"filter", l>> \in Objects /\ <<"filter", l>> # o
    <3>1. \A l \in r.links : l \in Links
      BY <1>2
    <3>2. o = Rule \/ o = Table
      OBVIOUS
    <3>3. \A l \in Links : /\ <<"device", l>> \in Objects /\ <<"filter", l>> \in Objects
                           /\ <<"device", l>> # Rule /\ <<"device", l>> # Table
                           /\ <<"filter", l>> # Rule /\ <<"filter", l>> # Table
      BY ObjectNames, Zenon
    <3> QED
      BY <3>1, <3>2, <3>3, Zenon
  <2> QED
    BY <1>5, <2>1, Zenon
<1>7. faults.admin = 0 => Holds(r, kernel', routes')
  BY <1>1, <1>2, <1>6 DEF IInv, Holds, FilterMade, Routed, Ruled, Tabled
<1>8. Effect(q, After(q, pc))
  BY <1>1, <1>3, <1>4, <1>7, KernelMove DEF r
<1> QED
  BY <1>8

(* A step that changes none of them. *)
LEMMA PolicyQuiet ==
    ASSUME IInv, NEW q \in Procs, NEW pc \in Policy \cup {"close"}, proc[q].pc \in Policy,
           Refused(q, pc), FaultStep,
           pc \in Routed => proc[q].pc \in Routed, pc \in Ruled => proc[q].pc \in Ruled,
           pc \in Tabled => proc[q].pc \in Tabled
    PROVE  \E r : Effect(q, r)
<1>1. kernel[Rule] \in Marks /\ routes \in BOOLEAN
      /\ kernel = [kernel EXCEPT ![Rule] = kernel[Rule]]
      /\ \A o \in Objects : o[1] # "device" => kernel[o] # "unmarked"
  BY ObjectNames DEF IInv, TypeOK
<1>2. kernel[Rule] \in {"none", "ours", "foreign"}
  BY <1>1, ObjectNames DEF Marks
<1>3. Keep(q, Rule, kernel[Rule], pc) /\ UNCHANGED <<lock, routes, kernel>>
  BY <1>1 DEF Refused, Keep
<1>4. faults.admin = 0 => /\ pc \in Routed => routes'
                          /\ pc \in Ruled => kernel'[Rule] = "ours"
                          /\ pc \in Tabled => kernel'[Table] = "ours"
  BY <1>3, Zenon DEF IInv, Holds, Routed, Ruled, Tabled
<1> QED
  BY <1>1, <1>2, <1>3, <1>4, PolicyKeep

LEMMA PolicyEffect ==
    ASSUME IInv, NEW q \in Procs,
           \/ ConfigurePolicyIPv4Prefixes(q) \/ RemoveRule(q) \/ addPolicyIPv4Route(q)
           \/ openKernelTFTClassifier(q) \/ createTableLocked(q) \/ openKernelPolicy(q)
           \/ Stop(q) \/ closeClassifier(q)
    PROVE  \E r : Effect(q, r)
<1>0. /\ {"policy", "removeRule", "addRoutes", "addRule", "openTable", "createTable", "attach",
          "serving", "closeTable"} = Policy
      /\ {"close", "removeRule", "addRoutes", "closeTable"} \cap Routed = {}
      /\ Ruled \subseteq Routed /\ Tabled \subseteq Ruled /\ Tabled = {"attach", "serving"}
      /\ "addRule" \notin Ruled /\ {"openTable", "createTable"} \subseteq Ruled
      /\ "createTable" \notin Tabled /\ "openTable" \notin Tabled
  BY DEF Policy, Routed, Ruled, Tabled
<1>1. /\ routes \in BOOLEAN /\ kernel[Rule] \in Marks /\ kernel[Table] \in Marks
      /\ Rule \in Objects /\ Table \in Objects /\ Rule # Table
      /\ kernel[Rule] # "unmarked" /\ kernel[Table] # "unmarked"
  <2>1. TypeOK
    BY DEF IInv
  <2> QED
    BY <2>1, ObjectNames DEF TypeOK
<1>2. faults.admin = 0 => /\ proc[q].pc \in Routed => routes
                          /\ proc[q].pc \in Ruled => kernel[Rule] = "ours"
                          /\ proc[q].pc \in Tabled => kernel[Table] = "ours"
  BY Zenon DEF IInv, Holds, Routed, Ruled, Tabled
<1>3. CASE proc[q].pc \in Policy /\ FaultStep /\ Refused(q, "close")
  BY <1>0, <1>3, PolicyQuiet
<1>4. CASE ConfigurePolicyIPv4Prefixes(q)
  <2>1. /\ proc[q].pc = "policy" /\ FaultStep
        /\ Refused(q, "addRoutes") \/ Refused(q, "removeRule") \/ Refused(q, "close")
    BY <1>4 DEF ConfigurePolicyIPv4Prefixes, At, FaultStep
  <2> QED
    BY <1>0, <1>3, <2>1, PolicyQuiet
<1>5. CASE RemoveRule(q)
  <2>1. proc[q].pc = "removeRule" /\ FaultStep
    BY <1>5 DEF RemoveRule, At, FaultStep
  <2>2. ASSUME NEW v \in {"none", "foreign"}, kernel[Rule] = "foreign" => v = "foreign",
               Keep(q, Rule, v, "addRoutes"), UNCHANGED <<routes, lock>>
        PROVE  \E r : Effect(q, r)
    BY <1>0, <1>1, <2>1, <2>2, PolicyKeep
  <2> QED
    BY <1>0, <1>3, <1>5, <2>1, <2>2 DEF RemoveRule
<1>6. CASE addPolicyIPv4Route(q)
  <2>1. proc[q].pc = "addRoutes" /\ FaultStep
    BY <1>6 DEF addPolicyIPv4Route, At, FaultStep
  <2>2. CASE routes' = TRUE /\ To(q, "addRule") /\ UNCHANGED <<kernel, lock>>
    <3>1. kernel' = [kernel EXCEPT ![Rule] = kernel[Rule]]
      BY <2>2 DEF IInv, TypeOK
    <3>2. Keep(q, Rule, kernel[Rule], "addRule") /\ kernel[Rule] \in {"none", "ours", "foreign"}
      BY <1>1, <2>2, <3>1, Zenon DEF Keep, Marks
    <3> QED
      BY <1>0, <2>1, <2>2, <3>2, PolicyKeep
  <2> QED
    BY <1>0, <1>3, <1>6, <2>1, <2>2, Zenon DEF addPolicyIPv4Route
<1>7. ASSUME NEW pc \in {"createTable", "attach", "close"}, NEW v \in {"none", "ours"},
             proc[q].pc \in Policy, FaultStep, pc # "close" => proc[q].pc \in Ruled,
             pc = "attach" => v = "ours", kernel[Table] # "foreign",
             Keep(q, Table, v, pc), UNCHANGED <<routes, lock>>
      PROVE  \E r : Effect(q, r)
  <2>1. kernel'[Table] = v /\ kernel'[Rule] = kernel[Rule]
    BY <1>1, <1>7 DEF IInv, TypeOK, Keep
  <2>2. faults.admin = 0 => /\ pc \in Routed => routes'
                            /\ pc \in Ruled => kernel'[Rule] = "ours"
                            /\ pc \in Tabled => kernel'[Table] = "ours"
    BY <1>0, <1>2, <1>7, <2>1
  <2>3. pc \in Policy \cup {"close"} /\ routes' \in BOOLEAN
    BY <1>0, <1>1, <1>7
  <2> QED
    BY <1>7, <2>2, <2>3, PolicyKeep
<1>8. CASE openKernelTFTClassifier(q)
  <2>1. proc[q].pc = "openTable" /\ FaultStep
    BY <1>8 DEF openKernelTFTClassifier, At, FaultStep
  <2> QED
    BY <1>0, <1>3, <1>7, <1>8, <2>1 DEF openKernelTFTClassifier
<1>9. CASE createTableLocked(q)
  <2>1. proc[q].pc = "createTable" /\ FaultStep
    BY <1>9 DEF createTableLocked, At, FaultStep
  <2> QED
    BY <1>0, <1>3, <1>7, <1>9, <2>1 DEF createTableLocked
<1>10. CASE openKernelPolicy(q) \/ Stop(q)
  <2>1. /\ proc[q].pc \in Tabled /\ FaultStep
        /\ Refused(q, "serving") \/ Refused(q, "closeTable")
    BY <1>0, <1>10 DEF openKernelPolicy, Stop, At, FaultStep
  <2> QED
    BY <1>0, <2>1, PolicyQuiet
<1>11. CASE closeClassifier(q)
  <2>1. proc[q].pc = "closeTable" /\ FaultStep
    BY <1>11 DEF closeClassifier, At, FaultStep
  <2> QED
    BY <1>0, <1>3, <1>7, <1>11, <2>1 DEF closeClassifier
<1> QED
  BY <1>4, <1>5, <1>6, <1>8, <1>9, <1>10, <1>11

(* The rule is added, or the routes are taken back. *)
LEMMA AddRuleEffect ==
    ASSUME IInv, NEW q \in Procs, addIPv4PolicyRule(q)
    PROVE  \E r : Effect(q, r)
<1>0. /\ TypeOK /\ proc[q] \in ProcState /\ Shape(proc[q])
      /\ {"addRule", "openTable"} \subseteq Policy /\ "openTable" \in Pcs
      /\ {"addRule", "openTable"} \cap (Setup \cup Closing \cup FilterMade) = {}
      /\ proc[q].links \subseteq Links /\ routes \in BOOLEAN
      /\ kernel[Rule] \in Marks /\ kernel[Rule] # "unmarked"
  BY ObjectNames DEF IInv, TypeOK, Policy, Pcs, Setup, Closing, FilterMade, ProcState
<1>1. proc[q].pc = "addRule" /\ FaultStep /\ UNCHANGED lock
  BY DEF addIPv4PolicyRule, At, FaultStep
<1>2. CASE routes' = FALSE /\ To(q, "close") /\ UNCHANGED kernel
  <2>1. kernel' = [kernel EXCEPT ![Rule] = kernel[Rule]]
    BY <1>2 DEF IInv, TypeOK
  <2>2. Keep(q, Rule, kernel[Rule], "close") /\ kernel[Rule] \in {"none", "ours", "foreign"}
    BY <1>0, <1>2, <2>1, Zenon DEF Keep, Marks
  <2>3. "close" \notin Routed \cup Ruled \cup Tabled /\ routes' \in BOOLEAN
    BY <1>2, Zenon DEF Routed, Ruled, Tabled
  <2> QED
    BY <1>0, <1>1, <2>2, <2>3, PolicyKeep
<1>3. CASE /\ kernel[Rule] = "none" /\ kernel' = [kernel EXCEPT ![Rule] = "ours"]
           /\ proc' = [proc EXCEPT ![q].policy = TRUE, ![q].pc = "openTable"]
           /\ UNCHANGED <<routes, lock, faults>>
  <2> DEFINE r == [proc[q] EXCEPT !.policy = TRUE, !.pc = "openTable"]
  <2>1. proc' = [proc EXCEPT ![q] = r] /\ r \in ProcState
    BY <1>0, <1>3, Zenon DEF ProcState
  <2>2. /\ r.pc = "openTable" /\ r.link = proc[q].link /\ r.links = proc[q].links
        /\ proc[q].link = "qci1" /\ "qci1" \in proc[q].links
    BY <1>0, <1>1 DEF ProcState, Shape
  <2> HIDE DEF r
  <2>3. Shape(r)
    BY <1>0, <1>1, <2>2 DEF Shape
  <2>4. lock["qci1"] = q /\ \A l \in Links : lock'[l] = q <=> l \in Owned(r)
    BY <1>0, <1>1, <1>3, <2>2 DEF IInv, Fenced, Owned, Links
  <2>5. /\ kernel' \in [Objects -> Marks]
        /\ \A o \in Objects : kernel'[o] = IF o = Rule THEN "ours" ELSE kernel[o]
    BY <1>0, <1>3, ObjectNames DEF TypeOK, Marks
  <2>6. \A o \in Objects : kernel'[o] # kernel[o] =>
            /\ lock[o[2]] = q /\ kernel[o] # "foreign"
            /\ kernel'[o] = "unmarked" => o[1] = "device"
    BY <1>3, <2>4, <2>5, ObjectNames
  <2>7. \A l \in r.links : /\ kernel'[<<"device", l>>] = kernel[<<"device", l>>]
                           /\ kernel'[<<"filter", l>>] = kernel[<<"filter", l>>]
    <3>1. \A l \in r.links : /\ <<"device", l>> \in Objects /\ <<"device", l>> # Rule
                             /\ <<"filter", l>> \in Objects /\ <<"filter", l>> # Rule
      BY <1>0, <2>2, ObjectNames, Zenon
    <3> QED
      BY <2>5, <3>1, Zenon
  <2>8. faults.admin = 0 => Holds(r, kernel', routes')
    <3>1. kernel'[Rule] = "ours"
      BY <2>5, ObjectNames
    <3> QED
      BY <1>0, <1>1, <1>3, <2>2, <2>7, <3>1, Zenon DEF IInv, Holds
  <2>9. Effect(q, r)
    BY <1>0, <1>3, <2>1, <2>3, <2>4, <2>5, <2>6, <2>8, Zenon DEF Effect, TypeOK
  <2> QED
    BY <2>9
<1> QED
  BY <1>2, <1>3, Zenon DEF addIPv4PolicyRule

-----------------------------------------------------------------------------
(* Controller.Close and the end of a process.                               *)

LEMMA CloseEffect ==
    ASSUME IInv, NEW q \in Procs, Close(q)
    PROVE  \E r : Effect(q, r)
<1>0. /\ TypeOK /\ proc[q] \in ProcState /\ Shape(proc[q]) /\ proc[q].links \subseteq Links
      /\ {"closeRule", "closeLink"} \subseteq Pcs \cap Closing
      /\ {"closeRule", "closeLink"} \cap (Setup \cup Policy \cup {"down", "configure", "acquire"}) = {}
      /\ "close" \notin Setup \cup Closing
  BY DEF IInv, TypeOK, ProcState, Pcs, Setup, Policy, Closing
<1>1. proc[q].pc = "close" /\ UNCHANGED <<kernel, routes, lock, faults>>
  BY DEF Close, At
<1>2. ASSUME NEW l \in proc[q].links, NEW pc \in {"closeRule", "closeLink"},
             pc = "closeRule" => l = "qci1", proc' = [proc EXCEPT ![q].link = l, ![q].pc = pc]
      PROVE  \E r : Effect(q, r)
  <2> DEFINE r == [proc[q] EXCEPT !.link = l, !.pc = pc]
  <2>1. proc' = [proc EXCEPT ![q] = r]
    BY <1>2, Zenon
  <2>2. r \in ProcState
    <3>1. l \in Links /\ pc \in Pcs
      BY <1>0
    <3> QED
      BY <1>0, <3>1, Zenon DEF ProcState
  <2>3. r.pc = pc /\ r.link = l /\ r.links = proc[q].links
    BY <1>0 DEF ProcState
  <2> HIDE DEF r
  <2>4. Shape(r)
    BY <1>0, <1>2, <2>3 DEF Shape
  <2>5. \A m \in Links : lock'[m] = q <=> m \in Owned(r)
    BY <1>0, <1>1, <2>3 DEF IInv, Fenced, Owned
  <2>6. faults.admin = 0 => Holds(r, kernel', routes')
    <3>1. pc \notin FilterMade /\ pc \notin Routed
      BY DEF FilterMade, Routed
    <3> QED
      BY <1>0, <1>1, <2>3, <3>1, Zenon DEF IInv, Holds, FilterMade, Routed
  <2>7. Effect(q, r)
    BY <1>0, <1>1, <2>1, <2>2, <2>4, <2>5, <2>6 DEF Effect, TypeOK
  <2> QED
    BY <2>7
<1>3. CASE proc[q].links = {} /\ proc' = [proc EXCEPT ![q] = Blank]
  <2>1. /\ Blank \in ProcState /\ Blank.pc = "down" /\ Blank.link = "default"
        /\ Blank.links = {} /\ "down" \notin Setup \cup Policy \cup Closing \cup FilterMade
    BY DEF Blank, ProcState, Pcs, Links, Setup, Policy, Closing, FilterMade
  <2>2. Shape(Blank)
    BY <2>1 DEF Shape
  <2>3. \A m \in Links : lock'[m] = q <=> m \in Owned(Blank)
    BY <1>0, <1>1, <1>3, <2>1 DEF IInv, Fenced, Owned
  <2>4. Holds(Blank, kernel', routes')
    BY <2>1 DEF Holds
  <2>5. Effect(q, Blank)
    BY <1>0, <1>1, <1>3, <2>1, <2>2, <2>3, <2>4 DEF Effect, TypeOK
  <2> QED
    BY <2>5
<1>4. ASSUME NEW l \in proc[q].links,
             proc' = [proc EXCEPT ![q].link = l,
                          ![q].pc = IF l = "qci1" /\ proc[q].policy THEN "closeRule" ELSE "closeLink"]
      PROVE  \E r : Effect(q, r)
  BY <1>2, <1>4, Zenon
<1> QED
  BY <1>3, <1>4, Zenon DEF Close

(* A step of closing a link that changes objects of the link only. *)
LEMMA ClosingMove ==
    ASSUME IInv, NEW q \in Procs, NEW pc \in {"closeLink", "closeFilter"},
           proc[q].pc \in {"closeRule", "closeLink"}, NEW o \in Objects, o[2] = proc[q].link,
           NEW v \in {"none", "foreign", kernel[o]}, v # kernel[o] => kernel[o] # "foreign",
           Keep(q, o, v, pc), UNCHANGED lock, FaultStep,
           routes' \in BOOLEAN, routes' # routes => proc[q].link = "qci1"
    PROVE  \E r : Effect(q, r)
<1> DEFINE r == After(q, pc)
<1>1. /\ TypeOK /\ Shape(proc[q]) /\ pc \in Pcs /\ v \in Marks /\ kernel[o] \in Marks
      /\ o[1] # "device" => kernel[o] # "unmarked"
      /\ proc[q].pc \in Closing /\ proc[q].pc \notin Setup /\ pc \in Closing
      /\ pc \notin Setup \cup Policy \cup {"down", "configure", "acquire", "closeRule"}
  BY DEF IInv, TypeOK, Pcs, Marks, Closing, Setup, Policy
<1>2. /\ r.pc = pc /\ r.link = proc[q].link /\ r.links = proc[q].links
      /\ proc[q].link \in proc[q].links /\ proc[q].links \subseteq Links
  BY <1>1, AfterFields DEF Shape
<1> HIDE DEF r
<1>3. Shape(r)
  BY <1>1, <1>2 DEF Shape
<1>4. lock[proc[q].link] = q
  BY <1>1, <1>2 DEF IInv, Fenced, Owned
<1>5. \A x \in Objects : x # o => kernel'[x] = kernel[x]
  BY <1>1 DEF TypeOK, Keep
<1>6. \A l \in r.links : l # r.link =>
         /\ kernel'[<<"device", l>>] = kernel[<<"device", l>>]
         /\ kernel'[<<"filter", l>>] = kernel[<<"filter", l>>]
  <2>1. \A l \in r.links : l # r.link => /\ <<"device", l>> \in Objects /\ <<"device", l>> # o
                                         /\ <<"filter", l>> \in Objects /\ <<"filter", l>> # o
    BY <1>2, ObjectNames
  <2> QED
    BY <1>5, <2>1
<1>7. faults.admin = 0 => Holds(r, kernel', routes')
  BY <1>1, <1>2, <1>6 DEF IInv, Holds
<1>8. Effect(q, After(q, pc))
  BY <1>1, <1>3, <1>4, <1>7, KernelMove DEF r
<1> QED
  BY <1>8

LEMMA CloseLinkEffect ==
    ASSUME IInv, NEW q \in Procs, removePolicyRoutes(q) \/ deleteOwnedLink(q)
    PROVE  \E r : Effect(q, r)
<1>0. /\ TypeOK /\ Shape(proc[q]) /\ routes \in BOOLEAN /\ proc[q].link \in Links
      /\ Rule \in Objects /\ Rule[2] = "qci1"
  BY ObjectNames DEF IInv, TypeOK, ProcState
<1>1. CASE removePolicyRoutes(q)
  <2>1. proc[q].pc = "closeRule" /\ FaultStep /\ UNCHANGED lock
    BY <1>1, Zenon DEF removePolicyRoutes, At, FaultStep
  <2>2. proc[q].link = "qci1"
    BY <1>0, <2>1 DEF Shape
  <2>3. routes' \in BOOLEAN
    BY <1>0, <1>1, Zenon DEF removePolicyRoutes
  <2>4. ASSUME NEW v \in {"none", "foreign", kernel[Rule]},
               kernel[Rule] = "foreign" => v = "foreign", Keep(q, Rule, v, "closeLink")
        PROVE  \E r : Effect(q, r)
    BY <1>0, <2>1, <2>2, <2>3, <2>4, ClosingMove
  <2>5. CASE UNCHANGED kernel /\ To(q, "closeLink")
    <3>1. Keep(q, Rule, kernel[Rule], "closeLink")
      BY <1>0, <2>5 DEF Keep, TypeOK
    <3> QED
      BY <2>4, <3>1
  <2> QED
    BY <1>1, <2>4, <2>5, Zenon DEF removePolicyRoutes
<1>2. CASE deleteOwnedLink(q)
  <2> DEFINE o == <<"device", proc[q].link>>
  <2>1. proc[q].pc = "closeLink" /\ FaultStep /\ UNCHANGED lock
    BY <1>2 DEF deleteOwnedLink, At, FaultStep, Refused
  <2>2. o \in Objects /\ o[2] = proc[q].link
    BY <1>0, ObjectNames, Zenon
  <2>3. CASE kernel[o] = "ours" /\ DropDevice(o, "closeFilter", q)
    <3>1. Keep(q, o, "none", "closeFilter") /\ routes' = (routes /\ o # <<"device", "qci1">>)
      BY <2>3 DEF DropDevice
    <3>2. routes' \in BOOLEAN /\ (proc[q].link # "qci1" => routes' = routes)
      BY <1>0, <3>1, Zenon DEF Links
    <3> HIDE DEF o
    <3> QED
      BY <2>1, <2>2, <2>3, <3>1, <3>2, ClosingMove
  <2>4. CASE Refused(q, "closeFilter")
    <3>1. Keep(q, o, kernel[o], "closeFilter") /\ UNCHANGED routes
      BY <1>0, <2>2, <2>4 DEF Keep, Refused, TypeOK
    <3> HIDE DEF o
    <3> QED
      BY <1>0, <2>1, <2>2, <3>1, ClosingMove
  <2> QED
    BY <1>2, <2>3, <2>4 DEF deleteOwnedLink, Here
<1> QED
  BY <1>1, <1>2

LEMMA CloseOwnerEffect ==
    ASSUME IInv, NEW q \in Procs, closeOwner(q)
    PROVE  \E r : Effect(q, r)
<1> DEFINE r == [proc[q] EXCEPT !.links = proc[q].links \ {proc[q].link}, !.pc = "close"]
<1>0. /\ TypeOK /\ proc[q] \in ProcState /\ Shape(proc[q]) /\ proc[q].link \in Links
      /\ proc[q].links \subseteq Links /\ "close" \in Pcs
      /\ "close" \notin Setup \cup Policy \cup Closing \cup FilterMade
      /\ "closeOwner" \in Closing /\ "closeOwner" \notin Setup
  BY DEF IInv, TypeOK, ProcState, Pcs, Setup, Policy, Closing, FilterMade
<1>1. /\ proc[q].pc = "closeOwner" /\ proc' = [proc EXCEPT ![q] = r]
      /\ lock' = [lock EXCEPT ![proc[q].link] = Nobody] /\ UNCHANGED <<kernel, routes, faults>>
  BY Zenon DEF closeOwner, At
<1>2. r \in ProcState
  <2>1. proc[q].links \ {proc[q].link} \in SUBSET Links
    BY <1>0
  <2> QED
    BY <1>0, <2>1, Zenon DEF ProcState
<1>3. r.pc = "close" /\ r.link = proc[q].link /\ r.links = proc[q].links \ {proc[q].link}
  BY <1>0 DEF ProcState
<1> HIDE DEF r
<1>4. Shape(r)
  BY <1>0, <1>3 DEF Shape, Closing
<1>5. Owned(r) = proc[q].links \ {proc[q].link} /\ Owned(proc[q]) = proc[q].links
      /\ proc[q].link \in proc[q].links
  BY <1>0, <1>1, <1>3 DEF Owned, Shape
<1>6. \A l \in Links : /\ lock'[l] = q <=> l \in Owned(r)
                       /\ lock'[l] # lock[l] => {lock[l], lock'[l]} \subseteq {q, Nobody}
  BY <1>0, <1>1, <1>5, KernelOwnerAssumption DEF IInv, Fenced, TypeOK
<1>7. lock' \in [Links -> Procs \cup {Nobody}]
  BY <1>0, <1>1 DEF TypeOK
<1>8. faults.admin = 0 => Holds(r, kernel', routes')
  BY <1>0, <1>1, <1>3, Zenon DEF IInv, Holds
<1>9. Effect(q, r)
  BY <1>0, <1>1, <1>2, <1>4, <1>6, <1>7, <1>8 DEF Effect, TypeOK
<1> QED
  BY <1>9

LEMMA CrashEffect ==
    ASSUME IInv, NEW q \in Procs, Crash(q)
    PROVE  \E r : Effect(q, r)
<1>0. TypeOK
  BY DEF IInv
<1>1. /\ Blank \in ProcState /\ Blank.pc = "down" /\ Blank.link = "default"
      /\ Blank.links = {} /\ "down" \notin Setup \cup Policy \cup Closing \cup FilterMade
  BY DEF Blank, ProcState, Pcs, Links, Setup, Policy, Closing, FilterMade
<1>2. Shape(Blank) /\ Owned(Blank) = {}
  BY <1>1 DEF Shape, Owned
<1>3. /\ proc' = [proc EXCEPT ![q] = Blank]
      /\ lock' = [l \in Links |-> IF lock[l] = q THEN Nobody ELSE lock[l]]
      /\ UNCHANGED <<kernel, routes>>
  BY DEF Crash
<1>4. /\ lock' \in [Links -> Procs \cup {Nobody}]
      /\ \A l \in Links : /\ lock'[l] = q <=> l \in Owned(Blank)
                          /\ lock'[l] # lock[l] => {lock[l], lock'[l]} \subseteq {q, Nobody}
  BY <1>0, <1>2, <1>3, KernelOwnerAssumption DEF TypeOK
<1>5. Holds(Blank, kernel', routes')
  BY <1>1 DEF Holds
<1>6. /\ faults' \in [crashes : Nat, failing : Nat, undone : Nat, admin : Nat]
      /\ faults'.admin = faults.admin
  BY <1>0 DEF Crash, TypeOK
<1>7. Effect(q, Blank)
  BY <1>0, <1>1, <1>2, <1>3, <1>4, <1>5, <1>6 DEF Effect, TypeOK
<1> QED
  BY <1>7

-----------------------------------------------------------------------------
(* Every step of a process has an effect of its own only. *)
LEMMA StepEffect ==
    ASSUME IInv, NEW q \in Procs, Step(q) \/ Stop(q) \/ Crash(q)
    PROVE  \E r : Effect(q, r)
<1>1. CASE \/ Start(q) \/ acquireOwnerLease(q) \/ removeCrashLeftovers(q) \/ RemoveLink(q)
           \/ OpenSocket(q) \/ createPeerFirewall(q) \/ CreateLink(q) \/ Resolve(q)
           \/ setLinkAlias(q) \/ BringUp(q) \/ UndoLink(q) \/ UndoOwner(q) \/ CloseFilters(q)
  BY <1>1, StartEffect, AcquireEffect, RecoveryEffect, SetupQuietEffect, OpenLinkEffect,
     BringUpEffect, UndoOwnerEffect, CloseFiltersEffect
<1>2. CASE \/ ConfigureIPv4(q) \/ ConfigurePolicyIPv4Prefixes(q) \/ RemoveRule(q)
           \/ addPolicyIPv4Route(q) \/ addIPv4PolicyRule(q) \/ openKernelTFTClassifier(q)
           \/ createTableLocked(q) \/ openKernelPolicy(q) \/ Stop(q) \/ closeClassifier(q)
  BY <1>2, ConfigureEffect, PolicyEffect, AddRuleEffect
<1>3. CASE \/ Close(q) \/ removePolicyRoutes(q) \/ deleteOwnedLink(q) \/ closeOwner(q) \/ Crash(q)
  BY <1>3, CloseEffect, CloseLinkEffect, CloseOwnerEffect, CrashEffect
<1> QED
  BY <1>1, <1>2, <1>3 DEF Step

LEMMA AdministerInv ==
    ASSUME IInv, Administer
    PROVE  IInv' /\ faults'.admin > faults.admin
<1>0. TypeOK
  BY DEF IInv
<1>1. PICK o \in Objects, value \in {"none", "foreign"} :
        kernel' = [kernel EXCEPT ![o] = value] /\ routes' = (routes /\ o # <<"device", "qci1">>)
  BY Zenon DEF Administer
<1>2. UNCHANGED <<lock, proc>> /\ faults' = [faults EXCEPT !.admin = @ + 1]
  BY DEF Administer
<1>3. /\ faults' \in [crashes : Nat, failing : Nat, undone : Nat, admin : Nat]
      /\ faults'.admin = faults.admin + 1 /\ faults.admin \in Nat
  BY <1>0, <1>2 DEF TypeOK
<1>4. routes' \in BOOLEAN
  BY <1>0, <1>1, Zenon DEF TypeOK
<1>5. kernel' \in [Objects -> Marks] /\ \A x \in Objects : kernel'[x] = IF x = o THEN value ELSE kernel[x]
  BY <1>0, <1>1 DEF TypeOK, Marks
<1>6. TypeOK'
  BY <1>0, <1>2, <1>3, <1>4, <1>5 DEF TypeOK
<1>7. Fenced' /\ \A p \in Procs : Shape(proc'[p])
  BY <1>2 DEF IInv, Fenced
<1>8. faults'.admin # 0
  BY <1>3
<1> QED
  BY <1>3, <1>6, <1>7, <1>8 DEF IInv

LEMMA InitInv == Init => IInv
<1> SUFFICES ASSUME Init PROVE IInv
  OBVIOUS
<1>1. /\ Blank \in ProcState /\ Blank.pc = "down" /\ Blank.link = "default"
      /\ Blank.links = {} /\ "down" \notin Setup \cup Policy \cup Closing \cup FilterMade
  BY DEF Blank, ProcState, Pcs, Links, Setup, Policy, Closing, FilterMade
<1>2. Shape(Blank) /\ Owned(Blank) = {} /\ Holds(Blank, kernel, routes)
  BY <1>1 DEF Shape, Owned, Holds
<1>3. TypeOK
  BY <1>1, Zenon DEF Init, TypeOK, Marks
<1>4. Fenced
  BY <1>2, KernelOwnerAssumption DEF Init, Fenced
<1> QED
  BY <1>2, <1>3, <1>4 DEF Init, IInv

(* Every step keeps the invariant and the administrator's objects. *)
LEMMA NextInv ==
    ASSUME IInv, [Next]_vars
    PROVE  /\ IInv'
           /\ \/ UNCHANGED vars
              \/ \A o \in Objects : kernel[o] = "foreign" /\ kernel'[o] # "foreign" =>
                     faults'.admin > faults.admin
<1>1. CASE Administer
  BY <1>1, AdministerInv
<1>2. ASSUME NEW q \in Procs, Step(q) \/ Stop(q) \/ Crash(q)
      PROVE  /\ IInv'
             /\ \A o \in Objects : kernel[o] = "foreign" => kernel'[o] = "foreign"
  <2>1. PICK r : Effect(q, r)
    BY <1>2, StepEffect
  <2>2. \A o \in Objects : kernel[o] = "foreign" => kernel'[o] = "foreign"
    BY <2>1 DEF Effect
  <2> QED
    BY <2>1, <2>2, EffectInv
<1>3. CASE UNCHANGED vars
  BY <1>3 DEF vars, IInv, TypeOK, Fenced
<1> QED
  BY <1>1, <1>2, <1>3 DEF Next

(* The links, locks and objects of every process have their types, for any  *)
(* number of processes, crashes, failing calls and administrator's changes. *)
THEOREM OwnerTypeCorrect == Spec => []TypeOK
<1>1. IInv /\ [Next]_vars => IInv'
  BY NextInv
<1>2. IInv => TypeOK
  BY DEF IInv
<1> QED
  BY <1>1, <1>2, InitInv, PTL DEF Spec

(* No start, recovery, clean-up or stop of any process removes an object    *)
(* that does not carry the token of the installation.                       *)
THEOREM ForeignNeverTouched == Spec => ForeignUntouched
<1>1. IInv /\ [Next]_vars => IInv'
  BY NextInv
<1>2. IInv /\ [Next]_vars =>
        [\A o \in Objects : kernel[o] = "foreign" /\ kernel'[o] # "foreign" =>
             faults'.admin > faults.admin]_vars
  BY NextInv
<1> QED
  BY <1>1, <1>2, InitInv, PTL DEF Spec, ForeignUntouched

(* A process that serves has both devices, their filters, the rule, the     *)
(* routes and the classifier's table, whatever the other processes of the   *)
(* installation do: what it opened is fenced by the locks it holds.         *)
THEOREM ServingAlwaysHasItsObjects == Spec => []ServingHasItsObjects
<1>1. IInv /\ [Next]_vars => IInv'
  BY NextInv
<1>2. IInv => ServingHasItsObjects
  <2> SUFFICES ASSUME IInv, faults.admin = 0, NEW p \in Procs, At(p, "serving")
               PROVE  routes /\ \A o \in Objects : kernel[o] = "ours"
    BY DEF ServingHasItsObjects
  <2>1. /\ Shape(proc[p]) /\ Holds(proc[p], kernel, routes) /\ proc[p].pc = "serving"
        /\ "serving" \in Policy /\ "serving" \notin Closing
    BY DEF IInv, At, Policy, Closing
  <2>2. "qci1" \in proc[p].links /\ "default" \in proc[p].links
    BY <2>1 DEF Shape
  <2>3. \A l \in Links : kernel[<<"device", l>>] = "ours" /\ kernel[<<"filter", l>>] = "ours"
    BY <2>1, <2>2, Zenon DEF Holds, Links
  <2>4. routes /\ kernel[Rule] = "ours" /\ kernel[Table] = "ours"
    BY <2>1 DEF Holds
  <2>5. \A o \in Objects : \/ o = Rule \/ o = Table
                          \/ \E l \in Links : o = <<"device", l>> \/ o = <<"filter", l>>
    BY ObjectNames, Zenon
  <2> QED
    BY <2>3, <2>4, <2>5, Zenon
<1> QED
  BY <1>1, <1>2, InitInv, PTL DEF Spec
=============================================================================
