---------------------------- MODULE KernelOwner ----------------------------
(***************************************************************************)
(* How PGW-U owns kernel objects that outlive it: two GTP devices with     *)
(* their peer filters, the rule and routes of the QCI 1 device and the     *)
(* classifier's nftables table.  Each device is fenced by a locked file    *)
(* whose token marks the objects.  A start removes what a crashed process  *)
(* left; an object without the token belongs to the administrator.         *)
(*                                                                         *)
(* Every kernel call is a step.  The policy rule is the one object that    *)
(* bears no token.                                                         *)
(***************************************************************************)
EXTENDS Integers

CONSTANTS
    Procs,             \* processes of one installation
    MaxCrashes, MaxFailing, MaxAdmin,
    AliasAtCreation,   \* the kernel takes the alias from the creating message
    LookupFails        \* the look-up of the device just created may fail

Links == {"default", "qci1"}
Nobody == "nobody"
Objects == {<<"device", l>> : l \in Links} \cup {<<"filter", l>> : l \in Links}
             \cup {<<"rule", "qci1">>, <<"table", "qci1">>}

ASSUME KernelOwnerAssumption == Nobody \notin Procs /\ {MaxCrashes, MaxFailing, MaxAdmin} \subseteq Nat

VARIABLES
    kernel,   \* object -> none, ours (with the token), unmarked, foreign
    routes,   \* the policy table has the routes through the QCI 1 device
    lock,     \* link -> holder of the lock of its ownership file
    proc, faults

vars == <<kernel, routes, lock, proc, faults>>

Blank == [pc |-> "down", link |-> "default", links |-> {}, removed |-> {}, found |-> {}, policy |-> FALSE]

Init ==
    /\ kernel = [o \in Objects |-> "none"] /\ routes = FALSE
    /\ lock = [l \in Links |-> Nobody]
    /\ proc = [p \in Procs |-> Blank]
    /\ faults = [crashes |-> 0, failing |-> 0, undone |-> 0, admin |-> 0]

-----------------------------------------------------------------------------
Here(p, kind) == <<kind, proc[p].link>>
At(p, pc) == proc[p].pc = pc
To(p, pc) == proc' = [proc EXCEPT ![p].pc = pc]
Keep(p, o, value, pc) == kernel' = [kernel EXCEPT ![o] = value] /\ To(p, pc)
Fails == faults.failing < MaxFailing /\ faults' = [faults EXCEPT !.failing = @ + 1]
(* A failed call of a clean-up: its error is joined and the clean-up goes on. *)
FailsUndone == faults.failing < MaxFailing /\ faults' = [faults EXCEPT !.failing = @ + 1, !.undone = @ + 1]
Refused(p, pc) == To(p, pc) /\ UNCHANGED <<kernel, routes, lock>>
(* Deleting a device takes its routes along. *)
DropDevice(o, pc, p) == Keep(p, o, "none", pc) /\ routes' = (routes /\ o # <<"device", "qci1">>)

Start(p) == At(p, "down") /\ To(p, "acquire") /\ UNCHANGED <<kernel, routes, lock, faults>>

(* Mutant: the lock of the file is not tried. *)
acquireUnlocked(p) ==
    /\ At(p, "acquire")
    /\ lock' = [lock EXCEPT ![proc[p].link] = p] /\ To(p, "inspect")
    /\ UNCHANGED <<kernel, routes, faults>>
acquireOwnerLease(p) ==
    /\ At(p, "acquire")
    /\ \/ /\ lock[proc[p].link] = Nobody
          /\ lock' = [lock EXCEPT ![proc[p].link] = p] /\ To(p, "inspect")
          /\ UNCHANGED <<kernel, routes, faults>>
       \/ /\ lock[proc[p].link] # Nobody
          /\ Refused(p, "close") /\ UNCHANGED faults

Recovering(found) ==
    IF "device" \in found THEN "removeLink" ELSE IF "filter" \in found THEN "removeFilter" ELSE "socket"
Present(p) == {kind \in {"device", "filter"} : kernel[Here(p, kind)] # "none"}

(* Both objects are verified before either is removed. *)
removeCrashLeftovers(p) ==
    /\ At(p, "inspect")
    /\ \/ /\ \A kind \in Present(p) : kernel[Here(p, kind)] = "ours"
          /\ proc' = [proc EXCEPT ![p].found = Present(p), ![p].pc = Recovering(Present(p))]
          /\ UNCHANGED <<kernel, routes, lock, faults>>
       \/ /\ \E kind \in Present(p) : kernel[Here(p, kind)] # "ours"
          /\ Refused(p, "undoOwner") /\ UNCHANGED faults
       \/ Fails /\ Refused(p, "undoOwner")

(* By index: another device of the same name is another index. *)
RemoveLink(p) ==
    /\ At(p, "removeLink")
    /\ \/ /\ kernel[Here(p, "device")] \in {"ours", "unmarked"}
          /\ kernel' = [kernel EXCEPT ![Here(p, "device")] = "none"]
          /\ routes' = (routes /\ proc[p].link # "qci1")
          /\ proc' = [proc EXCEPT ![p].removed = @ \cup {proc[p].link}, ![p].found = @ \ {"device"},
                                  ![p].pc = Recovering(proc[p].found \ {"device"})]
          /\ UNCHANGED <<lock, faults>>
       \/ kernel[Here(p, "device")] \in {"none", "foreign"} /\ Refused(p, "undoOwner") /\ UNCHANGED faults
       \/ Fails /\ Refused(p, "undoOwner")

(* peerFirewall.Close: a table that is gone is closed, a foreign one stays.  *)
closeFilter(p, pc, next, onError, Failing) ==
    /\ At(p, pc)
    /\ \/ /\ kernel[Here(p, "filter")] # "foreign"
          /\ Keep(p, Here(p, "filter"), "none", next)
          /\ UNCHANGED <<routes, lock, faults>>
       \/ kernel[Here(p, "filter")] = "foreign" /\ Refused(p, onError) /\ UNCHANGED faults
       \/ Failing /\ Refused(p, onError)

OpenSocket(p) ==
    /\ At(p, "socket")
    /\ \/ Refused(p, "createFilter") /\ UNCHANGED faults
       \/ Fails /\ Refused(p, "undoOwner")

createPeerFirewall(p) ==
    /\ At(p, "createFilter")
    /\ \/ /\ kernel[Here(p, "filter")] = "none"
          /\ Keep(p, Here(p, "filter"), "ours", "createLink")
          /\ UNCHANGED <<routes, lock, faults>>
       \/ kernel[Here(p, "filter")] # "none" /\ Refused(p, "undoOwner") /\ UNCHANGED faults
       \/ Fails /\ Refused(p, "undoOwner")

CreateLink(p) ==
    /\ At(p, "createLink")
    /\ \/ /\ kernel[Here(p, "device")] = "none"
          /\ Keep(p, Here(p, "device"), IF AliasAtCreation THEN "ours" ELSE "unmarked", "resolve")
          /\ UNCHANGED <<routes, lock, faults>>
       \/ kernel[Here(p, "device")] # "none" /\ Refused(p, "undoFilter") /\ UNCHANGED faults
       \/ Fails /\ Refused(p, "undoFilter")
(* A failed look-up returns without removing the device. *)
Resolve(p) ==
    /\ At(p, "resolve")
    /\ \/ Refused(p, "setAlias") /\ UNCHANGED faults
       \/ LookupFails /\ Fails /\ Refused(p, "undoFilter")
setLinkAlias(p) ==
    /\ At(p, "setAlias")
    /\ \/ /\ kernel[Here(p, "device")] \in {"ours", "unmarked"}
          /\ Keep(p, Here(p, "device"), "ours", "bringUp")
          /\ UNCHANGED <<routes, lock, faults>>
       \/ kernel[Here(p, "device")] \in {"none", "foreign"} /\ Refused(p, "undoLink") /\ UNCHANGED faults
       \/ Fails /\ Refused(p, "undoLink")
(* IPv6 off, link up, verify, register. *)
BringUp(p) ==
    /\ At(p, "bringUp")
    /\ \/ /\ kernel[Here(p, "device")] = "ours"
          /\ proc' = [proc EXCEPT ![p].links = @ \cup {proc[p].link},
                                  ![p].pc = IF proc[p].link = "qci1" THEN "policy" ELSE "configure"]
          /\ UNCHANGED <<kernel, routes, lock, faults>>
       \/ kernel[Here(p, "device")] # "ours" /\ Refused(p, "undoLink") /\ UNCHANGED faults
       \/ Fails /\ Refused(p, "undoLink")

UndoLink(p) ==
    /\ At(p, "undoLink")
    /\ \/ /\ kernel[Here(p, "device")] \in {"ours", "unmarked"}
          /\ DropDevice(Here(p, "device"), "undoFilter", p) /\ UNCHANGED <<lock, faults>>
       \/ kernel[Here(p, "device")] \in {"none", "foreign"} /\ Refused(p, "undoFilter") /\ UNCHANGED faults
       \/ FailsUndone /\ Refused(p, "undoFilter")
UndoOwner(p) ==
    /\ At(p, "undoOwner")
    /\ lock' = [lock EXCEPT ![proc[p].link] = Nobody] /\ To(p, "close")
    /\ UNCHANGED <<kernel, routes, faults>>

-----------------------------------------------------------------------------
(* OpenKernel: addresses of the default link, then the QCI 1 link. *)
ConfigureIPv4(p) ==
    /\ At(p, "configure")
    /\ \/ /\ kernel[Here(p, "device")] = "ours"
          /\ proc' = [proc EXCEPT ![p].link = "qci1", ![p].pc = "acquire"]
          /\ UNCHANGED <<kernel, routes, lock, faults>>
       \/ kernel[Here(p, "device")] # "ours" /\ Refused(p, "close") /\ UNCHANGED faults
       \/ Fails /\ Refused(p, "close")

Rule == <<"rule", "qci1">>
Table == <<"table", "qci1">>

(* Mutant: a rule that is there is always refused. *)
neverReclaim(p) ==
    /\ At(p, "policy")
    /\ Refused(p, IF ~routes /\ kernel[Rule] = "none" THEN "addRoutes" ELSE "close") /\ UNCHANGED faults
(* An exact rule is reclaimed only if this start removed a stale link. *)
ConfigurePolicyIPv4Prefixes(p) ==
    /\ At(p, "policy")
    /\ \/ /\ kernel[Here(p, "device")] = "ours" /\ ~routes /\ kernel[Rule] # "foreign"
          /\ Refused(p, IF kernel[Rule] = "none" THEN "addRoutes"
                        ELSE IF "qci1" \in proc[p].removed THEN "removeRule" ELSE "close")
          /\ UNCHANGED faults
       \/ /\ kernel[Here(p, "device")] # "ours" \/ routes \/ kernel[Rule] = "foreign"
          /\ Refused(p, "close") /\ UNCHANGED faults
       \/ Fails /\ Refused(p, "close")
RemoveRule(p) ==
    /\ At(p, "removeRule")
    /\ \/ /\ Keep(p, Rule, IF kernel[Rule] = "foreign" THEN "foreign" ELSE "none", "addRoutes")
          /\ UNCHANGED <<routes, lock, faults>>
       \/ Fails /\ Refused(p, "close")
addPolicyIPv4Route(p) ==
    /\ At(p, "addRoutes")
    /\ \/ /\ kernel[Here(p, "device")] = "ours" /\ routes' = TRUE /\ To(p, "addRule")
          /\ UNCHANGED <<kernel, lock, faults>>
       \/ kernel[Here(p, "device")] # "ours" /\ Refused(p, "close") /\ UNCHANGED faults
       \/ Fails /\ Refused(p, "close")
(* A rule that cannot be added takes the routes back. *)
addIPv4PolicyRule(p) ==
    /\ At(p, "addRule")
    /\ \/ /\ kernel[Rule] = "none"
          /\ kernel' = [kernel EXCEPT ![Rule] = "ours"]
          /\ proc' = [proc EXCEPT ![p].policy = TRUE, ![p].pc = "openTable"]
          /\ UNCHANGED <<routes, lock, faults>>
       \/ /\ kernel[Rule] # "none" /\ routes' = FALSE /\ To(p, "close")
          /\ UNCHANGED <<kernel, lock, faults>>
       \/ Fails /\ routes' = FALSE /\ To(p, "close") /\ UNCHANGED <<kernel, lock>>

openKernelTFTClassifier(p) ==
    /\ At(p, "openTable")
    /\ \/ kernel[Table] # "foreign" /\ Keep(p, Table, "none", "createTable") /\ UNCHANGED <<routes, lock, faults>>
       \/ kernel[Table] = "foreign" /\ Refused(p, "close") /\ UNCHANGED faults
       \/ Fails /\ Refused(p, "close")
(* One transaction, which an existing table fails. *)
createTableLocked(p) ==
    /\ At(p, "createTable")
    /\ \/ kernel[Table] = "none" /\ Keep(p, Table, "ours", "attach") /\ UNCHANGED <<routes, lock, faults>>
       \/ kernel[Table] # "none" /\ Refused(p, "close") /\ UNCHANGED faults
       \/ Fails /\ Refused(p, "close")
(* The programs; a failure closes the policy, its table included. *)
openKernelPolicy(p) ==
    /\ At(p, "attach")
    /\ \/ Refused(p, "serving") /\ UNCHANGED faults
       \/ Fails /\ Refused(p, "closeTable")

Stop(p) == At(p, "serving") /\ Refused(p, "closeTable") /\ UNCHANGED faults

closeClassifier(p) ==
    /\ At(p, "closeTable")
    /\ \/ kernel[Table] # "foreign" /\ Keep(p, Table, "none", "close") /\ UNCHANGED <<routes, lock, faults>>
       \/ kernel[Table] = "foreign" /\ Refused(p, "close") /\ UNCHANGED faults
       \/ FailsUndone /\ Refused(p, "close")

(* Controller.Close, link by link in any order; then the process exits. *)
Close(p) ==
    /\ At(p, "close")
    /\ \/ \E l \in proc[p].links :
             proc' = [proc EXCEPT ![p].link = l,
                          ![p].pc = IF l = "qci1" /\ proc[p].policy THEN "closeRule" ELSE "closeLink"]
       \/ proc[p].links = {} /\ proc' = [proc EXCEPT ![p] = Blank]
    /\ UNCHANGED <<kernel, routes, lock, faults>>
removePolicyRoutes(p) ==
    /\ At(p, "closeRule")
    /\ \/ /\ Keep(p, Rule, IF kernel[Rule] = "foreign" THEN "foreign" ELSE "none", "closeLink")
          /\ routes' = FALSE /\ UNCHANGED <<lock, faults>>
       \/ FailsUndone /\ routes' \in {routes, FALSE} /\ To(p, "closeLink") /\ UNCHANGED <<kernel, lock>>
(* Mutant: the device goes by its name, whoever marked it. *)
deleteByName(p) ==
    /\ At(p, "closeLink")
    /\ DropDevice(Here(p, "device"), "closeFilter", p) /\ UNCHANGED <<lock, faults>>
deleteOwnedLink(p) ==
    /\ At(p, "closeLink")
    /\ \/ kernel[Here(p, "device")] = "ours" /\ DropDevice(Here(p, "device"), "closeFilter", p) /\ UNCHANGED <<lock, faults>>
       \/ kernel[Here(p, "device")] # "ours" /\ Refused(p, "closeFilter") /\ UNCHANGED faults
       \/ FailsUndone /\ Refused(p, "closeFilter")
closeOwner(p) ==
    /\ At(p, "closeOwner")
    /\ lock' = [lock EXCEPT ![proc[p].link] = Nobody]
    /\ proc' = [proc EXCEPT ![p].links = @ \ {proc[p].link}, ![p].pc = "close"]
    /\ UNCHANGED <<kernel, routes, faults>>

CloseFilters(p) ==
    \/ closeFilter(p, "removeFilter", "socket", "undoOwner", Fails)
    \/ closeFilter(p, "undoFilter", "undoOwner", "undoOwner", FailsUndone)
    \/ closeFilter(p, "closeFilter", "closeOwner", "closeOwner", FailsUndone)

(* SIGKILL: the kernel releases the locks and keeps the rest. *)
Crash(p) ==
    /\ ~At(p, "down") /\ faults.crashes < MaxCrashes
    /\ faults' = [faults EXCEPT !.crashes = @ + 1]
    /\ proc' = [proc EXCEPT ![p] = Blank]
    /\ lock' = [l \in Links |-> IF lock[l] = p THEN Nobody ELSE lock[l]]
    /\ UNCHANGED <<kernel, routes>>

(* The administrator removes an object or makes one of the same name. *)
Administer ==
    /\ faults.admin < MaxAdmin /\ faults' = [faults EXCEPT !.admin = @ + 1]
    /\ \E o \in Objects, value \in {"none", "foreign"} :
          /\ kernel[o] # value /\ kernel' = [kernel EXCEPT ![o] = value]
          /\ routes' = (routes /\ o # <<"device", "qci1">>)
    /\ UNCHANGED <<lock, proc>>

Step(p) ==
    \/ Start(p) \/ acquireOwnerLease(p) \/ removeCrashLeftovers(p) \/ RemoveLink(p)
    \/ OpenSocket(p) \/ createPeerFirewall(p) \/ CreateLink(p) \/ Resolve(p) \/ setLinkAlias(p)
    \/ BringUp(p) \/ UndoLink(p) \/ UndoOwner(p) \/ ConfigureIPv4(p)
    \/ ConfigurePolicyIPv4Prefixes(p) \/ RemoveRule(p) \/ addPolicyIPv4Route(p) \/ addIPv4PolicyRule(p)
    \/ openKernelTFTClassifier(p) \/ createTableLocked(p) \/ openKernelPolicy(p)
    \/ closeClassifier(p) \/ Close(p) \/ removePolicyRoutes(p) \/ deleteOwnedLink(p) \/ closeOwner(p)
    \/ CloseFilters(p)

Next == Administer \/ \E p \in Procs : Step(p) \/ Stop(p) \/ Crash(p)
Spec == Init /\ [][Next]_vars
(* The service manager starts a process that is down, and processes run. *)
FairSpec == Spec /\ \A p \in Procs : WF_vars(Step(p))

-----------------------------------------------------------------------------
Marks == {"none", "ours", "unmarked", "foreign"}
Pcs ==
    {"down", "acquire", "inspect", "removeLink", "removeFilter", "socket", "createFilter",
     "createLink", "resolve", "setAlias", "bringUp", "undoLink", "undoFilter", "undoOwner",
     "configure", "policy", "removeRule", "addRoutes", "addRule", "openTable", "createTable",
     "attach", "serving", "closeTable", "close", "closeRule", "closeLink", "closeFilter",
     "closeOwner"}
ProcState ==
    [pc : Pcs, link : Links, links : SUBSET Links, removed : SUBSET Links,
     found : SUBSET {"device", "filter"}, policy : BOOLEAN]

(* Types; every object but a device bears its mark from the beginning.      *)
TypeOK ==
    /\ kernel \in [Objects -> Marks]
    /\ \A o \in Objects : o[1] # "device" => kernel[o] # "unmarked"
    /\ routes \in BOOLEAN /\ lock \in [Links -> Procs \cup {Nobody}]
    /\ proc \in [Procs -> ProcState]
    /\ faults \in [crashes : Nat, failing : Nat, undone : Nat, admin : Nat]

(* No start, recovery, clean-up or stop removes an object that does not     *)
(* carry the token of this installation.                                    *)
ForeignUntouched ==
    [][\A o \in Objects : kernel[o] = "foreign" /\ kernel'[o] # "foreign" => faults'.admin > faults.admin]_vars

(* A process that serves has all its objects, whatever another process of   *)
(* the same installation does: starts, recovers, fails, crashes.            *)
ServingHasItsObjects ==
    faults.admin = 0 => \A p \in Procs : At(p, "serving") =>
      routes /\ \A o \in Objects : kernel[o] = "ours"

(* A stop, or a start that fails at any call, leaves nothing in the kernel, *)
(* unless a call of the clean-up itself fails.                              *)
NothingLeft ==
    faults.crashes = 0 /\ faults.admin = 0 /\ faults.undone = 0 /\ (\A p \in Procs : At(p, "down")) =>
      ~routes /\ \A o \in Objects : kernel[o] = "none"

(* After any crash the service comes back: a restart removes what the       *)
(* process left.                                                            *)
ServesAgain == \A p \in Procs : []<>At(p, "serving")
=============================================================================
