----------------------------- MODULE SpaceRuntime -----------------------------
(***************************************************************************)
(* The life of one space in pkg/space: New() and the setup it runs, with   *)
(* its phases recorded in the custom resource under optimistic             *)
(* concurrency, the resources it creates one API call at a time, and       *)
(* Delete(). Operators crash and restart anywhere; while a new version of  *)
(* the operator is rolled out, two of them work on the same space.         *)
(*                                                                         *)
(* Any API call may fail, and may fail after it took effect (its answer is *)
(* lost). The DNS record is outside the model: it is the last step of a    *)
(* setup, which succeeds or fails.                                         *)
(***************************************************************************)
EXTENDS Integers, Sequences

CONSTANTS
  Ops,       \* the operator processes
  Specs,     \* specs of the space: sets of the options of Options below
  MaxUid,    \* bound: times the space resource is created
  MaxRv      \* bound: resource version users may still change it at

Options == {"invalid", "project", "permissions", "tcp", "deleteHttp", "deleteTcp",
            "defaultHttp", "privateIngress", "dns"}

ASSUME SpaceAssumption ==
  /\ Specs \subseteq SUBSET Options
  /\ MaxUid \in Nat
  /\ MaxRv \in Nat

VARIABLES
  uid,     \* how many times the resource has been created
  rv,      \* its resource version; grows with every write
  phase,   \* the phase it records, or "absent"
  spec,    \* its spec
  certs,   \* the certificate secrets in the resource's namespace
  ns,      \* the space's namespace
  res,     \* what the space's namespace contains
  op,      \* each operator's SpaceRuntime, and where it stands
  begun,   \* history: the uids whose resources were begun to be created
  asked,   \* history: its spec when it was last recorded Active
  given,   \* history: the certificates there were when the space was created
  wiped    \* history: whether the namespace was deleted since then

crVars  == <<uid, rv, phase, spec, asked, given>>
nsVars  == <<ns, res, wiped>>
vars    == <<uid, rv, phase, spec, certs, ns, res, op, begun, asked, given, wiped>>

(* internalCreate(), one API call after the other.                         *)
MutSteps_DeleteFirst ==
  <<"getHttp", "getTcp", "namespace", "netPolicy", "role", "roleBinding",
    "deleteHttp", "copyHttp", "copyTcp", "deleteTcp", "ingress", "deployment",
    "service", "ingressAccount", "ingressRole", "ingressBinding", "ingressApp", "dns">>

Steps ==
  <<"getHttp", "getTcp", "namespace", "netPolicy", "role", "roleBinding",
    "copyHttp", "deleteHttp", "copyTcp", "deleteTcp", "ingress", "deployment",
    "service", "ingressAccount", "ingressRole", "ingressBinding", "ingressApp", "dns">>

(* The options that make internalCreate take a step; with none it always   *)
(* does. *)
OptionsOf(step) ==
  CASE step = "netPolicy" -> {"project"}
    [] step \in {"role", "roleBinding"} -> {"permissions"}
    [] step = "deleteHttp" -> {"deleteHttp"}
    [] step \in {"getTcp", "copyTcp"} -> {"tcp"}
    [] step = "deleteTcp" -> {"tcp", "deleteTcp"}
    [] step \in {"ingress", "deployment"} -> {"defaultHttp"}
    [] step \in {"ingressAccount", "ingressRole", "ingressBinding", "ingressApp"} ->
         {"privateIngress"}
    [] step = "dns" -> {"dns"}
    [] OTHER -> {}

Called(step, sp) == OptionsOf(step) \subseteq sp

(* The steps that create something in the namespace, or the namespace.     *)
Creations ==
  {"namespace", "netPolicy", "role", "roleBinding", "copyHttp", "copyTcp", "ingress",
   "deployment", "service", "ingressAccount", "ingressRole", "ingressBinding", "ingressApp"}

NoRuntime ==
  [pc |-> "none", uid |-> 0, rv |-> 0, spec |-> {}, status |-> "None", at |-> 0]

-----------------------------------------------------------------------------
(* Users, and the namespace controller of the API server.                  *)

CreateSpace(sp, secrets) ==
  /\ phase = "absent"
  /\ uid < MaxUid
  /\ uid' = uid + 1
  /\ rv' = rv + 1
  /\ phase' = "None"
  /\ spec' = sp
  /\ certs' = certs \cup secrets
  /\ asked' = {}
  /\ given' = certs'
  /\ wiped' = FALSE
  /\ UNCHANGED <<ns, res, op, begun>>

(* Any edit of the resource. It gives it a new version; the operator that  *)
(* has the space ignores it (Update() is empty).                           *)
ModifySpace(sp) ==
  /\ phase # "absent"
  /\ rv < MaxRv
  /\ rv' = rv + 1
  /\ spec' = sp
  /\ UNCHANGED <<uid, phase, certs, asked, given, nsVars, op, begun>>

DeleteSpace ==
  /\ phase # "absent"
  /\ phase' = "absent"
  /\ UNCHANGED <<uid, rv, spec, certs, asked, given, nsVars, op, begun>>

(* Somebody else creates or deletes a namespace of the space's name.       *)
ForeignNamespace ==
  /\ ns = "absent"
  /\ ns' = "active"
  /\ UNCHANGED <<crVars, certs, res, wiped, op, begun>>

DeleteNamespace ==
  /\ ns = "active"
  /\ ns' = "terminating"
  /\ wiped' = TRUE
  /\ UNCHANGED <<crVars, certs, res, op, begun>>

NamespaceGone ==
  /\ ns = "terminating"
  /\ ns' = "absent"
  /\ res' = {}
  /\ UNCHANGED <<crVars, certs, wiped, op, begun>>

-----------------------------------------------------------------------------
(* New() and setup().                                                      *)

At(o, pc) == op[o].pc = pc

(* setup() returns an error: New() records the failure, unless the status  *)
(* already says so. *)
Failed(r) ==
  IF r.status = "Failed" THEN [r EXCEPT !.pc = "ready"]
  ELSE [r EXCEPT !.pc = "failing", !.status = "Failed"]

(* New() of a copy of the resource: an invalid spec fails, and so does any *)
(* phase but none and Active. *)
MutSetUp_ResumeCreating(r) ==
  IF "invalid" \in r.spec THEN Failed(r)
  ELSE CASE r.status \in {"None", "Creating"} ->
              [r EXCEPT !.pc = "creating", !.status = "Creating"]
         [] r.status = "Active" -> [r EXCEPT !.pc = "ready"]
         [] OTHER -> Failed(r)

SetUp(r) ==
  IF "invalid" \in r.spec THEN Failed(r)
  ELSE CASE r.status = "None" -> [r EXCEPT !.pc = "creating", !.status = "Creating"]
         [] r.status = "Active" -> [r EXCEPT !.pc = "ready"]
         [] OTHER -> Failed(r)

New(o) ==
  /\ At(o, "none")
  /\ phase # "absent"
  /\ op' = [op EXCEPT ![o] =
              SetUp([pc |-> "none", uid |-> uid, rv |-> rv, spec |-> spec,
                     status |-> phase, at |-> 0])]
  /\ UNCHANGED <<crVars, certs, nsVars, begun>>

(* updateCRStatus(): the phase to record is Creating, Active or Failed.    *)
Recording(o) == op[o].pc \in {"creating", "activating", "failing"}

(* Where the runtime goes once the phase is recorded.                      *)
MutRecorded_NoStart(r) ==
  [r EXCEPT !.pc = IF r.pc = "creating" THEN "setup" ELSE "ready"]

Recorded(r) ==
  IF r.pc = "creating" THEN [r EXCEPT !.pc = "setup", !.at = 1]
  ELSE [r EXCEPT !.pc = "ready"]

(* The API server takes the write of a copy that is up to date only.       *)
MutLands_Unchecked(o) ==
  /\ phase # "absent"
  /\ phase' = op[o].status
  /\ rv' = rv + 1
  /\ asked' = IF phase' = "Active" THEN spec ELSE asked
  /\ UNCHANGED <<uid, spec, given>>

Lands(o) ==
  /\ phase # "absent"
  /\ op[o].rv = rv
  /\ phase' = op[o].status
  /\ rv' = rv + 1
  /\ asked' = IF phase' = "Active" THEN spec ELSE asked
  /\ UNCHANGED <<uid, spec, given>>

RecordPhase(o) ==
  /\ Recording(o)
  /\ Lands(o)
  /\ op' = [op EXCEPT ![o] = [Recorded(@) EXCEPT !.rv = rv']]
  /\ begun' = IF At(o, "creating") THEN begun \cup {op[o].uid} ELSE begun
  /\ UNCHANGED <<certs, nsVars>>

(* The write fails, or only its answer does: create() returns the error,   *)
(* and a failure to record a failure is just logged. *)
RecordFails(o) ==
  /\ Recording(o)
  /\ Lands(o) \/ UNCHANGED crVars
  /\ op' = [op EXCEPT ![o] = Failed(@)]
  /\ UNCHANGED <<certs, nsVars, begun>>

-----------------------------------------------------------------------------
(* internalCreate().                                                       *)

Step(o) == Steps[op[o].at]

(* What the API server lets a step do, and the effect it has.              *)
Possible(step) ==
  CASE step \in {"getHttp", "deleteHttp"} -> "http" \in certs
    [] step \in {"getTcp", "deleteTcp"} -> "tcp" \in certs
    [] step = "namespace" -> ns = "absent"
    [] step \in Creations \ {"namespace"} -> ns = "active" /\ step \notin res
    [] OTHER -> TRUE

Effect(step) ==
  /\ ns' = IF step = "namespace" THEN "active" ELSE ns
  /\ res' = IF step \in Creations THEN res \cup {step} ELSE res
  /\ certs' = CASE step = "deleteHttp" -> certs \ {"http"}
                [] step = "deleteTcp" -> certs \ {"tcp"}
                [] OTHER -> certs
  /\ UNCHANGED wiped

(* The runtime after its step: the next one, or the phase Active.          *)
Advanced(r) ==
  IF r.at = Len(Steps) THEN [r EXCEPT !.pc = "activating", !.status = "Active"]
  ELSE [r EXCEPT !.at = @ + 1]

Skip(o) ==
  /\ At(o, "setup")
  /\ ~Called(Step(o), op[o].spec)
  /\ op' = [op EXCEPT ![o] = Advanced(@)]
  /\ UNCHANGED <<crVars, certs, nsVars, begun>>

Perform(o) ==
  /\ At(o, "setup")
  /\ Called(Step(o), op[o].spec)
  /\ Possible(Step(o))
  /\ Effect(Step(o))
  /\ op' = [op EXCEPT ![o] = Advanced(@)]
  /\ UNCHANGED <<crVars, begun>>

(* The call fails, or only its answer does: internalCreate returns the     *)
(* error and leaves what it created. The error of the role binding of the  *)
(* private ingress controller is overwritten, and the setup goes on. *)
MutStepFails_Ignored(o) ==
  /\ At(o, "setup")
  /\ Called(Step(o), op[o].spec)
  /\ \/ Possible(Step(o)) /\ Effect(Step(o))
     \/ UNCHANGED <<certs, nsVars>>
  /\ op' = [op EXCEPT ![o] = IF Step(o) = "copyTcp" THEN Advanced(@) ELSE Failed(@)]
  /\ UNCHANGED <<crVars, begun>>

StepFails(o) ==
  /\ At(o, "setup")
  /\ Called(Step(o), op[o].spec)
  /\ \/ Possible(Step(o)) /\ Effect(Step(o))
     \/ UNCHANGED <<certs, nsVars>>
  /\ op' = [op EXCEPT ![o] =
              IF Step(o) = "ingressBinding" THEN Advanced(@) ELSE Failed(@)]
  /\ UNCHANGED <<crVars, begun>>

-----------------------------------------------------------------------------
(* Delete(), once the watch loop learns that the resource is gone: delete  *)
(* the namespace of the space's name, whoever created it, and the DNS      *)
(* record; failures are logged. *)
Delete(o) ==
  /\ At(o, "ready")
  /\ phase = "absent" \/ uid # op[o].uid
  /\ \/ ns = "active" /\ ns' = "terminating" /\ wiped' = TRUE
     \/ UNCHANGED <<ns, wiped>>
  /\ op' = [op EXCEPT ![o] = NoRuntime]
  /\ UNCHANGED <<crVars, certs, res, begun>>

(* The process dies, or its space controller is restarted.                 *)
Crash(o) ==
  /\ ~At(o, "none")
  /\ op' = [op EXCEPT ![o] = NoRuntime]
  /\ UNCHANGED <<crVars, certs, nsVars, begun>>

-----------------------------------------------------------------------------
Init ==
  /\ uid = 0
  /\ rv = 0
  /\ phase = "absent"
  /\ spec = {}
  /\ certs = {}
  /\ ns \in {"absent", "active"}
  /\ res = {}
  /\ op = [o \in Ops |-> NoRuntime]
  /\ begun = {}
  /\ asked = {}
  /\ given = {}
  /\ wiped = FALSE

Users ==
  \/ \E sp \in Specs, secrets \in SUBSET {"http", "tcp"} : CreateSpace(sp, secrets)
  \/ \E sp \in Specs : ModifySpace(sp)
  \/ DeleteSpace
  \/ ForeignNamespace
  \/ DeleteNamespace
  \/ NamespaceGone

Operator(o) ==
  \/ New(o)
  \/ RecordPhase(o)
  \/ RecordFails(o)
  \/ Skip(o)
  \/ Perform(o)
  \/ StepFails(o)
  \/ Delete(o)
  \/ Crash(o)

Next == Users \/ \E o \in Ops : Operator(o)

Spec == Init /\ [][Next]_vars

-----------------------------------------------------------------------------
(* Properties.                                                             *)

Phases == {"None", "Creating", "Active", "Failed"}

Runtime ==
  [pc : {"none", "creating", "setup", "activating", "failing", "ready"},
   uid : Nat, rv : Nat, spec : SUBSET Options, status : Phases, at : 0..Len(Steps)]

(* Types of the variables. *)
TypeOK ==
  /\ uid \in Nat
  /\ rv \in Nat
  /\ phase \in Phases \cup {"absent"}
  /\ spec \in SUBSET Options
  /\ certs \in SUBSET {"http", "tcp"}
  /\ ns \in {"absent", "active", "terminating"}
  /\ res \in SUBSET Creations
  /\ op \in [Ops -> Runtime]
  /\ \A o \in Ops : At(o, "setup") => op[o].at # 0
  /\ begun \in SUBSET Nat
  /\ asked \in SUBSET Options
  /\ given \in SUBSET {"http", "tcp"}
  /\ wiped \in BOOLEAN

(* The resources of one space resource are begun to be created once at     *)
(* most, by one operator, whatever crashes, restarts and answers are lost: *)
(* create() records Creating before it creates anything, and gives up      *)
(* where it cannot. *)
CreateOnce ==
  [][\A o \in Ops :
       At(o, "creating") /\ op'[o].pc = "setup" => op[o].uid \notin begun]_vars

(* No two operators set up one space resource at the same time, however    *)
(* late either of them read it (create, updateCRStatus). *)
SettingUp(o) == op[o].pc \in {"setup", "activating"}

OneSetup ==
  \A o, p \in Ops : SettingUp(o) /\ SettingUp(p) /\ op[o].uid = op[p].uid => o = p

(* A space is a resource as Lifecycle describes it, with all the copies,   *)
(* restarts and lost answers there are: its phase moves None, Creating,    *)
(* Active, or to Failed for good, and an operator with an old copy never   *)
(* undoes another's verdict nor records Active what nobody created (setup, *)
(* create, updateCRStatus). *)
Life == INSTANCE Lifecycle WITH invalid <- "invalid" \in spec

ImplementsLifecycle == Life!Spec

(* A space is recorded Active only with everything in its namespace that   *)
(* its spec asked for at that time (no later edit is acted upon), but for  *)
(* the role binding of the private ingress controller, whose failure       *)
(* createPrivateIngressController overlooks. *)
ActiveIsComplete ==
  phase = "Active" /\ ~wiped =>
    \A step \in Creations \ {"ingressBinding"} : Called(step, asked) => step \in res

(* No certificate a user gave a space gets lost: until the namespace is    *)
(* deleted, it is in its secret or in the copy of it (internalCreate       *)
(* copies before it deletes). It does not hold once the resource is        *)
(* recreated with a secret that a setup of the deleted one still removes.  *)
CopyOf(k) == IF k = "http" THEN "copyHttp" ELSE "copyTcp"

CertsAreKept == \A k \in given : k \in certs \/ CopyOf(k) \in res \/ wiped
=============================================================================
