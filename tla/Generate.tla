------------------------------ MODULE Generate -------------------------------
(* GenerateResources (src/pkg/app/generate.go): the Kubernetes objects of  *)
(* an app in a space. One step per stage and per turn of its two loops;    *)
(* createStunnel's and the egress loop's side-cars are handed to           *)
(* AddStunnelToPod (src/pkg/k8sutil/stunnel.go). Certificates, paths and   *)
(* host names are there or not; ports and indices are numbers.             *)
EXTENDS Integers, Sequences, Functions

CONSTANTS
  SpaceSpecs,   \* the spaces' specs considered
  AppSpecs      \* the apps' specs considered

TlsPort == 443
SpringboardPort == 6789

SpaceSpec == [domain : BOOLEAN, httpCert : BOOLEAN, tcpCert : BOOLEAN,
              reserved : BOOLEAN, encryptHttp : BOOLEAN]

EndpointSpec == [name : STRING, port : Int, metrics : BOOLEAN, path : BOOLEAN, tlsListenPort : Nat,
                 cert : BOOLEAN, noTermination : BOOLEAN, noClientVerify : BOOLEAN,
                 localhostOnly : BOOLEAN]

TlsEgress == [cert : BOOLEAN, dest : {"none", "fqdn", "endpoint"}, localPort : Nat, targetPort : Nat,
              delay : BOOLEAN, noVerify : BOOLEAN]

AppSpec == [job : BOOLEAN, firstListenPort : Nat, permissions : BOOLEAN, account : BOOLEAN,
            domainEnv : BOOLEAN, endpoints : Seq(EndpointSpec), egresses : Seq(TlsEgress)]

ASSUME SpecsAssumption ==
  /\ SpaceSpecs \subseteq SpaceSpec
  /\ AppSpecs \subseteq AppSpec

VARIABLES
  space, app,     \* the arguments
  pc, i,          \* the stage, and the turn of its loop
  pod,            \* podSpec: the deep copy of the app's
  stunnelIndex,
  objects,        \* the objects generated so far
  sidecars        \* what AddStunnelToPod was asked to add, in this order

vars == <<space, app, pc, i, pod, stunnelIndex, objects, sidecars>>
args == <<space, app>>

-----------------------------------------------------------------------------
(* Validation.                                                             *)

ValidSpace == space.domain /\ space.httpCert /\ ~space.reserved

(* The space's TCP certificate is asked for even where it is not used: by  *)
(* a metrics endpoint, one with its own, and one without termination. *)
ValidEndpoint(e) ==
  /\ e.port # 0
  /\ e.path \/ space.tcpCert
  /\ ~(e.path /\ e.noClientVerify)

ValidApp == \A k \in DOMAIN app.endpoints : ValidEndpoint(app.endpoints[k])

-----------------------------------------------------------------------------
(* The pod and its permissions.                                            *)

AccountName(p) == IF p.account = "" THEN "app" ELSE p.account

WithDomain(p) == [p EXCEPT !.env = IF app.domainEnv THEN @ + 1 ELSE @]

WithAccount(p) == [p EXCEPT !.account = IF app.permissions THEN AccountName(p) ELSE @]

MutRBAC_AlwaysAccount(p) ==
  IF ~app.permissions THEN <<>>
  ELSE <<[kind |-> "ServiceAccount", name |-> AccountName(p)],
         [kind |-> "Role", name |-> AccountName(p)],
         [kind |-> "RoleBinding", name |-> AccountName(p)]>>

RBAC(p) ==
  IF ~app.permissions THEN <<>>
  ELSE (IF p.account = "" THEN <<[kind |-> "ServiceAccount", name |-> "app"]>> ELSE <<>>)
       \o <<[kind |-> "Role", name |-> AccountName(p)],
            [kind |-> "RoleBinding", name |-> AccountName(p)]>>

-----------------------------------------------------------------------------
(* Side-cars.                                                              *)

(* stunnelEnvVars and InsertStunnel: a container, and a volume for its     *)
(* certificate. *)
Stunnel(name, listen, verify, connect, secret, client, delay, index) ==
  [name |-> name, listen |-> listen, verify |-> verify, connect |-> connect,
   secret |-> secret, client |-> client, delay |-> client /\ delay,
   springboard |-> SpringboardPort + index]

InsertStunnel(volumes, containers, s) ==
  <<Append(volumes, s.secret), Append(containers, s.name)>>

(* InsertStunnel's result is dropped: the pod stays as it is. *)
AddStunnelToPod(p, s) ==
  LET inserted == InsertStunnel(p.volumes, p.containers, s) IN p

-----------------------------------------------------------------------------
(* Endpoints.                                                              *)

TcpOverTls(e) == ~e.metrics /\ ~e.path /\ ~e.noTermination
HttpOverTls(e) == ~e.metrics /\ e.path /\ space.encryptHttp

SecretName(e) ==
  CASE e.cert -> "own"
    [] ~e.cert /\ e.path /\ space.httpCert -> "http"
    [] ~e.cert /\ ~e.path /\ space.tcpCert -> "tcp"
    [] OTHER -> ""

(* The endpoint gets a side-car that ends TLS for it. *)
Terminated(e) == TcpOverTls(e) \/ HttpOverTls(e)

MutCannotServe_NoPortCheck(e) == Terminated(e) /\ SecretName(e) = ""

CannotServe(e) == e.port < 1 \/ (Terminated(e) /\ SecretName(e) = "")

BasePort == IF app.firstListenPort = 0 THEN TlsPort ELSE app.firstListenPort

ListenPort(e) == IF e.tlsListenPort # 0 THEN e.tlsListenPort ELSE BasePort + stunnelIndex

IngressStunnel(e) ==
  Stunnel(<<"stunnel-ingress", stunnelIndex>>, ListenPort(e),
          IF e.path THEN e.cert ELSE ~e.noClientVerify, <<"", e.port>>,
          SecretName(e), FALSE, FALSE, stunnelIndex)

ServicePort(e) == IF Terminated(e) THEN TlsPort ELSE e.port

MutTargetPort_NextIndex(e) ==
  IF Terminated(e) /\ e.tlsListenPort = 0 THEN BasePort + stunnelIndex + 1 ELSE e.port

TargetPort(e) == IF Terminated(e) THEN ListenPort(e) ELSE e.port

Service(e) ==
  <<[kind |-> "Service", name |-> e.name, port |-> ServicePort(e), target |-> TargetPort(e)]>>

MutHTTPIngress_ClearPort(e) ==
  IF e.path
  THEN <<[kind |-> "Ingress", name |-> e.name, class |-> "nginx", service |-> e.name,
          port |-> e.port, public |-> ~e.localhostOnly, secureBackend |-> space.encryptHttp]>>
  ELSE <<>>

MutHTTPIngress_NoMetrics(e) ==
  IF e.path /\ ~e.metrics
  THEN <<[kind |-> "Ingress", name |-> e.name, class |-> "nginx", service |-> e.name,
          port |-> IF space.encryptHttp THEN TlsPort ELSE e.port,
          public |-> ~e.localhostOnly, secureBackend |-> space.encryptHttp]>>
  ELSE <<>>

(* The rule for the public host comes with a TLS section; metrics endpoints *)
(* are not left out. *)
HTTPIngress(e) ==
  IF e.path
  THEN <<[kind |-> "Ingress", name |-> e.name, class |-> "nginx", service |-> e.name,
          port |-> IF space.encryptHttp THEN TlsPort ELSE e.port,
          public |-> ~e.localhostOnly, secureBackend |-> space.encryptHttp]>>
  ELSE <<>>

TCPIngress(e) ==
  IF ~e.metrics /\ ~e.path
  THEN <<[kind |-> "Ingress", name |-> e.name, class |-> "k8sniff", service |-> e.name,
          port |-> ServicePort(e), public |-> TRUE, secureBackend |-> FALSE]>>
  ELSE <<>>

-----------------------------------------------------------------------------
(* Egresses and the workload.                                              *)

EgressSecret(e) ==
  CASE e.cert -> "own"
    [] ~e.cert /\ space.tcpCert -> "tcp"
    [] OTHER -> ""

CannotReach(e) == EgressSecret(e) = "" \/ e.dest = "none"

EgressStunnel(e) ==
  Stunnel(<<"stunnel-egress", i - 1>>, e.localPort, ~e.noVerify,
          <<e.dest, IF e.targetPort = 0 THEN TlsPort ELSE e.targetPort>>,
          EgressSecret(e), TRUE, e.delay, stunnelIndex)

Workload == [kind |-> IF app.job THEN "Job" ELSE "Deployment", name |-> "app", pod |-> pod]

-----------------------------------------------------------------------------
(* Steps.                                                                  *)

Pod(account) == [account |-> account, env |-> 0, containers |-> <<<<"main", 0>>>>, volumes |-> <<>>]

Init ==
  /\ space \in SpaceSpecs
  /\ app \in AppSpecs
  /\ pc = "start"
  /\ i = 1
  /\ pod = Pod(IF app.account THEN "own" ELSE "")
  /\ stunnelIndex = 0
  /\ objects = <<>>
  /\ sidecars = <<>>

(* An error returns no objects. *)
Fail ==
  /\ pc' = "failed"
  /\ objects' = <<>>
  /\ UNCHANGED <<space, app, i, pod, stunnelIndex, sidecars>>

Refuse ==
  /\ pc = "start"
  /\ ~(ValidSpace /\ ValidApp)
  /\ Fail

Prepare ==
  /\ pc = "start"
  /\ ValidSpace /\ ValidApp
  /\ pc' = "endpoints"
  /\ pod' = WithAccount(WithDomain(pod))
  /\ objects' = RBAC(pod)
  /\ UNCHANGED <<space, app, i, stunnelIndex, sidecars>>

MutAdd_NoCount(s) ==
  /\ pod' = AddStunnelToPod(pod, s)
  /\ sidecars' = Append(sidecars, s)
  /\ stunnelIndex' = stunnelIndex

Add(s) ==
  /\ pod' = AddStunnelToPod(pod, s)
  /\ sidecars' = Append(sidecars, s)
  /\ stunnelIndex' = stunnelIndex + 1

EndpointFails ==
  /\ pc = "endpoints"
  /\ ~app.job /\ i \in DOMAIN app.endpoints
  /\ CannotServe(app.endpoints[i])
  /\ Fail

Endpoint ==
  LET e == app.endpoints[i] IN
  /\ pc = "endpoints"
  /\ ~app.job /\ i \in DOMAIN app.endpoints
  /\ ~CannotServe(e)
  /\ IF Terminated(e) THEN Add(IngressStunnel(e))
                      ELSE UNCHANGED <<pod, sidecars, stunnelIndex>>
  /\ objects' = objects \o Service(e) \o HTTPIngress(e) \o TCPIngress(e)
  /\ i' = i + 1
  /\ UNCHANGED <<space, app, pc>>

EndpointsDone ==
  /\ pc = "endpoints"
  /\ app.job \/ i \notin DOMAIN app.endpoints
  /\ pc' = "egresses"
  /\ i' = 1
  /\ UNCHANGED <<space, app, pod, stunnelIndex, objects, sidecars>>

EgressFails ==
  /\ pc = "egresses"
  /\ i \in DOMAIN app.egresses
  /\ CannotReach(app.egresses[i])
  /\ Fail

Egress ==
  LET e == app.egresses[i] IN
  /\ pc = "egresses"
  /\ i \in DOMAIN app.egresses
  /\ ~CannotReach(e)
  /\ Add(EgressStunnel(e))
  /\ i' = i + 1
  /\ UNCHANGED <<space, app, pc, objects>>

Deploy ==
  /\ pc = "egresses"
  /\ i \notin DOMAIN app.egresses
  /\ pc' = "done"
  /\ objects' = Append(objects, Workload)
  /\ UNCHANGED <<space, app, i, pod, stunnelIndex, sidecars>>

Next ==
  \/ Refuse \/ Prepare
  \/ EndpointFails \/ Endpoint \/ EndpointsDone
  \/ EgressFails \/ Egress \/ Deploy

Spec == Init /\ [][Next]_vars

-----------------------------------------------------------------------------
(* Properties.                                                             *)

Secrets == {"own", "http", "tcp"}

PodSpec == [account : {"", "own", "app"}, env : Nat,
            containers : Seq({"main", "stunnel-ingress", "stunnel-egress"} \X Nat),
            volumes : Seq(Secrets)]

Sidecar == [name : {"stunnel-ingress", "stunnel-egress"} \X Nat, listen : Nat, verify : BOOLEAN,
            connect : {"", "fqdn", "endpoint"} \X Nat, secret : Secrets,
            client : BOOLEAN, delay : BOOLEAN, springboard : Nat]

Object ==
  [kind : {"ServiceAccount", "Role", "RoleBinding"}, name : {"own", "app"}]
  \cup [kind : {"Service"}, name : STRING, port : Nat, target : Nat]
  \cup [kind : {"Ingress"}, name : STRING, class : {"nginx", "k8sniff"}, service : STRING,
        port : Nat, public : BOOLEAN, secureBackend : BOOLEAN]
  \cup [kind : {"Deployment", "Job"}, name : {"app"}, pod : PodSpec]

Services == {o \in Range(objects) : o.kind = "Service"}
Ingresses == {o \in Range(objects) : o.kind = "Ingress"}
Endpoints == Range(app.endpoints)

(* Types of the variables. *)
TypeOK ==
  /\ space \in SpaceSpec
  /\ app \in AppSpec
  /\ pc \in {"start", "endpoints", "egresses", "done", "failed"}
  /\ i \in Nat \ {0}
  /\ pod \in PodSpec
  /\ stunnelIndex \in Nat
  /\ sidecars \in Seq(Sidecar)
  /\ objects \in Seq(Object)

DefaultPorts == \A e \in Endpoints : e.tlsListenPort = 0

(* The side-cars of a pod, of endpoints and of egresses alike, have names  *)
(* and springboard ports of their own, and those of endpoints that are     *)
(* given no port have listen ports of their own, whichever endpoints       *)
(* between them need none: one stunnelIndex counts through both loops. *)
SidecarsDistinct ==
  \A j, k \in DOMAIN sidecars :
    j # k => /\ sidecars[j].name # sidecars[k].name
             /\ sidecars[j].springboard # sidecars[k].springboard
             /\ DefaultPorts /\ ~sidecars[j].client /\ ~sidecars[k].client =>
                  sidecars[j].listen # sidecars[k].listen

(* An endpoint's service and the side-car asked for it agree, though the   *)
(* port is computed in two places and counts egresses and endpoints alike: *)
(* the service leads to the port that the side-car, with the endpoint's    *)
(* certificate, is told to listen on for the endpoint's own port, and with *)
(* default ports no other side-car is told to listen there. It says        *)
(* nothing of the pod, which has none of them (SidecarsInPod). *)
TargetsAgree ==
  pc = "done" /\ ~app.job =>
    \A e \in Endpoints : \E o \in Services :
      /\ o.name = e.name
      /\ \/ ~Terminated(e) /\ o.port = e.port /\ o.target = e.port
         \/ /\ Terminated(e) /\ o.port = TlsPort
            /\ \E s \in Range(sidecars) :
                 /\ ~s.client /\ s.listen = o.target
                 /\ s.connect = <<"", e.port>> /\ s.secret = SecretName(e)
                 /\ DefaultPorts =>
                      \A t \in Range(sidecars) : ~t.client /\ t.listen = o.target => t = s

(* The service an ingress forwards to exists and has the ingress's port,   *)
(* unless the endpoint asks for metrics and for a path at once.            *)
(* (generateHTTPIngress computes the port again, apart from createStunnel.) *)
BackendsServed ==
  \A o \in Ingresses :
    \/ \E s \in Services : s.name = o.service /\ s.port = o.port
    \/ \E e \in Endpoints : e.name = o.name /\ e.metrics /\ e.path

(* What GenerateResources accepts, said without its loops. *)
Acceptable ==
  /\ ValidSpace /\ ValidApp
  /\ app.job \/ \A e \in Endpoints : e.port > 0
  /\ \A e \in Range(app.egresses) : e.dest # "none" /\ (e.cert \/ space.tcpCert)

(* The objects are those of a spec that is acceptable as a whole; a spec   *)
(* refused anywhere, in the last egress for instance, yields none. The     *)
(* errors about missing certificates of endpoints are never met: the       *)
(* validation has asked for both before. *)
FailsForCause ==
  /\ pc = "done" => Acceptable
  /\ pc = "failed" => ~Acceptable /\ objects = <<>>

(* What AppRuntime.Delete (src/pkg/app/app.go) asks to be deleted. *)
DeletedNames ==
  {<<k, e.name>> : k \in {"Service", "Ingress"}, e \in Endpoints}
  \cup {<<IF app.job THEN "Job" ELSE "Deployment", "app">>}
  \cup (IF app.permissions THEN {<<"RoleBinding", "app">>, <<"Role", "app">>} ELSE {})
  \cup (IF app.permissions /\ ~app.account THEN {<<"ServiceAccount", "app">>} ELSE {})

(* Delete() finds by name every object that was generated, except the role *)
(* and the binding of an app that brings its service account: they bear    *)
(* the account's name. *)
DeleteFindsAll ==
  \A o \in Range(objects) :
    \/ <<o.kind, o.name>> \in DeletedNames
    \/ app.account /\ o.kind \in {"Role", "RoleBinding"}

(* The objects of a spec, said without loops and stages: module AppRuntime *)
(* takes them for what GenerateResources makes (Wanted there). *)
NamesOf(e) ==
  {<<"Service", e.name>>} \cup (IF e.path \/ ~e.metrics THEN {<<"Ingress", e.name>>} ELSE {})

Accounts ==
  IF ~app.permissions THEN {}
  ELSE IF app.account THEN {<<"Role", "own">>, <<"RoleBinding", "own">>}
  ELSE {<<"ServiceAccount", "app">>, <<"Role", "app">>, <<"RoleBinding", "app">>}

WantedNames ==
  Accounts
  \cup (IF app.job THEN {} ELSE UNION {NamesOf(e) : e \in Endpoints})
  \cup {<<IF app.job THEN "Job" ELSE "Deployment", "app">>}

(* An accepted spec yields the objects it asks for, all of them and no     *)
(* other (GenerateResources): roles, ingresses and the workload itself are *)
(* what the other properties would be content without. *)
GeneratesWanted ==
  pc = "done" => {<<o.kind, o.name>> : o \in Range(objects)} = WantedNames

(* The pod has the side-cars its services need: "it augments the provided  *)
(* podSpec, adding stunnel containers" (generateEndpoints). It has not. *)
SidecarsInPod ==
  pc = "done" => \A s \in Range(sidecars) : s.name \in Range(pod.containers)
=============================================================================
