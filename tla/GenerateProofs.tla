---------------------------- MODULE GenerateProofs ----------------------------
(* Theorems about GenerateResources (Generate), for any specs of apps and  *)
(* spaces, with any number of endpoints and egresses.                      *)
EXTENDS Generate, SequenceTheorems, TLAPS

-----------------------------------------------------------------------------
(* Sequences that grow.                                                    *)

LEMMA RangeAppend ==
  ASSUME NEW S, NEW s \in Seq(S), NEW x \in S
  PROVE  Append(s, x) \in Seq(S) /\ Range(Append(s, x)) = Range(s) \cup {x}
<1>1. /\ Append(s, x) \in Seq(S)
      /\ DOMAIN Append(s, x) = 1..(Len(s) + 1)
      /\ \A k \in 1..Len(s) : Append(s, x)[k] = s[k]
      /\ Append(s, x)[Len(s) + 1] = x
  BY AppendProperties
<1>2. Len(s) \in Nat /\ DOMAIN s = 1..Len(s)
  OBVIOUS
<1>3. DOMAIN Append(s, x) = DOMAIN s \cup {Len(s) + 1}
  BY <1>1, <1>2
<1> QED
  BY <1>1, <1>2, <1>3 DEF Range

LEMMA RangeConcat ==
  ASSUME NEW S, NEW s \in Seq(S), NEW t \in Seq(S)
  PROVE  s \o t \in Seq(S) /\ Range(s \o t) = Range(s) \cup Range(t)
<1>1. /\ s \o t \in Seq(S)
      /\ Len(s \o t) = Len(s) + Len(t)
      /\ \A k \in 1..Len(s) + Len(t) :
           (s \o t)[k] = IF k <= Len(s) THEN s[k] ELSE t[k - Len(s)]
  BY ConcatProperties
<1>2. /\ Len(s) \in Nat /\ DOMAIN s = 1..Len(s)
      /\ Len(t) \in Nat /\ DOMAIN t = 1..Len(t)
      /\ DOMAIN (s \o t) = 1..Len(s) + Len(t)
  BY <1>1
<1>3. Range(s \o t) \subseteq Range(s) \cup Range(t)
  <2>1. ASSUME NEW k \in 1..Len(s) + Len(t) PROVE (s \o t)[k] \in Range(s) \cup Range(t)
    <3>1. CASE k <= Len(s)
      BY <1>1, <1>2, <3>1 DEF Range
    <3>2. CASE ~(k <= Len(s))
      <4>1. k - Len(s) \in DOMAIN t
        BY <1>2, <3>2
      <4> QED
        BY <1>1, <3>2, <4>1 DEF Range
    <3> QED
      BY <3>1, <3>2
  <2> QED
    BY <1>2, <2>1 DEF Range
<1>4. Range(s) \subseteq Range(s \o t)
  <2>1. \A k \in DOMAIN s : k \in DOMAIN (s \o t) /\ (s \o t)[k] = s[k]
    BY <1>1, <1>2
  <2> QED
    BY <2>1 DEF Range
<1>5. Range(t) \subseteq Range(s \o t)
  <2>1. \A k \in DOMAIN t : k + Len(s) \in DOMAIN (s \o t) /\ (s \o t)[k + Len(s)] = t[k]
    BY <1>1, <1>2
  <2> QED
    BY <2>1 DEF Range
<1> QED
  BY <1>1, <1>3, <1>4, <1>5

LEMMA RangeConcat4 ==
  ASSUME NEW S, NEW s \in Seq(S), NEW t \in Seq(S), NEW u \in Seq(S), NEW v \in Seq(S)
  PROVE  /\ ((s \o t) \o u) \o v \in Seq(S)
         /\ Range(((s \o t) \o u) \o v) = Range(s) \cup Range(t) \cup Range(u) \cup Range(v)
<1>1. s \o t \in Seq(S) /\ Range(s \o t) = Range(s) \cup Range(t)
  BY RangeConcat
<1>2. PICK x \in Seq(S) : x = s \o t
  BY <1>1
<1>3. x \o u \in Seq(S) /\ Range(x \o u) = Range(x) \cup Range(u)
  BY RangeConcat
<1>4. PICK y \in Seq(S) : y = x \o u
  BY <1>3
<1>5. y \o v \in Seq(S) /\ Range(y \o v) = Range(y) \cup Range(v)
  BY RangeConcat
<1> QED
  BY <1>1, <1>2, <1>3, <1>4, <1>5

LEMMA RangeSingle ==
  ASSUME NEW S, NEW x \in S
  PROVE  <<x>> \in Seq(S) /\ Range(<<x>>) = {x}
  BY DEF Range

LEMMA RangeEmpty ==
  ASSUME NEW S
  PROVE  <<>> \in Seq(S) /\ Range(<<>>) = {}
  BY DEF Range

-----------------------------------------------------------------------------
(* What a turn of the loops adds.                                          *)

Args == space \in SpaceSpec /\ app \in AppSpec /\ stunnelIndex \in Nat /\ i \in Nat \ {0}

LEMMA EndpointType ==
  ASSUME Args, NEW k \in DOMAIN app.endpoints
  PROVE  app.endpoints[k] \in EndpointSpec /\ app.endpoints[k] \in Endpoints
  BY DEF Args, AppSpec, Endpoints, Range

LEMMA EgressType ==
  ASSUME Args, NEW k \in DOMAIN app.egresses
  PROVE  app.egresses[k] \in TlsEgress /\ app.egresses[k] \in Range(app.egresses)
  BY DEF Args, AppSpec, Range

LEMMA PortType ==
  ASSUME Args, NEW e \in EndpointSpec, ~CannotServe(e)
  PROVE  /\ e.port \in Nat /\ e.port >= 1
         /\ ListenPort(e) \in Nat /\ ServicePort(e) \in Nat /\ TargetPort(e) \in Nat
<1>1. e.port \in Int /\ e.tlsListenPort \in Nat /\ app.firstListenPort \in Nat
  BY DEF EndpointSpec, Args, AppSpec
<1>2. e.port \in Nat /\ e.port >= 1
  <2>1. ~(e.port < 1)
    BY DEF CannotServe
  <2> QED
    BY <1>1, <2>1
<1>3. BasePort \in Nat
  BY <1>1 DEF BasePort, TlsPort
<1>4. ListenPort(e) \in Nat
  BY <1>1, <1>3 DEF ListenPort, Args
<1> QED
  BY <1>2, <1>4 DEF ServicePort, TargetPort, TlsPort

LEMMA IngressStunnelType ==
  ASSUME Args, NEW e \in EndpointSpec, ~CannotServe(e), Terminated(e)
  PROVE  IngressStunnel(e) \in Sidecar
<1>1. e.port \in Nat /\ ListenPort(e) \in Nat
  BY PortType
<1>2. SecretName(e) \in Secrets
  BY DEF CannotServe, SecretName, Secrets
<1>3. (IF e.path THEN e.cert ELSE ~e.noClientVerify) \in BOOLEAN
  BY DEF EndpointSpec
<1>4. <<"stunnel-ingress", stunnelIndex>> \in {"stunnel-ingress", "stunnel-egress"} \X Nat
  BY DEF Args
<1>5. <<"", e.port>> \in {"", "fqdn", "endpoint"} \X Nat
  BY <1>1
<1>6. SpringboardPort + stunnelIndex \in Nat
  BY DEF Args, SpringboardPort
<1>7. (FALSE /\ FALSE) \in BOOLEAN
  OBVIOUS
<1> QED
  BY <1>1, <1>2, <1>3, <1>4, <1>5, <1>6, <1>7 DEF IngressStunnel, Stunnel, Sidecar

LEMMA EgressStunnelType ==
  ASSUME Args, NEW e \in TlsEgress, ~CannotReach(e)
  PROVE  EgressStunnel(e) \in Sidecar
<1>1. EgressSecret(e) \in {"own", "tcp"} /\ e.dest \in {"fqdn", "endpoint"}
  BY DEF CannotReach, EgressSecret, TlsEgress
<1>2. /\ e.localPort \in Nat /\ (~e.noVerify) \in BOOLEAN /\ e.delay \in BOOLEAN
      /\ (IF e.targetPort = 0 THEN TlsPort ELSE e.targetPort) \in Nat
      /\ i - 1 \in Nat
  BY DEF TlsEgress, TlsPort, Args
<1>3. <<"stunnel-egress", i - 1>> \in {"stunnel-ingress", "stunnel-egress"} \X Nat
  BY <1>2
<1>4. <<e.dest, IF e.targetPort = 0 THEN TlsPort ELSE e.targetPort>> \in {"", "fqdn", "endpoint"} \X Nat
  BY <1>1, <1>2
<1>5. SpringboardPort + stunnelIndex \in Nat
  BY DEF Args, SpringboardPort
<1>6. (TRUE /\ e.delay) \in BOOLEAN
  BY <1>2
<1>7. EgressSecret(e) \in Secrets
  BY <1>1 DEF Secrets
<1> QED
  BY <1>1, <1>2, <1>3, <1>4, <1>5, <1>6, <1>7 DEF EgressStunnel, Stunnel, Sidecar

LEMMA ServiceType ==
  ASSUME Args, NEW e \in EndpointSpec, ~CannotServe(e)
  PROVE  /\ Service(e) \in Seq(Object)
         /\ Range(Service(e)) =
              {[kind |-> "Service", name |-> e.name, port |-> ServicePort(e), target |-> TargetPort(e)]}
<1>1. [kind |-> "Service", name |-> e.name, port |-> ServicePort(e), target |-> TargetPort(e)] \in Object
  BY PortType DEF Object, EndpointSpec
<1> QED
  BY <1>1, RangeSingle DEF Service

LEMMA HTTPIngressType ==
  ASSUME Args, NEW e \in EndpointSpec, ~CannotServe(e)
  PROVE  /\ HTTPIngress(e) \in Seq(Object)
         /\ \A o \in Range(HTTPIngress(e)) :
              /\ o.kind = "Ingress" /\ o.name = e.name /\ o.service = e.name /\ e.path
              /\ o.port = IF space.encryptHttp THEN TlsPort ELSE e.port
<1> DEFINE rule ==
      [kind |-> "Ingress", name |-> e.name, class |-> "nginx", service |-> e.name,
       port |-> IF space.encryptHttp THEN TlsPort ELSE e.port,
       public |-> ~e.localhostOnly, secureBackend |-> space.encryptHttp]
<1>1. rule \in Object
  <2>1. (IF space.encryptHttp THEN TlsPort ELSE e.port) \in Nat
    BY PortType DEF TlsPort
  <2>2. (~e.localhostOnly) \in BOOLEAN /\ space.encryptHttp \in BOOLEAN /\ e.name \in STRING
    BY DEF Args, SpaceSpec, EndpointSpec
  <2> QED
    BY <2>1, <2>2 DEF Object
<1>2. CASE e.path
  <2>1. HTTPIngress(e) = <<rule>>
    BY <1>2 DEF HTTPIngress
  <2>2. HTTPIngress(e) \in Seq(Object) /\ Range(HTTPIngress(e)) = {rule}
    BY <1>1, <2>1, RangeSingle
  <2> QED
    BY <1>2, <2>2
<1>3. CASE ~e.path
  BY <1>3, RangeEmpty DEF HTTPIngress
<1> QED
  BY <1>2, <1>3

LEMMA TCPIngressType ==
  ASSUME Args, NEW e \in EndpointSpec, ~CannotServe(e)
  PROVE  /\ TCPIngress(e) \in Seq(Object)
         /\ \A o \in Range(TCPIngress(e)) :
              o.kind = "Ingress" /\ o.name = e.name /\ o.service = e.name /\ o.port = ServicePort(e)
<1> DEFINE rule ==
      [kind |-> "Ingress", name |-> e.name, class |-> "k8sniff", service |-> e.name,
       port |-> ServicePort(e), public |-> TRUE, secureBackend |-> FALSE]
<1>1. rule \in Object
  BY PortType DEF Object, EndpointSpec
<1>2. CASE ~e.metrics /\ ~e.path
  <2>1. TCPIngress(e) = <<rule>>
    BY <1>2 DEF TCPIngress
  <2>2. TCPIngress(e) \in Seq(Object) /\ Range(TCPIngress(e)) = {rule}
    BY <1>1, <2>1, RangeSingle
  <2> QED
    BY <2>2
<1>3. CASE ~(~e.metrics /\ ~e.path)
  BY <1>3, RangeEmpty DEF TCPIngress
<1> QED
  BY <1>2, <1>3

LEMMA RBACType ==
  ASSUME NEW p \in PodSpec
  PROVE  /\ RBAC(p) \in Seq(Object)
         /\ \A o \in Range(RBAC(p)) :
              /\ app.permissions
              /\ \/ o.kind = "ServiceAccount" /\ o.name = "app" /\ p.account = ""
                 \/ o.kind \in {"Role", "RoleBinding"} /\ o.name = AccountName(p)
<1> DEFINE a == <<[kind |-> "ServiceAccount", name |-> "app"]>>
           r == [kind |-> "Role", name |-> AccountName(p)]
           b == [kind |-> "RoleBinding", name |-> AccountName(p)]
           rb == <<r, b>>
<1>1. AccountName(p) \in {"own", "app"}
  BY DEF AccountName, PodSpec
<1>2. a \in Seq(Object) /\ Range(a) = {[kind |-> "ServiceAccount", name |-> "app"]}
  BY RangeSingle DEF Object
<1>3. rb \in Seq(Object) /\ Range(rb) = {r, b}
  <2>1. r \in Object /\ b \in Object
    BY <1>1 DEF Object
  <2> HIDE DEF r, b
  <2> QED
    BY <2>1 DEF Range
<1>4. /\ r.kind = "Role" /\ r.name = AccountName(p)
      /\ b.kind = "RoleBinding" /\ b.name = AccountName(p)
  OBVIOUS
<1>5. RBAC(p) = IF app.permissions THEN (IF p.account = "" THEN a ELSE <<>>) \o rb ELSE <<>>
  BY DEF RBAC
<1>6. \A o \in Range(a) : o.kind = "ServiceAccount" /\ o.name = "app"
  BY <1>2
<1> HIDE DEF a, r, b, rb
<1>7. CASE ~app.permissions
  BY <1>5, <1>7, RangeEmpty
<1>8. CASE app.permissions /\ p.account = ""
  <2>1. RBAC(p) = a \o rb
    BY <1>5, <1>8
  <2>2. a \o rb \in Seq(Object) /\ Range(a \o rb) = Range(a) \cup Range(rb)
    BY <1>2, <1>3, RangeConcat
  <2>3. \A o \in Range(RBAC(p)) : o \in Range(a) \/ o = r \/ o = b
    BY <1>3, <2>1, <2>2
  <2> QED
    BY <1>4, <1>6, <1>8, <2>1, <2>2, <2>3
<1>9. CASE app.permissions /\ p.account # ""
  <2>1. RBAC(p) = rb
    BY <1>3, <1>5, <1>9, ConcatEmptySeq
  <2>2. \A o \in Range(RBAC(p)) : o = r \/ o = b
    BY <1>3, <2>1
  <2> QED
    BY <1>3, <1>4, <1>9, <2>1, <2>2
<1> QED
  BY <1>7, <1>8, <1>9

-----------------------------------------------------------------------------
(* Types.                                                                  *)

LEMMA PodTypes ==
  ASSUME NEW p \in PodSpec, NEW s
  PROVE  WithAccount(WithDomain(p)) \in PodSpec /\ AddStunnelToPod(p, s) = p
<1>1. /\ p.account \in {"", "own", "app"}
      /\ p.containers \in Seq({"main", "stunnel-ingress", "stunnel-egress"} \X Nat)
      /\ p.volumes \in Seq(Secrets)
  BY DEF PodSpec
<1>2. p.env \in Nat
  BY DEF PodSpec
<1>3. p = [account |-> p.account, env |-> p.env, containers |-> p.containers, volumes |-> p.volumes]
  BY DEF PodSpec
<1>4. WithDomain(p) \in PodSpec
  <2>1. p.env + 1 \in Nat
    BY <1>2
  <2> QED
    BY <1>1, <1>2, <1>3, <2>1 DEF WithDomain, PodSpec
<1>5. ASSUME NEW q \in PodSpec PROVE WithAccount(q) \in PodSpec
  <2>1. (IF app.permissions THEN AccountName(q) ELSE q.account) \in {"", "own", "app"}
    BY DEF AccountName, PodSpec
  <2> QED
    BY <2>1 DEF WithAccount, PodSpec
<1> QED
  BY <1>4, <1>5 DEF AddStunnelToPod

LEMMA GenerateTypeInit == Init => TypeOK
<1> SUFFICES ASSUME Init PROVE TypeOK
  OBVIOUS
<1>1. /\ <<<<"main", 0>>>> \in Seq({"main", "stunnel-ingress", "stunnel-egress"} \X Nat)
      /\ <<>> \in Seq(Secrets)
  <2>1. <<"main", 0>> \in {"main", "stunnel-ingress", "stunnel-egress"} \X Nat
    OBVIOUS
  <2> QED
    BY <2>1, RangeSingle, RangeEmpty
<1>2. Pod(IF app.account THEN "own" ELSE "") \in PodSpec
  BY <1>1 DEF Pod, PodSpec
<1>3. pod \in PodSpec
  BY <1>2 DEF Init
<1>4. space \in SpaceSpec /\ app \in AppSpec
  BY SpecsAssumption DEF Init
<1>5. objects \in Seq(Object) /\ sidecars \in Seq(Sidecar)
  BY RangeEmpty DEF Init
<1>6. pc = "start" /\ i = 1 /\ stunnelIndex = 0
  BY DEF Init
<1> QED
  BY <1>3, <1>4, <1>5, <1>6 DEF TypeOK

(* A turn that adds a side-car. *)
LEMMA AddTypes ==
  ASSUME TypeOK, NEW s \in Sidecar, Add(s)
  PROVE  /\ pod' = pod
         /\ sidecars' \in Seq(Sidecar) /\ sidecars' = Append(sidecars, s)
         /\ Range(sidecars') = Range(sidecars) \cup {s}
         /\ stunnelIndex' = stunnelIndex + 1 /\ stunnelIndex' \in Nat
<1>3. pod' = pod
  BY PodTypes DEF Add, TypeOK
<1>4. sidecars \in Seq(Sidecar) /\ sidecars' = Append(sidecars, s)
  BY DEF Add, TypeOK
<1>5. Append(sidecars, s) \in Seq(Sidecar) /\ Range(Append(sidecars, s)) = Range(sidecars) \cup {s}
  BY <1>4, RangeAppend
<1>6. stunnelIndex' = stunnelIndex + 1 /\ stunnelIndex' \in Nat
  BY DEF Add, TypeOK
<1> QED
  BY <1>3, <1>4, <1>5, <1>6

LEMMA EndpointObjects ==
  ASSUME TypeOK, Endpoint, NEW e, e = app.endpoints[i]
  PROVE  /\ e \in EndpointSpec /\ e \in Endpoints /\ ~CannotServe(e)
         /\ objects' \in Seq(Object)
         /\ Range(objects') = Range(objects) \cup Range(Service(e))
                               \cup Range(HTTPIngress(e)) \cup Range(TCPIngress(e))
<1>1. Args /\ i \in DOMAIN app.endpoints
  BY DEF Args, TypeOK, Endpoint
<1>2. e \in EndpointSpec /\ e \in Endpoints /\ ~CannotServe(e)
  BY <1>1, EndpointType DEF Endpoint
<1>3. /\ Service(e) \in Seq(Object) /\ HTTPIngress(e) \in Seq(Object)
      /\ TCPIngress(e) \in Seq(Object) /\ objects \in Seq(Object)
  BY <1>1, <1>2, ServiceType, HTTPIngressType, TCPIngressType DEF TypeOK
<1>4. objects' = ((objects \o Service(e)) \o HTTPIngress(e)) \o TCPIngress(e)
  BY DEF Endpoint
<1> QED
  BY <1>2, <1>3, <1>4, RangeConcat4

(* The workload comes last. *)
LEMMA DeployObjects ==
  ASSUME TypeOK, Deploy
  PROVE  /\ objects' \in Seq(Object) /\ Range(objects') = Range(objects) \cup {Workload}
         /\ Workload.kind = IF app.job THEN "Job" ELSE "Deployment"
         /\ Workload.name = "app"
<1>1. pod \in PodSpec /\ objects \in Seq(Object)
  BY DEF TypeOK
<1>2. Workload \in Object
  BY <1>1 DEF Workload, Object
<1> QED
  BY <1>1, <1>2, RangeAppend DEF Deploy, Workload

LEMMA GenerateTypeStep == TypeOK /\ [Next]_vars => TypeOK'
<1> SUFFICES ASSUME TypeOK, [Next]_vars PROVE TypeOK'
  OBVIOUS
<1>0. Args
  BY DEF Args, TypeOK
<1>1. CASE Refuse \/ EndpointFails \/ EgressFails
  <2>1. objects' \in Seq(Object)
    BY <1>1, RangeEmpty DEF Refuse, EndpointFails, EgressFails, Fail
  <2> QED
    BY <1>1, <2>1 DEF Refuse, EndpointFails, EgressFails, Fail, TypeOK
<1>2. CASE Prepare
  <2>1. pod \in PodSpec
    BY DEF TypeOK
  <2>2. pod' \in PodSpec
    BY <1>2, <2>1, PodTypes DEF Prepare
  <2>3. objects' \in Seq(Object)
    BY <1>2, <2>1, RBACType DEF Prepare
  <2> QED
    BY <1>2, <2>2, <2>3 DEF Prepare, TypeOK
<1>3. CASE Endpoint
  <2> DEFINE e == app.endpoints[i]
  <2>1. e \in EndpointSpec /\ ~CannotServe(e) /\ objects' \in Seq(Object)
    BY <1>3, EndpointObjects
  <2>2. i' \in Nat \ {0} /\ UNCHANGED <<space, app, pc>>
    BY <1>3 DEF Endpoint, TypeOK
  <2>3. pod' \in PodSpec /\ sidecars' \in Seq(Sidecar) /\ stunnelIndex' \in Nat
    <3>1. CASE Terminated(e)
      <4>1. Add(IngressStunnel(e)) /\ IngressStunnel(e) \in Sidecar
        BY <1>0, <1>3, <2>1, <3>1, IngressStunnelType DEF Endpoint
      <4> QED
        BY <4>1, AddTypes DEF TypeOK
    <3>2. CASE ~Terminated(e)
      BY <1>3, <3>2 DEF Endpoint, TypeOK
    <3> QED
      BY <3>1, <3>2
  <2> QED
    BY <2>1, <2>2, <2>3 DEF TypeOK
<1>4. CASE Egress
  <2> DEFINE e == app.egresses[i]
  <2>1. e \in TlsEgress /\ ~CannotReach(e) /\ Add(EgressStunnel(e))
    BY <1>0, <1>4, EgressType DEF Egress
  <2>2. EgressStunnel(e) \in Sidecar
    BY <1>0, <2>1, EgressStunnelType
  <2>3. pod' \in PodSpec /\ sidecars' \in Seq(Sidecar) /\ stunnelIndex' \in Nat
    BY <2>1, <2>2, AddTypes DEF TypeOK
  <2> QED
    BY <1>4, <2>3 DEF Egress, TypeOK
<1>5. CASE EndpointsDone
  BY <1>5 DEF EndpointsDone, TypeOK
<1>6. CASE Deploy
  <2>1. objects' \in Seq(Object)
    BY <1>6, DeployObjects
  <2> QED
    BY <1>6, <2>1 DEF Deploy, TypeOK
<1>7. CASE UNCHANGED vars
  BY <1>7 DEF vars, TypeOK
<1> QED
  BY <1>1, <1>2, <1>3, <1>4, <1>5, <1>6, <1>7 DEF Next

-----------------------------------------------------------------------------
(* The inductive invariant.                                                *)

(* What a stage may rely on: the generator begins with nothing and with    *)
(* the account of the app's own, and goes on when the validation passed.   *)
FrameInv ==
  /\ pc = "start" =>
       /\ objects = <<>> /\ sidecars = <<>> /\ stunnelIndex = 0 /\ i = 1
       /\ pod.account = IF app.account THEN "own" ELSE ""
  /\ pc # "start" /\ pc # "failed" => ValidSpace /\ ValidApp

(* stunnelIndex counts the side-cars, and gives the j-th its springboard   *)
(* port and, before the egresses, its name and port. *)
SideInv ==
  /\ stunnelIndex = Len(sidecars)
  /\ \A j \in DOMAIN sidecars :
       /\ sidecars[j].springboard = SpringboardPort + (j - 1)
       /\ ~sidecars[j].client =>
            /\ sidecars[j].name = <<"stunnel-ingress", j - 1>>
            /\ DefaultPorts => sidecars[j].listen = BasePort + (j - 1)
       /\ sidecars[j].client =>
            /\ sidecars[j].name[1] = "stunnel-egress" /\ sidecars[j].name[2] < i - 1
            /\ pc \notin {"start", "endpoints"}
  /\ \A j, k \in DOMAIN sidecars :
       sidecars[j].client /\ sidecars[k].client /\ j < k => sidecars[j].name[2] < sidecars[k].name[2]

Reached(e) ==
  \E o \in Services :
    /\ o.name = e.name
    /\ \/ ~Terminated(e) /\ o.port = e.port /\ o.target = e.port
       \/ /\ Terminated(e) /\ o.port = TlsPort
          /\ \E s \in Range(sidecars) :
               /\ ~s.client /\ s.listen = o.target
               /\ s.connect = <<"", e.port>> /\ s.secret = SecretName(e)

(* What the two loops have done with the endpoints and egresses before the *)
(* turn i. *)
LoopInv ==
  /\ pc = "endpoints" /\ ~app.job =>
       \A k \in DOMAIN app.endpoints :
         k < i => app.endpoints[k].port > 0 /\ Reached(app.endpoints[k])
  /\ pc \in {"egresses", "done"} /\ ~app.job =>
       \A e \in Endpoints : e.port > 0 /\ Reached(e)
  /\ pc = "egresses" =>
       \A k \in DOMAIN app.egresses : k < i => ~CannotReach(app.egresses[k])
  /\ pc = "done" => \A e \in Range(app.egresses) : ~CannotReach(e)
  /\ pc = "failed" => ~Acceptable /\ objects = <<>>

GenerateInv == TypeOK /\ FrameInv /\ SideInv /\ LoopInv /\ BackendsServed /\ DeleteFindsAll

-----------------------------------------------------------------------------

LEMMA GenerateInit == Init => GenerateInv
<1> SUFFICES ASSUME Init PROVE GenerateInv
  OBVIOUS
<1>1. TypeOK
  BY GenerateTypeInit
<1>2. pod.account = IF app.account THEN "own" ELSE ""
  BY DEF Init, Pod
<1>3. FrameInv
  BY <1>2 DEF Init, FrameInv
<1>4. DOMAIN sidecars = {} /\ Len(sidecars) = 0 /\ stunnelIndex = 0
  <2>1. sidecars = <<>> /\ stunnelIndex = 0
    BY DEF Init
  <2> QED
    BY <2>1
<1>5. SideInv
  BY <1>4 DEF SideInv
<1>6. LoopInv
  BY DEF Init, LoopInv
<1>7. Range(objects) = {}
  BY RangeEmpty DEF Init
<1>8. BackendsServed /\ DeleteFindsAll
  BY <1>7 DEF BackendsServed, DeleteFindsAll, Ingresses
<1> QED
  BY <1>1, <1>3, <1>5, <1>6, <1>8 DEF GenerateInv

(* The arguments stay, and with them what is said of an endpoint. *)
LEMMA ArgsStay ==
  ASSUME [Next]_vars
  PROVE  UNCHANGED args
  BY DEF Next, Refuse, Prepare, EndpointFails, Endpoint, EndpointsDone, EgressFails, Egress, Deploy,
    Fail, vars, args

LEMMA FrameStep == GenerateInv /\ [Next]_vars => FrameInv'
<1> SUFFICES ASSUME GenerateInv, [Next]_vars PROVE FrameInv'
  OBVIOUS
<1>0. TypeOK /\ FrameInv /\ UNCHANGED args
  BY ArgsStay DEF GenerateInv
<1>1. UNCHANGED <<ValidSpace, ValidApp>>
  BY <1>0 DEF ValidSpace, ValidApp, ValidEndpoint, args
<1>2. pc' = "start" => UNCHANGED vars
  BY <1>0 DEF Next, Refuse, Prepare, EndpointFails, Endpoint, EndpointsDone, EgressFails, Egress,
    Deploy, Fail, vars
<1>3. pc' # "start" /\ pc' # "failed" => ValidSpace /\ ValidApp
  BY <1>0 DEF Next, Refuse, Prepare, EndpointFails, Endpoint, EndpointsDone, EgressFails, Egress,
    Deploy, Fail, vars, FrameInv
<1>4. CASE pc' = "start"
  BY <1>0, <1>2, <1>4 DEF vars, FrameInv
<1>5. CASE pc' # "start"
  BY <1>1, <1>3, <1>5 DEF FrameInv
<1> QED
  BY <1>4, <1>5

-----------------------------------------------------------------------------
(* Side-cars.                                                              *)

LEMMA SideSame ==
  ASSUME TypeOK, SideInv, UNCHANGED <<args, stunnelIndex, sidecars>>,
         \/ UNCHANGED i /\ (pc' \in {"start", "endpoints"} => pc \in {"start", "endpoints"})
         \/ \A j \in DOMAIN sidecars : ~sidecars[j].client
  PROVE  SideInv'
<1>1. UNCHANGED <<DefaultPorts, BasePort>>
  BY DEF args, DefaultPorts, Endpoints, BasePort
<1> QED
  BY <1>1 DEF SideInv

(* The sequence with one side-car more. *)
LEMMA SideAdd ==
  ASSUME TypeOK, SideInv, UNCHANGED args, NEW s \in Sidecar, Add(s),
         s.springboard = SpringboardPort + stunnelIndex,
         i' = i + 1, UNCHANGED pc,
         \/ /\ pc = "endpoints" /\ ~s.client /\ s.name = <<"stunnel-ingress", stunnelIndex>>
            /\ DefaultPorts => s.listen = BasePort + stunnelIndex
         \/ pc = "egresses" /\ s.client /\ s.name = <<"stunnel-egress", i - 1>>
  PROVE  SideInv'
<1>1. /\ sidecars \in Seq(Sidecar) /\ stunnelIndex = Len(sidecars) /\ i \in Nat \ {0}
      /\ Len(sidecars) \in Nat /\ DOMAIN sidecars = 1..Len(sidecars)
  BY DEF TypeOK, SideInv
<1>2. /\ sidecars' = Append(sidecars, s) /\ stunnelIndex' = stunnelIndex + 1
  BY AddTypes
<1>3. /\ Len(sidecars') = Len(sidecars) + 1
      /\ DOMAIN sidecars' = DOMAIN sidecars \cup {Len(sidecars) + 1}
      /\ sidecars'[Len(sidecars) + 1] = s
      /\ \A j \in DOMAIN sidecars : sidecars'[j] = sidecars[j]
  <2>1. /\ Append(sidecars, s) \in Seq(Sidecar)
        /\ Len(Append(sidecars, s)) = Len(sidecars) + 1
        /\ \A j \in 1..Len(sidecars) : Append(sidecars, s)[j] = sidecars[j]
        /\ Append(sidecars, s)[Len(sidecars) + 1] = s
    BY <1>1, AppendProperties
  <2>2. DOMAIN Append(sidecars, s) = 1..(Len(sidecars) + 1)
    BY <2>1
  <2> QED
    BY <1>1, <1>2, <2>1, <2>2
<1>4. UNCHANGED <<DefaultPorts, BasePort>>
  BY DEF args, DefaultPorts, Endpoints, BasePort
<1>5. stunnelIndex' = Len(sidecars')
  BY <1>1, <1>2, <1>3
<1>6. ASSUME NEW j \in DOMAIN sidecars
      PROVE  /\ sidecars'[j].springboard = SpringboardPort + (j - 1)
             /\ ~sidecars'[j].client =>
                  /\ sidecars'[j].name = <<"stunnel-ingress", j - 1>>
                  /\ DefaultPorts' => sidecars'[j].listen = BasePort' + (j - 1)
             /\ sidecars'[j].client =>
                  /\ sidecars'[j].name[1] = "stunnel-egress" /\ sidecars'[j].name[2] < i' - 1
                  /\ pc' \notin {"start", "endpoints"}
  <2>1. sidecars'[j] = sidecars[j]
    BY <1>3
  <2>2. ~sidecars[j].client =>
          /\ sidecars[j].name = <<"stunnel-ingress", j - 1>>
          /\ DefaultPorts => sidecars[j].listen = BasePort + (j - 1)
    BY DEF SideInv
  <2>3. sidecars[j].client =>
          /\ sidecars[j].name[1] = "stunnel-egress" /\ sidecars[j].name[2] < i - 1
          /\ pc \notin {"start", "endpoints"}
    BY DEF SideInv
  <2>4. sidecars[j].name[2] \in Nat
    <3>1. sidecars[j] \in Sidecar
      BY <1>1
    <3>2. sidecars[j].name \in {"stunnel-ingress", "stunnel-egress"} \X Nat
      BY <3>1 DEF Sidecar
    <3> QED
      BY <3>2
  <2>5. sidecars[j].name[2] < i - 1 => sidecars[j].name[2] < i' - 1
    BY <1>1, <2>4
  <2>6. sidecars[j].springboard = SpringboardPort + (j - 1)
    BY DEF SideInv
  <2> QED
    BY <1>4, <2>1, <2>2, <2>3, <2>5, <2>6
<1>7. LET j == Len(sidecars) + 1 IN
        /\ s.springboard = SpringboardPort + (j - 1)
        /\ ~s.client =>
             /\ s.name = <<"stunnel-ingress", j - 1>>
             /\ DefaultPorts' => s.listen = BasePort' + (j - 1)
        /\ s.client =>
             /\ s.name[1] = "stunnel-egress" /\ s.name[2] < i' - 1
             /\ pc' \notin {"start", "endpoints"}
  <2>1. (Len(sidecars) + 1) - 1 = stunnelIndex
    BY <1>1
  <2>2. s.client => s.name[1] = "stunnel-egress" /\ s.name[2] = i - 1
    OBVIOUS
  <2>3. i - 1 < i' - 1
    BY <1>1
  <2>4. s.client => pc' = "egresses"
    OBVIOUS
  <2>5. ~s.client => /\ s.name = <<"stunnel-ingress", stunnelIndex>>
                     /\ DefaultPorts => s.listen = BasePort + stunnelIndex
    OBVIOUS
  <2> QED
    BY <1>4, <2>1, <2>2, <2>3, <2>4, <2>5
<1>8. ASSUME NEW j \in DOMAIN sidecars', NEW k \in DOMAIN sidecars',
             sidecars'[j].client, sidecars'[k].client, j < k
      PROVE  sidecars'[j].name[2] < sidecars'[k].name[2]
  <2>1. j \in DOMAIN sidecars
    BY <1>1, <1>3, <1>8
  <2>2. CASE k \in DOMAIN sidecars
    BY <1>3, <1>8, <2>1, <2>2 DEF SideInv
  <2>3. CASE k = Len(sidecars) + 1
    <3>1. sidecars'[k].name[2] = i - 1
      BY <1>3, <1>8, <2>3
    <3>2. sidecars[j].name[2] < i - 1 /\ sidecars'[j] = sidecars[j]
      BY <1>3, <1>8, <2>1 DEF SideInv
    <3> QED
      BY <3>1, <3>2
  <2> QED
    BY <1>3, <2>2, <2>3
<1> QED
  BY <1>3, <1>5, <1>6, <1>7, <1>8 DEF SideInv

LEMMA SideStep == GenerateInv /\ [Next]_vars => SideInv'
<1> SUFFICES ASSUME GenerateInv, [Next]_vars PROVE SideInv'
  OBVIOUS
<1>0. TypeOK /\ FrameInv /\ SideInv /\ UNCHANGED args /\ Args
  BY ArgsStay DEF GenerateInv, TypeOK, Args
<1>1. CASE Refuse \/ Prepare \/ EndpointFails \/ EgressFails \/ Deploy
  <2>1. UNCHANGED <<i, stunnelIndex, sidecars>> /\ (pc' = "endpoints" => pc = "start") /\ pc' # "start"
    BY <1>1 DEF Refuse, Prepare, EndpointFails, EgressFails, Deploy, Fail
  <2> QED
    BY <1>0, <2>1, SideSame
<1>2. CASE UNCHANGED vars
  BY <1>0, <1>2, SideSame DEF vars
<1>3. CASE EndpointsDone
  <2>1. \A j \in DOMAIN sidecars : ~sidecars[j].client
    BY <1>0, <1>3 DEF EndpointsDone, SideInv
  <2>2. UNCHANGED <<stunnelIndex, sidecars>>
    BY <1>3 DEF EndpointsDone
  <2> QED
    BY <1>0, <2>1, <2>2, SideSame
<1>4. CASE Endpoint
  <2> DEFINE e == app.endpoints[i]
             s == IngressStunnel(e)
  <2>1. e \in EndpointSpec /\ e \in Endpoints /\ ~CannotServe(e) /\ pc = "endpoints" /\ UNCHANGED pc
    BY <1>0, <1>4, EndpointObjects DEF Endpoint
  <2>2. CASE Terminated(e)
    <3>1. Add(s) /\ s \in Sidecar /\ i' = i + 1
      BY <1>0, <1>4, <2>1, <2>2, IngressStunnelType DEF Endpoint
    <3>2. /\ s.springboard = SpringboardPort + stunnelIndex /\ ~s.client
          /\ s.name = <<"stunnel-ingress", stunnelIndex>> /\ s.listen = ListenPort(e)
      BY DEF IngressStunnel, Stunnel
    <3>3. DefaultPorts => s.listen = BasePort + stunnelIndex
      BY <2>1, <3>2 DEF DefaultPorts, ListenPort
    <3> HIDE DEF s
    <3> QED
      BY <1>0, <2>1, <3>1, <3>2, <3>3, SideAdd
  <2>3. CASE ~Terminated(e)
    <3>1. \A j \in DOMAIN sidecars : ~sidecars[j].client
      BY <1>0, <2>1 DEF SideInv
    <3>2. UNCHANGED <<stunnelIndex, sidecars>>
      BY <1>4, <2>3 DEF Endpoint
    <3> QED
      BY <1>0, <3>1, <3>2, SideSame
  <2> QED
    BY <2>2, <2>3
<1>5. CASE Egress
  <2> DEFINE e == app.egresses[i]
             s == EgressStunnel(e)
  <2>1. e \in TlsEgress /\ ~CannotReach(e) /\ Add(s) /\ i' = i + 1 /\ pc = "egresses" /\ UNCHANGED pc
    BY <1>0, <1>5, EgressType DEF Egress
  <2>2. s \in Sidecar
    BY <1>0, <2>1, EgressStunnelType
  <2>3. /\ s.springboard = SpringboardPort + stunnelIndex /\ s.client
        /\ s.name = <<"stunnel-egress", i - 1>>
    BY DEF EgressStunnel, Stunnel
  <2> HIDE DEF s
  <2> QED
    BY <1>0, <2>1, <2>2, <2>3, SideAdd
<1> QED
  BY <1>1, <1>2, <1>3, <1>4, <1>5 DEF Next

-----------------------------------------------------------------------------
(* Objects: what is generated stays, and grows.                            *)

(* An endpoint that is served stays so, as objects and side-cars are added. *)
LEMMA ReachedStays ==
  ASSUME UNCHANGED args, NEW e, Reached(e),
         Range(objects) \subseteq Range(objects'), Range(sidecars) \subseteq Range(sidecars')
  PROVE  Reached(e)'
<1>1. Services \subseteq Services'
  BY DEF Services
<1>2. (Terminated(e)' <=> Terminated(e)) /\ SecretName(e)' = SecretName(e)
  BY DEF Terminated, TcpOverTls, HttpOverTls, SecretName, args
<1> QED
  BY <1>1, <1>2 DEF Reached

(* A turn of the endpoints' loop serves its endpoint. *)
LEMMA EndpointReached ==
  ASSUME TypeOK, Endpoint, UNCHANGED args, NEW e, e = app.endpoints[i]
  PROVE  Reached(e)'
<1> DEFINE o == [kind |-> "Service", name |-> e.name, port |-> ServicePort(e), target |-> TargetPort(e)]
<1>0. Args
  BY DEF Args, TypeOK
<1>1. e \in EndpointSpec /\ ~CannotServe(e) /\ Range(Service(e)) \subseteq Range(objects')
  BY EndpointObjects
<1>2. o \in Services'
  BY <1>0, <1>1, ServiceType DEF Services
<1>3. (Terminated(e)' <=> Terminated(e)) /\ SecretName(e)' = SecretName(e)
  BY DEF Terminated, TcpOverTls, HttpOverTls, SecretName, args
<1>4. CASE Terminated(e)
  <2>1. Add(IngressStunnel(e)) /\ IngressStunnel(e) \in Sidecar
    BY <1>0, <1>1, <1>4, IngressStunnelType DEF Endpoint
  <2>2. IngressStunnel(e) \in Range(sidecars')
    BY <2>1, AddTypes
  <2>3. /\ ~IngressStunnel(e).client /\ IngressStunnel(e).listen = ListenPort(e)
        /\ IngressStunnel(e).connect = <<"", e.port>> /\ IngressStunnel(e).secret = SecretName(e)
    BY DEF IngressStunnel, Stunnel
  <2>4. o.name = e.name /\ o.port = TlsPort /\ o.target = ListenPort(e)
    BY <1>4 DEF ServicePort, TargetPort
  <2> HIDE DEF o
  <2> QED
    BY <1>2, <1>3, <1>4, <2>2, <2>3, <2>4 DEF Reached
<1>5. CASE ~Terminated(e)
  <2>1. o.name = e.name /\ o.port = e.port /\ o.target = e.port
    BY <1>5 DEF ServicePort, TargetPort
  <2> HIDE DEF o
  <2> QED
    BY <1>2, <1>3, <1>5, <2>1 DEF Reached
<1> QED
  BY <1>4, <1>5

LEMMA BackendsStep == GenerateInv /\ [Next]_vars => BackendsServed'
<1> SUFFICES ASSUME GenerateInv, [Next]_vars, NEW o \in Ingresses'
             PROVE  \/ \E s \in Services' : s.name = o.service /\ s.port = o.port
                    \/ \E e \in Endpoints' : e.name = o.name /\ e.metrics /\ e.path
  BY DEF BackendsServed
<1>0. TypeOK /\ BackendsServed /\ UNCHANGED args /\ Args
  BY ArgsStay DEF GenerateInv, TypeOK, Args
<1>1. Endpoints' = Endpoints /\ o \in Range(objects') /\ o.kind = "Ingress"
  BY <1>0 DEF Endpoints, args, Ingresses
<1>2. ASSUME o \in Range(objects), Range(objects) \subseteq Range(objects')
      PROVE  \/ \E s \in Services' : s.name = o.service /\ s.port = o.port
             \/ \E e \in Endpoints : e.name = o.name /\ e.metrics /\ e.path
  <2>1. o \in Ingresses /\ Services \subseteq Services'
    BY <1>1, <1>2 DEF Ingresses, Services
  <2> QED
    BY <1>0, <2>1 DEF BackendsServed
<1>3. CASE Refuse \/ EndpointFails \/ EgressFails
  <2>1. objects' = <<>>
    BY <1>3 DEF Refuse, EndpointFails, EgressFails, Fail
  <2> QED
    BY <1>1, <2>1, RangeEmpty
<1>4. CASE Prepare
  <2>1. pod \in PodSpec /\ objects' = RBAC(pod)
    BY <1>0, <1>4 DEF TypeOK, Prepare
  <2> QED
    BY <1>1, <2>1, RBACType
<1>5. CASE Endpoint
  <2> DEFINE e == app.endpoints[i]
  <2>1. /\ e \in EndpointSpec /\ e \in Endpoints /\ ~CannotServe(e)
        /\ Range(objects') = Range(objects) \cup Range(Service(e))
                              \cup Range(HTTPIngress(e)) \cup Range(TCPIngress(e))
    BY <1>0, <1>5, EndpointObjects
  <2> HIDE DEF e
  <2> DEFINE s == [kind |-> "Service", name |-> e.name, port |-> ServicePort(e), target |-> TargetPort(e)]
  <2>2. s \in Services' /\ s.kind = "Service" /\ s.name = e.name /\ s.port = ServicePort(e)
    BY <1>0, <2>1, ServiceType DEF Services
  <2>3. Range(Service(e)) = {s}
    BY <1>0, <2>1, ServiceType
  <2> HIDE DEF s
  <2>4. CASE o \in Range(objects)
    BY <1>1, <1>2, <2>1, <2>4
  <2>5. CASE o \in Range(HTTPIngress(e))
    <3>1. /\ o.name = e.name /\ o.service = e.name /\ e.path
          /\ o.port = IF space.encryptHttp THEN TlsPort ELSE e.port
      BY <1>0, <2>1, <2>5, HTTPIngressType
    <3>2. CASE e.metrics
      BY <1>1, <2>1, <3>1, <3>2
    <3>3. CASE ~e.metrics
      <4>1. Terminated(e) <=> space.encryptHttp
        BY <3>1, <3>3 DEF Terminated, TcpOverTls, HttpOverTls
      <4> QED
        BY <2>2, <3>1, <4>1 DEF ServicePort
    <3> QED
      BY <3>2, <3>3
  <2>6. CASE o \in Range(TCPIngress(e))
    BY <1>0, <2>1, <2>2, <2>6, TCPIngressType
  <2>7. ~(o \in Range(Service(e)))
    BY <1>1, <2>2, <2>3
  <2> QED
    BY <1>1, <2>1, <2>4, <2>5, <2>6, <2>7
<1>6. CASE Deploy
  <2>1. Range(objects') = Range(objects) \cup {Workload} /\ Workload.kind # "Ingress"
    BY <1>0, <1>6, DeployObjects
  <2> QED
    BY <1>1, <1>2, <2>1
<1>7. CASE UNCHANGED objects
  BY <1>1, <1>2, <1>7
<1> QED
  BY <1>3, <1>4, <1>5, <1>6, <1>7 DEF Next, EndpointsDone, Egress, vars

LEMMA DeleteStep == GenerateInv /\ [Next]_vars => DeleteFindsAll'
<1> SUFFICES ASSUME GenerateInv, [Next]_vars, NEW o \in Range(objects')
             PROVE  \/ <<o.kind, o.name>> \in DeletedNames'
                    \/ app'.account /\ o.kind \in {"Role", "RoleBinding"}
  BY DEF DeleteFindsAll
<1>0. TypeOK /\ FrameInv /\ DeleteFindsAll /\ UNCHANGED args /\ Args
  BY ArgsStay DEF GenerateInv, TypeOK, Args
<1>1. DeletedNames' = DeletedNames /\ app' = app
  BY <1>0 DEF DeletedNames, Endpoints, args
<1>2. CASE o \in Range(objects)
  BY <1>0, <1>1, <1>2 DEF DeleteFindsAll
<1>3. CASE Refuse \/ EndpointFails \/ EgressFails
  <2>1. objects' = <<>>
    BY <1>3 DEF Refuse, EndpointFails, EgressFails, Fail
  <2> QED
    BY <2>1, RangeEmpty
<1>4. CASE Prepare
  <2>1. pod \in PodSpec /\ objects' = RBAC(pod)
    BY <1>0, <1>4 DEF TypeOK, Prepare
  <2>2. pod.account = IF app.account THEN "own" ELSE ""
    BY <1>0, <1>4 DEF Prepare, FrameInv
  <2>3. /\ app.permissions
        /\ \/ o.kind = "ServiceAccount" /\ o.name = "app" /\ pod.account = ""
           \/ o.kind \in {"Role", "RoleBinding"} /\ o.name = AccountName(pod)
    BY <2>1, RBACType
  <2>4. ~app.account => AccountName(pod) = "app"
    BY <2>2 DEF AccountName
  <2>5. app.account => pod.account # ""
    BY <2>2
  <2>6. CASE app.account
    BY <1>1, <2>3, <2>5, <2>6
  <2>7. CASE ~app.account
    <3>1. /\ <<"RoleBinding", "app">> \in DeletedNames /\ <<"Role", "app">> \in DeletedNames
          /\ <<"ServiceAccount", "app">> \in DeletedNames
      <4> DEFINE ofEndpoints == {<<k, e.name>> : k \in {"Service", "Ingress"}, e \in Endpoints}
                 workload == {<<IF app.job THEN "Job" ELSE "Deployment", "app">>}
                 roles == IF app.permissions THEN {<<"RoleBinding", "app">>, <<"Role", "app">>} ELSE {}
                 account == IF app.permissions /\ ~app.account THEN {<<"ServiceAccount", "app">>} ELSE {}
      <4>1. DeletedNames = ofEndpoints \cup workload \cup roles \cup account
        BY DEF DeletedNames
      <4>2. /\ <<"RoleBinding", "app">> \in roles /\ <<"Role", "app">> \in roles
            /\ <<"ServiceAccount", "app">> \in account
        BY <2>3, <2>7
      <4> HIDE DEF ofEndpoints, workload, roles, account
      <4> QED
        BY <4>1, <4>2
    <3>2. o.name = "app" /\ o.kind \in {"ServiceAccount", "Role", "RoleBinding"}
      BY <2>3, <2>4, <2>7
    <3> QED
      BY <1>1, <3>1, <3>2
  <2> QED
    BY <2>6, <2>7
<1>5. CASE Endpoint
  <2> DEFINE e == app.endpoints[i]
  <2>1. /\ e \in EndpointSpec /\ e \in Endpoints /\ ~CannotServe(e)
        /\ Range(objects') = Range(objects) \cup Range(Service(e))
                              \cup Range(HTTPIngress(e)) \cup Range(TCPIngress(e))
    BY <1>0, <1>5, EndpointObjects
  <2> HIDE DEF e
  <2>2. o \in Range(objects) \/ (o.kind \in {"Service", "Ingress"} /\ o.name = e.name)
    BY <1>0, <2>1, ServiceType, HTTPIngressType, TCPIngressType
  <2> QED
    BY <1>1, <1>2, <2>1, <2>2 DEF DeletedNames
<1>6. CASE Deploy
  <2>1. /\ Range(objects') = Range(objects) \cup {Workload} /\ Workload.name = "app"
        /\ Workload.kind = IF app.job THEN "Job" ELSE "Deployment"
    BY <1>0, <1>6, DeployObjects
  <2>2. <<Workload.kind, Workload.name>> \in DeletedNames
    BY <2>1 DEF DeletedNames
  <2> QED
    BY <1>1, <1>2, <2>1, <2>2
<1>7. CASE UNCHANGED objects
  BY <1>2, <1>7
<1> QED
  BY <1>3, <1>4, <1>5, <1>6, <1>7 DEF Next, EndpointsDone, Egress, vars

-----------------------------------------------------------------------------
(* The loops.                                                              *)

(* Where an endpoint or an egress is refused, the spec was not acceptable:  *)
(* the validation has asked for the certificates of endpoints before. *)
LEMMA RefusedForCause ==
  ASSUME TypeOK, FrameInv, Refuse \/ EndpointFails \/ EgressFails
  PROVE  ~Acceptable
<1>0. Args
  BY DEF TypeOK, Args
<1>1. CASE Refuse
  BY <1>1 DEF Refuse, Acceptable
<1>2. CASE EndpointFails
  <2> DEFINE e == app.endpoints[i]
  <2>1. /\ e \in EndpointSpec /\ e \in Endpoints /\ ~app.job /\ CannotServe(e)
        /\ ValidSpace /\ ValidEndpoint(e)
    BY <1>0, <1>2, EndpointType DEF EndpointFails, FrameInv, ValidApp
  <2> HIDE DEF e
  <2>2. Terminated(e) => SecretName(e) # ""
    BY <2>1 DEF ValidSpace, ValidEndpoint, Terminated, TcpOverTls, HttpOverTls, SecretName
  <2>3. e.port \in Int /\ e.port < 1
    <3>1. e.port \in Int
      BY <2>1 DEF EndpointSpec
    <3>2. e.port < 1
      BY <2>1, <2>2 DEF CannotServe
    <3> QED
      BY <3>1, <3>2
  <2>4. ~(e.port > 0)
    BY <2>3
  <2> QED
    BY <2>1, <2>4 DEF Acceptable
<1>3. CASE EgressFails
  <2> DEFINE e == app.egresses[i]
  <2>1. e \in Range(app.egresses) /\ CannotReach(e)
    BY <1>0, <1>3, EgressType DEF EgressFails
  <2> HIDE DEF e
  <2>2. ~(e.dest # "none" /\ (e.cert \/ space.tcpCert))
    BY <2>1 DEF CannotReach, EgressSecret
  <2> QED
    BY <2>1, <2>2 DEF Acceptable
<1> QED
  BY <1>1, <1>2, <1>3

LEMMA LoopStep == GenerateInv /\ [Next]_vars => LoopInv'
<1> SUFFICES ASSUME GenerateInv, [Next]_vars PROVE LoopInv'
  OBVIOUS
<1>0. TypeOK /\ FrameInv /\ LoopInv /\ UNCHANGED args /\ Args
  BY ArgsStay DEF GenerateInv, TypeOK, Args
<1>1. /\ UNCHANGED <<app, space, Endpoints>> /\ Acceptable' = Acceptable
      /\ \A e : CannotReach(e)' <=> CannotReach(e)
  BY <1>0 DEF args, Endpoints, Acceptable, ValidSpace, ValidApp, ValidEndpoint, CannotReach, EgressSecret
<1>2. CASE Refuse \/ EndpointFails \/ EgressFails
  <2>1. pc' = "failed" /\ objects' = <<>>
    BY <1>2 DEF Refuse, EndpointFails, EgressFails, Fail
  <2>2. ~Acceptable
    BY <1>0, <1>2, RefusedForCause
  <2> QED
    BY <1>1, <2>1, <2>2 DEF LoopInv
<1>3. CASE Prepare
  <2>1. pc' = "endpoints" /\ i' = 1
    BY <1>0, <1>3 DEF Prepare, FrameInv
  <2>2. \A k \in DOMAIN app.endpoints : ~(k < 1)
    BY <1>0 DEF Args, AppSpec
  <2> QED
    BY <1>1, <2>1, <2>2 DEF LoopInv
<1>4. CASE Endpoint
  <2>0. PICK e : e = app.endpoints[i]
    OBVIOUS
  <2>1. /\ e \in EndpointSpec /\ ~CannotServe(e)
        /\ Range(objects) \subseteq Range(objects')
    BY <1>0, <1>4, <2>0, EndpointObjects
  <2>2. pc = "endpoints" /\ pc' = "endpoints" /\ i' = i + 1 /\ ~app.job
    BY <1>4 DEF Endpoint
  <2>3. Range(sidecars) \subseteq Range(sidecars')
    <3>1. CASE Terminated(e)
      <4>1. Add(IngressStunnel(e)) /\ IngressStunnel(e) \in Sidecar
        BY <1>0, <1>4, <2>0, <2>1, <3>1, IngressStunnelType DEF Endpoint
      <4> QED
        BY <1>0, <4>1, AddTypes
    <3>2. CASE ~Terminated(e)
      BY <1>4, <2>0, <3>2 DEF Endpoint
    <3> QED
      BY <3>1, <3>2
  <2>4. e.port > 0
    BY <1>0, <2>1, PortType
  <2>5. Reached(e)'
    BY <1>0, <1>4, <2>0, EndpointReached
  <2>6. ASSUME NEW k \in DOMAIN app.endpoints, k < i + 1
        PROVE  app.endpoints[k].port > 0 /\ Reached(app.endpoints[k])'
    <3>1. CASE k = i
      BY <1>1, <2>0, <2>4, <2>5, <3>1
    <3>2. CASE k # i
      <4>1. k < i
        <5>1. k \in Int /\ i \in Int
          BY <1>0 DEF Args, AppSpec
        <5> QED
          BY <2>6, <3>2, <5>1
      <4>2. PICK d : d = app.endpoints[k]
        OBVIOUS
      <4>3. d.port > 0 /\ Reached(d)
        BY <1>0, <2>2, <4>1, <4>2 DEF LoopInv
      <4>4. Reached(d)'
        BY <1>0, <2>1, <2>3, <4>3, ReachedStays
      <4> QED
        BY <1>1, <4>2, <4>3, <4>4
    <3> QED
      BY <3>1, <3>2
  <2> QED
    BY <1>1, <2>2, <2>6 DEF LoopInv
<1>5. CASE EndpointsDone
  <2>1. pc = "endpoints" /\ pc' = "egresses" /\ i' = 1 /\ UNCHANGED <<objects, sidecars>>
    BY <1>5 DEF EndpointsDone
  <2>2. \A e : Reached(e) => Reached(e)'
    BY <1>0, <2>1, ReachedStays
  <2>3. ASSUME ~app.job, NEW e \in Endpoints PROVE e.port > 0 /\ Reached(e)
    <3>1. PICK k \in DOMAIN app.endpoints : e = app.endpoints[k]
      BY DEF Endpoints, Range
    <3>2. k < i
      <4>1. i \notin DOMAIN app.endpoints
        BY <1>5, <2>3 DEF EndpointsDone
      <4>2. DOMAIN app.endpoints = 1..Len(app.endpoints) /\ Len(app.endpoints) \in Nat /\ i \in Nat \ {0}
        BY <1>0 DEF Args, AppSpec
      <4> QED
        BY <4>1, <4>2
    <3> QED
      BY <1>0, <2>1, <2>3, <3>1, <3>2 DEF LoopInv
  <2>4. \A k \in DOMAIN app.egresses : ~(k < 1)
    BY <1>0 DEF Args, AppSpec
  <2> QED
    BY <1>1, <2>1, <2>2, <2>3, <2>4 DEF LoopInv
<1>6. CASE Egress
  <2> DEFINE g == app.egresses[i]
  <2>1. /\ g \in TlsEgress /\ ~CannotReach(g) /\ Add(EgressStunnel(g)) /\ i' = i + 1
        /\ pc = "egresses" /\ UNCHANGED <<pc, objects>>
    BY <1>0, <1>6, EgressType DEF Egress
  <2>2. EgressStunnel(g) \in Sidecar
    BY <1>0, <2>1, EgressStunnelType
  <2>3. Range(sidecars) \subseteq Range(sidecars')
    BY <1>0, <2>1, <2>2, AddTypes
  <2>4. \A e : Reached(e) => Reached(e)'
    BY <1>0, <2>1, <2>3, ReachedStays
  <2>5. ASSUME NEW k \in DOMAIN app.egresses, k < i + 1 PROVE ~CannotReach(app.egresses[k])
    <3>1. k \in Int /\ i \in Int
      BY <1>0 DEF Args, AppSpec
    <3>2. k < i \/ k = i
      BY <2>5, <3>1
    <3> QED
      BY <1>0, <2>1, <3>2 DEF LoopInv
  <2> QED
    BY <1>0, <1>1, <2>1, <2>4, <2>5 DEF LoopInv
<1>7. CASE Deploy
  <2>1. pc = "egresses" /\ pc' = "done" /\ UNCHANGED sidecars
    BY <1>7 DEF Deploy
  <2>2. Range(objects) \subseteq Range(objects')
    BY <1>0, <1>7, DeployObjects
  <2>3. \A e : Reached(e) => Reached(e)'
    BY <1>0, <2>1, <2>2, ReachedStays
  <2>4. ASSUME NEW e \in Range(app.egresses) PROVE ~CannotReach(e)
    <3>1. PICK k \in DOMAIN app.egresses : e = app.egresses[k]
      BY DEF Range
    <3>2. k < i
      <4>1. i \notin DOMAIN app.egresses
        BY <1>7 DEF Deploy
      <4>2. DOMAIN app.egresses = 1..Len(app.egresses) /\ Len(app.egresses) \in Nat /\ i \in Nat \ {0}
        BY <1>0 DEF Args, AppSpec
      <4> QED
        BY <4>1, <4>2
    <3> QED
      BY <1>0, <2>1, <3>1, <3>2 DEF LoopInv
  <2> QED
    BY <1>0, <1>1, <2>1, <2>3, <2>4 DEF LoopInv
<1>8. CASE UNCHANGED vars
  <2>1. \A e : Reached(e) => Reached(e)'
    BY <1>0, <1>8, ReachedStays DEF vars
  <2> QED
    BY <1>0, <1>1, <1>8, <2>1 DEF LoopInv, vars
<1> QED
  BY <1>2, <1>3, <1>4, <1>5, <1>6, <1>7, <1>8 DEF Next

-----------------------------------------------------------------------------

LEMMA GenerateInvariant == Spec => []GenerateInv
<1>1. GenerateInv /\ [Next]_vars => GenerateInv'
  <2> SUFFICES ASSUME GenerateInv, [Next]_vars PROVE GenerateInv'
    OBVIOUS
  <2>1. TypeOK'
    BY GenerateTypeStep DEF GenerateInv
  <2>2. FrameInv' /\ SideInv' /\ LoopInv' /\ BackendsServed' /\ DeleteFindsAll'
    BY FrameStep, SideStep, LoopStep, BackendsStep, DeleteStep
  <2> QED
    BY <2>1, <2>2 DEF GenerateInv
<1> QED
  BY GenerateInit, <1>1, PTL DEF Spec

(* The variables keep their types, for all specs.                          *)
THEOREM TypeCorrect == Spec => []TypeOK
<1>1. GenerateInv => TypeOK
  BY DEF GenerateInv
<1> QED
  BY GenerateInvariant, <1>1, PTL

LEMMA DistinctNow == GenerateInv => SidecarsDistinct
<1> SUFFICES ASSUME GenerateInv, NEW j \in DOMAIN sidecars, NEW k \in DOMAIN sidecars, j # k
             PROVE  /\ sidecars[j].name # sidecars[k].name
                    /\ sidecars[j].springboard # sidecars[k].springboard
                    /\ DefaultPorts /\ ~sidecars[j].client /\ ~sidecars[k].client =>
                         sidecars[j].listen # sidecars[k].listen
  BY DEF SidecarsDistinct
<1>1. TypeOK /\ SideInv
  BY DEF GenerateInv
<1>2. j \in Int /\ k \in Int /\ sidecars[j] \in Sidecar /\ sidecars[k] \in Sidecar
  BY <1>1 DEF TypeOK
<1>3. BasePort \in Nat
  BY <1>1 DEF BasePort, TlsPort, TypeOK, AppSpec
<1>4. SpringboardPort + (j - 1) # SpringboardPort + (k - 1) /\ BasePort + (j - 1) # BasePort + (k - 1)
  BY <1>2, <1>3 DEF SpringboardPort
<1>5. sidecars[j].springboard # sidecars[k].springboard
  BY <1>1, <1>4 DEF SideInv
<1>6. DefaultPorts /\ ~sidecars[j].client /\ ~sidecars[k].client =>
        sidecars[j].listen # sidecars[k].listen
  BY <1>1, <1>4 DEF SideInv
<1>7. sidecars[j].name # sidecars[k].name
  <2>1. CASE ~sidecars[j].client /\ ~sidecars[k].client
    <3>1. sidecars[j].name[2] = j - 1 /\ sidecars[k].name[2] = k - 1
      BY <1>1, <2>1 DEF SideInv
    <3> QED
      BY <1>2, <3>1
  <2>2. CASE sidecars[j].client /\ sidecars[k].client
    <3>1. sidecars[j].name[2] < sidecars[k].name[2] \/ sidecars[k].name[2] < sidecars[j].name[2]
      <4>1. j < k \/ k < j
        BY <1>2
      <4> QED
        BY <1>1, <2>2, <4>1 DEF SideInv
    <3>2. sidecars[j].name[2] \in Nat /\ sidecars[k].name[2] \in Nat
      <4>1. /\ sidecars[j].name \in {"stunnel-ingress", "stunnel-egress"} \X Nat
            /\ sidecars[k].name \in {"stunnel-ingress", "stunnel-egress"} \X Nat
        BY <1>2 DEF Sidecar
      <4> QED
        BY <4>1
    <3> QED
      BY <3>1, <3>2
  <2>3. CASE sidecars[j].client /\ ~sidecars[k].client
    BY <1>1, <2>3 DEF SideInv
  <2>4. CASE ~sidecars[j].client /\ sidecars[k].client
    BY <1>1, <2>4 DEF SideInv
  <2> QED
    BY <2>1, <2>2, <2>3, <2>4
<1> QED
  BY <1>5, <1>6, <1>7

(* No two side-cars asked for have a name or a springboard port in common, *)
(* nor, with default ports, two of endpoints a listen port.                *)
THEOREM Distinct == Spec => []SidecarsDistinct
  BY GenerateInvariant, DistinctNow, PTL

(* For any number of endpoints and egresses, every service leads to the    *)
(* port its endpoint's side-car was told to listen on, and with default    *)
(* ports to that side-car only; the service of an endpoint without one     *)
(* leads to the endpoint's port. It does not say that the pod has them.    *)
THEOREM TargetsMeetSidecars == Spec => []TargetsAgree
<1>1. GenerateInv => TargetsAgree
  <2> SUFFICES ASSUME GenerateInv, pc = "done", ~app.job, NEW e \in Endpoints
               PROVE  \E o \in Services :
                        /\ o.name = e.name
                        /\ \/ ~Terminated(e) /\ o.port = e.port /\ o.target = e.port
                           \/ /\ Terminated(e) /\ o.port = TlsPort
                              /\ \E s \in Range(sidecars) :
                                   /\ ~s.client /\ s.listen = o.target
                                   /\ s.connect = <<"", e.port>> /\ s.secret = SecretName(e)
                                   /\ DefaultPorts =>
                                        \A t \in Range(sidecars) :
                                          ~t.client /\ t.listen = o.target => t = s
    BY DEF TargetsAgree
  <2>1. Reached(e) /\ SidecarsDistinct
    BY DistinctNow DEF GenerateInv, LoopInv
  <2>2. ASSUME DefaultPorts, NEW s \in Range(sidecars), NEW t \in Range(sidecars),
               ~s.client, ~t.client, s.listen = t.listen
        PROVE  t = s
    <3>1. PICK j \in DOMAIN sidecars, k \in DOMAIN sidecars : s = sidecars[j] /\ t = sidecars[k]
      BY DEF Range
    <3> QED
      BY <2>1, <2>2, <3>1 DEF SidecarsDistinct
  <2> QED
    BY <2>1, <2>2 DEF Reached
<1> QED
  BY GenerateInvariant, <1>1, PTL

(* No ingress forwards to a service or a port that there is not, but for   *)
(* an endpoint with both metrics and a path.                               *)
THEOREM IngressesServed == Spec => []BackendsServed
<1>1. GenerateInv => BackendsServed
  BY DEF GenerateInv
<1> QED
  BY GenerateInvariant, <1>1, PTL

(* Exactly the acceptable specs yield objects; the others yield none.      *)
THEOREM AllOrNothing == Spec => []FailsForCause
<1>1. GenerateInv => FailsForCause
  <2> SUFFICES ASSUME GenerateInv PROVE FailsForCause
    OBVIOUS
  <2>1. FrameInv /\ LoopInv
    BY DEF GenerateInv
  <2>2. ASSUME pc = "done" PROVE Acceptable
    <3>1. ValidSpace /\ ValidApp
      BY <2>1, <2>2 DEF FrameInv
    <3>2. app.job \/ \A e \in Endpoints : e.port > 0
      BY <2>1, <2>2 DEF LoopInv
    <3>3. \A e \in Range(app.egresses) : e.dest # "none" /\ (e.cert \/ space.tcpCert)
      BY <2>1, <2>2 DEF LoopInv, CannotReach, EgressSecret
    <3> QED
      BY <3>1, <3>2, <3>3 DEF Acceptable
  <2> QED
    BY <2>1, <2>2 DEF FailsForCause, LoopInv
<1> QED
  BY GenerateInvariant, <1>1, PTL

(* Delete() knows the name of every object, but for the roles of an app    *)
(* that brings its own account.                                            *)
THEOREM NamesAgree == Spec => []DeleteFindsAll
<1>1. GenerateInv => DeleteFindsAll
  BY DEF GenerateInv
<1> QED
  BY GenerateInvariant, <1>1, PTL

-----------------------------------------------------------------------------
(* The objects of an accepted spec.                                        *)

In(os) == {<<o.kind, o.name>> : o \in Range(os)}

(* What the turns before the n-th have made.                               *)
Before(n) == UNION {NamesOf(app.endpoints[k]) : k \in {j \in DOMAIN app.endpoints : j < n}}

OfEndpoints == IF app.job THEN {} ELSE UNION {NamesOf(e) : e \in Endpoints}

NamesInv ==
  /\ pc = "endpoints" => (app.job => i = 1) /\ In(objects) = Accounts \cup Before(i)
  /\ pc = "egresses" => In(objects) = Accounts \cup OfEndpoints
  /\ pc = "done" => In(objects) = WantedNames

LEMMA InSingle ==
  ASSUME NEW x \in Object
  PROVE  In(<<x>>) = {<<x.kind, x.name>>}
<1>1. Range(<<x>>) = {x}
  BY RangeSingle
<1> QED
  BY <1>1 DEF In

LEMMA EndpointNames ==
  ASSUME Args, NEW e \in EndpointSpec, ~CannotServe(e)
  PROVE  In(Service(e)) \cup In(HTTPIngress(e)) \cup In(TCPIngress(e)) = NamesOf(e)
<1>1. In(Service(e)) = {<<"Service", e.name>>}
  <2> DEFINE o == [kind |-> "Service", name |-> e.name, port |-> ServicePort(e), target |-> TargetPort(e)]
  <2>1. Range(Service(e)) = {o}
    BY ServiceType
  <2>2. o.kind = "Service" /\ o.name = e.name
    OBVIOUS
  <2> HIDE DEF o
  <2> QED
    BY <2>1, <2>2 DEF In
<1>2. In(HTTPIngress(e)) = IF e.path THEN {<<"Ingress", e.name>>} ELSE {}
  <2>1. \A o \in Range(HTTPIngress(e)) : o.kind = "Ingress" /\ o.name = e.name
    BY HTTPIngressType
  <2>2. e.path => Range(HTTPIngress(e)) # {}
    <3>1. e.path => Len(HTTPIngress(e)) = 1
      BY DEF HTTPIngress
    <3>2. HTTPIngress(e) \in Seq(Object)
      BY HTTPIngressType
    <3> QED
      BY <3>1, <3>2 DEF Range
  <2>3. ~e.path => Range(HTTPIngress(e)) = {}
    BY RangeEmpty DEF HTTPIngress
  <2> QED
    BY <2>1, <2>2, <2>3 DEF In
<1>3. In(TCPIngress(e)) = IF ~e.metrics /\ ~e.path THEN {<<"Ingress", e.name>>} ELSE {}
  <2>1. \A o \in Range(TCPIngress(e)) : o.kind = "Ingress" /\ o.name = e.name
    BY TCPIngressType
  <2>2. ~e.metrics /\ ~e.path => Range(TCPIngress(e)) # {}
    <3>1. ~e.metrics /\ ~e.path => Len(TCPIngress(e)) = 1
      BY DEF TCPIngress
    <3>2. TCPIngress(e) \in Seq(Object)
      BY TCPIngressType
    <3> QED
      BY <3>1, <3>2 DEF Range
  <2>3. ~(~e.metrics /\ ~e.path) => Range(TCPIngress(e)) = {}
    BY RangeEmpty DEF TCPIngress
  <2> QED
    BY <2>1, <2>2, <2>3 DEF In
<1> QED
  BY <1>1, <1>2, <1>3 DEF NamesOf

LEMMA AccountNames ==
  ASSUME TypeOK, FrameInv, pc = "start"
  PROVE  In(RBAC(pod)) = Accounts
<1> DEFINE p == pod
           n == AccountName(p)
           a == [kind |-> "ServiceAccount", name |-> "app"]
           r == [kind |-> "Role", name |-> n]
           b == [kind |-> "RoleBinding", name |-> n]
           sa == <<a>>
           rb == <<r, b>>
<1>1. /\ app.account => p.account = "own" /\ n = "own"
      /\ ~app.account => p.account = "" /\ n = "app"
  BY DEF FrameInv, AccountName
<1>2. a \in Object /\ r \in Object /\ b \in Object
  BY <1>1 DEF Object
<1>3. RBAC(p) = IF app.permissions THEN (IF p.account = "" THEN sa ELSE <<>>) \o rb ELSE <<>>
  BY DEF RBAC
<1>4. a.kind = "ServiceAccount" /\ a.name = "app" /\ r.kind = "Role" /\ r.name = n
      /\ b.kind = "RoleBinding" /\ b.name = n
  OBVIOUS
<1> HIDE DEF p, n, a, r, b
<1>5. sa \in Seq(Object) /\ Range(sa) = {a}
  BY <1>2, RangeSingle
<1>6. rb \in Seq(Object) /\ Range(rb) = {r, b}
  BY <1>2 DEF Range
<1> HIDE DEF sa, rb
<1>7. CASE ~app.permissions
  <2>1. In(RBAC(p)) = {}
    BY <1>3, <1>7, RangeEmpty DEF In
  <2> QED
    BY <1>7, <2>1 DEF Accounts, p
<1>8. CASE app.permissions /\ app.account
  <2>1. RBAC(p) = rb
    BY <1>1, <1>3, <1>6, <1>8, ConcatEmptySeq
  <2>2. In(RBAC(p)) = {<<"Role", "own">>, <<"RoleBinding", "own">>}
    BY <1>1, <1>4, <1>6, <1>8, <2>1 DEF In
  <2> QED
    BY <1>8, <2>2 DEF Accounts, p
<1>9. CASE app.permissions /\ ~app.account
  <2>1. RBAC(p) = sa \o rb
    BY <1>1, <1>3, <1>9
  <2>2. Range(RBAC(p)) = Range(sa) \cup Range(rb)
    BY <1>5, <1>6, <2>1, RangeConcat
  <2>3. Range(RBAC(p)) = {a, r, b}
    BY <1>5, <1>6, <2>2
  <2>4. In(RBAC(p)) = {<<"ServiceAccount", "app">>, <<"Role", "app">>, <<"RoleBinding", "app">>}
    BY <1>1, <1>4, <1>9, <2>3 DEF In
  <2> QED
    BY <1>9, <2>4 DEF Accounts, p
<1> QED
  BY <1>7, <1>8, <1>9

LEMMA BeforeFacts ==
  ASSUME TypeOK
  PROVE  /\ Before(1) = {}
         /\ i \in DOMAIN app.endpoints => Before(i + 1) = Before(i) \cup NamesOf(app.endpoints[i])
         /\ i \notin DOMAIN app.endpoints => Before(i) = UNION {NamesOf(e) : e \in Endpoints}
<1>1. /\ app.endpoints \in Seq(EndpointSpec) /\ i \in Nat \ {0}
      /\ Len(app.endpoints) \in Nat /\ DOMAIN app.endpoints = 1..Len(app.endpoints)
  BY DEF TypeOK, AppSpec
<1> DEFINE D == DOMAIN app.endpoints
<1>2. {j \in D : j < 1} = {}
  BY <1>1
<1>3. i \in D => {j \in D : j < i + 1} = {j \in D : j < i} \cup {i}
  BY <1>1
<1>4. i \notin D => {j \in D : j < i} = D
  BY <1>1
<1>5. Endpoints = {app.endpoints[j] : j \in D}
  BY DEF Endpoints, Range
<1> HIDE DEF D
<1>6. i \in D => Before(i + 1) = Before(i) \cup NamesOf(app.endpoints[i])
  <2> SUFFICES ASSUME i \in D, NEW x
               PROVE  x \in Before(i + 1) <=> x \in Before(i) \/ x \in NamesOf(app.endpoints[i])
    OBVIOUS
  <2>1. x \in Before(i + 1) <=> \E j \in {j \in D : j < i} \cup {i} : x \in NamesOf(app.endpoints[j])
    BY <1>3 DEF Before, D
  <2>2. x \in Before(i) <=> \E j \in {j \in D : j < i} : x \in NamesOf(app.endpoints[j])
    BY DEF Before, D
  <2> QED
    BY <2>1, <2>2
<1>7. i \notin D => Before(i) = UNION {NamesOf(e) : e \in Endpoints}
  BY <1>4, <1>5 DEF Before, D
<1> QED
  BY <1>2, <1>6, <1>7 DEF Before, D

LEMMA NamesStep == GenerateInv /\ NamesInv /\ [Next]_vars => NamesInv'
<1> SUFFICES ASSUME GenerateInv, NamesInv, [Next]_vars PROVE NamesInv'
  OBVIOUS
<1>0. TypeOK /\ FrameInv /\ app' = app /\ Args
  BY ArgsStay DEF GenerateInv, args, TypeOK, Args
<1>1. /\ Accounts' = Accounts /\ OfEndpoints' = OfEndpoints /\ WantedNames' = WantedNames
      /\ \A n : Before(n)' = Before(n)
  BY <1>0 DEF Accounts, OfEndpoints, WantedNames, Before, NamesOf, Endpoints
<1>2. CASE Refuse \/ EndpointFails \/ EgressFails
  BY <1>2 DEF Refuse, EndpointFails, EgressFails, Fail, NamesInv
<1>3. CASE Prepare
  <2>1. pc = "start" /\ pc' = "endpoints" /\ i' = 1 /\ objects' = RBAC(pod)
    BY <1>0, <1>3 DEF Prepare, FrameInv
  <2>2. In(objects') = Accounts \cup Before(1)
    BY <1>0, <2>1, AccountNames, BeforeFacts
  <2> QED
    BY <1>1, <2>1, <2>2 DEF NamesInv, In
<1>4. CASE Endpoint
  <2>0. PICK e : e = app.endpoints[i]
    OBVIOUS
  <2>1. /\ e \in EndpointSpec /\ ~CannotServe(e)
        /\ Range(objects') = Range(objects) \cup Range(Service(e))
                              \cup Range(HTTPIngress(e)) \cup Range(TCPIngress(e))
    BY <1>0, <1>4, <2>0, EndpointObjects
  <2>2. /\ pc = "endpoints" /\ pc' = "endpoints" /\ i' = i + 1 /\ ~app.job
        /\ i \in DOMAIN app.endpoints
    BY <1>4 DEF Endpoint
  <2>3. In(objects') = In(objects) \cup
                         (In(Service(e)) \cup In(HTTPIngress(e)) \cup In(TCPIngress(e)))
    BY <2>1 DEF In
  <2>4. In(objects') = Accounts \cup Before(i) \cup NamesOf(e)
    BY <1>0, <2>1, <2>2, <2>3, EndpointNames DEF NamesInv
  <2>5. In(objects') = Accounts \cup Before(i + 1)
    BY <1>0, <2>0, <2>2, <2>4, BeforeFacts
  <2> QED
    BY <1>0, <1>1, <2>2, <2>5 DEF NamesInv, In
<1>5. CASE EndpointsDone
  <2>1. /\ pc = "endpoints" /\ pc' = "egresses" /\ objects' = objects
        /\ app.job \/ i \notin DOMAIN app.endpoints
    BY <1>5 DEF EndpointsDone
  <2>2. In(objects) = Accounts \cup OfEndpoints
    BY <1>0, <2>1, BeforeFacts DEF NamesInv, OfEndpoints
  <2> QED
    BY <1>1, <2>1, <2>2 DEF NamesInv, In
<1>6. CASE Egress
  <2>1. pc = "egresses" /\ UNCHANGED <<pc, objects>>
    BY <1>6 DEF Egress
  <2> QED
    BY <1>1, <2>1 DEF NamesInv, In
<1>7. CASE Deploy
  <2>1. pc = "egresses" /\ pc' = "done"
    BY <1>7 DEF Deploy
  <2>2. /\ Range(objects') = Range(objects) \cup {Workload} /\ Workload.name = "app"
        /\ Workload.kind = IF app.job THEN "Job" ELSE "Deployment"
    BY <1>0, <1>7, DeployObjects
  <2>3. In(objects') = In(objects) \cup {<<Workload.kind, Workload.name>>}
    BY <2>2 DEF In
  <2>4. In(objects') = WantedNames
    BY <2>1, <2>2, <2>3 DEF NamesInv, WantedNames, OfEndpoints
  <2> QED
    BY <1>1, <2>1, <2>4 DEF NamesInv, In
<1>8. CASE UNCHANGED vars
  BY <1>1, <1>8 DEF NamesInv, In, vars
<1> QED
  BY <1>2, <1>3, <1>4, <1>5, <1>6, <1>7, <1>8 DEF Next

(* For any spec, with any number of endpoints, what is generated is what   *)
(* the spec asks for, no more and no less: what module AppRuntime takes    *)
(* GenerateResources to make (there for one endpoint). *)
THEOREM NothingLeftOut == Spec => []GeneratesWanted
<1>1. Init => NamesInv
  BY DEF Init, NamesInv
<1>2. NamesInv => GeneratesWanted
  BY DEF NamesInv, GeneratesWanted, In
<1> QED
  BY GenerateInit, GenerateInvariant, NamesStep, <1>1, <1>2, PTL DEF Spec
=============================================================================
