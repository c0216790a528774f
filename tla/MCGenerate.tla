----------------------------- MODULE MCGenerate ------------------------------
(* Instances: every space that differs in what is used, apps with up to    *)
(* three endpoints of eleven kinds, apps with up to two egresses of seven  *)
(* kinds next to an endpoint. *)
EXTENDS Generate, FiniteSets

Tcp == [name |-> "e", port |-> 80, metrics |-> FALSE, path |-> FALSE, tlsListenPort |-> 0,
        cert |-> FALSE, noTermination |-> FALSE, noClientVerify |-> FALSE, localhostOnly |-> FALSE]

EndpointKinds ==
  {Tcp, [Tcp EXCEPT !.cert = TRUE, !.noClientVerify = TRUE], [Tcp EXCEPT !.noTermination = TRUE],
   [Tcp EXCEPT !.metrics = TRUE], [Tcp EXCEPT !.path = TRUE],
   [Tcp EXCEPT !.path = TRUE, !.metrics = TRUE],
   [Tcp EXCEPT !.path = TRUE, !.cert = TRUE, !.localhostOnly = TRUE],
   [Tcp EXCEPT !.path = TRUE, !.noClientVerify = TRUE],
   [Tcp EXCEPT !.port = 0], [Tcp EXCEPT !.path = TRUE, !.port = -1],
   [Tcp EXCEPT !.tlsListenPort = 8443]}

EgressKinds ==
  [cert : BOOLEAN, dest : {"none", "fqdn", "endpoint"}, localPort : {3306}, targetPort : {0}, delay : {FALSE},
   noVerify : {FALSE}]
  \cup {[cert |-> TRUE, dest |-> "fqdn", localPort |-> 5432, targetPort |-> 8443, delay |-> TRUE, noVerify |-> TRUE]}

Lists(S, n) == UNION {[1..k -> S] : k \in 0..n}

(* The endpoints of an app have names of their own. *)
Named(es) == [k \in DOMAIN es |-> [es[k] EXCEPT !.name = <<"e1", "e2", "e3">>[k]]]

Plain == [job |-> FALSE, firstListenPort |-> 0, permissions |-> FALSE, account |-> FALSE,
          domainEnv |-> FALSE, endpoints |-> <<>>, egresses |-> <<>>]

SomeApps ==
  {[Plain EXCEPT !.endpoints = Named(es), !.firstListenPort = p] :
     es \in Lists(EndpointKinds, 3), p \in {0, 9000}}
  \cup
  {[Plain EXCEPT !.endpoints = Named(es), !.egresses = gs, !.job = j] :
     es \in Lists(EndpointKinds, 1), gs \in Lists(EgressKinds, 2), j \in BOOLEAN}
  \cup
  {[Plain EXCEPT !.endpoints = Named(es), !.job = j, !.permissions = p, !.account = a, !.domainEnv = d] :
     es \in Lists(EndpointKinds, 1), j \in BOOLEAN, p \in BOOLEAN, a \in BOOLEAN, d \in BOOLEAN}

SomeSpaces ==
  {s \in SpaceSpec :
     \/ s.domain /\ s.httpCert /\ ~s.reserved
     \/ s.tcpCert /\ s.encryptHttp /\ Cardinality({x \in {"domain", "httpCert"} : ~s[x]}) < 2}
=============================================================================
