---------------------------- MODULE MCAppRuntime -----------------------------
(* Instances of the apps of a namespace: an app with an endpoint, a job    *)
(* that brings its service account, one that cannot be generated, and one  *)
(* with an invalid spec. *)
EXTENDS AppRuntime

PairSpecs == {{"endpoint"}, {"invalid"}}
LiveSpecs ==
  {{"endpoint", "dns"}, {"job", "permissions", "ownAccount"}, {"unfit"}, {"invalid"}}
=============================================================================
