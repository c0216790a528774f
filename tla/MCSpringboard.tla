---------------------------- MODULE MCSpringboard ----------------------------
(* Two clients of one springboard. *)
EXTENDS Springboard

TwoClients == {"c1", "c2"}
=============================================================================
