------------------------------- MODULE MCDns ---------------------------------
(* A space, or an app with up to three endpoints; two addresses; the       *)
(* back-off of src/pkg/misc/misc.go, with attempts that take no time or    *)
(* ten seconds. *)
EXTENDS Dns

TwoAddrs == {"10.0.0.1", "lb.example"}
SomeDurations == {0, 10}
=============================================================================
