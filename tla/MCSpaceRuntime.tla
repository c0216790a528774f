--------------------------- MODULE MCSpaceRuntime ----------------------------
(* Instances of the life of a space: operators are interchangeable, and    *)
(* the specs ask for everything optional, for a part of it with the        *)
(* removal of one certificate, or for something invalid.                   *)
EXTENDS SpaceRuntime, TLC

Everything == Options \ {"invalid"}

SomeSpecs == {Everything, {"tcp", "deleteHttp", "privateIngress"}, {"invalid"}}

Symmetry == Permutations(Ops)
=============================================================================
