----------------------------- MODULE MCOperator ------------------------------
(* Instances of the operator: app controllers are interchangeable.         *)
EXTENDS Operator, TLC

Symmetry == Permutations(Ctls)
=============================================================================
