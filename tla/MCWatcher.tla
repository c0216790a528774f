------------------------------ MODULE MCWatcher ------------------------------
(* Instances of the watch loop: apps of one namespace, whose names are     *)
(* unique. *)
EXTENDS Watcher

UniqueNames == [o \in Objects |-> o]
=============================================================================
