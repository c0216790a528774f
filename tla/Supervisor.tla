----------------------------- MODULE Supervisor ------------------------------
(***************************************************************************)
(* What the operator promises of the app controllers it runs: they are     *)
(* started during a run of the space controller, end because they were     *)
(* told to, and a run that has failed returns when all of them have ended. *)
(* Spaces, namespaces, watches and items do not occur here: who tells a    *)
(* controller, when and why is for module Operator, which implements this  *)
(* one.                                                                    *)
(***************************************************************************)
CONSTANT Children

VARIABLES
  main,  \* the run: "running", "exiting", or "sleeping" between two of them
  live,  \* the children that have not ended
  told   \* the children told to end

vars == <<main, live, told>>

Init ==
  /\ main = "running"
  /\ live = {}
  /\ told = {}

Start(c) ==
  /\ main = "running"
  /\ c \notin live
  /\ live' = live \cup {c}
  /\ told' = told \ {c}
  /\ UNCHANGED main

Tell(c) ==
  /\ told' = told \cup {c}
  /\ UNCHANGED <<main, live>>

End(c) ==
  /\ c \in live \cap told
  /\ live' = live \ {c}
  /\ UNCHANGED <<main, told>>

Fail ==
  /\ main = "running"
  /\ main' = "exiting"
  /\ UNCHANGED <<live, told>>

Return ==
  /\ main = "exiting"
  /\ live = {}
  /\ main' = "sleeping"
  /\ UNCHANGED <<live, told>>

Restart ==
  /\ main = "sleeping"
  /\ main' = "running"
  /\ UNCHANGED <<live, told>>

(* The process dies, and its children with it.                             *)
Crash ==
  /\ main' = "running"
  /\ live' = {}
  /\ UNCHANGED told

Next ==
  \/ \E c \in Children : Start(c) \/ Tell(c) \/ End(c)
  \/ Fail \/ Return \/ Restart \/ Crash

Spec == Init /\ [][Next]_vars
=============================================================================
