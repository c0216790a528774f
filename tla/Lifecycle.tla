------------------------------ MODULE Lifecycle ------------------------------
(***************************************************************************)
(* What decco promises of a custom resource, a space or an app alike, and  *)
(* of the phase it records: everything is begun to be created once in the  *)
(* life of a resource, is recorded Active only afterwards, and a failure   *)
(* is final. There are no copies of the resource here, no versions, no     *)
(* operators and no requests that fail: SpaceRuntime and AppRuntime        *)
(* implement this module with all of them.                                 *)
(***************************************************************************)
EXTENDS Naturals

VARIABLES
  uid,      \* how many times a resource of this name has been created
  phase,    \* the phase it records, or "absent"
  invalid,  \* whether its spec is one that validation refuses
  begun     \* the uids whose objects were begun to be created

vars == <<uid, phase, invalid, begun>>

Init ==
  /\ uid = 0
  /\ phase = "absent"
  /\ invalid = FALSE
  /\ begun = {}

-----------------------------------------------------------------------------
(* Users.                                                                  *)

Create ==
  /\ phase = "absent"
  /\ uid' = uid + 1
  /\ phase' = "None"
  /\ invalid' \in BOOLEAN
  /\ UNCHANGED begun

Change ==
  /\ phase # "absent"
  /\ invalid' \in BOOLEAN
  /\ UNCHANGED <<uid, phase, begun>>

Delete ==
  /\ phase # "absent"
  /\ phase' = "absent"
  /\ UNCHANGED <<uid, invalid, begun>>

-----------------------------------------------------------------------------
(* The operator.                                                           *)

(* The resource is claimed by recording Creating; an operator that does    *)
(* not learn that it claimed it begins nothing. *)
Start ==
  /\ phase = "None"
  /\ uid \notin begun
  /\ phase' = "Creating"
  /\ begun' \in {begun, begun \cup {uid}}
  /\ UNCHANGED <<uid, invalid>>

Finish ==
  /\ phase = "Creating"
  /\ uid \in begun
  /\ phase' = "Active"
  /\ UNCHANGED <<uid, invalid, begun>>

(* An Active resource fails only where its spec was made invalid.          *)
Fail ==
  /\ \/ phase \in {"None", "Creating"}
     \/ phase = "Active" /\ invalid
  /\ phase' = "Failed"
  /\ UNCHANGED <<uid, invalid, begun>>

Next == Create \/ Change \/ Delete \/ Start \/ Finish \/ Fail

Spec == Init /\ [][Next]_vars

-----------------------------------------------------------------------------
(* What follows for the phase of a resource: it moves None, Creating,      *)
(* Active, or to Failed, and an Active one to Failed only where its spec   *)
(* was made invalid. *)
Moves ==
  uid' = uid /\ phase' \notin {phase, "absent"} =>
    \/ <<phase, phase'>> \in {<<"None", "Creating">>, <<"Creating", "Active">>,
                             <<"None", "Failed">>, <<"Creating", "Failed">>}
    \/ phase = "Active" /\ phase' = "Failed" /\ invalid

Forward == [][Moves]_vars
=============================================================================
