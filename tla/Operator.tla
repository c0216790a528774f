------------------------------ MODULE Operator -------------------------------
(***************************************************************************)
(* The life of the operator's controllers: the main loop of cmd/operator,  *)
(* the space controller it runs (pkg/spacecontroller), and the app         *)
(* controller of each active space (pkg/appcontroller), which is two       *)
(* goroutines: a loop that restarts an internal controller until it is     *)
(* told to stop, and a watch on the space's namespace that tells it to     *)
(* once the namespace is gone.                                             *)
(*                                                                         *)
(* The watch loops are taken for what module Watcher shows of them: each   *)
(* addition and deletion is handled some day, Run() may end with an error  *)
(* at any time, and a closed stopCh ends it. How a space is set up is      *)
(* reduced to its outcomes, which module SpaceRuntime details.             *)
(***************************************************************************)
EXTENDS Integers, FiniteSets

CONSTANTS
  Spaces,     \* the names of the spaces, and of their namespaces
  Ctls,       \* app controllers, bounding those in use at the same time
  NoCtl,      \* the controller of an item that has none
  MaxUid,     \* bound: times each space is created
  MaxNs       \* bound: namespace creations and removals

ASSUME OperatorAssumption ==
  /\ NoCtl \notin Ctls
  /\ IsFiniteSet(Ctls)
  /\ MaxUid \in Nat
  /\ MaxNs \in Nat

VARIABLES
  crUid,    \* how many times each space resource has been created
  crPhase,  \* its phase; "failed" stands for Creating as well
  nsRev,    \* creations and removals of each namespace: it exists while odd
  nsTerm,   \* whether the namespace is terminating
  mainPc,   \* main(): where the space controller stands
  item,     \* the space controller's itemMap: uid (0: no entry), controller
  wg,       \* waitApps
  home,     \* the space an app controller serves
  loopPc,   \* the goroutine that runs and restarts the internal controller
  watchPc,  \* the goroutine shutdownWhenNamespaceGone
  seen,     \* the namespace revision its watch has reached
  since,    \* the namespace revision at which the controller was started
  closed    \* the controllers whose stopCh is closed

apiVars   == <<crUid, crPhase, nsRev, nsTerm>>
spaceVars == <<mainPc, item>>
ctlVars   == <<home, loopPc, watchPc, seen, since>>
vars      == <<crUid, crPhase, nsRev, nsTerm, mainPc, item, wg,
               home, loopPc, watchPc, seen, since, closed>>

NoItem == [uid |-> 0, ctl |-> NoCtl]

Exists(s) == nsRev[s] % 2 = 1

(* The controllers whose loop runs, and those an item refers to.           *)
Running == {c \in Ctls : loopPc[c] \in {"run", "sleep"}}

Attached == {item[s].ctl : s \in Spaces} \ {NoCtl}

(* A controller that is not in use, in no goroutine and no item.           *)
Available(c) ==
  /\ loopPc[c] = "done"
  /\ watchPc[c] = "done"
  /\ c \notin Attached

-----------------------------------------------------------------------------
(* Users, and the API server's namespace controller.                       *)

CreateSpace(s) ==
  /\ crPhase[s] = "absent"
  /\ crUid[s] < MaxUid
  /\ crUid' = [crUid EXCEPT ![s] = @ + 1]
  /\ crPhase' = [crPhase EXCEPT ![s] = "none"]
  /\ UNCHANGED <<nsRev, nsTerm, spaceVars, wg, ctlVars, closed>>

DeleteSpace(s) ==
  /\ crPhase[s] # "absent"
  /\ crPhase' = [crPhase EXCEPT ![s] = "absent"]
  /\ UNCHANGED <<crUid, nsRev, nsTerm, spaceVars, wg, ctlVars, closed>>

DeleteNamespace(s) ==
  /\ Exists(s)
  /\ ~nsTerm[s]
  /\ nsTerm' = [nsTerm EXCEPT ![s] = TRUE]
  /\ UNCHANGED <<crUid, crPhase, nsRev, spaceVars, wg, ctlVars, closed>>

NamespaceGone(s) ==
  /\ nsTerm[s]
  /\ nsRev' = [nsRev EXCEPT ![s] = @ + 1]
  /\ nsTerm' = [nsTerm EXCEPT ![s] = FALSE]
  /\ UNCHANGED <<crUid, crPhase, spaceVars, wg, ctlVars, closed>>

-----------------------------------------------------------------------------
(* The space controller.                                                   *)

(* The channels closed after Controller.Stop(), which its stopOnce makes   *)
(* harmless the second time; an item may have no controller.               *)
Stopped(c) == closed \cup ({c} \ {NoCtl})

(* appcontroller.New() and Start(), for the item of space s.               *)
Started(s, c) ==
  /\ Available(c)
  /\ item' = [item EXCEPT ![s] = [uid |-> crUid[s], ctl |-> c]]
  /\ home' = [home EXCEPT ![c] = s]
  /\ loopPc' = [loopPc EXCEPT ![c] = "run"]
  /\ watchPc' = [watchPc EXCEPT ![c] = "head"]
  /\ seen' = [seen EXCEPT ![c] = 0]
  /\ since' = [since EXCEPT ![c] = nsRev'[s]]
  /\ closed' = closed \ {c}

MutStart_NoAdd(s, c) == Started(s, c) /\ wg' = wg

Start(s, c) == Started(s, c) /\ wg' = wg + 1

(* InitItem() for a space that is active already: its resources are left   *)
(* alone, whether or not its namespace still exists. *)
MutInitActive_Again(s, c) ==
  /\ mainPc = "running"
  /\ crPhase[s] = "active"
  /\ UNCHANGED <<apiVars, mainPc>>
  /\ Start(s, c)

InitActive(s, c) ==
  /\ mainPc = "running"
  /\ item[s] = NoItem
  /\ crPhase[s] = "active"
  /\ UNCHANGED <<apiVars, mainPc>>
  /\ Start(s, c)

(* InitItem() for a new space whose setup succeeds.                        *)
InitNew(s, c) ==
  /\ mainPc = "running"
  /\ item[s] = NoItem
  /\ crPhase[s] = "none"
  /\ ~Exists(s)
  /\ nsRev[s] < MaxNs
  /\ nsRev' = [nsRev EXCEPT ![s] = @ + 1]
  /\ crPhase' = [crPhase EXCEPT ![s] = "active"]
  /\ UNCHANGED <<crUid, nsTerm, mainPc>>
  /\ Start(s, c)

(* InitItem() for a space that space.New() does not find or make active:   *)
(* its spec is invalid (by an edit, if it was active), its setup fails, or *)
(* failed before, or a write of the phase fails. What a setup did of it    *)
(* remains: perhaps a namespace, whose space may even be recorded active,  *)
(* when only the answer to that write was lost. *)
InitFailed(s) ==
  /\ mainPc = "running"
  /\ item[s] = NoItem
  /\ crPhase[s] # "absent"
  /\ item' = [item EXCEPT ![s] = [uid |-> crUid[s], ctl |-> NoCtl]]
  /\ \/ /\ crPhase' \in {crPhase, [crPhase EXCEPT ![s] = "failed"]}
        /\ UNCHANGED nsRev
     \/ /\ crPhase[s] = "none"
        /\ ~Exists(s)
        /\ nsRev[s] < MaxNs
        /\ nsRev' = [nsRev EXCEPT ![s] = @ + 1]
        /\ \E phase \in {"failed", "active"} :
             crPhase' = [crPhase EXCEPT ![s] = phase]
  /\ UNCHANGED <<crUid, nsTerm, mainPc, wg, ctlVars, closed>>

(* SpaceInfo.Delete(), once the loop learns that the space is gone: delete *)
(* the namespace and leave the rest to its watch, or, where that fails     *)
(* (it is gone, terminating, or the API fails), stop the controller.       *)
MutDeleteItem_NoStop(s) ==
  /\ mainPc = "running"
  /\ item[s] # NoItem
  /\ crPhase[s] = "absent" \/ crUid[s] # item[s].uid
  /\ item' = [item EXCEPT ![s] = NoItem]
  /\ \/ Exists(s) /\ nsTerm' = [nsTerm EXCEPT ![s] = TRUE]
     \/ UNCHANGED nsTerm
  /\ UNCHANGED <<crUid, crPhase, nsRev, mainPc, wg, ctlVars, closed>>

DeleteItem(s) ==
  /\ mainPc = "running"
  /\ item[s] # NoItem
  /\ crPhase[s] = "absent" \/ crUid[s] # item[s].uid
  /\ item' = [item EXCEPT ![s] = NoItem]
  /\ \/ /\ Exists(s)
        /\ nsTerm' = [nsTerm EXCEPT ![s] = TRUE]
        /\ UNCHANGED closed
     \/ /\ closed' = Stopped(item[s].ctl)
        /\ UNCHANGED nsTerm
  /\ UNCHANGED <<crUid, crPhase, nsRev, mainPc, wg, ctlVars>>

(* The space watch loop fails: its deferred function stops every item.     *)
RunFails ==
  /\ mainPc = "running"
  /\ mainPc' = "exiting"
  /\ UNCHANGED <<apiVars, item, wg, ctlVars, closed>>

StopItem(s) ==
  /\ mainPc = "exiting"
  /\ item[s] # NoItem
  /\ closed' = Stopped(item[s].ctl)
  /\ item' = [item EXCEPT ![s] = NoItem]
  /\ UNCHANGED <<apiVars, mainPc, wg, ctlVars>>

(* Run() waits for the app controllers; main() then sleeps two seconds.    *)
MutRunReturns_NoWait ==
  /\ mainPc = "exiting"
  /\ \A s \in Spaces : item[s] = NoItem
  /\ mainPc' = "sleeping"
  /\ UNCHANGED <<apiVars, item, wg, ctlVars, closed>>

RunReturns ==
  /\ mainPc = "exiting"
  /\ \A s \in Spaces : item[s] = NoItem
  /\ wg = 0
  /\ mainPc' = "sleeping"
  /\ UNCHANGED <<apiVars, item, wg, ctlVars, closed>>

MainRestarts ==
  /\ mainPc = "sleeping"
  /\ mainPc' = "running"
  /\ UNCHANGED <<apiVars, item, wg, ctlVars, closed>>

(* The operator's process dies and is started anew.                        *)
Crash ==
  /\ mainPc' = "running"
  /\ item' = [s \in Spaces |-> NoItem]
  /\ wg' = 0
  /\ loopPc' = [c \in Ctls |-> "done"]
  /\ watchPc' = [c \in Ctls |-> "done"]
  /\ UNCHANGED <<apiVars, home, seen, since, closed>>

-----------------------------------------------------------------------------
(* The loop of an app controller.                                          *)

LoopGoes(c, from, to) ==
  /\ loopPc[c] = from
  /\ loopPc' = [loopPc EXCEPT ![c] = to]
  /\ UNCHANGED <<apiVars, spaceVars, home, watchPc, seen, since, closed>>

(* The internal controller's Run() returns an error; two seconds later     *)
(* there is a new one. *)
LoopFails(c) == LoopGoes(c, "run", "sleep") /\ UNCHANGED wg

LoopRestarts(c) == LoopGoes(c, "sleep", "run") /\ UNCHANGED wg

(* Run() returns ErrTerminated, and the deferred wg.Done() runs.           *)
MutLoopTerminates_NoDone(c) ==
  /\ c \in closed
  /\ LoopGoes(c, "run", "done")
  /\ UNCHANGED wg

LoopTerminates(c) ==
  /\ c \in closed
  /\ LoopGoes(c, "run", "done")
  /\ wg' = wg - 1

-----------------------------------------------------------------------------
(* shutdownWhenNamespaceGone of an app controller.                         *)

WatchGoes(c, from, to) ==
  /\ watchPc[c] = from
  /\ watchPc' = [watchPc EXCEPT ![c] = to]
  /\ UNCHANGED <<apiVars, spaceVars, wg, home, loopPc, since>>

(* The outer loop: return if stopCh is closed, or sleep and list.          *)
MutWatchHead_NoCheck(c) == WatchGoes(c, "head", "list") /\ UNCHANGED <<seen, closed>>

WatchHead(c) ==
  /\ WatchGoes(c, "head", IF c \in closed THEN "return" ELSE "list")
  /\ UNCHANGED <<seen, closed>>

ListFails(c) == WatchGoes(c, "list", "head") /\ UNCHANGED <<seen, closed>>

(* The list has no item: an error is logged, and the loop tries again.     *)
ListIsEmpty(c) ==
  /\ ~Exists(home[c])
  /\ WatchGoes(c, "list", "head")
  /\ UNCHANGED <<seen, closed>>

ListFinds(c) ==
  /\ Exists(home[c])
  /\ WatchGoes(c, "list", "open")
  /\ seen' = [seen EXCEPT ![c] = nsRev[home[c]]]
  /\ UNCHANGED closed

WatchFails(c) == WatchGoes(c, "open", "head") /\ UNCHANGED <<seen, closed>>

WatchOpens(c) == WatchGoes(c, "open", "stream") /\ UNCHANGED <<seen, closed>>

(* The next event: a removal ends the watch, any other is ignored.         *)
WatchEvent(c) ==
  /\ seen[c] < nsRev[home[c]]
  /\ WatchGoes(c, "stream", IF seen[c] % 2 = 1 THEN "return" ELSE "stream")
  /\ seen' = [seen EXCEPT ![c] = @ + 1]
  /\ UNCHANGED closed

(* The stream closes, every 20 seconds at the latest.                      *)
MutStreamCloses_Deleted(c) ==
  WatchGoes(c, "stream", "return") /\ UNCHANGED <<seen, closed>>

StreamCloses(c) == WatchGoes(c, "stream", "head") /\ UNCHANGED <<seen, closed>>

WatchTerminates(c) ==
  /\ c \in closed
  /\ WatchGoes(c, "stream", "return")
  /\ UNCHANGED <<seen, closed>>

(* The deferred Stop().                                                    *)
WatchReturns(c) ==
  /\ WatchGoes(c, "return", "done")
  /\ closed' = Stopped(c)
  /\ UNCHANGED seen

-----------------------------------------------------------------------------
Init ==
  /\ crUid = [s \in Spaces |-> 0]
  /\ crPhase = [s \in Spaces |-> "absent"]
  /\ nsRev = [s \in Spaces |-> 0]
  /\ nsTerm = [s \in Spaces |-> FALSE]
  /\ mainPc = "running"
  /\ item = [s \in Spaces |-> NoItem]
  /\ wg = 0
  /\ home \in [Ctls -> Spaces]
  /\ loopPc = [c \in Ctls |-> "done"]
  /\ watchPc = [c \in Ctls |-> "done"]
  /\ seen = [c \in Ctls |-> 0]
  /\ since = [c \in Ctls |-> 0]
  /\ closed = {}

Users ==
  \E s \in Spaces :
    CreateSpace(s) \/ DeleteSpace(s) \/ DeleteNamespace(s) \/ NamespaceGone(s)

SpaceController ==
  \/ \E s \in Spaces, c \in Ctls : InitActive(s, c) \/ InitNew(s, c)
  \/ \E s \in Spaces : InitFailed(s) \/ DeleteItem(s) \/ StopItem(s)
  \/ RunFails \/ RunReturns \/ MainRestarts

AppLoop(c) == LoopFails(c) \/ LoopRestarts(c) \/ LoopTerminates(c)

NamespaceWatch(c) ==
  \/ WatchHead(c)
  \/ ListFails(c) \/ ListIsEmpty(c) \/ ListFinds(c)
  \/ WatchFails(c) \/ WatchOpens(c)
  \/ WatchEvent(c) \/ StreamCloses(c) \/ WatchTerminates(c)
  \/ WatchReturns(c)

Next ==
  \/ Users
  \/ SpaceController
  \/ Crash
  \/ \E c \in Ctls : AppLoop(c) \/ NamespaceWatch(c)

Spec == Init /\ [][Next]_vars

(* Timers expire and requests are answered: none fails for ever. Streams   *)
(* close some day, and not all of them before their first event; select    *)
(* does not ignore a closed stopCh for ever; goroutines are scheduled.     *)
Fairness ==
  /\ \A s \in Spaces :
       /\ WF_vars(StopItem(s))
       /\ WF_vars(NamespaceGone(s))
       /\ WF_vars(DeleteItem(s))
  /\ WF_vars(RunReturns)
  /\ WF_vars(MainRestarts)
  /\ \A c \in Ctls :
       /\ WF_vars(LoopRestarts(c))
       /\ SF_vars(LoopTerminates(c))
       /\ WF_vars(WatchHead(c))
       /\ SF_vars(ListIsEmpty(c))
       /\ SF_vars(ListFinds(c))
       /\ SF_vars(WatchOpens(c))
       /\ SF_vars(WatchEvent(c))
       /\ SF_vars(StreamCloses(c))
       /\ SF_vars(WatchTerminates(c))
       /\ WF_vars(WatchReturns(c))

FairSpec == Spec /\ Fairness

-----------------------------------------------------------------------------
(* Properties.                                                             *)

(* Types of the variables. *)
TypeOK ==
  /\ crUid \in [Spaces -> Nat]
  /\ crPhase \in [Spaces -> {"absent", "none", "active", "failed"}]
  /\ nsRev \in [Spaces -> Nat]
  /\ nsTerm \in [Spaces -> BOOLEAN]
  /\ mainPc \in {"running", "exiting", "sleeping"}
  /\ item \in [Spaces -> [uid : Nat, ctl : Ctls \cup {NoCtl}]]
  /\ wg \in Nat
  /\ home \in [Ctls -> Spaces]
  /\ loopPc \in [Ctls -> {"run", "sleep", "done"}]
  /\ watchPc \in [Ctls -> {"head", "list", "open", "stream", "return", "done"}]
  /\ seen \in [Ctls -> Nat]
  /\ since \in [Ctls -> Nat]
  /\ closed \subseteq Ctls

(* When Run() has returned no app controller it started is running any     *)
(* more: those of the next space controller never meet them (the deferred  *)
(* waitApps.Wait() of Run). *)
NoChildOutlivesRun == mainPc = "sleeping" => Running = {}

(* The app controllers live as module Supervisor promises: started during  *)
(* a run, ended by being told to or with the process, none left when Run() *)
(* returns, whatever becomes of their spaces and namespaces meanwhile.     *)
Sup == INSTANCE Supervisor
         WITH Children <- Ctls, main <- mainPc, live <- Running,
              told <- closed

ImplementsSupervisor == Sup!Spec

(* A controller that no item refers to and nobody told to stop has had its *)
(* namespace removed, or is about to: SpaceInfo.Delete() drops no other.   *)
(* It need not stop: its watch may have missed the removal.                *)
Orphans == {c \in Running : c \notin closed /\ c \notin Attached}

Doomed(c) == nsTerm[home[c]] \/ nsRev[home[c]] > since[c]

OrphansAreDoomed == \A c \in Orphans : Doomed(c)

(* Two controllers serve one namespace, and each collects what it did not  *)
(* create (gc.go), only while one of them is told to stop or has lost the  *)
(* namespace: however spaces are deleted, created anew and listed again,   *)
(* InitItem() starts no second controller beside a good one. *)
OneServes ==
  \A c, d \in Running \ closed :
    c # d /\ home[c] = home[d] => Doomed(c) \/ Doomed(d)

(* The controller of a managed space is not shut down while Run() goes on, *)
(* unless its namespace was removed after it started: closed streams and   *)
(* failed requests are told from a removal (shutdownWhenNamespaceGone).    *)
NoSpuriousStop ==
  \A c \in Attached :
    mainPc = "running" /\ c \in closed => nsRev[home[c]] > since[c]

(* Both goroutines of a stopped controller end. *)
ControllerStops ==
  \A c \in Ctls : c \in closed ~> (loopPc[c] = "done" /\ watchPc[c] = "done")

(* A failed Run() returns, and main() runs a new one, if every controller  *)
(* left behind by the deletion of its space has been told to stop. *)
RunEnds == (mainPc = "exiting" /\ Orphans = {}) ~> (mainPc = "running")

(* spacecontroller.go, of the app controllers a failed Run() stops: "A new *)
(* app controller instance will start as a child of the future decco       *)
(* controller instance". There is one. *)
ControllerHasFuture == mainPc = "exiting" ~> mainPc = "running"
=============================================================================
