--------------------------- MODULE OperatorProofs ----------------------------
(***************************************************************************)
(* Proofs about the operator's controllers, for any spaces and any number  *)
(* of app controllers: types, that no app controller outlives the Run()    *)
(* that started it, that one left behind untold has lost its namespace or  *)
(* is about to, that no two good ones serve one namespace, and that none   *)
(* is stopped without cause.                                               *)
(***************************************************************************)
EXTENDS Operator, FiniteSetTheorems, TLAPS

(* waitApps counts the running loops.                                      *)
Counted == wg = Cardinality(Running)

(* The controller of an item serves the item's space.                      *)
HomeOK == \A s \in Spaces : item[s].ctl # NoCtl => home[item[s].ctl] = s

(* Revisions only grow, and a stream starts at the revision of a list.     *)
RevOK ==
  /\ \A c \in Ctls : since[c] <= nsRev[home[c]]
  /\ \A c \in Ctls : watchPc[c] \in {"open", "stream"} => since[c] <= seen[c]

(* A namespace watch returns when it was stopped or saw a removal.         *)
ReturnOK ==
  \A c \in Ctls :
    watchPc[c] = "return" => c \in closed \/ nsRev[home[c]] > since[c]

(* Between two runs there is no item.                                      *)
IdleOK == mainPc = "sleeping" => \A s \in Spaces : item[s] = NoItem

(* The inductive invariant, with the types.                                *)
Safe ==
  /\ Counted
  /\ NoChildOutlivesRun
  /\ HomeOK
  /\ RevOK
  /\ ReturnOK
  /\ IdleOK
  /\ OrphansAreDoomed
  /\ NoSpuriousStop

-----------------------------------------------------------------------------
(* Types.                                                                  *)

LEMMA StoppedFacts ==
  ASSUME TypeOK, NEW c \in Ctls \cup {NoCtl}
  PROVE  /\ Stopped(c) \subseteq Ctls
         /\ Stopped(c) \in {closed, closed \cup {c}}
         /\ c \in Ctls => c \in Stopped(c)
BY OperatorAssumption DEF Stopped, TypeOK

LEMMA RunningFacts ==
  /\ IsFiniteSet(Running)
  /\ Cardinality(Running) \in Nat
  /\ Cardinality(Running) = 0 <=> Running = {}
<1>1. Running \subseteq Ctls
  BY DEF Running
<1>2. IsFiniteSet(Running)
  BY <1>1, OperatorAssumption, FS_Subset
<1> QED
  BY <1>2, FS_CardinalityType, FS_EmptySet

LEMMA ItemCtl ==
  ASSUME TypeOK, NEW s \in Spaces
  PROVE  item[s].ctl \in Ctls \cup {NoCtl}
BY DEF TypeOK

LEMMA TypeInit == Init => TypeOK
<1>1. Init => item \in [Spaces -> [uid : Nat, ctl : Ctls \cup {NoCtl}]]
  BY DEF Init, NoItem
<1>2. Init => nsTerm \in [Spaces -> BOOLEAN]
  BY DEF Init
<1> QED
  BY <1>1, <1>2 DEF Init, TypeOK

LEMMA TypeStep ==
  ASSUME TypeOK, Counted, [Next]_vars
  PROVE  TypeOK'
<1> USE DEF TypeOK, apiVars, spaceVars, ctlVars
<1>1. ASSUME NEW s \in Spaces,
             CreateSpace(s) \/ DeleteSpace(s) \/ DeleteNamespace(s) \/ NamespaceGone(s)
      PROVE  TypeOK'
  <2>1. CASE CreateSpace(s)
    BY <2>1 DEF CreateSpace
  <2>2. CASE DeleteSpace(s)
    BY <2>2 DEF DeleteSpace
  <2>3. CASE DeleteNamespace(s)
    BY <2>3 DEF DeleteNamespace
  <2>4. CASE NamespaceGone(s)
    BY <2>4 DEF NamespaceGone
  <2> QED
    BY <1>1, <2>1, <2>2, <2>3, <2>4
<1>2. ASSUME NEW s \in Spaces, NEW c \in Ctls, Start(s, c), nsRev' \in [Spaces -> Nat],
             UNCHANGED <<crUid, nsTerm, mainPc>>,
             crPhase' \in [Spaces -> {"absent", "none", "active", "failed"}]
      PROVE  TypeOK'
  BY <1>2 DEF Start, Started
<1>3. ASSUME NEW s \in Spaces, NEW c \in Ctls, InitActive(s, c) \/ InitNew(s, c)
      PROVE  TypeOK'
  <2>1. CASE InitActive(s, c)
    BY <1>2, <2>1 DEF InitActive
  <2>2. CASE InitNew(s, c)
    BY <1>2, <2>2 DEF InitNew
  <2> QED
    BY <1>3, <2>1, <2>2
<1>4. ASSUME NEW s \in Spaces, InitFailed(s)
      PROVE  TypeOK'
  <2>1. nsRev' \in [Spaces -> Nat]
    BY <1>4 DEF InitFailed
  <2>2. crPhase' \in [Spaces -> {"absent", "none", "active", "failed"}]
    BY <1>4 DEF InitFailed
  <2>3. item' \in [Spaces -> [uid : Nat, ctl : Ctls \cup {NoCtl}]]
    BY <1>4 DEF InitFailed
  <2> QED
    BY <1>4, <2>1, <2>2, <2>3 DEF InitFailed
<1>5. ASSUME NEW s \in Spaces, DeleteItem(s) \/ StopItem(s)
      PROVE  TypeOK'
  <2>1. Stopped(item[s].ctl) \subseteq Ctls
    BY ItemCtl, StoppedFacts
  <2>0. NoItem \in [uid : Nat, ctl : Ctls \cup {NoCtl}]
    BY DEF NoItem
  <2>2. item' \in [Spaces -> [uid : Nat, ctl : Ctls \cup {NoCtl}]]
    BY <1>5, <2>0 DEF DeleteItem, StopItem
  <2>3. closed' \subseteq Ctls /\ nsTerm' \in [Spaces -> BOOLEAN]
    BY <1>5, <2>1 DEF DeleteItem, StopItem
  <2> QED
    BY <1>5, <2>2, <2>3 DEF DeleteItem, StopItem
<1>6. CASE RunFails \/ RunReturns \/ MainRestarts
  BY <1>6 DEF RunFails, RunReturns, MainRestarts
<1>7. CASE Crash
  BY <1>7 DEF Crash, NoItem
<1>8. ASSUME NEW c \in Ctls, AppLoop(c)
      PROVE  TypeOK'
  <2>1. CASE LoopFails(c) \/ LoopRestarts(c)
    BY <2>1 DEF LoopFails, LoopRestarts, LoopGoes
  <2>2. CASE LoopTerminates(c)
    <3>1. c \in Running
      BY <2>2 DEF LoopTerminates, LoopGoes, Running
    <3>2. wg - 1 \in Nat
      BY <3>1, RunningFacts DEF Counted
    <3> QED
      BY <2>2, <3>2 DEF LoopTerminates, LoopGoes
  <2> QED
    BY <1>8, <2>1, <2>2 DEF AppLoop
<1>9. ASSUME NEW c \in Ctls, NamespaceWatch(c)
      PROVE  TypeOK'
  <2>1. watchPc' \in [Ctls -> {"head", "list", "open", "stream", "return", "done"}]
    BY <1>9
       DEF NamespaceWatch, WatchHead, ListFails, ListIsEmpty, ListFinds, WatchFails,
           WatchOpens, WatchEvent, StreamCloses, WatchTerminates, WatchReturns, WatchGoes
  <2>2. home[c] \in Spaces
    OBVIOUS
  <2>3. seen' \in [Ctls -> Nat]
    <3>1. CASE WatchEvent(c)
      BY <3>1 DEF WatchEvent
    <3>2. CASE ListFinds(c)
      BY <2>2, <3>2 DEF ListFinds
    <3>3. CASE seen' = seen
      BY <3>3
    <3> QED
      BY <1>9, <3>1, <3>2, <3>3
         DEF NamespaceWatch, WatchHead, ListFails, ListIsEmpty, WatchFails,
             WatchOpens, StreamCloses, WatchTerminates, WatchReturns
  <2>4. closed' \subseteq Ctls
    BY <1>9, StoppedFacts
       DEF NamespaceWatch, WatchHead, ListFails, ListIsEmpty, ListFinds, WatchFails,
           WatchOpens, WatchEvent, StreamCloses, WatchTerminates, WatchReturns
  <2>5. UNCHANGED <<apiVars, spaceVars, wg, home, loopPc, since>>
    BY <1>9
       DEF NamespaceWatch, WatchHead, ListFails, ListIsEmpty, ListFinds, WatchFails,
           WatchOpens, WatchEvent, StreamCloses, WatchTerminates, WatchReturns, WatchGoes
  <2> QED
    BY <2>1, <2>3, <2>4, <2>5
<1>10. CASE UNCHANGED vars
  BY <1>10 DEF vars
<1> QED
  BY <1>1, <1>3, <1>4, <1>5, <1>6, <1>7, <1>8, <1>9, <1>10 DEF Next, Users, SpaceController

-----------------------------------------------------------------------------
(* What the steps change.                                                  *)

(* A step that starts an app controller.                                   *)
Starts(s, c) == InitActive(s, c) \/ InitNew(s, c)

LEMMA StartFacts ==
  ASSUME TypeOK, NEW s \in Spaces, NEW c \in Ctls, Starts(s, c)
  PROVE  /\ mainPc = "running" /\ mainPc' = "running" /\ item[s] = NoItem
         /\ Start(s, c)
         /\ nsRev' \in [Spaces -> Nat] /\ nsTerm' = nsTerm
         /\ \A t \in Spaces : nsRev'[t] >= nsRev[t]
<1>1. CASE InitActive(s, c)
  BY <1>1 DEF InitActive, apiVars, TypeOK
<1>2. CASE InitNew(s, c)
  BY <1>2 DEF InitNew, TypeOK
<1> QED
  BY <1>1, <1>2 DEF Starts

LEMMA WatchFacts ==
  ASSUME TypeOK, NEW c \in Ctls, NamespaceWatch(c)
  PROVE  /\ UNCHANGED <<nsRev, nsTerm, mainPc, item, wg, home, loopPc, since>>
         /\ \A d \in Ctls : d # c => /\ watchPc'[d] = watchPc[d]
                                     /\ seen'[d] = seen[d]
                                     /\ (d \in closed' <=> d \in closed)
         /\ closed' \in {closed, closed \cup {c}}
         /\ c \in closed' => c \in closed \/ watchPc[c] = "return"
         /\ watchPc'[c] = "return" => c \in closed \/ WatchEvent(c)
         /\ watchPc'[c] = "open" => ListFinds(c)
         /\ watchPc'[c] = "stream" => WatchOpens(c) \/ WatchEvent(c)
<1> USE DEF TypeOK, WatchGoes, apiVars, spaceVars
<1>1. CASE WatchHead(c)
  BY <1>1 DEF WatchHead
<1>2. CASE ListFails(c) \/ ListIsEmpty(c) \/ WatchFails(c) \/ StreamCloses(c)
  BY <1>2 DEF ListFails, ListIsEmpty, WatchFails, StreamCloses
<1>3. CASE ListFinds(c)
  BY <1>3 DEF ListFinds
<1>4. CASE WatchOpens(c)
  BY <1>4 DEF WatchOpens
<1>5. CASE WatchEvent(c)
  BY <1>5 DEF WatchEvent
<1>6. CASE WatchTerminates(c)
  BY <1>6 DEF WatchTerminates
<1>7. CASE WatchReturns(c)
  BY <1>7, StoppedFacts DEF WatchReturns
<1> QED
  BY <1>1, <1>2, <1>3, <1>4, <1>5, <1>6, <1>7 DEF NamespaceWatch

LEMMA UsersFacts ==
  ASSUME TypeOK, Users
  PROVE  /\ UNCHANGED <<mainPc, item, wg, home, loopPc, watchPc, seen, since, closed>>
         /\ \A s \in Spaces :
              /\ nsRev'[s] >= nsRev[s]
              /\ nsTerm[s] => nsTerm'[s] \/ nsRev'[s] > nsRev[s]
<1> USE DEF TypeOK, spaceVars, ctlVars
<1>1. PICK s \in Spaces :
        CreateSpace(s) \/ DeleteSpace(s) \/ DeleteNamespace(s) \/ NamespaceGone(s)
  BY DEF Users
<1>2. CASE CreateSpace(s) \/ DeleteSpace(s)
  BY <1>2 DEF CreateSpace, DeleteSpace
<1>3. CASE DeleteNamespace(s)
  BY <1>3 DEF DeleteNamespace
<1>4. CASE NamespaceGone(s)
  BY <1>4 DEF NamespaceGone
<1> QED
  BY <1>1, <1>2, <1>3, <1>4

(* Items are added and removed; at most the controller of a removed item   *)
(* is stopped. *)
LEMMA ItemFacts ==
  ASSUME TypeOK, NEW s \in Spaces, InitFailed(s) \/ DeleteItem(s) \/ StopItem(s)
  PROVE  /\ UNCHANGED <<mainPc, wg, home, loopPc, watchPc, seen, since>>
         /\ mainPc # "sleeping"
         /\ \A t \in Spaces \ {s} : item'[t] = item[t]
         /\ item'[s].ctl = NoCtl
         /\ closed' \in {closed, closed \cup {item[s].ctl}}
         /\ closed' \subseteq Ctls
         /\ \A t \in Spaces : nsRev'[t] >= nsRev[t] /\ (nsTerm[t] => nsTerm'[t])
         /\ item[s].ctl \in Ctls => nsTerm'[s] \/ item[s].ctl \in closed'
<1> USE DEF TypeOK, apiVars, ctlVars
<1>1. CASE InitFailed(s)
  <2>1. \A t \in Spaces : nsRev'[t] >= nsRev[t]
    BY <1>1 DEF InitFailed
  <2>2. item'[s].ctl = NoCtl /\ \A t \in Spaces \ {s} : item'[t] = item[t]
    BY <1>1 DEF InitFailed
  <2>3. item[s].ctl = NoCtl /\ mainPc = "running"
    BY <1>1 DEF InitFailed, NoItem
  <2> QED
    BY <1>1, <2>1, <2>2, <2>3, OperatorAssumption DEF InitFailed
<1>2. CASE DeleteItem(s)
  <2>1. item[s].ctl \in Ctls \cup {NoCtl}
    BY ItemCtl
  <2>2. item'[s].ctl = NoCtl /\ \A t \in Spaces \ {s} : item'[t] = item[t]
    BY <1>2 DEF DeleteItem, NoItem
  <2>3. CASE closed' = closed /\ nsTerm' = [nsTerm EXCEPT ![s] = TRUE]
    BY <1>2, <2>2, <2>3 DEF DeleteItem
  <2>4. CASE closed' = Stopped(item[s].ctl) /\ nsTerm' = nsTerm
    BY <1>2, <2>1, <2>2, <2>4, StoppedFacts, OperatorAssumption DEF DeleteItem
  <2> QED
    BY <1>2, <2>3, <2>4 DEF DeleteItem
<1>3. CASE StopItem(s)
  <2>1. item[s].ctl \in Ctls \cup {NoCtl}
    BY ItemCtl
  <2>2. item'[s].ctl = NoCtl /\ \A t \in Spaces \ {s} : item'[t] = item[t]
    BY <1>3 DEF StopItem, NoItem
  <2> QED
    BY <1>3, <2>1, <2>2, StoppedFacts, OperatorAssumption DEF StopItem
<1> QED
  BY <1>1, <1>2, <1>3

LEMMA MainFacts ==
  ASSUME RunFails \/ RunReturns \/ MainRestarts
  PROVE  /\ UNCHANGED <<nsRev, nsTerm, item, wg, home, loopPc, watchPc, seen, since, closed>>
         /\ mainPc' = "sleeping" => wg = 0 /\ \A s \in Spaces : item[s] = NoItem
         /\ mainPc' = "running" => mainPc = "sleeping"
BY DEF RunFails, RunReturns, MainRestarts, apiVars, ctlVars

LEMMA CrashFacts ==
  ASSUME Crash
  PROVE  /\ UNCHANGED <<nsRev, nsTerm, home, seen, since, closed>>
         /\ mainPc' = "running" /\ wg' = 0
         /\ \A s \in Spaces : item'[s] = NoItem
         /\ \A c \in Ctls : loopPc'[c] = "done" /\ watchPc'[c] = "done"
BY DEF Crash, apiVars

LEMMA LoopFacts ==
  ASSUME TypeOK, NEW c \in Ctls, AppLoop(c)
  PROVE  /\ UNCHANGED <<nsRev, nsTerm, mainPc, item, home, watchPc, seen, since, closed>>
         /\ c \in Running
         /\ \/ Running' = Running /\ wg' = wg
            \/ Running' = Running \ {c} /\ wg' = wg - 1
<1> USE DEF LoopGoes, TypeOK, apiVars, spaceVars, Running
<1>1. CASE LoopFails(c)
  BY <1>1 DEF LoopFails
<1>2. CASE LoopRestarts(c)
  BY <1>2 DEF LoopRestarts
<1>3. CASE LoopTerminates(c)
  BY <1>3 DEF LoopTerminates
<1> QED
  BY <1>1, <1>2, <1>3 DEF AppLoop

-----------------------------------------------------------------------------
(* The invariant.                                                          *)

(* Steps of the namespaces alone: revisions grow, and nothing else that    *)
(* the invariant speaks of changes. *)
LEMMA UsersStep ==
  ASSUME TypeOK, TypeOK', Safe, Users
  PROVE  Safe'
<1>0. /\ UNCHANGED <<mainPc, item, wg, home, loopPc, watchPc, seen, since, closed>>
      /\ \A s \in Spaces :
           /\ nsRev'[s] >= nsRev[s]
           /\ nsTerm[s] => nsTerm'[s] \/ nsRev'[s] > nsRev[s]
  BY UsersFacts
<1>1. Running' = Running /\ Attached' = Attached /\ Orphans' = Orphans
  BY <1>0 DEF Running, Attached, Orphans
<1>2. (Counted /\ NoChildOutlivesRun /\ HomeOK /\ IdleOK)'
  BY <1>0, <1>1 DEF Safe, Counted, NoChildOutlivesRun, HomeOK, IdleOK
<1>3. RevOK' /\ ReturnOK'
  BY <1>0 DEF Safe, RevOK, ReturnOK, TypeOK
<1>4. OrphansAreDoomed'
  <2>1. Orphans \subseteq Ctls
    BY DEF Orphans, Running
  <2> QED
    BY <1>0, <1>1, <2>1 DEF Safe, OrphansAreDoomed, Doomed, RevOK, TypeOK
<1>5. NoSpuriousStop'
  <2>1. Attached \subseteq Ctls
    BY DEF Attached, TypeOK
  <2> QED
    BY <1>0, <1>1, <2>1 DEF Safe, NoSpuriousStop, TypeOK
<1> QED
  BY <1>2, <1>3, <1>4, <1>5 DEF Safe

LEMMA StartStep ==
  ASSUME TypeOK, TypeOK', Safe, NEW s \in Spaces, NEW c \in Ctls, Starts(s, c)
  PROVE  Safe'
<1>0. /\ mainPc = "running" /\ mainPc' = "running" /\ item[s] = NoItem
      /\ Start(s, c)
      /\ nsRev' \in [Spaces -> Nat] /\ nsTerm' = nsTerm
      /\ \A t \in Spaces : nsRev'[t] >= nsRev[t]
  BY StartFacts
<1>1. /\ Available(c)
      /\ item'[s].ctl = c /\ \A t \in Spaces \ {s} : item'[t] = item[t]
      /\ home'[c] = s /\ loopPc'[c] = "run" /\ watchPc'[c] = "head"
      /\ since'[c] = nsRev'[s] /\ closed' = closed \ {c} /\ wg' = wg + 1
      /\ \A d \in Ctls \ {c} : /\ home'[d] = home[d] /\ loopPc'[d] = loopPc[d]
                              /\ watchPc'[d] = watchPc[d] /\ seen'[d] = seen[d]
                              /\ since'[d] = since[d]
  BY <1>0 DEF Start, Started, TypeOK
<1>2. c # NoCtl /\ c \notin Running /\ c \notin Attached
  BY <1>1, OperatorAssumption DEF Available, Running
<1>3. Running' = Running \cup {c}
  BY <1>1 DEF Running
<1>4. Attached' = Attached \cup {c}
  BY <1>0, <1>1, <1>2 DEF Attached, NoItem
<1>6. Counted'
  <2>1. Cardinality(Running \cup {c}) = Cardinality(Running) + 1
    BY <1>2, RunningFacts, FS_AddElement
  <2> QED
    BY <1>1, <1>3, <2>1 DEF Safe, Counted
<1>7. NoChildOutlivesRun' /\ IdleOK'
  BY <1>0 DEF NoChildOutlivesRun, IdleOK
<1>8. HomeOK'
  <2>1. \A t \in Spaces \ {s} : item[t].ctl # c
    BY <1>2 DEF Attached
  <2>2. \A t \in Spaces : item[t].ctl \in Ctls \cup {NoCtl}
    BY ItemCtl
  <2> QED
    BY <1>1, <2>1, <2>2 DEF Safe, HomeOK
<1>9. RevOK' /\ ReturnOK'
  <2>1. SUFFICES ASSUME NEW d \in Ctls
                 PROVE  /\ since'[d] <= nsRev'[home'[d]]
                        /\ watchPc'[d] \in {"open", "stream"} => since'[d] <= seen'[d]
                        /\ watchPc'[d] = "return" =>
                             d \in closed' \/ nsRev'[home'[d]] > since'[d]
    BY DEF RevOK, ReturnOK
  <2>2. CASE d = c
    BY <1>0, <1>1, <2>2
  <2>3. CASE d # c
    <3>1. home[d] \in Spaces /\ since[d] \in Nat
      BY DEF TypeOK
    <3>2. nsRev[home[d]] \in Nat /\ nsRev'[home[d]] \in Nat
      BY <1>0, <3>1 DEF TypeOK
    <3> QED
      BY <1>0, <1>1, <2>3, <3>1, <3>2 DEF Safe, RevOK, ReturnOK
  <2> QED
    BY <2>2, <2>3
<1>10. OrphansAreDoomed'
  <2>1. Orphans' \subseteq Orphans \ {c}
    BY <1>1, <1>3, <1>4 DEF Orphans, Running
  <2>2. Orphans \subseteq Ctls
    BY DEF Orphans, Running
  <2> QED
    BY <1>0, <1>1, <2>1, <2>2 DEF Safe, OrphansAreDoomed, Doomed, TypeOK
<1>11. NoSpuriousStop'
  <2>1. Attached \subseteq Ctls
    BY DEF Attached, TypeOK
  <2> QED
    BY <1>0, <1>1, <1>4, <2>1 DEF Safe, NoSpuriousStop, TypeOK
<1> QED
  BY <1>6, <1>7, <1>8, <1>9, <1>10, <1>11 DEF Safe

LEMMA ItemStep ==
  ASSUME TypeOK, TypeOK', Safe, NEW s \in Spaces,
         InitFailed(s) \/ DeleteItem(s) \/ StopItem(s)
  PROVE  Safe'
<1>0. /\ UNCHANGED <<mainPc, wg, home, loopPc, watchPc, seen, since>>
      /\ mainPc # "sleeping"
      /\ \A t \in Spaces \ {s} : item'[t] = item[t]
      /\ item'[s].ctl = NoCtl
      /\ closed' \in {closed, closed \cup {item[s].ctl}}
      /\ \A t \in Spaces : nsRev'[t] >= nsRev[t] /\ (nsTerm[t] => nsTerm'[t])
      /\ item[s].ctl \in Ctls => nsTerm'[s] \/ item[s].ctl \in closed'
  BY ItemFacts
<1>1. Running' = Running
  BY <1>0 DEF Running
<1>2. /\ Attached \subseteq Ctls
      /\ Attached' = {item[t].ctl : t \in Spaces \ {s}} \ {NoCtl}
  <2>1. Attached \subseteq Ctls
    BY ItemCtl DEF Attached
  <2> QED
    BY <1>0, <2>1 DEF Attached
<1>3. \A c \in Attached' : c \in Attached /\ c # item[s].ctl
  BY <1>2, OperatorAssumption DEF Safe, HomeOK, Attached
<1>4. Counted' /\ NoChildOutlivesRun' /\ IdleOK'
  <2>1. Counted'
    BY <1>0, <1>1 DEF Safe, Counted
  <2>2. NoChildOutlivesRun' /\ IdleOK'
    BY <1>0 DEF NoChildOutlivesRun, IdleOK
  <2> QED
    BY <2>1, <2>2
<1>5. HomeOK'
  BY <1>0 DEF Safe, HomeOK
<1>6. RevOK' /\ ReturnOK'
  BY <1>0 DEF Safe, RevOK, ReturnOK, TypeOK
<1>7. OrphansAreDoomed'
  <2>1. SUFFICES ASSUME NEW c \in Orphans'
                 PROVE  nsTerm'[home[c]] \/ nsRev'[home[c]] > since[c]
    BY <1>0 DEF OrphansAreDoomed, Doomed
  <2>2. c \in Running /\ c \in Ctls /\ c \notin closed' /\ c \notin Attached'
    BY <1>1 DEF Orphans, Running
  <2>3. CASE c \in Attached
    <3>1. c = item[s].ctl
      BY <1>2, <2>2, <2>3 DEF Attached
    <3>2. home[c] = s
      BY <2>2, <3>1, OperatorAssumption DEF Safe, HomeOK
    <3> QED
      BY <1>0, <2>2, <3>1, <3>2
  <2>4. CASE c \notin Attached
    <3>1. c \in Orphans
      BY <1>0, <2>2, <2>4 DEF Orphans, TypeOK
    <3> QED
      BY <1>0, <2>2, <3>1 DEF Safe, OrphansAreDoomed, Doomed, TypeOK
  <2> QED
    BY <2>3, <2>4
<1>8. NoSpuriousStop'
  <2>1. SUFFICES ASSUME NEW c \in Attached', mainPc' = "running", c \in closed'
                 PROVE  nsRev'[home'[c]] > since'[c]
    BY DEF NoSpuriousStop
  <2>2. c \in Attached /\ c \in Ctls /\ c \in closed /\ mainPc = "running"
    BY <1>0, <1>2, <1>3, <2>1
  <2>3. nsRev[home[c]] > since[c]
    BY <2>1, <2>2 DEF Safe, NoSpuriousStop
  <2>4. home[c] \in Spaces /\ since[c] \in Nat
    BY <2>2 DEF TypeOK
  <2>5. nsRev[home[c]] \in Nat /\ nsRev'[home[c]] \in Nat
    BY <2>4 DEF TypeOK
  <2> QED
    BY <1>0, <2>3, <2>4, <2>5
<1> QED
  BY <1>4, <1>5, <1>6, <1>7, <1>8 DEF Safe

LEMMA MainStep ==
  ASSUME TypeOK, Safe, RunFails \/ RunReturns \/ MainRestarts
  PROVE  Safe'
<1>0. /\ UNCHANGED <<nsRev, nsTerm, item, wg, home, loopPc, watchPc, seen, since, closed>>
      /\ mainPc' = "sleeping" => wg = 0 /\ \A s \in Spaces : item[s] = NoItem
      /\ mainPc' = "running" => mainPc = "sleeping"
  BY MainFacts
<1>1. Running' = Running /\ Attached' = Attached /\ Orphans' = Orphans
  BY <1>0 DEF Running, Attached, Orphans
<1>2. (Counted /\ HomeOK /\ RevOK /\ ReturnOK /\ OrphansAreDoomed /\ IdleOK)'
  BY <1>0, <1>1
     DEF Safe, Counted, HomeOK, RevOK, ReturnOK, OrphansAreDoomed, Doomed, IdleOK
<1>3. NoChildOutlivesRun'
  BY <1>0, <1>1, RunningFacts DEF Safe, NoChildOutlivesRun, Counted
<1>4. NoSpuriousStop'
  <2>1. mainPc' = "running" => Attached = {}
    BY <1>0 DEF Safe, IdleOK, Attached, NoItem
  <2> QED
    BY <1>1, <2>1 DEF NoSpuriousStop
<1> QED
  BY <1>2, <1>3, <1>4 DEF Safe

LEMMA CrashStep ==
  ASSUME TypeOK, Safe, Crash
  PROVE  Safe'
<1>0. /\ UNCHANGED <<nsRev, nsTerm, home, seen, since, closed>>
      /\ mainPc' = "running" /\ wg' = 0
      /\ \A s \in Spaces : item'[s] = NoItem
      /\ \A c \in Ctls : loopPc'[c] = "done" /\ watchPc'[c] = "done"
  BY CrashFacts
<1>1. Running' = {} /\ Attached' = {} /\ Orphans' = {}
  BY <1>0 DEF Running, Attached, NoItem, Orphans
<1>2. Counted'
  BY <1>0, <1>1, FS_EmptySet DEF Counted
<1> QED
  BY <1>0, <1>1, <1>2
     DEF Safe, NoChildOutlivesRun, HomeOK, NoItem, RevOK, ReturnOK, IdleOK,
         OrphansAreDoomed, Doomed, NoSpuriousStop

LEMMA LoopStep ==
  ASSUME TypeOK, Safe, NEW c \in Ctls, AppLoop(c)
  PROVE  Safe'
<1>0. /\ UNCHANGED <<nsRev, nsTerm, mainPc, item, home, watchPc, seen, since, closed>>
      /\ c \in Running
      /\ \/ Running' = Running /\ wg' = wg
         \/ Running' = Running \ {c} /\ wg' = wg - 1
  BY LoopFacts
<1>1. Attached' = Attached /\ Orphans' \subseteq Orphans
  BY <1>0 DEF Attached, Orphans
<1>2. Counted'
  <2>1. CASE Running' = Running /\ wg' = wg
    BY <2>1 DEF Safe, Counted
  <2>2. CASE Running' = Running \ {c} /\ wg' = wg - 1
    <3>1. Cardinality(Running \ {c}) = Cardinality(Running) - 1
      BY <1>0, RunningFacts, FS_RemoveElement
    <3> QED
      BY <2>2, <3>1 DEF Safe, Counted
  <2> QED
    BY <1>0, <2>1, <2>2
<1>3. NoChildOutlivesRun'
  BY <1>0 DEF Safe, NoChildOutlivesRun
<1> QED
  BY <1>0, <1>1, <1>2, <1>3
     DEF Safe, HomeOK, RevOK, ReturnOK, IdleOK, OrphansAreDoomed, Doomed, NoSpuriousStop

(* A namespace watch that reads a removal has seen a revision younger than *)
(* its controller. *)
LEMMA WatchStep ==
  ASSUME TypeOK, Safe, NEW c \in Ctls, NamespaceWatch(c)
  PROVE  Safe'
<1>0. /\ UNCHANGED <<nsRev, nsTerm, mainPc, item, wg, home, loopPc, since>>
      /\ \A d \in Ctls : d # c => /\ watchPc'[d] = watchPc[d]
                                  /\ seen'[d] = seen[d]
                                  /\ (d \in closed' <=> d \in closed)
      /\ closed' \in {closed, closed \cup {c}}
      /\ c \in closed' => c \in closed \/ watchPc[c] = "return"
      /\ watchPc'[c] = "return" => c \in closed \/ WatchEvent(c)
      /\ watchPc'[c] = "open" => ListFinds(c)
      /\ watchPc'[c] = "stream" => WatchOpens(c) \/ WatchEvent(c)
  BY WatchFacts
<1>1. Running' = Running /\ Attached' = Attached
  BY <1>0 DEF Running, Attached
<1>2. /\ home[c] \in Spaces /\ nsRev[home[c]] \in Nat
      /\ seen[c] \in Nat /\ since[c] \in Nat
      /\ since[c] <= nsRev[home[c]]
  BY DEF TypeOK, Safe, RevOK
<1>3. WatchEvent(c) => /\ since[c] <= seen[c] /\ seen[c] < nsRev[home[c]]
                       /\ seen'[c] = seen[c] + 1
  BY DEF WatchEvent, WatchGoes, Safe, RevOK, TypeOK
<1>5. Counted' /\ NoChildOutlivesRun' /\ HomeOK' /\ IdleOK'
  BY <1>0, <1>1 DEF Safe, Counted, NoChildOutlivesRun, HomeOK, IdleOK
<1>6. RevOK'
  <2>1. ListFinds(c) => seen'[c] = nsRev[home[c]]
    BY DEF ListFinds, TypeOK
  <2>2. WatchOpens(c) => seen'[c] = seen[c] /\ since[c] <= seen[c]
    BY DEF WatchOpens, WatchGoes, Safe, RevOK
  <2>3. watchPc'[c] \in {"open", "stream"} => since[c] <= seen'[c]
    BY <1>0, <1>2, <1>3, <2>1, <2>2
  <2> QED
    BY <1>0, <2>3 DEF Safe, RevOK
<1>7. ReturnOK'
  <2>1. watchPc'[c] = "return" => c \in closed' \/ nsRev[home[c]] > since[c]
    BY <1>0, <1>2, <1>3
  <2> QED
    BY <1>0, <2>1 DEF Safe, ReturnOK
<1>8. OrphansAreDoomed'
  <2>1. Orphans' \subseteq Orphans
    BY <1>0, <1>1, <1>2 DEF Orphans, Running
  <2> QED
    BY <1>0, <2>1 DEF Safe, OrphansAreDoomed, Doomed
<1>9. NoSpuriousStop'
  <2>1. Attached \subseteq Ctls
    BY ItemCtl DEF Attached
  <2>2. c \notin closed /\ c \in closed' => nsRev[home[c]] > since[c]
    BY <1>0, <1>2 DEF Safe, ReturnOK
  <2> QED
    BY <1>0, <1>1, <1>2, <2>1, <2>2 DEF Safe, NoSpuriousStop
<1> QED
  BY <1>5, <1>6, <1>7, <1>8, <1>9 DEF Safe

LEMMA StutterStep ==
  ASSUME Safe, UNCHANGED vars
  PROVE  Safe'
BY DEF vars, Safe, Counted, NoChildOutlivesRun, HomeOK, RevOK, ReturnOK,
       IdleOK, OrphansAreDoomed, Doomed, NoSpuriousStop, Running, Attached, Orphans

LEMMA InvInit == Init => TypeOK /\ Safe
<1>1. ASSUME Init
      PROVE  Running = {} /\ Attached = {} /\ Orphans = {}
  BY <1>1 DEF Init, Running, Attached, NoItem, Orphans
<1>2. Init => Counted
  BY <1>1, FS_EmptySet DEF Init, Counted
<1>3. Init => RevOK
  BY DEF Init, RevOK
<1> QED
  BY <1>1, <1>2, <1>3, TypeInit
     DEF Init, Safe, NoChildOutlivesRun, HomeOK, NoItem, ReturnOK, IdleOK,
         OrphansAreDoomed, Doomed, NoSpuriousStop

LEMMA InvStep == TypeOK /\ Safe /\ [Next]_vars => (TypeOK /\ Safe)'
<1>1. SUFFICES ASSUME TypeOK, Safe, [Next]_vars
               PROVE  TypeOK' /\ Safe'
  OBVIOUS
<1>2. TypeOK'
  BY <1>1, TypeStep DEF Safe
<1>3. CASE Users
  BY <1>1, <1>2, <1>3, UsersStep
<1>4. CASE SpaceController
  <2>1. ASSUME NEW s \in Spaces, NEW c \in Ctls, Starts(s, c)
        PROVE  Safe'
    BY <1>1, <1>2, <2>1, StartStep
  <2>2. ASSUME NEW s \in Spaces, InitFailed(s) \/ DeleteItem(s) \/ StopItem(s)
        PROVE  Safe'
    BY <1>1, <1>2, <2>2, ItemStep
  <2> QED
    BY <1>1, <1>2, <1>4, <2>1, <2>2, MainStep DEF SpaceController, Starts
<1>5. CASE Crash
  BY <1>1, <1>2, <1>5, CrashStep
<1>6. ASSUME NEW c \in Ctls, AppLoop(c) \/ NamespaceWatch(c)
      PROVE  Safe'
  BY <1>1, <1>6, LoopStep, WatchStep
<1>7. CASE UNCHANGED vars
  BY <1>1, <1>2, <1>7, StutterStep
<1> QED
  BY <1>1, <1>2, <1>3, <1>4, <1>5, <1>6, <1>7 DEF Next

(* The variables keep their types: waitApps, for one, never goes below     *)
(* zero, which would panic. *)
THEOREM TypeCorrect == Spec => []TypeOK
BY InvInit, InvStep, PTL DEF Spec

(* For any number of spaces and controllers, no app controller runs when   *)
(* Run() has returned (the deferred waitApps.Wait()).                      *)
THEOREM RunWaitsForChildren == Spec => []NoChildOutlivesRun
<1>1. Safe => NoChildOutlivesRun
  BY DEF Safe
<1> QED
  BY InvInit, InvStep, <1>1, PTL DEF Spec

(* A controller that outlives its item without being told to stop lost its *)
(* namespace, or is about to (SpaceInfo.Delete): it need not end.          *)
THEOREM StopsAreJustified == Spec => []OrphansAreDoomed
<1>1. Safe => OrphansAreDoomed
  BY DEF Safe
<1> QED
  BY InvInit, InvStep, <1>1, PTL DEF Spec

(* Of two controllers that serve one namespace one was told to stop or has *)
(* lost the namespace, for any number of controllers: an item has one, and *)
(* the others are orphans (InitItem, SpaceInfo.Delete).                    *)
THEOREM OneServesEach == Spec => []OneServes
<1>1. ASSUME TypeOK, Safe
      PROVE  OneServes
  <2>1. SUFFICES ASSUME NEW c \in Running \ closed, NEW d \in Running \ closed,
                        c # d, home[c] = home[d], ~Doomed(c), ~Doomed(d)
                 PROVE  FALSE
    BY DEF OneServes
  <2>2. c \in Attached /\ d \in Attached
    BY <1>1, <2>1 DEF Safe, OrphansAreDoomed, Orphans
  <2>3. PICK s \in Spaces, t \in Spaces : item[s].ctl = c /\ item[t].ctl = d
    BY <2>2 DEF Attached
  <2>4. home[c] = s /\ home[d] = t
    BY <1>1, <2>2, <2>3 DEF Safe, HomeOK, Attached
  <2> QED
    BY <2>1, <2>3, <2>4
<1> QED
  BY InvInit, InvStep, <1>1, PTL DEF Spec

(* The controller of a managed space is told to stop only once it lost its *)
(* namespace, whichever streams closed and requests failed                 *)
(* (shutdownWhenNamespaceGone).                                            *)
THEOREM NoneStopsForNothing == Spec => []NoSpuriousStop
<1>1. Safe => NoSpuriousStop
  BY DEF Safe
<1> QED
  BY InvInit, InvStep, <1>1, PTL DEF Spec

-----------------------------------------------------------------------------
(* The refinement of Supervisor.                                           *)

LEMMA SupInit == Init => Sup!Init
BY DEF Init, Running, Sup!Init

LEMMA SupUsers ==
  ASSUME TypeOK, Users
  PROVE  UNCHANGED Sup!vars
<1>1. UNCHANGED <<mainPc, loopPc, closed>>
  BY UsersFacts
<1> QED
  BY <1>1 DEF Sup!vars, Running

(* A channel made anew is one that nobody closed.                          *)
LEMMA SupStart ==
  ASSUME TypeOK, NEW s \in Spaces, NEW c \in Ctls, Starts(s, c)
  PROVE  Sup!Start(c)
<1>1. mainPc = "running" /\ mainPc' = "running" /\ Start(s, c)
  BY StartFacts
<1>2. /\ c \notin Running
      /\ loopPc' = [loopPc EXCEPT ![c] = "run"]
      /\ closed' = closed \ {c}
  BY <1>1 DEF Start, Started, Available, Running
<1>3. Running' = Running \cup {c}
  BY <1>2 DEF Running, TypeOK
<1> QED
  BY <1>1, <1>2, <1>3 DEF Sup!Start

(* The space controller tells at most the controller of the item it drops. *)
LEMMA SupItem ==
  ASSUME TypeOK, NEW s \in Spaces, InitFailed(s) \/ DeleteItem(s) \/ StopItem(s)
  PROVE  (\E c \in Ctls : Sup!Tell(c)) \/ UNCHANGED Sup!vars
<1>1. /\ UNCHANGED <<mainPc, loopPc>>
      /\ closed' \in {closed, closed \cup {item[s].ctl}}
      /\ closed' \subseteq Ctls
  BY ItemFacts
<1>2. Running' = Running
  BY <1>1 DEF Running
<1>3. CASE closed' = closed
  BY <1>1, <1>2, <1>3 DEF Sup!vars
<1>4. CASE closed' = closed \cup {item[s].ctl}
  <2>1. item[s].ctl \in Ctls
    BY <1>1, <1>4
  <2> QED
    BY <1>1, <1>2, <1>4, <2>1 DEF Sup!Tell
<1> QED
  BY <1>1, <1>3, <1>4

(* Run() returns once waitApps is zero: no controller is running then.     *)
LEMMA SupMain ==
  ASSUME TypeOK, Safe, RunFails \/ RunReturns \/ MainRestarts
  PROVE  Sup!Fail \/ Sup!Return \/ Sup!Restart
<1>1. UNCHANGED <<loopPc, closed>>
  BY MainFacts
<1>2. Running' = Running
  BY <1>1 DEF Running
<1>3. CASE RunFails
  BY <1>1, <1>2, <1>3 DEF RunFails, Sup!Fail
<1>4. CASE RunReturns
  <2>1. Running = {}
    BY <1>4, RunningFacts DEF RunReturns, Safe, Counted
  <2> QED
    BY <1>1, <1>2, <1>4, <2>1 DEF RunReturns, Sup!Return
<1>5. CASE MainRestarts
  BY <1>1, <1>2, <1>5 DEF MainRestarts, Sup!Restart
<1> QED
  BY <1>3, <1>4, <1>5

LEMMA SupCrash ==
  ASSUME Crash
  PROVE  Sup!Crash
<1>1. /\ closed' = closed /\ mainPc' = "running"
      /\ \A c \in Ctls : loopPc'[c] = "done"
  BY CrashFacts
<1>2. Running' = {}
  BY <1>1 DEF Running
<1> QED
  BY <1>1, <1>2 DEF Sup!Crash

(* The loop of a controller ends only where its channel is closed.         *)
LEMMA SupLoop ==
  ASSUME TypeOK, NEW c \in Ctls, AppLoop(c)
  PROVE  Sup!End(c) \/ UNCHANGED Sup!vars
<1>1. /\ UNCHANGED <<mainPc, closed>>
      /\ c \in Running
      /\ Running' = Running \/ Running' = Running \ {c}
  BY LoopFacts
<1>2. CASE Running' = Running
  BY <1>1, <1>2 DEF Sup!vars
<1>3. CASE Running' # Running
  <2>1. ~ (LoopFails(c) \/ LoopRestarts(c))
    BY <1>3 DEF LoopFails, LoopRestarts, LoopGoes, Running, TypeOK
  <2>2. c \in closed
    BY <2>1 DEF AppLoop, LoopTerminates
  <2> QED
    BY <1>1, <1>3, <2>2 DEF Sup!End
<1> QED
  BY <1>2, <1>3

LEMMA SupWatch ==
  ASSUME TypeOK, NEW c \in Ctls, NamespaceWatch(c)
  PROVE  Sup!Tell(c) \/ UNCHANGED Sup!vars
<1>1. /\ UNCHANGED <<mainPc, loopPc>>
      /\ closed' \in {closed, closed \cup {c}}
  BY WatchFacts
<1>2. Running' = Running
  BY <1>1 DEF Running
<1> QED
  BY <1>1, <1>2 DEF Sup!vars, Sup!Tell

LEMMA SupStep == TypeOK /\ Safe /\ [Next]_vars => [Sup!Next]_(Sup!vars)
<1>1. SUFFICES ASSUME TypeOK, Safe, [Next]_vars
               PROVE  Sup!Next \/ UNCHANGED Sup!vars
  OBVIOUS
<1>2. CASE Users
  BY <1>1, <1>2, SupUsers
<1>3. CASE SpaceController
  <2>1. ASSUME NEW s \in Spaces, NEW c \in Ctls, Starts(s, c)
        PROVE  Sup!Next
    BY <1>1, <2>1, SupStart DEF Sup!Next
  <2>2. ASSUME NEW s \in Spaces, InitFailed(s) \/ DeleteItem(s) \/ StopItem(s)
        PROVE  Sup!Next \/ UNCHANGED Sup!vars
    BY <1>1, <2>2, SupItem DEF Sup!Next
  <2>3. CASE RunFails \/ RunReturns \/ MainRestarts
    BY <1>1, <2>3, SupMain DEF Sup!Next
  <2> QED
    BY <1>3, <2>1, <2>2, <2>3 DEF SpaceController, Starts
<1>4. CASE Crash
  BY <1>4, SupCrash DEF Sup!Next
<1>5. ASSUME NEW c \in Ctls, AppLoop(c)
      PROVE  Sup!Next \/ UNCHANGED Sup!vars
  BY <1>1, <1>5, SupLoop DEF Sup!Next
<1>6. ASSUME NEW c \in Ctls, NamespaceWatch(c)
      PROVE  Sup!Next \/ UNCHANGED Sup!vars
  BY <1>1, <1>6, SupWatch DEF Sup!Next
<1>7. CASE UNCHANGED vars
  BY <1>7 DEF vars, Sup!vars, Running
<1> QED
  BY <1>1, <1>2, <1>3, <1>4, <1>5, <1>6, <1>7 DEF Next

(* For any number of spaces and app controllers the operator implements    *)
(* Supervisor: a controller starts during a run, ends because it was told  *)
(* to or with the process, and Run() returns when none is left             *)
(* (Controller.Run, its deferred waitApps.Wait(), and Controller.Stop).    *)
THEOREM SupervisesAsPromised == Spec => ImplementsSupervisor
BY InvInit, InvStep, SupInit, SupStep, PTL
   DEF Spec, ImplementsSupervisor, Sup!Spec
=============================================================================
