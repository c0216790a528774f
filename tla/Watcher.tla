------------------------------- MODULE Watcher -------------------------------
(***************************************************************************)
(* The watch loop of pkg/watcher, which both the space controller and the  *)
(* app controllers run: list the custom resources, reconcile the item map  *)
(* with the list, watch from the list's version, apply the events, and     *)
(* reopen the stream or resynchronise when the API server closes it.       *)
(*                                                                         *)
(* The API server is modelled by the history of its revisions. The object  *)
(* with uid u was created by revision u; 0 stands for "no object".         *)
(***************************************************************************)
EXTENDS Integers, Sequences

CONSTANTS
  Objects,     \* namespace/name of the custom resources users may create
  Names,       \* what Item.Name() returns: the name without the namespace
  NameOf,      \* the name of each object
  MaxRev,      \* bound: revisions of the API server's history
  MaxFaults    \* bound: failed requests and broken streams

ASSUME WatcherAssumption ==
  /\ NameOf \in [Objects -> Names]
  /\ MaxRev \in Nat
  /\ MaxFaults \in Nat

VARIABLES
  log,          \* the API server's revisions: what each did, and the result
  crd,          \* whether the custom resource definition exists
  pc,           \* where Run() stands
  itemMap,      \* the uid of the object each name's ManagedItem was made from
  watchVersion, \* the version the next watch request starts from
  pos,          \* the last revision the loop has taken into account
  stopCh,       \* whether stopCh is closed
  runErr,       \* what Run() returned last
  faults        \* faults so far

apiVars  == <<log, crd>>
loopVars == <<pc, itemMap, watchVersion, pos, runErr>>
vars     == <<log, crd, pc, itemMap, watchVersion, pos, stopCh, runErr, faults>>

NoVersion == -1      \* the empty version string: a resync is needed

-----------------------------------------------------------------------------
(* The API server's history.                                               *)

Rev == Len(log)

Nothing == [o \in Objects |-> 0]

(* The uid each object has at revision v. *)
LiveAt(v) == IF v = 0 THEN Nothing ELSE log[v].live

Live == LiveAt(Rev)

(* The names that exist at revision v, and the uids that bear name n. *)
NamesAt(v) == {NameOf[o] : o \in {x \in Objects : LiveAt(v)[x] # 0}}

UidsOf(n, v) == {LiveAt(v)[o] : o \in {x \in Objects : NameOf[x] = n /\ LiveAt(v)[x] # 0}}

(* The version each object carries: the revision that wrote it last. *)
Versions == IF Rev = 0 THEN Nothing ELSE log[Rev].versions

Write(type, o, uid, rv) ==
  /\ crd
  /\ Rev < MaxRev
  /\ log' = Append(log, [type |-> type, obj |-> o, rv |-> rv,
                         live |-> [Live EXCEPT ![o] = uid],
                         versions |-> [Versions EXCEPT ![o] = rv]])
  /\ UNCHANGED <<crd, loopVars, stopCh, faults>>

CreateObject(o) == Live[o] = 0 /\ Write("ADDED", o, Rev + 1, Rev + 1)

ModifyObject(o) == Live[o] # 0 /\ Write("MODIFIED", o, Live[o], Rev + 1)

(* A DELETED event shows the object as it was: its version is out of date. *)
DeleteObject(o) == Live[o] # 0 /\ Write("DELETED", o, 0, Versions[o])

-----------------------------------------------------------------------------
(* The item map.                                                           *)

Empty == [n \in Names |-> 0]

Managed == {n \in Names : itemMap[n] # 0}

(* The uids the entry of name n may have after reconcileItems: entries the *)
(* list does not name are deleted, entries it names are kept as they are,  *)
(* and a name without an entry gets the item its first listed object       *)
(* initialises. *)
MutReconciled_NoDelete(n) ==
  IF itemMap[n] # 0 THEN {itemMap[n]}
  ELSE IF UidsOf(n, Rev) = {} THEN {0} ELSE UidsOf(n, Rev)

MutReconciled_NoAdd(n) == IF UidsOf(n, Rev) = {} THEN {0} ELSE {itemMap[n]}

Reconciled(n) ==
  IF UidsOf(n, Rev) = {} THEN {0}
  ELSE IF itemMap[n] # 0 THEN {itemMap[n]}
  ELSE UidsOf(n, Rev)

(* handleEvent returns an error for an addition of a name it has, and for  *)
(* a change or a deletion of a name it has not. *)
Unsafe(e) == (e.type = "ADDED") = (itemMap[NameOf[e.obj]] # 0)

(* The item map after the event; Update() of a space or an app is empty. *)
MutHandled_KeepDeleted(e) ==
  IF e.type = "ADDED" THEN [itemMap EXCEPT ![NameOf[e.obj]] = e.live[e.obj]]
  ELSE itemMap

Handled(e) ==
  IF e.type = "MODIFIED" THEN itemMap
  ELSE [itemMap EXCEPT ![NameOf[e.obj]] = e.live[e.obj]]

(* The version to resume from after an event. *)
MutNextWatchVersion_AsEvent(e) == e.rv

NextWatchVersion(e) == IF e.type = "DELETED" THEN NoVersion ELSE e.rv

-----------------------------------------------------------------------------
(* The loop.                                                               *)

(* Run() returns: its deferred function stops every item, and the loop and *)
(* its map are gone. *)
Exit(err) ==
  /\ pc' = IF err = "terminated" THEN "terminated" ELSE "exited"
  /\ runErr' = err
  /\ itemMap' = Empty
  /\ watchVersion' = NoVersion
  /\ pos' = 0

Fault ==
  /\ faults < MaxFaults
  /\ faults' = faults + 1

(* resync() on an API server without the definition: CreateCRD succeeds,   *)
(* then WaitCRDReady asks for a definition called "space" (or "app") where *)
(* the one it created is called "spaces.decco.platform9.com", gets "not    *)
(* found" and resync fails. The initial version "0" is therefore never     *)
(* used: a second resync always finds the definition and reconciles. *)
CreateCRD ==
  /\ pc = "resync"
  /\ ~crd
  /\ crd' = TRUE
  /\ pc' = "retry"
  /\ UNCHANGED <<log, itemMap, watchVersion, pos, stopCh, runErr, faults>>

(* resync(): a failed CreateCRD or a failed list. *)
ResyncFails ==
  /\ pc = "resync"
  /\ Fault
  /\ pc' = "retry"
  /\ UNCHANGED <<apiVars, itemMap, watchVersion, pos, stopCh, runErr>>

(* Run() sleeps initRetryWaitTime, then calls resync again. *)
RetryResync ==
  /\ pc = "retry"
  /\ pc' = "resync"
  /\ UNCHANGED <<apiVars, itemMap, watchVersion, pos, stopCh, runErr, faults>>

(* resync() with the definition in place: list, reconcileItems, and watch  *)
(* from the version of the list. *)
MutReconcile_VersionZero ==
  /\ pc = "resync"
  /\ crd
  /\ \E m \in [Names -> 0..Rev] :
       /\ \A n \in Names : m[n] \in Reconciled(n)
       /\ itemMap' = m
  /\ watchVersion' = 0
  /\ pos' = Rev
  /\ pc' = "watch"
  /\ UNCHANGED <<apiVars, stopCh, runErr, faults>>

Reconcile ==
  /\ pc = "resync"
  /\ crd
  /\ \E m \in [Names -> 0..Rev] :
       /\ \A n \in Names : m[n] \in Reconciled(n)
       /\ itemMap' = m
  /\ watchVersion' = Rev
  /\ pos' = Rev
  /\ pc' = "watch"
  /\ UNCHANGED <<apiVars, stopCh, runErr, faults>>

(* watch(): PeriodicTask leaves the loop's state alone; the request opens  *)
(* a stream of the revisions after watchVersion. *)
StartWatch ==
  /\ pc = "watch"
  /\ pos' = watchVersion
  /\ pc' = "stream"
  /\ UNCHANGED <<apiVars, itemMap, watchVersion, stopCh, runErr, faults>>

(* The request fails, or its status is not OK (an expired version is one). *)
StartWatchFails ==
  /\ pc = "watch"
  /\ Fault
  /\ Exit("fault")
  /\ UNCHANGED <<apiVars, stopCh>>

(* processWatchResponse() receives the next event and handleEvent applies  *)
(* it; a handler error ends Run(). *)
HandleEvent ==
  /\ pc = "stream"
  /\ pos < Rev
  /\ LET e == log[pos + 1]
     IN IF Unsafe(e)
        THEN Exit("unsafe")
        ELSE /\ itemMap' = Handled(e)
             /\ watchVersion' = NextWatchVersion(e)
             /\ pos' = pos + 1
             /\ UNCHANGED <<pc, runErr>>
  /\ UNCHANGED <<apiVars, stopCh, faults>>

(* The API server closes the stream, as it does from time to time, also    *)
(* with revisions the stream has not carried yet: watch() goes on from     *)
(* nextWatchVersion, or returns to Run() for a resync. *)
MutStreamCloses_NoResync ==
  /\ pc = "stream"
  /\ pc' = "watch"
  /\ UNCHANGED <<apiVars, itemMap, watchVersion, pos, stopCh, runErr, faults>>

StreamCloses ==
  /\ pc = "stream"
  /\ pc' = IF watchVersion = NoVersion THEN "resync" ELSE "watch"
  /\ UNCHANGED <<apiVars, itemMap, watchVersion, pos, stopCh, runErr, faults>>

(* An undecodable event, an ERROR event or a broken connection. *)
StreamBreaks ==
  /\ pc = "stream"
  /\ Fault
  /\ Exit("fault")
  /\ UNCHANGED <<apiVars, stopCh>>

(* The select of processWatchResponse() picks the closed stopCh. *)
MutTerminate_AsFault ==
  /\ pc = "stream"
  /\ stopCh
  /\ Exit("fault")
  /\ UNCHANGED <<apiVars, stopCh, faults>>

Terminate ==
  /\ pc = "stream"
  /\ stopCh
  /\ Exit("terminated")
  /\ UNCHANGED <<apiVars, stopCh, faults>>

(* The caller of Run() starts a new loop after any error but ErrTerminated *)
(* (operator_main.go for spaces, Controller.Start for apps). *)
Restart ==
  /\ pc = "exited"
  /\ pc' = "resync"
  /\ runErr' = "nil"
  /\ UNCHANGED <<apiVars, itemMap, watchVersion, pos, stopCh, faults>>

(* Somebody closes stopCh. *)
CloseStopCh ==
  /\ ~stopCh
  /\ stopCh' = TRUE
  /\ UNCHANGED <<apiVars, loopVars, faults>>

-----------------------------------------------------------------------------
Init ==
  /\ log = <<>>
  /\ crd \in BOOLEAN
  /\ pc = "resync"
  /\ itemMap = Empty
  /\ watchVersion = NoVersion
  /\ pos = 0
  /\ stopCh = FALSE
  /\ runErr = "nil"
  /\ faults = 0

Users ==
  \E o \in Objects : CreateObject(o) \/ ModifyObject(o) \/ DeleteObject(o)

Loop ==
  \/ CreateCRD
  \/ ResyncFails
  \/ RetryResync
  \/ Reconcile
  \/ StartWatch
  \/ StartWatchFails
  \/ HandleEvent
  \/ StreamCloses
  \/ StreamBreaks
  \/ Terminate
  \/ Restart

Next == Users \/ Loop \/ CloseStopCh

Spec == Init /\ [][Next]_vars

(* Timers expire and requests are answered; the API server closes every    *)
(* stream some day, and does not close every one before its first event;   *)
(* select does not ignore a closed stopCh for ever. *)
Fairness ==
  /\ WF_vars(CreateCRD \/ RetryResync \/ Reconcile \/ StartWatch \/ Restart)
  /\ SF_vars(HandleEvent)
  /\ SF_vars(StreamCloses)
  /\ SF_vars(Terminate)

FairSpec == Spec /\ Fairness

-----------------------------------------------------------------------------
(* Properties.                                                             *)

LogEntry ==
  [type : {"ADDED", "MODIFIED", "DELETED"}, obj : Objects, rv : Nat,
   live : [Objects -> Nat], versions : [Objects -> Nat]]

(* Types of the variables. *)
TypeOK ==
  /\ log \in Seq(LogEntry)
  /\ crd \in BOOLEAN
  /\ pc \in {"resync", "retry", "watch", "stream", "exited", "terminated"}
  /\ itemMap \in [Names -> Nat]
  /\ watchVersion \in Nat \cup {NoVersion}
  /\ pos \in 0..Rev
  /\ stopCh \in BOOLEAN
  /\ runErr \in {"nil", "unsafe", "fault", "terminated"}
  /\ faults \in 0..MaxFaults

(* The managed names are those the API server had at the revision the loop *)
(* has reached: no event is lost, repeated or applied out of order across  *)
(* stream closures, soft restarts and restarts (handleEvent, reconcile-    *)
(* Items, and the version processWatchResponse returns). *)
ViewIsSnapshot == Managed = NamesAt(pos)

(* A watch request never starts from a version other than the revision the *)
(* loop has taken into account (watch, processWatchResponse): it neither   *)
(* skips nor repeats revisions. *)
ResumesWhereItStopped == watchVersion # NoVersion => watchVersion = pos

(* handleEvent never meets what it calls an unsafe state. *)
NeverUnsafe == runErr # "unsafe"

(* The loop comes to manage exactly the names that exist, and keeps to     *)
(* that, once the users stop changing things and the faults cease (as the  *)
(* bounds make them): soft restarts and restarts recover what was missed. *)
Converges ==
  <>[](pc = "terminated" \/ Managed = NamesAt(Rev))

(* A closed stopCh ends the loop, from wherever it stands. *)
StopEndsRun == stopCh ~> (pc = "terminated")

(* reconcileItems: "We need to recover existing spaces." What it leaves in *)
(* the map for a listed name is the item of the listed object, not that of *)
(* a deleted one. *)
RecoversExisting ==
  pc = "watch" => \A n \in Managed : itemMap[n] \in UidsOf(n, pos)

(* Apps of one namespace never share a name; spaces of two namespaces may. *)
NamesAreUnique == \A o, p \in Objects : NameOf[o] = NameOf[p] => o = p

(* The loop implements the abstract cache. *)
CacheHist == [v \in 1..Rev |-> NamesAt(v)]

Cache == INSTANCE WatchCache WITH hist <- CacheHist, ver <- pos, view <- Managed

ImplementsCache == Cache!CacheSpec
=============================================================================
