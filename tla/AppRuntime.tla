----------------------------- MODULE AppRuntime ------------------------------
(***************************************************************************)
(* The apps of one namespace: pkg/app's New() with the phases it records,  *)
(* the objects internalCreate() makes one request at a time, Delete(), and *)
(* the collector of pkg/app/gc.go, as the loop of an app controller calls  *)
(* them. The loop itself is module Watcher; here it lists, initialises     *)
(* what it listed, collects, and takes events that lag behind.             *)
(*                                                                         *)
(* A namespace has one app controller, but two while a new version of the  *)
(* operator is rolled out, or when one was left behind. Any request may    *)
(* fail, and may fail after it took effect.                                *)
(***************************************************************************)
EXTENDS Integers, Sequences, Functions

CONSTANTS
  Apps,         \* names of apps; the endpoint of an app is its own
  Controllers,  \* the app controllers of the namespace
  Specs,        \* specs of apps: sets of the options of Options below
  MaxUid,       \* bound: times an app is created
  MaxRv,        \* bound: resource version users may still change an app at
  MaxCrashes    \* bound: crashes of the operator

Options == {"invalid", "unfit", "permissions", "ownAccount", "job", "endpoint", "dns"}

ASSUME AppAssumption ==
  /\ Specs \subseteq SUBSET Options
  /\ MaxUid \in Nat
  /\ MaxRv \in Nat
  /\ MaxCrashes \in Nat

VARIABLES
  cr,       \* the app resources; asked is history, the spec last recorded Active
  objs,     \* the objects there are, by app
  loop,     \* where each controller's watch loop stands
  item,     \* each loop's AppRuntimes, and where they stand
  inbox,    \* each loop's list, then the ADDED events under way to it
  begun,    \* history: the apps whose objects were begun to be created
  crashes   \* crashes so far

loopVars == <<loop, inbox, crashes>>
vars == <<cr, objs, loop, item, inbox, begun, crashes>>

NoCopy == [uid |-> 0, rv |-> 0, phase |-> "absent", spec |-> {}, asked |-> {}]

(* An AppRuntime: its copy of the app, its status, and the step it is at.  *)
NoItem ==
  [pc |-> "none", uid |-> 0, rv |-> 0, spec |-> {}, status |-> "None", at |-> 0]

Exists(a) == cr[a].phase # "absent"

-----------------------------------------------------------------------------
(* What an app needs.                                                      *)

(* The objects that GenerateResources makes and configureDNS adds, and     *)
(* their order. A role is named after the service account: the app's, or   *)
(* the one its pod brings. A job has no service and no ingress.            *)
CreationOrder ==
  <<"account", "role", "binding", "accountRole", "accountBinding",
    "service", "ingress", "deployment", "job", "record">>

Wanted(sp) ==
  (CASE {"permissions", "ownAccount"} \subseteq sp -> {"accountRole", "accountBinding"}
     [] "permissions" \in sp /\ "ownAccount" \notin sp -> {"account", "role", "binding"}
     [] OTHER -> {})
  \cup (IF "endpoint" \in sp /\ "job" \notin sp THEN {"service", "ingress"} ELSE {})
  \cup (IF "job" \in sp THEN {"job"} ELSE {"deployment"})
  \cup (IF {"endpoint", "dns"} \subseteq sp THEN {"record"} ELSE {})

(* The objects that Delete() asks for the removal of, by the app's name.   *)
DeletionOrder ==
  <<"service", "ingress", "record", "job", "deployment", "binding", "role", "account">>

Unwanted(sp) ==
  (IF "endpoint" \in sp THEN {"service", "ingress"} ELSE {})
  \cup (IF "permissions" \in sp THEN {"role", "binding"} ELSE {})
  \cup (Wanted(sp) \ {"accountRole", "accountBinding"})

(* The objects of some kinds are handled in an order: the steps after the  *)
(* i-th, and the one that follows. *)
Remaining(order, kinds, i) == {j \in i + 1 .. Len(order) : order[j] \in kinds}

Following(order, kinds, i) ==
  CHOOSE j \in Remaining(order, kinds, i) : \A k \in Remaining(order, kinds, i) : j <= k

(* The collector's three passes, and what each looks at.                   *)
MutPasses_NoIngresses == <<"deployments", "services">>

Passes == <<"deployments", "services", "ingresses">>

Collected(pass) ==
  CASE pass = "deployments" -> "deployment"
    [] pass = "services" -> "service"
    [] pass = "ingresses" -> "ingress"

-----------------------------------------------------------------------------
(* Users.                                                                  *)

CreateApp(a, sp) ==
  /\ ~Exists(a)
  /\ cr[a].uid < MaxUid
  /\ cr' = [cr EXCEPT ![a] = [uid |-> @.uid + 1, rv |-> @.rv + 1, phase |-> "None",
                              spec |-> sp, asked |-> {}]]
  /\ UNCHANGED <<objs, loop, item, inbox, begun, crashes>>

(* Any edit of an app. Its runtime ignores it: Update() is empty.          *)
ModifyApp(a, sp) ==
  /\ Exists(a)
  /\ cr[a].rv < MaxRv
  /\ cr' = [cr EXCEPT ![a].rv = @ + 1, ![a].spec = sp]
  /\ UNCHANGED <<objs, loop, item, inbox, begun, crashes>>

DeleteApp(a) ==
  /\ Exists(a)
  /\ cr' = [cr EXCEPT ![a].phase = "absent"]
  /\ UNCHANGED <<objs, loop, item, inbox, begun, crashes>>

-----------------------------------------------------------------------------
(* New(), setup() and create() of pkg/app/app.go.                          *)

At(c, a, pc) == item[c][a].pc = pc

(* A loop calls New() and Delete() one after the other: it is free when no *)
(* runtime is being worked on. *)
Free(c) == \A a \in Apps : item[c][a].pc \in {"none", "ready"}

(* setup() returns an error: New() records the failure, unless the status  *)
(* already says so. *)
Failed(r) ==
  IF r.status = "Failed" THEN [r EXCEPT !.pc = "ready"]
  ELSE [r EXCEPT !.pc = "failing", !.status = "Failed"]

MutSetUp_ResumeCreating(r) ==
  IF "invalid" \in r.spec THEN Failed(r)
  ELSE CASE r.status \in {"None", "Creating"} ->
              [r EXCEPT !.pc = "creating", !.status = "Creating"]
         [] r.status = "Active" -> [r EXCEPT !.pc = "ready"]
         [] OTHER -> Failed(r)

SetUp(r) ==
  IF "invalid" \in r.spec THEN Failed(r)
  ELSE CASE r.status = "None" -> [r EXCEPT !.pc = "creating", !.status = "Creating"]
         [] r.status = "Active" -> [r EXCEPT !.pc = "ready"]
         [] OTHER -> Failed(r)

(* InitItem() of a copy of an app.                                         *)
New(copy) ==
  SetUp([pc |-> "none", uid |-> copy.uid, rv |-> copy.rv, spec |-> copy.spec,
         status |-> copy.phase, at |-> 0])

(* updateCRStatus(): the API server takes the write of a copy that is up   *)
(* to date only. *)
Recording(c, a) == item[c][a].pc \in {"creating", "activating", "failing"}

Written(r, status) ==
  [r EXCEPT !.phase = status, !.rv = @ + 1,
            !.asked = IF status = "Active" THEN r.spec ELSE @]

MutLands_Unchecked(c, a) ==
  /\ Exists(a)
  /\ cr' = [cr EXCEPT ![a] = Written(@, item[c][a].status)]

Lands(c, a) ==
  /\ Exists(a)
  /\ cr[a].rv = item[c][a].rv
  /\ cr' = [cr EXCEPT ![a] = Written(@, item[c][a].status)]

MutRecorded_NoStart(r) ==
  [r EXCEPT !.pc = IF r.pc = "creating" THEN "setup" ELSE "ready"]

Recorded(r) ==
  IF r.pc = "creating"
  THEN [r EXCEPT !.pc = "setup", !.at = Following(CreationOrder, Wanted(r.spec), 0)]
  ELSE [r EXCEPT !.pc = "ready"]

RecordPhase(c, a) ==
  /\ Recording(c, a)
  /\ Lands(c, a)
  /\ item' = [item EXCEPT ![c][a] = [Recorded(@) EXCEPT !.rv = cr'[a].rv]]
  /\ begun' = IF At(c, a, "creating") THEN begun \cup {<<a, item[c][a].uid>>} ELSE begun
  /\ UNCHANGED <<objs, loopVars>>

(* The write fails, or only its answer does.                               *)
RecordFails(c, a) ==
  /\ Recording(c, a)
  /\ Lands(c, a) \/ UNCHANGED cr
  /\ item' = [item EXCEPT ![c][a] = Failed(@)]
  /\ UNCHANGED <<objs, loopVars, begun>>

(* internalCreate(): an app that GenerateResources refuses fails at once.  *)
CannotGenerate(c, a) ==
  /\ At(c, a, "setup")
  /\ "unfit" \in item[c][a].spec
  /\ item' = [item EXCEPT ![c][a] = Failed(@)]
  /\ UNCHANGED <<cr, objs, loopVars, begun>>

Advanced(r) ==
  IF Remaining(CreationOrder, Wanted(r.spec), r.at) = {}
  THEN [r EXCEPT !.pc = "activating", !.status = "Active"]
  ELSE [r EXCEPT !.at = Following(CreationOrder, Wanted(r.spec), @)]

Puts(c, a) ==
  /\ At(c, a, "setup")
  /\ "unfit" \notin item[c][a].spec

Created(c, a) == objs' = [objs EXCEPT ![a] = @ \cup {CreationOrder[item[c][a].at]}]

Put(c, a) ==
  /\ Puts(c, a)
  /\ Created(c, a)
  /\ item' = [item EXCEPT ![c][a] = Advanced(@)]
  /\ UNCHANGED <<cr, loopVars, begun>>

(* internalCreate() returns the error and leaves what it made.             *)
PutFails(c, a) ==
  /\ Puts(c, a)
  /\ Created(c, a) \/ UNCHANGED objs
  /\ item' = [item EXCEPT ![c][a] = Failed(@)]
  /\ UNCHANGED <<cr, loopVars, begun>>

(* Delete(): one request after the other; failures are logged. The loop    *)
(* drops the item after the last. *)
Deleting(r) ==
  [r EXCEPT !.pc = "deleting", !.at = Following(DeletionOrder, Unwanted(r.spec), 0)]

BeginDelete(c, a) == item' = [item EXCEPT ![c][a] = Deleting(@)]

(* The runtime after a request of Delete().                                *)
Deleted(r) ==
  IF Remaining(DeletionOrder, Unwanted(r.spec), r.at) = {} THEN NoItem
  ELSE [r EXCEPT !.at = Following(DeletionOrder, Unwanted(r.spec), @)]

Removed(c, a) == objs' = [objs EXCEPT ![a] = @ \ {DeletionOrder[item[c][a].at]}]

DeleteStep(c, a) ==
  /\ At(c, a, "deleting")
  /\ Removed(c, a) \/ UNCHANGED objs
  /\ item' = [item EXCEPT ![c][a] = Deleted(@)]
  /\ UNCHANGED <<cr, loopVars, begun>>

-----------------------------------------------------------------------------
(* The loop of an app controller.                                          *)

(* reconcileItems(): the list; items that are not in it are deleted, then  *)
(* the others in it get theirs. Only names are compared: an item is taken  *)
(* for the listed app of its name. *)
List(c) ==
  /\ loop[c] = "list"
  /\ loop' = [loop EXCEPT ![c] = "reconcile"]
  /\ inbox' = [inbox EXCEPT ![c] = [a \in Apps |-> IF Exists(a) THEN cr[a] ELSE NoCopy]]
  /\ item' = [item EXCEPT ![c] = [a \in Apps |->
                IF Exists(a) /\ @[a] # NoItem THEN [@[a] EXCEPT !.uid = cr[a].uid] ELSE @[a]]]
  /\ UNCHANGED <<cr, objs, begun, crashes>>

Unlisted(c) == {a \in Apps : item[c][a] # NoItem /\ inbox[c][a] = NoCopy}
Unmanaged(c) == {a \in Apps : item[c][a] = NoItem /\ inbox[c][a] # NoCopy}

DeleteUnlisted(c, a) ==
  /\ loop[c] = "reconcile"
  /\ Free(c)
  /\ a \in Unlisted(c)
  /\ BeginDelete(c, a)
  /\ UNCHANGED <<cr, objs, loopVars, begun>>

InitListed(c, a) ==
  /\ loop[c] = "reconcile"
  /\ Free(c)
  /\ Unlisted(c) = {}
  /\ a \in Unmanaged(c)
  /\ item' = [item EXCEPT ![c][a] = New(inbox[c][a])]
  /\ UNCHANGED <<cr, objs, loopVars, begun>>

MutReconciled_CollectFirst(c) ==
  /\ loop[c] = "reconcile"
  /\ Free(c)
  /\ Unlisted(c) = {}
  /\ loop' = [loop EXCEPT ![c] = Passes[1]]
  /\ inbox' = [inbox EXCEPT ![c] = [a \in Apps |-> NoCopy]]
  /\ UNCHANGED <<cr, objs, item, begun, crashes>>

Reconciled(c) ==
  /\ loop[c] = "reconcile"
  /\ Free(c)
  /\ Unlisted(c) = {}
  /\ Unmanaged(c) = {}
  /\ loop' = [loop EXCEPT ![c] = Passes[1]]
  /\ inbox' = [inbox EXCEPT ![c] = [a \in Apps |-> NoCopy]]
  /\ UNCHANGED <<cr, objs, item, begun, crashes>>

(* Collect(), from PeriodicTask() before each watch request: delete what   *)
(* carries the label of an app the map does not have. A list or a deletion *)
(* may fail, so that a pass ends anywhere. *)
Collect(c, a) ==
  \E pass \in Range(Passes) :
    /\ loop[c] = pass
    /\ item[c][a] = NoItem
    /\ Collected(pass) \in objs[a]
    /\ objs' = [objs EXCEPT ![a] = @ \ {Collected(pass)}]
    /\ UNCHANGED <<cr, loopVars, item, begun>>

EndPass(c) ==
  \E i \in 1..Len(Passes) :
    /\ loop[c] = Passes[i]
    /\ loop' = [loop EXCEPT ![c] = IF i = Len(Passes) THEN "watch" ELSE Passes[i + 1]]
    /\ UNCHANGED <<cr, objs, item, inbox, begun, crashes>>

(* The API server sends an ADDED event.                                    *)
Send(c, a) ==
  /\ loop[c] \notin {"list", "reconcile"}
  /\ item[c][a] = NoItem
  /\ inbox[c][a] = NoCopy
  /\ Exists(a)
  /\ inbox' = [inbox EXCEPT ![c][a] = cr[a]]
  /\ UNCHANGED <<cr, objs, loop, item, begun, crashes>>

(* handleEvent(). A MODIFIED event changes nothing: Update() is empty.     *)
HandleAdded(c, a) ==
  /\ loop[c] = "watch"
  /\ Free(c)
  /\ inbox[c][a] # NoCopy
  /\ item' = [item EXCEPT ![c][a] = New(inbox[c][a])]
  /\ inbox' = [inbox EXCEPT ![c][a] = NoCopy]
  /\ UNCHANGED <<cr, objs, loop, begun, crashes>>

HandleDeleted(c, a) ==
  /\ loop[c] = "watch"
  /\ Free(c)
  /\ item[c][a] # NoItem
  /\ ~Exists(a) \/ cr[a].uid # item[c][a].uid
  /\ BeginDelete(c, a)
  /\ UNCHANGED <<cr, objs, loopVars, begun>>

(* The stream closes: the loop watches on, or lists anew after a deletion. *)
StreamCloses(c) ==
  /\ loop[c] = "watch"
  /\ Free(c)
  /\ \E next \in {"list", Passes[1]} : loop' = [loop EXCEPT ![c] = next]
  /\ UNCHANGED <<cr, objs, item, inbox, begun, crashes>>

(* Run() returns an error, or the process dies: an empty map, and a list.  *)
Restarted(c) ==
  /\ loop' = [loop EXCEPT ![c] = "list"]
  /\ item' = [item EXCEPT ![c] = [a \in Apps |-> NoItem]]
  /\ inbox' = [inbox EXCEPT ![c] = [a \in Apps |-> NoCopy]]

RunFails(c) ==
  /\ loop[c] = "watch"
  /\ Free(c)
  /\ Restarted(c)
  /\ UNCHANGED <<cr, objs, begun, crashes>>

Crash(c) ==
  /\ crashes < MaxCrashes
  /\ crashes' = crashes + 1
  /\ Restarted(c)
  /\ UNCHANGED <<cr, objs, begun>>

-----------------------------------------------------------------------------
Init ==
  /\ cr = [a \in Apps |-> NoCopy]
  /\ objs = [a \in Apps |-> {}]
  /\ loop = [c \in Controllers |-> "list"]
  /\ item = [c \in Controllers |-> [a \in Apps |-> NoItem]]
  /\ inbox = [c \in Controllers |-> [a \in Apps |-> NoCopy]]
  /\ begun = {}
  /\ crashes = 0

Users(a) ==
  \/ \E sp \in Specs : CreateApp(a, sp)
  \/ \E sp \in Specs : ModifyApp(a, sp)
  \/ DeleteApp(a)

Runtime(c, a) ==
  \/ RecordPhase(c, a)
  \/ RecordFails(c, a)
  \/ CannotGenerate(c, a)
  \/ Put(c, a)
  \/ PutFails(c, a)
  \/ DeleteStep(c, a)

Reconciling(c) ==
  \/ List(c)
  \/ \E a \in Apps : DeleteUnlisted(c, a) \/ InitListed(c, a)
  \/ Reconciled(c)

Watching(c) ==
  \/ \E a \in Apps : Send(c, a) \/ HandleAdded(c, a) \/ HandleDeleted(c, a)
  \/ StreamCloses(c)
  \/ RunFails(c)

Next ==
  \/ \E a \in Apps : Users(a)
  \/ \E c \in Controllers :
       \/ \E a \in Apps : Runtime(c, a) \/ Collect(c, a)
       \/ Reconciling(c)
       \/ EndPass(c)
       \/ Watching(c)
       \/ Crash(c)

Spec == Init /\ [][Next]_vars

(* Requests are answered and loops go on (weak fairness). The server does  *)
(* not withhold an event from every stream, and closes streams, and a      *)
(* collector does not fail to delete an object for ever (strong). *)
Fairness ==
  \A c \in Controllers :
    /\ WF_vars(Reconciling(c))
    /\ WF_vars(EndPass(c))
    /\ WF_vars(StreamCloses(c))
    /\ \A a \in Apps :
         /\ WF_vars(Runtime(c, a))
         /\ SF_vars(HandleDeleted(c, a))
         /\ SF_vars(Collect(c, a))

FairSpec == Spec /\ Fairness

-----------------------------------------------------------------------------
(* Properties.                                                             *)

Phases == {"None", "Creating", "Active", "Failed"}
Objects == Range(CreationOrder)

Copy ==
  [uid : Nat, rv : Nat, phase : Phases \cup {"absent"},
   spec : SUBSET Options, asked : SUBSET Options]

Item ==
  [pc : {"none", "creating", "setup", "activating", "failing", "ready", "deleting"},
   uid : Nat, rv : Nat, spec : SUBSET Options, status : Phases, at : 0..Len(CreationOrder)]

(* Types of the variables. *)
TypeOK ==
  /\ cr \in [Apps -> Copy]
  /\ objs \in [Apps -> SUBSET Objects]
  /\ loop \in [Controllers -> {"list", "reconcile", "watch"} \cup Range(Passes)]
  /\ item \in [Controllers -> [Apps -> Item]]
  /\ inbox \in [Controllers -> [Apps -> Copy]]
  /\ begun \subseteq Apps \X Nat
  /\ crashes \in 0..MaxCrashes
  /\ \A c \in Controllers, a \in Apps : At(c, a, "setup") => item[c][a].at # 0

(* An app recorded Active has every object its spec asked for at that time *)
(* (no later edit is acted upon): a setup that fails somewhere does not    *)
(* record it, the collector takes no object of an app that exists for an   *)
(* orphan's, and the deletion of an app's predecessor of the same name     *)
(* does not reach it. *)
ActiveIsDeployed ==
  \A a \in Apps : cr[a].phase = "Active" => Wanted(cr[a].asked) \subseteq objs[a]

(* The objects of one app resource are begun to be created once at most,   *)
(* also by two controllers with copies of it, crashes and lost answers     *)
(* (create() records Creating first, and gives up where it cannot). *)
CreateOnce ==
  [][\A c \in Controllers, a \in Apps :
       At(c, a, "creating") /\ item'[c][a].pc = "setup" =>
         <<a, item[c][a].uid>> \notin begun]_vars

(* No two controllers set up one app resource at the same time, however    *)
(* late either of them listed it or heard of it (create, updateCRStatus).  *)
SettingUp(c, a) == item[c][a].pc \in {"setup", "activating"}

OneSetup ==
  \A c, d \in Controllers, a \in Apps :
    SettingUp(c, a) /\ SettingUp(d, a) /\ item[c][a].uid = item[d][a].uid => c = d

(* Every app is a resource as Lifecycle describes it, whatever its         *)
(* controllers, their copies and their crashes: its phase moves None,      *)
(* Creating, Active, or to Failed for good, and is Active only where its   *)
(* objects were begun to be created (setup, create, updateCRStatus).       *)
Life(a) == INSTANCE Lifecycle WITH
  uid <- cr[a].uid,
  phase <- cr[a].phase,
  invalid <- "invalid" \in cr[a].spec,
  begun <- {u \in 0..cr[a].uid : <<a, u>> \in begun}

ImplementsLifecycle ==
  /\ \A a \in Apps : Life(a)!Init
  /\ [][\A a \in Apps : [Life(a)!Next]_(Life(a)!vars)]_vars

(* The deployment, the service and the ingress of an app that is gone go   *)
(* away, whatever failed, died or was missed when it was deleted (Delete,  *)
(* Collect). Jobs, roles and DNS records are not collected. *)
OrphansGo ==
  \A a \in Apps :
    ~Exists(a) ~> Exists(a) \/ objs[a] \cap {"deployment", "service", "ingress"} = {}

(* What the collector logs as an orphan is one: no object of an app that   *)
(* exists and is Active. With two controllers it does not hold. *)
OrphansOnly ==
  [][\A c \in Controllers, a \in Apps :
       Collect(c, a) => cr[a].phase # "Active"]_vars
=============================================================================
