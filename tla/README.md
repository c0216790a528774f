# A verification of decco

decco is a Kubernetes operator. A user creates a `Space` resource; the operator
gives it a namespace with certificates, a default HTTP service and an ingress
controller, then watches that namespace for `App` resources and deploys them.
This directory holds TLA+ modules translated from the Go code, TLC
configurations that check them on small instances, and TLAPS proofs of the
properties that matter most for every instance. Paths below are relative to the
repository.

## 1. The system

| part | code | state it keeps | what it does |
|---|---|---|---|
| watch loop | `pkg/watcher` | an item map by name, the version to watch from, `stopCh` | lists, reconciles, watches, applies events, resumes or resynchronises |
| space controller | `pkg/spacecontroller` | one item per space, `waitApps` | consumer of a watch loop over the spaces of all namespaces |
| app controllers | `pkg/appcontroller` | per active space: `stopCh`, `stopOnce`, two goroutines | one restarts a watch loop over the apps of the namespace, the other shuts the controller down when the namespace goes |
| operator process | `cmd/operator` | none | runs a space controller, and after an error another, two seconds later |
| space runtime | `pkg/space`, `api/v1beta2/space_types.go` | a copy of the space resource and a status in memory | sets a space up and tears it down through API calls, and records its phase |
| app runtime, app collector | `pkg/app/app.go`, `gc.go` | the same for an app | creates generated objects; the collector deletes objects of unknown apps |
| resource generation | `pkg/app/generate.go`, `pkg/k8sutil/stunnel.go`, `ingress.go` | none (pure) | deployments, services, ingresses and TLS side-cars of an app |
| resource clients | `pkg/k8sutil`, `pkg/client` | none | the requests |
| DNS | `pkg/dns`, `pkg/misc`, `pkg/slack` | the registered provider | updates records, with retries for up to five minutes |
| springboard | `cmd/springboard` | a child process, `keepLooping`, a channel | starts a program, stops it at the first connection |
| namespace collector | `pkg/space/gc.go` | none | never runs: nothing enables it |

How they interact:

- `main()` calls `spacecontroller.Run()`, which calls a watch loop's `Run()`. The
  loop calls back: `InitItem`, `Delete`, `Stop` and `Update` are synchronous, so a
  space's setup runs inside an event handler.
- `InitItem` of an active space starts an app controller. Its two goroutines share
  `stopCh` with the space controller, which closes it too; `waitApps` links the end
  of the one goroutine to the return of `Run()`.
- All state that survives is in the API server: resources with their versions,
  namespaces, secrets. Users change it at any time, and so does a second operator
  while a new version is rolled out (the Deployment has one replica and the default
  RollingUpdate strategy, `deploy/decco/templates/decco-deployment.yaml`).

What is hard: streams that close with events not yet carried; versions that are
stale after a deletion; loops abandoned at any event and started over; two parties
that stop the same controller; a wait group across goroutines; setups of eighteen
API calls that fail, or whose answers get lost, anywhere; crashes between recording
a phase and acting on it; two operators with copies of the same resource; resources
and namespaces that are deleted and created again. `PROJECT.json` lists each hazard
at its line with the properties that cover it.

What makes each part correct:

- watch loop: its map is the content of some revision that only moves forward; it
  never skips or repeats a revision; it catches up; it can be stopped.
- space and app controllers: no two good controllers on one namespace; no child that
  outlives `Run()`; one that is left behind has lost its namespace or is about to
  (which does not make it end, §4); none stopped without cause; stopped goroutines
  end; a failed `Run()` is followed by another.
- space runtime: resources created at most once per space resource, and by one
  operator at a time; a phase that only moves forward; Active only with everything
  the spec asked for when that was recorded; no certificate lost. Later edits of an
  Active space change nothing: `Update()` is empty (`pkg/space/space.go:85`).
- app runtime: the same phases; an app recorded Active keeps the objects it was set up
  with, whatever the collector does (edits are ignored here too, `pkg/app/app.go:78`);
  objects of an app that is gone go away.
- generation: ports and names that agree between the services, ingresses and the
  side-cars asked for of an app, and with what its deletion looks for; all or nothing;
  the objects are those the spec asks for.
- DNS: retries that end; a handler that returns unless one request is never answered;
  an Active owner with all its records; a deletion without an error that leaves none.
- springboard: the child is told to end at a connection and not before; springboard
  ends when its child has, or once it has told it to, without waiting for it.

## 2. The modules

| module | models | kind |
|---|---|---|
| `WatchCache` | what a watch loop promises | abstract specification |
| `Lifecycle` | what decco promises of a space or an app, and of its phase | abstract specification |
| `Supervisor` | what the operator promises of the app controllers it runs | abstract specification |
| `Watcher` | `pkg/watcher` | component, implements `WatchCache` |
| `WatcherProofs` | | proofs |
| `Operator` | `cmd/operator`, `pkg/spacecontroller`, `pkg/appcontroller` | composition of `main()`, one space controller, several app controllers; implements `Supervisor` |
| `OperatorProofs` | | proofs |
| `SpaceRuntime` | `pkg/space`, several operators on one space | component, implements `Lifecycle` |
| `SpaceRuntimeProofs` | | proofs |
| `AppRuntime` | `pkg/app/app.go` and `gc.go` under the loop of an app controller | component, implements `Lifecycle` for each app |
| `AppRuntimeProofs`, `AppDeployProofs` | | proofs |
| `Generate` | `pkg/app/generate.go`, `pkg/k8sutil/stunnel.go` and `ingress.go` | algorithm, a step per stage and turn |
| `GenerateProofs` | | proofs |
| `Dns` | `pkg/dns/dns.go`, `pkg/misc/misc.go`, `pkg/slack`, `updateDns` of `pkg/space`, `configureDNS` of `pkg/app` | component |
| `DnsProofs` | | proofs |
| `Springboard` | `cmd/springboard` | component: two goroutines, a child, clients |
| `SpringboardProofs` | | proofs |
| `MCWatcher`, `MCOperator`, `MCSpaceRuntime`, `MCAppRuntime`, `MCGenerate`, `MCDns`, `MCSpringboard` | | instances for TLC |

**Watcher.** The API server is a history: `log[v]` says what revision `v` did and
what existed after it. An object's uid is the revision that created it. `pos` is the
revision the loop has taken into account, `watchVersion` its `watchVersion`, with
`NoVersion` for the empty string. Each action is one branch of the code, up to the
next request or receive: `Reconcile` is `resync()` with its list and the whole of
`reconcileItems()`; `HandleEvent` is one turn of `processWatchResponse` with
`handleEvent`; `Exit` is any return of `Run()` with the deferred stops. The stream's
decoder goroutine only hands one event over, so it has no state of its own. When
`CreateCRD` creates the definition, `WaitCRDReady` asks for one called `space` where
the name is `spaces.decco.platform9.com` (`pkg/k8sutil/space_rsc_def.go:105`), and
the resync fails: the initial version `"0"` is never used. The action `CreateCRD`
says so.

**Operator.** Of each space it keeps the resource (`crUid`, `crPhase`) and the namespace
(`nsRev`, odd while it exists, and `nsTerm`). `item` is the space controller's map, `wg`
is `waitApps`; each app controller has the program counters of its two goroutines, and
`closed` is the set of those whose `stopCh` is closed (that a second closure does
nothing is the matter of `sync.Once`). The watch loops are abstracted to what `Watcher`
shows: an addition or deletion is handled some day, `Run()` may fail at any time, a
closed `stopCh` ends it. A setup is reduced to its outcomes, which `SpaceRuntime`
details; one of them is that Active was recorded and the answer lost, so that the space
has an item without a controller. `Failed` and `Creating` are one phase here, as
`setup()` treats them alike.

**SpaceRuntime.** One space, and operators that each hold a copy of it (`uid`, `rv`,
`spec`) with their `Status`. `Steps` is `internalCreate()` flattened to its API calls; a
`spec` is the set of options that make it take the optional ones. Every call may fail,
and may fail after it took effect. A status write lands only with the current resource
version. Users put any spec in the place of any other, at any time, an invalid one and
the repair of one included. `begun`, `given`, `wiped` and `asked` are history variables;
`asked` is the spec with which Active was recorded, which is what an Active space has,
as later edits are ignored. The DNS update is a step that succeeds or fails. The
contents of the created objects are left out.

**Lifecycle and Supervisor.** The two abstract specifications leave out what makes the
components hard. In `Lifecycle` there is a resource with its phase and the set of uids
whose objects were begun to be created: it is claimed (`Start`), becomes Active
(`Finish`) only after its objects were begun, and fails for good (`Fail`). No copy of
it is ever stale, and no request fails. A claim whose answer is lost is a `Start` that
begins nothing. `SpaceRuntime` implements it with the resource's own variables, and
`AppRuntime` does once for each app. In `Supervisor` there are children that live and
are told to end: they start during a run, end because they were told to or with the
process, and a run that failed returns when none is left. `Operator` implements it with
the loops that run and the channels that are closed.

**AppRuntime.** The apps of one namespace, and one or two app controllers on it.
Users put any spec in the place of any other, and the field `asked` of an app is what
`asked` is of a space.
`item[c][a]` is the `AppRuntime` in the item map of controller `c` together with the
step it has reached, since the loop calls `New()` and `Delete()` synchronously;
`Free` says that none is under way. `loop` is what `pkg/watcher` does between: a
list, its reconciliation, the collector before each watch request, events. `inbox`
holds the copy of an app that a list or an ADDED event carries until it is handled,
so that it may be stale by then. The order in which the events of one app arrive is
what `Watcher` shows. `Wanted` names the objects `GenerateResources` makes of a
spec, `Unwanted` those `Delete()` asks to remove; they differ in the role of an app
that brings its own service account. The code puts objects without a name and marks
that "test if this works" (`pkg/app/app.go:223`): the model lets a request succeed
or fail, so what it shows of a setup also covers an API server that refuses all.
Each app has one endpoint, of a name that is its own. A collector's list and the
deletions it leads to are one step per object: no other step of the same loop can
come between them.

**Generate.** `GenerateResources` is a function, but one of mutable state: three
functions change the pod spec in place, and one index counts through two loops. So it is
a state machine whose initial state is a pair of specs and whose steps are the
validation (`Refuse`, `Prepare`), a turn of `generateEndpoints` (`Endpoint`,
`EndpointFails`), a turn of the egress loop (`Egress`, `EgressFails`) and the deployment
or job (`Deploy`). `pod` is the deep copy of the app's pod spec, as a value: memory
shared between pod specs is not modelled, nor that the app's own stays as it is.
`sidecars` records what `AddStunnelToPod` was asked to add; `AddStunnelToPod` itself
leaves the pod as it is, as the code drops what `InsertStunnel` returns. So what is
shown of side-cars says that the services and ingresses meet the ones asked for, and not
that a connection gets through: at this commit it does not (§4). Ports and indices are
numbers; certificates, paths and host names are there or not; labels, annotations and
the names of hosts are left out. `app-gen` is the same function with its result printed.

**Dns.** One handler at a time: `BeginCreate` or `BeginDelete` starts it, `next` is the
head of `configureDNS`'s loop over endpoints (a space has one record and no loop),
`lookup` and `apply` are the two parts of `UpdateRecord`, each one or more requests that
may fail, and `apply` may fail after its effect. A space's attempts end with a post to
Slack when there is a webhook (`hooked`): a failed one in `failed`, within the time of
the attempt, and a late success in `succeeded`. Any request may stay unanswered: the
code sets no timeout on the provider's calls or on the post (`pkg/slack/slack.go:15`).
`elapsed` and `interval` are the
back-off's `GetElapsedTime()` and `currentInterval` in seconds (the code sets the random
factor to 0). The provider's zone is `records`. It is outside `src/`,
as is the back-off library; both are modelled from how the code calls them.

**Springboard.** `pc` is `main()`; `waiter` the goroutine that waits for the child and
then sends on `cancel`; `child` the process; `open` and `conn` what the kernel keeps of
the listening socket and each client's connection: completed before it is accepted,
and reset when the socket is closed first. `Timeout` may come with a connection
pending, which is the race of the code.

## 3. What TLC checks

| run | instance | question |
|---|---|---|
| `watcher` | 2 objects, 5 revisions, 1 fault | snapshot, resumption, no unsafe state, refinement of `WatchCache`, convergence, a closed `stopCh` ends the loop |
| `watcher_recreated` | 2 objects, no fault | finding: a recreated object keeps the old item |
| `operator_safety` | 1 space created twice, 2 controllers, 3 namespace changes | 207814 states: one good controller, stops, orphans, refinement of `Supervisor` |
| `operator_live` | the same with 1 controller, 8771 states | stopped goroutines end; `Run()` returns and is followed by another |
| `operator_stuck` | 1 space, 1 controller | finding: `Run()` never returns |
| `space_rollout` | 2 operators, 1 space resource, edits between 3 specs; 4590297 states | creation once and by one, refinement of `Lifecycle`, completeness, certificates |
| `app` | 1 app created twice, edits between 4 specs, 1 crash; 574360 states | creation once, refinement of `Lifecycle`, Active means deployed, orphans go |
| `app_collected` | 1 app, 2 controllers | finding: a lagging collector deletes live objects |
| `generate` | 106134 states: lists of up to 3 endpoints of 11 kinds, up to 2 egresses of 7 | ports, names, errors, the objects wanted and no others |
| `generate_sidecars` | the same | finding: the side-cars are not in the pod |
| `dns` | 83190 states: a space, or an app with up to 3 endpoints; the code's back-off | bounded retries, records of Active and deleted owners, the handler returns or one request hangs |
| `springboard` | 2 clients | when the child is told to end, and springboard ends |

**Bounds.** Five revisions hold a creation, deletion and recreation of one object
with another object's events between them, which is the longest pattern in which a
map by name goes wrong; one fault separates every pair of loop steps, since the
actions are enumerated. One space is enough in `Operator` because spaces share only
`mainPc` and `wg`; two controllers let one that was left behind meet its successor,
and three namespace changes let the namespace be removed and created anew under it.
`MaxRv` bounds what users change; the operators' own writes are not bounded by it
and end by themselves. 5 for a space and 4 for an app leave edits before a setup,
during it, and of the Active resource, so that a spec can be made invalid and
repaired around a setup. Two operators are what a rolling update has. An app created
twice lets its deletion meet its successor, and apps of different names meet nowhere
but in the loop, which takes turns; failed requests are not bounded, only crashes
are (`MaxCrashes`), so that the loop reaches its collector. Deadlock is checked in
the `operator` runs; the others stop when their bounds are reached or what they model
has terminated.

The endpoints of `MCGenerate` are one of each kind the code tells apart (TCP with and
without termination, with its own certificate, for metrics, with a path, with a listen
port, with a port of 0 or -1), and three of them let one that needs no side-car stand
between two that do, which is where one index could repeat; a job, permissions and a
brought account only meet the endpoints in `Delete()`, so they are combined with one
endpoint. `Dns` runs with the 3, 60 and 300 seconds of `pkg/misc/misc.go:10` and
attempts of no time or of ten seconds: the interval reaches its cap and the elapsed
time passes its bound in one wait. Two springboard clients let one be accepted while
the other is lost.

The `app` run has one controller, since two can undo an Active app (`app_collected`).
For two, that objects are created once and that `Lifecycle` is implemented rests on the
theorems `CreatedOnce` and `LivesAsPromised`, which hold for any number. A space that is
created again is left to the proofs of `SpaceRuntimeProofs`, which hold for every
`MaxUid`.

**Symmetry** is used in `operator_safety` and `space_rollout` only, over controllers and
operators, whose identities occur in no definition.

**Fairness.** `Watcher`: requests are answered and timers expire (weak); events, stream
closures and the closed `stopCh` are picked infinitely often if they are on offer
infinitely often (strong), since Go's `select` chooses at random among ready cases, the
API server times every watch out, and a stream does not always close before its first
event. `Operator`: the same for the namespace watch; goroutines are scheduled; a loop
that restarts for ever has a stream open infinitely often, in which it sees the closed
`stopCh` (strong fairness of `LoopTerminates`). `AppRuntime`: the loop goes on (weak); a
deletion is not withheld by every stream, and the collector's request for one object
does not fail for ever (strong), as it is repeated before each watch request. `Dns`:
only the steps for which the handler waits for nobody (weak fairness of `Local`). No
answer of the provider or of Slack is assumed, neither success nor failure, since no
timeout guarantees one. `Springboard`: both goroutines are scheduled and a turn ends
after two seconds (weak); a connection that waits in turn after turn is accepted in one,
and a client that has lost its connection tries again and does not always hit the
instant between a deadline and the closing of the socket (strong: the socket comes and
goes). A client may also give up. No fairness is assumed of users, crashes, failures, or
of the creation of spaces.

## 4. Findings

- `operator_stuck`: `shutdownWhenNamespaceGone` lists the namespace, then watches. A
  removal between a closed stream and the next list leaves the list empty, and `l != 1`
  retries for ever: the removal is never noticed, although the function is to "Shut
  down the controller if the namespace is gone". If the space was deleted, such a
  controller belongs to no item, so nobody stops it. The next time the space loop
  fails, `waitApps.Wait()` blocks for ever, where the comment in `SpaceInfo.Stop`
  relies on "the future decco controller instance".
- `watcher_recreated`: the list that is to "recover existing spaces" compares names
  only; a space recreated since the last event is never set up.
- `app_collected`: the collector compares a list of deployments with one loop's map.
  With two controllers on a namespace (a rolling update, or the one that was left
  behind), the one that lags deletes as "orphaned" the objects of an app the other has
  just made Active; nothing creates them again.
- `generate_sidecars`: `AddStunnelToPod` (`pkg/k8sutil/stunnel.go:115`) drops what
  `InsertStunnel` returns. Services and egresses rely on containers the pod has not.

Met while reading, without a run of their own:

- spaces are watched in all namespaces and keyed by name alone, so that two of one
  name make `handleEvent` report an "unsafe state", which restarts everything;
- a setup still running for a deleted space removes the certificate of the recreated
  one; a space recreated while its namespace terminates stays Failed; `Delete()`
  removes a namespace that a failed space never created;
- edits of an Active space or app are ignored, and so is the repair of one recorded
  Failed: an operator may go on serving a space as Active whose record says Failed,
  when another's `New()` read it while its spec was invalid and it was repaired since;
- a request to the DNS provider or to Slack that is never answered holds up the space
  loop, and so every space, for ever. What `HoldUpIsBounded` bounds is the retries,
  relative to the length of one attempt, which the code does not bound, and without
  the attempt that succeeds; a failed deletion leaves its records behind;
- `main()` of springboard returns right after the SIGTERM, without waiting for the
  child to end;
- an endpoint with `isMetricsEndpoint` and a path gets an ingress to a port its service
  may not have, though `api/v1beta2/app_types.go:125` says that there is none;
- the default listen port of a side-car is the base plus the number of side-cars before
  it, not "443 + endpoint index" (`api/v1beta2/app_types.go:126`);
- a connection that is completed between springboard's deadline and the closing of its
  socket is lost, though the child is to end "as soon as anyone connects"
  (`cmd/springboard/README.md`); the property holds of clients that try again.

## 5. What is proved

`tlapm` checks every proof; nothing is assumed but the named `ASSUME`s of the
modules (types and finiteness of the constants).

**Watch loop** (`WatcherProofs`), for any objects, names, and bounds:
`TypeCorrect`; `Resumes`: a watch starts where the loop stopped. With unique names,
`Snapshot`: the map is the content of revision `pos`; `NoUnsafeState`: no event finds
the map in a state `handleEvent` refuses; and `Refinement`: `Watcher` implements
`WatchCache`. The invariant is strengthened by
`LogOK`, which says that each entry of the history follows from the one before it
(an ADDED object was absent, a DELETED one present): `handleEvent`'s checks can only
be shown to pass by comparing the event with the revision it follows. `LoopOK`
relates the program counter to the version.

**Controllers** (`OperatorProofs`), for any number of spaces and controllers:
`TypeCorrect` (the wait group never goes below zero), `OneServesEach` (two controllers
of one space only when one of them is told to stop or has lost the namespace),
`RunWaitsForChildren`, `StopsAreJustified` (who is left behind has lost its namespace
or is about to; not that it ends), `NoneStopsForNothing`, and
`SupervisesAsPromised`: `Operator` implements `Supervisor`. None is inductive
alone. The strengthening says that `wg` is the number of running loops (`Counted`), that
an item's controller serves its space
(`HomeOK`), that a namespace watch returns only with cause (`ReturnOK`), and that an
idle space controller has no item (`IdleOK`). The refinement has a lemma per kind of
step: that `RunReturns` is a `Return` is where `Counted` is needed, since the code
waits for a number to be zero and `Supervisor` for a set to be empty.

**Space runtime** (`SpaceRuntimeProofs`), for any operators, specs and bounds:
`TypeCorrect`, `CreatedOnce`, `ActiveHasEverything`, and `LivesAsPromised`:
`SpaceRuntime` implements `Lifecycle`, from which `MovesForward` follows. The core is
`Knows`: an operator whose copy has the current resource version knows the phase and the
spec, which is why a write that lands never undoes another operator's verdict, and why
the spec an Active space was set up with is the one recorded, whatever users do to it
meanwhile. `Made` says what a running setup has created so far, and `Sound` joins the
parts. For the refinement `Sound` says of a setup that its uid has been begun, so that
the Active it records is a `Finish`; which steps write the phase, and what they knew
when they did, is in `LifeLanding`. `CertsKeptInTime` has the hypothesis `[]Timely`:
every setup is one of the current resource. It is about the behaviour and not the
constants, and needed: a setup that outlives its resource removes the secret of its
successor (§4). `CertsKept` discharges it for `MaxUid = 1`. The invariant of both adds
that nothing is removed while there is no namespace to copy to. `SetUpByOne` says that
two operators never set up one resource at the same time (`OneSetup`): a setup starts
with the write of Creating, from a uid not begun yet, and a setup that runs is of a
begun one.

**App runtime** (`AppRuntimeProofs`), for any apps, specs, bounds and any number of
controllers: `TypeCorrect`, `CreatedOnce`, `LivesAsPromised` (each app implements
`Lifecycle`) and from it `Forward`. `Sound` and `Knows` are what they are for a space,
and `CopySound` says the same of the copies in a list or an event under way: one that
has the current version is the app. `BegunOK` says that an app whose objects were begun
to be created is not in phase None any more. The refinement needs to know in addition
that what a runtime in memory claims, it has begun (`Claims`), and follows a runtime
from one step to the next (`Continues`), as one loop has the runtimes of many apps. The
same two give `SetUpByOne`, for the controllers of an app what it is for the operators
of a space. `ActiveApps` (`AppDeployProofs`) shows `ActiveIsDeployed` for a namespace
with one controller; with two, the collector of one takes what the other has just made
(§4). Its invariant follows an app through a loop: `Made` says what a running setup has
created so far, and `Home` that an Active app is in the loop's map, or the loop is about
to list it, or has listed it and not yet reached it, so that nothing is deleted or
collected as another's. From the same invariant comes `CollectsOrphans`: with one
controller, `OrphansOnly` holds, which `app_collected` violates with two.

**Generation** (`GenerateProofs`), for all specs: `Distinct`, `TargetsMeetSidecars`,
`IngressesServed`, `AllOrNothing`, `NamesAgree` and the types; and `NothingLeftOut`
(`GeneratesWanted`): the objects made are those the spec asks for, which is what
`AppRuntime` takes `GenerateResources` to make (its `Wanted`). The loops are handled by
an invariant over the turns done (`LoopInv`): the k-th side-car bears index k - 1
(`SideInv`), each endpoint before `i` is served, and none of them was refusable.

**DNS** (`DnsProofs`), for any number of records and any back-off: `HoldUp`,
`RecordsOfActive`, `NoRecordsOfGone`. `TimeInv` says that a wait only begins before the
time is over; `LoopInv` that the endpoints before `at` are done.

**Springboard** (`SpringboardProofs`), for any clients: `OnRequestOnly`,
`NoChildLeft`; the invariant relates `keepLooping` and `childExited` to what made
them so.

Every invariant, action property and refinement the passing runs check is proved.
Model-checked only: the liveness properties, as fairness is outside the prover, and the
findings.

## 6. Not modelled, and the plan

Every component that keeps state is modelled; what is left would refine the bounds
between the modules:

1. Several endpoints per app in `AppRuntime`, with names two apps share.
2. `SpaceRuntime` shown to implement the outcomes `Operator` assumes of a setup, and
   `Watcher` the delivery it assumes.
3. Two operators racing on one DNS record.

Left out for good: the namespace collector of `pkg/space/gc.go` (nothing enables it),
generated code, the end-to-end test, the text of Slack messages and the result of
posting them (only logged; the posts themselves are in `Dns`), logging, and the content
of Kubernetes objects no property is about: labels, annotations, host names, the
arguments of containers.
