---------------------------- MODULE AppDeployProofs ----------------------------
(* That an Active app is deployed (AppRuntime), for any apps, specs and    *)
(* bounds, where one app controller serves the namespace. With two it does *)
(* not hold: the collector of one may undo what the other made.            *)
EXTENDS AppRuntimeProofs

OneController == \E c : Controllers = {c}

(* An Active app q has its objects os, and the loop l has it in its map,   *)
(* or is about to: as the runtime r, or as the listed copy p.              *)
Home(r, p, q, os, l) ==
  /\ Wanted(q.asked) \subseteq os
  /\ r = NoItem => l = "list" \/ (l = "reconcile" /\ p # NoCopy /\ p.uid = q.uid)
  /\ r # NoItem => r.pc # "deleting" /\ r.uid = q.uid /\ (l = "reconcile" => p # NoCopy)

(* A setup has created what its spec asks for up to where it stands.       *)
Made(r, os) ==
  /\ r.pc = "setup" =>
       \A j \in 1..10 : j < r.at /\ CreationOrder[j] \in Wanted(r.spec) => CreationOrder[j] \in os
  /\ r.pc = "activating" => Wanted(r.spec) \subseteq os

Deployed(r, p, q, os, l) ==
  /\ r # NoItem => r.pc # "none"
  /\ r.pc \in Working /\ r.rv = q.rv /\ q.phase # "absent" => r.spec = q.spec
  /\ Made(r, os)
  /\ l = "reconcile" /\ r.pc \in Working => p # NoCopy
  /\ l \notin {"list", "reconcile"} /\ p # NoCopy => r = NoItem
  /\ q.phase = "Active" => Home(r, p, q, os, l)

DeployInv ==
  \A c \in Controllers, a \in Apps :
    Deployed(item[c][a], inbox[c][a], cr[a], objs[a], loop[c])

-----------------------------------------------------------------------------
(* The order of creation.                                                  *)

LEMMA FollowingLeast ==
  ASSUME NEW order, NEW kinds, NEW j \in Nat, Remaining(order, kinds, j) # {}
  PROVE  \A k \in Remaining(order, kinds, j) : Following(order, kinds, j) <= k
<1>1. Remaining(order, kinds, j) \in SUBSET Nat
  BY DEF Remaining
<1>2. \E m \in Remaining(order, kinds, j) : \A k \in Remaining(order, kinds, j) : m <= k
  BY <1>1, Least
<1> QED
  BY <1>2 DEF Following

(* Nothing that is wanted comes between a step and the one that follows.   *)
LEMMA NothingBetween ==
  ASSUME NEW sp, NEW i \in 0..10, NEW k \in 1..10, i < k, CreationOrder[k] \in Wanted(sp)
  PROVE  /\ Remaining(CreationOrder, Wanted(sp), i) # {}
         /\ Following(CreationOrder, Wanted(sp), i) <= k
<1>1. k \in Remaining(CreationOrder, Wanted(sp), i)
  BY Orders DEF Remaining
<1> QED
  BY <1>1, FollowingLeast

LEMMA WantedFacts ==
  ASSUME NEW sp
  PROVE  \A w \in Wanted(sp) : \E j \in 1..10 : CreationOrder[j] = w
<1>1. /\ CreationOrder[1] = "account" /\ CreationOrder[2] = "role" /\ CreationOrder[3] = "binding"
      /\ CreationOrder[4] = "accountRole" /\ CreationOrder[5] = "accountBinding"
      /\ CreationOrder[6] = "service" /\ CreationOrder[7] = "ingress"
      /\ CreationOrder[8] = "deployment" /\ CreationOrder[9] = "job" /\ CreationOrder[10] = "record"
  BY DEF CreationOrder
<1>2. Wanted(sp) \subseteq {"account", "role", "binding", "accountRole", "accountBinding", "service",
                           "ingress", "deployment", "job", "record"}
  BY DEF Wanted
<1> QED
  BY <1>1, <1>2

(* A setup begins with nothing made, and goes on with one object more.     *)
LEMMA BeginsMade ==
  ASSUME NEW r \in Item, NEW os
  PROVE  Made(Recorded(r), os)
<1>1. CASE r.pc = "creating"
  <2>1. /\ Recorded(r).pc = "setup" /\ Recorded(r).spec = r.spec
        /\ Recorded(r).at = Following(CreationOrder, Wanted(r.spec), 0)
    BY <1>1 DEF Recorded, Item
  <2>2. ASSUME NEW j \in 1..10, j < Recorded(r).at, CreationOrder[j] \in Wanted(r.spec)
        PROVE  FALSE
    <3>1. Following(CreationOrder, Wanted(r.spec), 0) <= j
      BY <2>2, NothingBetween
    <3>2. Following(CreationOrder, Wanted(r.spec), 0) \in 1..10
      BY SomethingToDo, FollowingFacts, Orders
    <3> QED
      BY <2>1, <2>2, <3>1, <3>2
  <2> QED
    BY <2>1, <2>2 DEF Made
<1>2. CASE r.pc # "creating"
  BY <1>2 DEF Recorded, Item, Made
<1> QED
  BY <1>1, <1>2

LEMMA GoesOnMade ==
  ASSUME NEW r \in Item, r.pc = "setup", r.at # 0, NEW os, Made(r, os),
         NEW more, os \subseteq more, CreationOrder[r.at] \in more
  PROVE  Made(Advanced(r), more)
<1>1. r.at \in 1..10 /\ r.at \in 0..10
  BY Orders DEF Item
<1>2. \A j \in 1..10 : j <= r.at /\ CreationOrder[j] \in Wanted(r.spec) => CreationOrder[j] \in more
  BY <1>1 DEF Made
<1>3. CASE Remaining(CreationOrder, Wanted(r.spec), r.at) = {}
  <2>1. Advanced(r).pc = "activating" /\ Advanced(r).spec = r.spec
    BY <1>3 DEF Advanced, Item
  <2>2. ASSUME NEW w \in Wanted(r.spec) PROVE w \in more
    <3>1. PICK j \in 1..10 : CreationOrder[j] = w
      BY WantedFacts
    <3>2. ~(r.at < j)
      BY <1>1, <1>3, <2>2, <3>1, NothingBetween
    <3> QED
      BY <1>1, <1>2, <2>2, <3>1, <3>2
  <2> QED
    BY <2>1, <2>2 DEF Made
<1>4. CASE Remaining(CreationOrder, Wanted(r.spec), r.at) # {}
  <2>1. /\ Advanced(r).pc = "setup" /\ Advanced(r).spec = r.spec
        /\ Advanced(r).at = Following(CreationOrder, Wanted(r.spec), r.at)
    BY <1>4 DEF Advanced, Item
  <2>2. ASSUME NEW j \in 1..10, j < Advanced(r).at, CreationOrder[j] \in Wanted(r.spec)
        PROVE  CreationOrder[j] \in more
    <3>1. Following(CreationOrder, Wanted(r.spec), r.at) \in 1..10
      BY <1>1, <1>4, FollowingFacts, Orders
    <3>2. ~(r.at < j)
      BY <1>1, <2>1, <2>2, <3>1, NothingBetween
    <3> QED
      BY <1>1, <1>2, <2>2, <3>2
  <2> QED
    BY <2>1, <2>2 DEF Made
<1> QED
  BY <1>3, <1>4

-----------------------------------------------------------------------------
(* One app: what each kind of step makes of it.                            *)

LEMMA Nothing == NoItem.pc = "none" /\ NoCopy.phase = "absent"
  BY DEF NoItem, NoCopy

(* A change by a user makes no app Active, and no demand on one that is.   *)
LEMMA UserKeeps ==
  ASSUME NEW r \in Item, NEW p, NEW q \in Copy, NEW n \in Copy, NEW os, NEW l,
         Sound(r, q), Deployed(r, p, q, os, l),
         \/ n.phase = "absent"
         \/ /\ n.rv > q.rv
            /\ n.phase = "Active" =>
                 q.phase = "Active" /\ n.uid = q.uid /\ n.asked = q.asked
  PROVE  Deployed(r, p, n, os, l)
<1>1. r.rv \in Nat /\ q.rv \in Nat /\ n.rv \in Nat /\ r.rv <= q.rv
  BY DEF Item, Copy, Sound
<1>2. n.phase # "absent" => r.rv # n.rv
  BY <1>1
<1>3. n.phase = "Active" => Home(r, p, n, os, l)
  BY DEF Deployed, Home
<1> QED
  BY <1>2, <1>3 DEF Deployed

(* A runtime that gives up stays the app's, and demands nothing.           *)
LEMMA FailedKeeps ==
  ASSUME NEW r \in Item, r.pc \in Working, NEW p, NEW q, NEW os, NEW more, os \subseteq more, NEW l,
         Deployed(r, p, q, os, l)
  PROVE  Deployed(Failed(r), p, q, more, l)
<1>1. /\ Failed(r).pc \in {"ready", "failing"} /\ Failed(r).spec = r.spec
      /\ Failed(r).rv = r.rv /\ Failed(r).uid = r.uid
  BY DEF Failed, Item
<1>2. r # NoItem /\ Failed(r) # NoItem
  BY <1>1, Nothing DEF Working
<1>3. q.phase = "Active" => Home(Failed(r), p, q, more, l)
  BY <1>1, <1>2 DEF Deployed, Home
<1> QED
  BY <1>1, <1>2, <1>3 DEF Deployed, Made, Working

(* The phase that a write records is one the setup has earned.             *)
LEMMA WriteKeeps ==
  ASSUME NEW r \in Item, NEW p, NEW q \in Copy, NEW n \in Copy, NEW os, NEW l, NEW x,
         r.pc \in {"creating", "activating", "failing"}, r.rv = q.rv, q.phase # "absent",
         Sound(r, q), Knows(r, q), Deployed(r, p, q, os, l),
         n.uid = q.uid, n.rv = q.rv + 1, n.spec = q.spec, n.phase = r.status,
         n.asked = IF n.phase = "Active" THEN q.spec ELSE q.asked,
         x.pc \in {"setup", "ready", "failing"}, x.uid = r.uid, x.spec = r.spec, Made(x, os)
  PROVE  Deployed(x, p, n, os, l)
<1>1. r.spec = q.spec
  BY DEF Deployed, Working
<1>2. r # NoItem /\ x # NoItem
  BY Nothing
<1>3. l = "reconcile" => p # NoCopy
  BY DEF Deployed, Working
<1>4. n.phase = "Active" => Wanted(q.spec) \subseteq os
  BY <1>1 DEF Sound, Deployed, Made
<1>5. n.phase = "Active" => Home(x, p, n, os, l)
  BY <1>2, <1>3, <1>4 DEF Home, Knows
<1> QED
  BY <1>1, <1>2, <1>3, <1>5 DEF Deployed

LEMMA PutKeeps ==
  ASSUME NEW r \in Item, r.pc = "setup", r.at # 0, NEW p, NEW q, NEW os, NEW l, Deployed(r, p, q, os, l)
  PROVE  Deployed(Advanced(r), p, q, os \cup {CreationOrder[r.at]}, l)
<1>1. Made(Advanced(r), os \cup {CreationOrder[r.at]})
  BY GoesOnMade DEF Deployed
<1>2. /\ Advanced(r).pc \in {"setup", "activating"} /\ Advanced(r).spec = r.spec
      /\ Advanced(r).rv = r.rv /\ Advanced(r).uid = r.uid
  BY DEF Advanced, Item
<1>3. r # NoItem /\ Advanced(r) # NoItem
  BY <1>2, Nothing
<1>4. q.phase = "Active" => Home(Advanced(r), p, q, os \cup {CreationOrder[r.at]}, l)
  BY <1>2, <1>3 DEF Deployed, Home
<1> QED
  BY <1>1, <1>2, <1>3, <1>4 DEF Deployed, Working

(* No app that is Active is deleted by the loop that has it.               *)
LEMMA DeletionKeeps ==
  ASSUME NEW r, NEW p, NEW q, NEW os, NEW more, NEW l, NEW x,
         r # NoItem, q.phase # "Active", Deployed(r, p, q, os, l),
         x = NoItem \/ x.pc = "deleting"
  PROVE  Deployed(x, p, q, more, l)
<1>1. x.pc \in {"none", "deleting"} /\ (x # NoItem => x.pc = "deleting")
  BY Nothing
<1> QED
  BY <1>1 DEF Deployed, Made, Working

LEMMA NewPlace ==
  ASSUME NEW p \in Copy, p # NoCopy, NEW q, CopySound(p, q)
  PROVE  /\ New(p).pc \in {"creating", "ready", "failing"}
         /\ New(p).uid = p.uid /\ New(p).rv = p.rv /\ New(p).spec = p.spec
<1> DEFINE r == [pc |-> "none", uid |-> p.uid, rv |-> p.rv, spec |-> p.spec, status |-> p.phase, at |-> 0]
<1>1. p.phase \in Phases /\ p.uid \in Nat /\ p.rv \in Nat /\ p.spec \in SUBSET Options
  BY DEF Copy, CopySound
<1>2. r \in Item /\ r.uid = p.uid /\ r.rv = p.rv /\ r.spec = p.spec
  BY <1>1, Orders DEF Item
<1> HIDE DEF r
<1>3. New(p) = SetUp(r)
  BY DEF New, r
<1>4. /\ Failed(r).pc \in {"ready", "failing"} /\ Failed(r).spec = r.spec
      /\ Failed(r).rv = r.rv /\ Failed(r).uid = r.uid
  BY <1>2 DEF Failed, Item
<1> QED
  BY <1>2, <1>3, <1>4 DEF SetUp, Item

(* A listed copy, or one that came with an event, becomes a runtime.       *)
LEMMA CreationKeeps ==
  ASSUME NEW r, NEW p \in Copy, NEW q, NEW os, NEW l, NEW s,
         p # NoCopy, CopySound(p, q), Deployed(r, p, q, os, l),
         \/ l = "reconcile" /\ r = NoItem /\ s = p
         \/ l = "watch" /\ s = NoCopy
  PROVE  Deployed(New(p), s, q, os, l)
<1>1. /\ New(p).pc \in {"creating", "ready", "failing"}
      /\ New(p).uid = p.uid /\ New(p).rv = p.rv /\ New(p).spec = p.spec
  BY NewPlace
<1>2. p.rv = q.rv /\ q.phase # "absent" => p.spec = q.spec
  BY DEF CopySound
<1>3. New(p) # NoItem
  BY <1>1, Nothing
<1>4. q.phase = "Active" => Home(New(p), s, q, os, l)
  BY <1>1, <1>3 DEF Deployed, Home
<1> QED
  BY <1>1, <1>2, <1>3, <1>4 DEF Deployed, Made

(* The loop lists: what it has is in the list, under the uid it has now.   *)
LEMMA ListKeeps ==
  ASSUME NEW r \in Item, r.pc \in {"none", "ready"}, NEW p, NEW q \in Copy, NEW os, NEW x,
         Deployed(r, p, q, os, "list"),
         x = IF q.phase # "absent" /\ r # NoItem THEN [r EXCEPT !.uid = q.uid] ELSE r
  PROVE  Deployed(x, IF q.phase # "absent" THEN q ELSE NoCopy, q, os, "reconcile")
<1>1. x.pc = r.pc /\ (x = NoItem <=> r = NoItem)
  BY Nothing DEF Item, Deployed
<1>2. q.phase # "absent" /\ r # NoItem => x.uid = q.uid
  BY DEF Item
<1>3. q.phase = "Active" => Home(x, q, q, os, "reconcile")
  BY <1>1, <1>2, Nothing DEF Deployed, Home
<1> QED
  BY <1>1, <1>3 DEF Deployed, Made, Working

(* It goes on, and has every app that is Active from then on.              *)
LEMMA LoopKeeps ==
  ASSUME NEW r, NEW p, NEW q, NEW os, NEW l, NEW m, NEW s, Deployed(r, p, q, os, l),
         l # "list", m # "reconcile",
         \/ l # "reconcile" /\ s = p
         \/ l = "reconcile" /\ s = NoCopy /\ (r = NoItem => p = NoCopy)
  PROVE  Deployed(r, s, q, os, m)
<1>1. q.phase = "Active" => Home(r, s, q, os, m)
  BY DEF Deployed, Home
<1> QED
  BY <1>1 DEF Deployed

LEMMA RestartKeeps ==
  ASSUME NEW r, NEW p, NEW q, NEW os, NEW l, Deployed(r, p, q, os, l)
  PROVE  Deployed(NoItem, NoCopy, q, os, "list")
<1>1. q.phase = "Active" => Home(NoItem, NoCopy, q, os, "list")
  BY DEF Deployed, Home
<1> QED
  BY <1>1, Nothing DEF Deployed, Made, Working

(* What a loop does not have when it collects or watches is not Active.    *)
LEMMA UnknownKeeps ==
  ASSUME NEW p, NEW q, NEW os, NEW more, NEW l, NEW s,
         l \notin {"list", "reconcile"}, Deployed(NoItem, p, q, os, l)
  PROVE  q.phase # "Active" /\ Deployed(NoItem, s, q, more, l)
<1>1. q.phase # "Active"
  BY DEF Deployed, Home
<1> QED
  BY <1>1, Nothing DEF Deployed, Made, Working

-----------------------------------------------------------------------------
(* Steps.                                                                  *)

(* With one controller, a step that concerns an app leaves the others.     *)
LEMMA OneApp ==
  ASSUME DeployInv, OneController, NEW c \in Controllers, NEW a \in Apps, loop' = loop,
         \A b \in Apps : b # a =>
           /\ item'[c][b] = item[c][b] /\ inbox'[c][b] = inbox[c][b]
           /\ cr'[b] = cr[b] /\ objs'[b] = objs[b],
         Deployed(item'[c][a], inbox'[c][a], cr'[a], objs'[a], loop[c])
  PROVE  DeployInv'
<1> SUFFICES ASSUME NEW b \in Apps
             PROVE  Deployed(item'[c][b], inbox'[c][b], cr'[b], objs'[b], loop'[c])
  BY DEF DeployInv, OneController
<1>1. CASE b = a
  BY <1>1
<1>2. CASE b # a
  BY <1>2 DEF DeployInv
<1> QED
  BY <1>1, <1>2

LEMMA DeployUsers ==
  ASSUME AppInv, DeployInv, OneController, NEW a \in Apps, Users(a)
  PROVE  DeployInv'
<1>0. /\ TypeOK /\ cr[a] \in Copy /\ cr[a].uid \in Nat /\ cr[a].rv \in Nat
      /\ UNCHANGED <<objs, loop, item, inbox>>
  BY DEF AppInv, TypeOK, Copy, Users, CreateApp, ModifyApp, DeleteApp
<1> PICK c \in Controllers : TRUE
  BY DEF OneController
<1> DEFINE Kept(q, n) ==
             \/ n.phase = "absent"
             \/ /\ n.rv > q.rv
                /\ n.phase = "Active" =>
                     q.phase = "Active" /\ n.uid = q.uid /\ n.asked = q.asked
<1>1. PICK n \in Copy : cr' = [cr EXCEPT ![a] = n]
  BY UserFacts
<1>2. cr'[a] = n /\ \A b \in Apps : b # a => cr'[b] = cr[b]
  BY <1>0, <1>1 DEF TypeOK
<1>3. ASSUME NEW sp \in Specs, CreateApp(a, sp) PROVE Kept(cr[a], n)
  <2>1. n.rv = cr[a].rv + 1 /\ n.phase = "None"
    BY <1>0, <1>2, <1>3 DEF CreateApp, TypeOK
  <2> QED
    BY <1>0, <2>1
<1>4. ASSUME NEW sp \in Specs, ModifyApp(a, sp) PROVE Kept(cr[a], n)
  <2>1. /\ n.rv = cr[a].rv + 1 /\ n.phase = cr[a].phase /\ n.uid = cr[a].uid
        /\ n.asked = cr[a].asked
    BY <1>0, <1>2, <1>4 DEF ModifyApp, TypeOK, Copy
  <2> QED
    BY <1>0, <2>1
<1>5. ASSUME DeleteApp(a) PROVE Kept(cr[a], n)
  <2>1. n.phase = "absent"
    BY <1>0, <1>2, <1>5 DEF DeleteApp, TypeOK, Copy
  <2> QED
    BY <2>1
<1>6. Kept(cr[a], n)
  BY <1>3, <1>4, <1>5 DEF Users
<1>7. item[c][a] \in Item /\ Sound(item[c][a], cr[a])
  BY DEF AppInv, TypeOK
<1>8. Deployed(item[c][a], inbox[c][a], cr[a], objs[a], loop[c])
  BY DEF DeployInv
<1>9. Deployed(item[c][a], inbox[c][a], n, objs[a], loop[c])
  BY <1>0, <1>6, <1>7, <1>8, UserKeeps
<1> QED
  BY <1>0, <1>2, <1>9, OneApp

LEMMA DeployRecordPhase ==
  ASSUME AppInv, DeployInv, OneController, NEW c \in Controllers, NEW a \in Apps, RecordPhase(c, a)
  PROVE  DeployInv'
<1> DEFINE r == item[c][a]
           x == [Recorded(r) EXCEPT !.rv = cr'[a].rv]
<1>0. /\ TypeOK /\ r \in Item /\ cr[a] \in Copy /\ cr[a].rv \in Nat
      /\ Deployed(r, inbox[c][a], cr[a], objs[a], loop[c])
  BY DEF AppInv, TypeOK, Copy, DeployInv
<1>1. Recording(c, a) /\ Lands(c, a) /\ UNCHANGED <<objs, loop, inbox>>
  BY DEF RecordPhase, loopVars
<1>2. /\ cr' \in [Apps -> Copy] /\ \A b \in Apps : b # a => cr'[b] = cr[b]
      /\ cr'[a].uid = cr[a].uid /\ cr'[a].rv = cr[a].rv + 1 /\ cr'[a].spec = cr[a].spec
      /\ cr'[a].asked = IF cr'[a].phase = "Active" THEN cr[a].spec ELSE cr[a].asked
      /\ cr'[a].phase = r.status /\ Exists(a) /\ Knows(r, cr[a]) /\ Sound(r, cr[a])
  BY <1>1, LandsFacts
<1>3. Recorded(r) \in Item /\ Recorded(r).pc \in {"setup", "ready"} /\ Recorded(r).spec = r.spec
  <2>1. CASE r.pc = "creating"
    <3> DEFINE f == Following(CreationOrder, Wanted(r.spec), 0)
    <3>1. f \in 1..Len(CreationOrder)
      BY SomethingToDo, FollowingFacts, Orders
    <3>2. Recorded(r) = [r EXCEPT !.pc = "setup", !.at = f]
      BY <2>1 DEF Recorded
    <3> HIDE DEF f
    <3>3. f \in 0..Len(CreationOrder)
      BY <3>1, Orders
    <3>4. Recorded(r) \in Item
      BY <1>0, <3>2, <3>3 DEF Item
    <3>5. Recorded(r).pc = "setup" /\ Recorded(r).spec = r.spec
      BY <1>0, <3>2 DEF Item
    <3> QED
      BY <3>4, <3>5
  <2>2. CASE r.pc # "creating"
    BY <1>0, <2>2 DEF Recorded, Item
  <2> QED
    BY <2>1, <2>2
<1>4. x.pc \in {"setup", "ready"} /\ x.spec = r.spec /\ x.uid = r.uid /\ Made(x, objs[a])
  <2>1. cr'[a].rv \in Nat
    BY <1>0, <1>2
  <2>2. x.uid = r.uid
    BY <1>0, <2>1, RecordedFacts
  <2>3. x.pc = Recorded(r).pc /\ x.spec = Recorded(r).spec /\ x.at = Recorded(r).at
    BY <1>3 DEF Item
  <2>4. Made(Recorded(r), objs[a])
    BY <1>0, BeginsMade
  <2> HIDE DEF x
  <2>5. Made(x, objs[a])
    BY <2>3, <2>4 DEF Made
  <2> QED
    BY <1>3, <2>2, <2>3, <2>5
<1>5. /\ item'[c][a] = x /\ \A b \in Apps : b # a => item'[c][b] = item[c][b]
  BY <1>0 DEF RecordPhase, TypeOK
<1> HIDE DEF x
<1>6. r.rv = cr[a].rv /\ cr[a].phase # "absent" /\ r.pc \in {"creating", "activating", "failing"}
  BY <1>1 DEF Lands, Exists, Recording
<1>7. Deployed(x, inbox[c][a], cr'[a], objs[a], loop[c])
  BY <1>0, <1>2, <1>4, <1>6, WriteKeeps
<1> QED
  BY <1>1, <1>2, <1>5, <1>7, OneApp

LEMMA DeployRecordFails ==
  ASSUME AppInv, DeployInv, OneController, NEW c \in Controllers, NEW a \in Apps, RecordFails(c, a)
  PROVE  DeployInv'
<1> DEFINE r == item[c][a]
           x == Failed(r)
<1>0. /\ TypeOK /\ r \in Item /\ cr[a] \in Copy
      /\ Deployed(r, inbox[c][a], cr[a], objs[a], loop[c])
  BY DEF AppInv, TypeOK, DeployInv
<1>1. Recording(c, a) /\ UNCHANGED <<objs, loop, inbox>>
  BY DEF RecordFails, loopVars
<1>2. item'[c][a] = x /\ \A b \in Apps : b # a => item'[c][b] = item[c][b]
  BY <1>0 DEF RecordFails, TypeOK
<1>3. x.pc \in {"ready", "failing"} /\ x.uid = r.uid /\ x.spec = r.spec
  BY <1>0 DEF Failed, Item
<1> HIDE DEF x
<1>4. CASE UNCHANGED cr
  <2>1. Deployed(x, inbox[c][a], cr[a], objs[a], loop[c])
    BY <1>0, <1>1, FailedKeeps DEF x, Recording, Working
  <2> QED
    BY <1>1, <1>2, <1>4, <2>1, OneApp
<1>5. CASE Lands(c, a)
  <2>1. /\ cr' \in [Apps -> Copy] /\ \A b \in Apps : b # a => cr'[b] = cr[b]
        /\ cr'[a].uid = cr[a].uid /\ cr'[a].rv = cr[a].rv + 1 /\ cr'[a].spec = cr[a].spec
        /\ cr'[a].asked = IF cr'[a].phase = "Active" THEN cr[a].spec ELSE cr[a].asked
        /\ cr'[a].phase = r.status /\ Exists(a) /\ Knows(r, cr[a]) /\ Sound(r, cr[a])
    BY <1>1, <1>5, LandsFacts
  <2>2. r.rv = cr[a].rv /\ cr[a].phase # "absent" /\ r.pc \in {"creating", "activating", "failing"}
    BY <1>1, <1>5 DEF Lands, Exists, Recording
  <2>3. Made(x, objs[a])
    BY <1>3 DEF Made
  <2>4. Deployed(x, inbox[c][a], cr'[a], objs[a], loop[c])
    BY <1>0, <1>3, <2>1, <2>2, <2>3, WriteKeeps
  <2> QED
    BY <1>1, <1>2, <2>1, <2>4, OneApp
<1> QED
  BY <1>4, <1>5 DEF RecordFails

LEMMA DeploySetup ==
  ASSUME AppInv, DeployInv, OneController, NEW c \in Controllers, NEW a \in Apps,
         CannotGenerate(c, a) \/ Put(c, a) \/ PutFails(c, a)
  PROVE  DeployInv'
<1> DEFINE r == item[c][a]
           more == objs[a] \cup {CreationOrder[r.at]}
<1>0. /\ TypeOK /\ r \in Item /\ Sound(r, cr[a])
      /\ Deployed(r, inbox[c][a], cr[a], objs[a], loop[c])
  BY DEF AppInv, TypeOK, DeployInv
<1>1. r.pc = "setup" /\ r.at # 0 /\ UNCHANGED <<cr, loop, inbox>>
  BY <1>0 DEF CannotGenerate, Put, PutFails, Puts, At, Sound, loopVars
<1>2. \A b \in Apps : b # a => item'[c][b] = item[c][b] /\ objs'[b] = objs[b]
  BY <1>0 DEF CannotGenerate, Put, PutFails, Created, TypeOK
<1>3. CASE Put(c, a)
  <2>1. item'[c][a] = Advanced(r) /\ objs'[a] = more
    BY <1>0, <1>3 DEF Put, Created, TypeOK
  <2>2. Deployed(Advanced(r), inbox[c][a], cr[a], more, loop[c])
    BY <1>0, <1>1, PutKeeps
  <2> QED
    BY <1>1, <1>2, <2>1, <2>2, OneApp
<1>4. CASE CannotGenerate(c, a) \/ PutFails(c, a)
  <2>1. item'[c][a] = Failed(r) /\ objs'[a] \in {objs[a], more} /\ objs[a] \subseteq objs'[a]
    BY <1>0, <1>4 DEF CannotGenerate, PutFails, Created, TypeOK
  <2>2. Deployed(Failed(r), inbox[c][a], cr[a], objs'[a], loop[c])
    BY <1>0, <1>1, <2>1, FailedKeeps DEF Working
  <2> QED
    BY <1>1, <1>2, <2>1, <2>2, OneApp
<1> QED
  BY <1>3, <1>4

LEMMA DeployDeletion ==
  ASSUME AppInv, DeployInv, OneController, NEW c \in Controllers, NEW a \in Apps,
         DeleteStep(c, a) \/ DeleteUnlisted(c, a) \/ HandleDeleted(c, a)
  PROVE  DeployInv'
<1> DEFINE r == item[c][a]
<1>0. /\ TypeOK /\ r \in Item /\ Deployed(r, inbox[c][a], cr[a], objs[a], loop[c])
  BY DEF AppInv, TypeOK, DeployInv
<1>1. UNCHANGED <<cr, loop, inbox>>
  BY DEF DeleteStep, DeleteUnlisted, HandleDeleted, loopVars
<1>2. \A b \in Apps : b # a => item'[c][b] = item[c][b] /\ objs'[b] = objs[b]
  BY <1>0 DEF DeleteStep, DeleteUnlisted, HandleDeleted, BeginDelete, Removed, TypeOK
<1>3. r # NoItem /\ cr[a].phase # "Active"
  <2>1. CASE DeleteStep(c, a)
    <3>1. r.pc = "deleting"
      BY <2>1 DEF DeleteStep, At
    <3> QED
      BY <1>0, <3>1, Nothing DEF Deployed, Home
  <2>2. CASE DeleteUnlisted(c, a)
    BY <1>0, <2>2 DEF DeleteUnlisted, Unlisted, Deployed, Home
  <2>3. CASE HandleDeleted(c, a)
    BY <1>0, <2>3 DEF HandleDeleted, Exists, Deployed, Home
  <2> QED
    BY <2>1, <2>2, <2>3
<1>4. item'[c][a] = NoItem \/ item'[c][a].pc = "deleting"
  <2>1. CASE DeleteStep(c, a)
    <3>1. item'[c][a] = Deleted(r) /\ r.pc = "deleting"
      BY <1>0, <2>1 DEF DeleteStep, At, TypeOK
    <3> QED
      BY <1>0, <3>1, DeletedFacts
  <2>2. CASE DeleteUnlisted(c, a) \/ HandleDeleted(c, a)
    <3>1. item'[c][a] = Deleting(r)
      BY <1>0, <2>2 DEF DeleteUnlisted, HandleDeleted, BeginDelete, TypeOK
    <3> QED
      BY <1>0, <3>1, DeletingFacts
  <2> QED
    BY <2>1, <2>2
<1>5. Deployed(item'[c][a], inbox[c][a], cr[a], objs'[a], loop[c])
  BY <1>0, <1>3, <1>4, DeletionKeeps
<1> QED
  BY <1>1, <1>2, <1>5, OneApp

LEMMA DeployCreation ==
  ASSUME AppInv, DeployInv, OneController, NEW c \in Controllers, NEW a \in Apps,
         InitListed(c, a) \/ HandleAdded(c, a)
  PROVE  DeployInv'
<1> DEFINE p == inbox[c][a]
<1>0. /\ TypeOK /\ p \in Copy /\ CopySound(p, cr[a])
      /\ Deployed(item[c][a], p, cr[a], objs[a], loop[c])
  BY DEF AppInv, TypeOK, DeployInv
<1>1. UNCHANGED <<cr, objs, loop>> /\ p # NoCopy
  BY DEF InitListed, HandleAdded, Unmanaged, loopVars
<1>2. /\ item'[c][a] = New(p)
      /\ \A b \in Apps : b # a => item'[c][b] = item[c][b] /\ inbox'[c][b] = inbox[c][b]
  BY <1>0 DEF InitListed, HandleAdded, loopVars, TypeOK
<1>3. \/ loop[c] = "reconcile" /\ item[c][a] = NoItem /\ inbox'[c][a] = p
      \/ loop[c] = "watch" /\ inbox'[c][a] = NoCopy
  BY <1>0 DEF InitListed, HandleAdded, Unmanaged, loopVars, TypeOK
<1>4. Deployed(New(p), inbox'[c][a], cr[a], objs[a], loop[c])
  BY <1>0, <1>1, <1>3, CreationKeeps
<1> QED
  BY <1>1, <1>2, <1>4, OneApp

LEMMA DeployUnknown ==
  ASSUME AppInv, DeployInv, OneController, NEW c \in Controllers, NEW a \in Apps,
         Collect(c, a) \/ Send(c, a)
  PROVE  DeployInv'
<1>0. /\ TypeOK /\ Deployed(item[c][a], inbox[c][a], cr[a], objs[a], loop[c])
  BY DEF AppInv, TypeOK, DeployInv
<1>1. /\ UNCHANGED <<cr, loop, item>> /\ item[c][a] = NoItem
      /\ loop[c] \notin {"list", "reconcile"}
  BY DEF Collect, Send, loopVars, Passes, Range
<1>2. \A b \in Apps : b # a => inbox'[c][b] = inbox[c][b] /\ objs'[b] = objs[b]
  BY <1>0 DEF Collect, Send, loopVars, TypeOK
<1>3. Deployed(NoItem, inbox'[c][a], cr[a], objs'[a], loop[c])
  BY <1>0, <1>1, UnknownKeeps
<1> QED
  BY <1>1, <1>2, <1>3, OneApp

LEMMA DeployLoop ==
  ASSUME AppInv, DeployInv, OneController, NEW c \in Controllers,
         List(c) \/ Reconciled(c) \/ EndPass(c) \/ StreamCloses(c) \/ RunFails(c) \/ Crash(c)
  PROVE  DeployInv'
<1>0. TypeOK /\ UNCHANGED <<cr, objs>>
  BY DEF AppInv, List, Reconciled, EndPass, StreamCloses, RunFails, Crash
<1> SUFFICES ASSUME NEW a \in Apps
             PROVE  Deployed(item'[c][a], inbox'[c][a], cr[a], objs[a], loop'[c])
  BY <1>0 DEF DeployInv, OneController
<1>1. /\ item[c][a] \in Item /\ cr[a] \in Copy
      /\ Deployed(item[c][a], inbox[c][a], cr[a], objs[a], loop[c])
  BY DEF AppInv, TypeOK, DeployInv
<1>2. Passes[1] \notin {"list", "reconcile"}
      /\ \A i \in 1..Len(Passes) : Passes[i] \notin {"list", "reconcile"}
  BY DEF Passes
<1>3. CASE List(c)
  <2>1. loop[c] = "list" /\ loop'[c] = "reconcile" /\ item[c][a].pc \in {"none", "ready"}
    BY <1>0, <1>3 DEF List, AppInv, Free, TypeOK
  <2>2. /\ item'[c][a] = IF cr[a].phase # "absent" /\ item[c][a] # NoItem
                         THEN [item[c][a] EXCEPT !.uid = cr[a].uid] ELSE item[c][a]
        /\ inbox'[c][a] = IF cr[a].phase # "absent" THEN cr[a] ELSE NoCopy
    BY <1>0, <1>3 DEF List, Exists, TypeOK
  <2> QED
    BY <1>1, <2>1, <2>2, ListKeeps
<1>4. CASE Reconciled(c)
  <2>1. /\ loop[c] = "reconcile" /\ loop'[c] = Passes[1]
        /\ item'[c][a] = item[c][a] /\ inbox'[c][a] = NoCopy
        /\ item[c][a] = NoItem => inbox[c][a] = NoCopy
    BY <1>0, <1>4 DEF Reconciled, Unmanaged, TypeOK
  <2> QED
    BY <1>1, <1>2, <2>1, LoopKeeps
<1>5. CASE EndPass(c) \/ StreamCloses(c)
  <2>1. /\ loop[c] \notin {"list", "reconcile"}
        /\ item'[c][a] = item[c][a] /\ inbox'[c][a] = inbox[c][a]
    BY <1>2, <1>5 DEF EndPass, StreamCloses
  <2>2. loop'[c] # "reconcile"
    <3>1. CASE StreamCloses(c)
      BY <1>0, <1>2, <3>1 DEF StreamCloses, TypeOK
    <3>2. CASE EndPass(c)
      <4>1. PICK i \in 1..Len(Passes) :
              loop' = [loop EXCEPT ![c] = IF i = Len(Passes) THEN "watch" ELSE Passes[i + 1]]
        BY <3>2 DEF EndPass
      <4>2. i # Len(Passes) => i + 1 \in 1..Len(Passes)
        BY Orders
      <4>3. loop'[c] = IF i = Len(Passes) THEN "watch" ELSE Passes[i + 1]
        BY <1>0, <4>1 DEF TypeOK
      <4> QED
        BY <1>2, <4>2, <4>3
    <3> QED
      BY <1>5, <3>1, <3>2
  <2> QED
    BY <1>1, <2>1, <2>2, LoopKeeps
<1>6. CASE RunFails(c) \/ Crash(c)
  <2>1. item'[c][a] = NoItem /\ inbox'[c][a] = NoCopy /\ loop'[c] = "list"
    BY <1>0, <1>6 DEF RunFails, Crash, Restarted, TypeOK
  <2> QED
    BY <1>1, <2>1, RestartKeeps
<1> QED
  BY <1>3, <1>4, <1>5, <1>6

-----------------------------------------------------------------------------
(* The theorem.                                                            *)

LEMMA DeployInit == Init => DeployInv
<1> SUFFICES ASSUME Init, NEW c \in Controllers, NEW a \in Apps
             PROVE  Deployed(item[c][a], inbox[c][a], cr[a], objs[a], loop[c])
  BY DEF DeployInv
<1>1. item[c][a] = NoItem /\ inbox[c][a] = NoCopy /\ cr[a] = NoCopy /\ loop[c] = "list"
  BY DEF Init
<1> QED
  BY <1>1, Nothing DEF Deployed, Made, Working

LEMMA DeployStep ==
  ASSUME OneController, AppInv, DeployInv, [Next]_vars
  PROVE  DeployInv'
<1>1. ASSUME NEW a \in Apps, Users(a) PROVE DeployInv'
  BY <1>1, DeployUsers
<1>2. ASSUME NEW c \in Controllers, NEW a \in Apps, Runtime(c, a) PROVE DeployInv'
  BY <1>2, DeployRecordPhase, DeployRecordFails, DeploySetup, DeployDeletion DEF Runtime
<1>3. ASSUME NEW c \in Controllers, Reconciling(c) PROVE DeployInv'
  BY <1>3, DeployLoop, DeployDeletion, DeployCreation DEF Reconciling
<1>4. ASSUME NEW c \in Controllers, Watching(c) PROVE DeployInv'
  BY <1>4, DeployLoop, DeployDeletion, DeployCreation, DeployUnknown DEF Watching
<1>5. ASSUME NEW c \in Controllers, EndPass(c) \/ Crash(c) PROVE DeployInv'
  BY <1>5, DeployLoop
<1>6. ASSUME NEW c \in Controllers, NEW a \in Apps, Collect(c, a) PROVE DeployInv'
  BY <1>6, DeployUnknown
<1>7. CASE UNCHANGED vars
  BY <1>7 DEF vars, DeployInv
<1> QED
  BY <1>1, <1>2, <1>3, <1>4, <1>5, <1>6, <1>7 DEF Next

(* Where one controller serves the namespace, an app recorded Active has   *)
(* every object its spec asked for then: what a setup has made stays made while  *)
(* it goes on, and the loop knows an Active app, or lists it, before it    *)
(* deletes or collects anything. *)
THEOREM ActiveApps ==
  ASSUME OneController
  PROVE  Spec => []ActiveIsDeployed
<1>1. AppInv /\ DeployInv /\ [Next]_vars => DeployInv'
  BY DeployStep
<1>2. DeployInv => ActiveIsDeployed
  BY DEF DeployInv, Deployed, Home, ActiveIsDeployed, OneController
<1> QED
  BY <1>1, <1>2, DeployInit, AppInvariant, PTL DEF Spec

(* And there the collector is right: what it takes for an orphan belongs   *)
(* to no Active app, since by the time it runs the map knows every one     *)
(* (PeriodicTask, Collect). With two controllers it does not hold. *)
THEOREM CollectsOrphans ==
  ASSUME OneController
  PROVE  Spec => OrphansOnly
<1>1. ASSUME DeployInv, NEW c \in Controllers, NEW a \in Apps, Collect(c, a)
      PROVE  cr[a].phase # "Active"
  <2>1. item[c][a] = NoItem /\ loop[c] \notin {"list", "reconcile"}
    BY <1>1, Orders DEF Collect, Passes, Range
  <2>2. Deployed(item[c][a], inbox[c][a], cr[a], objs[a], loop[c])
    BY <1>1 DEF DeployInv
  <2> QED
    BY <2>1, <2>2 DEF Deployed, Home
<1>2. DeployInv => [\A c \in Controllers, a \in Apps :
                     Collect(c, a) => cr[a].phase # "Active"]_vars
  BY <1>1
<1>3. AppInv /\ DeployInv /\ [Next]_vars => DeployInv'
  BY DeployStep
<1> QED
  BY <1>2, <1>3, DeployInit, AppInvariant, PTL DEF Spec, OrphansOnly
=============================================================================
