--------------------------- MODULE AppRuntimeProofs ---------------------------
(* Theorems about the life of apps (AppRuntime), for any apps and any      *)
(* number of app controllers: types, that objects are created once at      *)
(* most, and that the phase moves forward only.                            *)
EXTENDS AppRuntime, WellFoundedInduction, TLAPS

(* A runtime r is right about the app q: it is not newer, and, if its copy *)
(* is of the present version, the phase it means to record follows the one *)
(* that is recorded. *)
Working == {"creating", "setup", "activating", "failing"}

Knows(r, q) ==
  /\ r.uid = q.uid
  /\ r.pc = "creating" => q.phase = "None"
  /\ r.pc \in {"setup", "activating"} => q.phase = "Creating"
  /\ r.pc = "failing" =>
       q.phase \in {"None", "Creating"} \/ (q.phase = "Active" /\ "invalid" \in q.spec)

Sound(r, q) ==
  /\ r.rv <= q.rv /\ r.uid <= q.uid
  /\ r.pc = "setup" => r.at # 0
  /\ r.pc = "creating" => r.status = "Creating"
  /\ r.pc = "activating" => r.status = "Active"
  /\ r.pc = "failing" => r.status = "Failed"
  /\ r.pc \in Working /\ r.rv = q.rv /\ q.phase # "absent" => Knows(r, q)

(* So is a copy that was listed, or is under way. *)
CopySound(p, q) ==
  p # NoCopy =>
    /\ p.phase # "absent" /\ p.rv <= q.rv /\ p.uid <= q.uid
    /\ p.rv = q.rv /\ q.phase # "absent" => p = q

(* What was begun left its mark on the phase. *)
BegunOK(a, q) ==
  \A u \in Nat : <<a, u>> \in begun =>
    u <= q.uid /\ (u = q.uid /\ q.phase # "absent" => q.phase # "None")

AppInv ==
  /\ TypeOK
  /\ \A a \in Apps : BegunOK(a, cr[a])
  /\ \A c \in Controllers, a \in Apps :
       Sound(item[c][a], cr[a]) /\ CopySound(inbox[c][a], cr[a])
  /\ \A c \in Controllers : loop[c] = "list" => Free(c)

-----------------------------------------------------------------------------
(* The order of steps.                                                     *)

LEMMA Least ==
  ASSUME NEW S \in SUBSET Nat, S # {}
  PROVE  \E m \in S : \A k \in S : m <= k
<1>1. IsWellFoundedOn({ss \in Nat \X Nat : ss[1] < ss[2]}, Nat)
  BY NatLessThanWellFounded DEF OpToRel
<1>2. PICK m \in S : \A k \in S : ~(<<k, m>> \in {ss \in Nat \X Nat : ss[1] < ss[2]})
  BY <1>1, WFMin
<1>3. ASSUME NEW k \in S PROVE m <= k
  <2>1. ~(<<k, m>> \in {ss \in Nat \X Nat : ss[1] < ss[2]})
    BY <1>2
  <2>2. k \in Nat /\ m \in Nat
    OBVIOUS
  <2> QED
    BY <2>1, <2>2
<1> QED
  BY <1>3

LEMMA FollowingFacts ==
  ASSUME NEW order, NEW kinds, NEW j \in Nat, Len(order) \in Nat, Remaining(order, kinds, j) # {}
  PROVE  /\ Following(order, kinds, j) \in 1..Len(order)
         /\ order[Following(order, kinds, j)] \in kinds
<1>1. Remaining(order, kinds, j) \in SUBSET Nat
  BY DEF Remaining
<1>2. \E m \in Remaining(order, kinds, j) : \A k \in Remaining(order, kinds, j) : m <= k
  BY <1>1, Least
<1>3. Following(order, kinds, j) \in Remaining(order, kinds, j)
  BY <1>2 DEF Following
<1> QED
  BY <1>3 DEF Remaining

LEMMA Orders ==
  /\ Len(CreationOrder) = 10 /\ Len(DeletionOrder) = 8 /\ Len(Passes) = 3
  /\ \A j \in 1..10 : CreationOrder[j] \in Objects
<1>1. Len(CreationOrder) = 10 /\ DOMAIN CreationOrder = 1..10
  BY DEF CreationOrder
<1> QED
  BY <1>1 DEF DeletionOrder, Passes, Objects, Range

(* There is always something to create, and something to delete: the       *)
(* deployment or the job. *)
LEMMA SomethingToDo ==
  ASSUME NEW sp
  PROVE  /\ Remaining(CreationOrder, Wanted(sp), 0) # {}
         /\ Remaining(DeletionOrder, Unwanted(sp), 0) # {}
<1>1. /\ 8 \in 1..Len(CreationOrder) /\ CreationOrder[8] = "deployment"
      /\ 9 \in 1..Len(CreationOrder) /\ CreationOrder[9] = "job"
      /\ 4 \in 1..Len(DeletionOrder) /\ DeletionOrder[4] = "job"
      /\ 5 \in 1..Len(DeletionOrder) /\ DeletionOrder[5] = "deployment"
  BY DEF CreationOrder, DeletionOrder
<1>2. CASE "job" \in sp
  <2>1. "job" \in Wanted(sp) /\ "job" \in Unwanted(sp)
    BY <1>2 DEF Wanted, Unwanted
  <2> QED
    BY <1>1, <2>1 DEF Remaining
<1>3. CASE "job" \notin sp
  <2>1. "deployment" \in Wanted(sp) /\ "deployment" \in Unwanted(sp)
    BY <1>3 DEF Wanted, Unwanted
  <2> QED
    BY <1>1, <2>1 DEF Remaining
<1> QED
  BY <1>2, <1>3

-----------------------------------------------------------------------------
(* Runtimes.                                                               *)

LEMMA Fixed == NoCopy \in Copy /\ NoItem \in Item
<1>1. {} \in SUBSET Options /\ 0 \in 0..Len(CreationOrder)
  BY Orders
<1> QED
  BY <1>1 DEF NoCopy, NoItem, Copy, Item, Phases

LEMMA FailedFacts ==
  ASSUME NEW r \in Item
  PROVE  /\ Failed(r) \in Item
         /\ Failed(r).pc = IF r.status = "Failed" THEN "ready" ELSE "failing"
         /\ Failed(r).status = "Failed" /\ Failed(r).rv = r.rv /\ Failed(r).uid = r.uid
<1>1. CASE r.status = "Failed"
  BY <1>1 DEF Failed, Item
<1>2. CASE r.status # "Failed"
  BY <1>2 DEF Failed, Item, Phases
<1> QED
  BY <1>1, <1>2

(* InitItem() of a copy that is sound yields a runtime that is. *)
LEMMA NewFacts ==
  ASSUME NEW p \in Copy, NEW q \in Copy, p # NoCopy, CopySound(p, q)
  PROVE  /\ New(p) \in Item /\ Sound(New(p), q)
         /\ New(p).pc \in {"creating", "failing", "ready"}
<1> DEFINE r == [pc |-> "none", uid |-> p.uid, rv |-> p.rv, spec |-> p.spec, status |-> p.phase, at |-> 0]
<1>1. /\ p.phase \in Phases /\ p.uid \in Nat /\ p.rv \in Nat /\ p.spec \in SUBSET Options
      /\ p.rv <= q.rv /\ p.uid <= q.uid
      /\ p.rv = q.rv /\ q.phase # "absent" => p = q
  BY DEF Copy, CopySound, Phases
<1>2. r \in Item
  BY <1>1, Orders DEF Item
<1>3. r.uid = p.uid /\ r.rv = p.rv /\ r.status = p.phase /\ r.spec = p.spec
  OBVIOUS
<1> HIDE DEF r
<1>4. New(p) = SetUp(r)
  BY DEF New, r
<1>5. CASE "invalid" \in p.spec
  <2>1. New(p) = Failed(r)
    BY <1>3, <1>4, <1>5 DEF SetUp
  <2> QED
    BY <1>1, <1>2, <1>3, <1>5, <2>1, FailedFacts DEF Sound, Knows, Working, Phases
<1>6. CASE "invalid" \notin p.spec /\ p.phase = "None"
  <2>1. New(p) = [r EXCEPT !.pc = "creating", !.status = "Creating"]
    BY <1>3, <1>4, <1>6 DEF SetUp
  <2>2. New(p) \in Item
    BY <1>2, <2>1 DEF Item, Phases
  <2>3. /\ New(p).pc = "creating" /\ New(p).status = "Creating"
        /\ New(p).uid = p.uid /\ New(p).rv = p.rv
    BY <1>2, <1>3, <2>1 DEF Item
  <2> QED
    BY <1>1, <1>6, <2>2, <2>3 DEF Sound, Knows
<1>7. CASE "invalid" \notin p.spec /\ p.phase = "Active"
  <2>1. New(p) = [r EXCEPT !.pc = "ready"]
    BY <1>3, <1>4, <1>7 DEF SetUp
  <2>2. New(p) \in Item
    BY <1>2, <2>1 DEF Item
  <2>3. New(p).pc = "ready" /\ New(p).uid = p.uid /\ New(p).rv = p.rv
    BY <1>2, <1>3, <2>1 DEF Item
  <2> QED
    BY <1>1, <2>2, <2>3 DEF Sound, Working
<1>8. CASE "invalid" \notin p.spec /\ p.phase \in {"Creating", "Failed"}
  <2>1. New(p) = Failed(r)
    BY <1>3, <1>4, <1>8 DEF SetUp
  <2> QED
    BY <1>1, <1>2, <1>3, <1>8, <2>1, FailedFacts DEF Sound, Knows, Working
<1> QED
  BY <1>1, <1>5, <1>6, <1>7, <1>8 DEF Phases

LEMMA RecordedFacts ==
  ASSUME NEW r \in Item, NEW n \in Nat
  PROVE  LET s == [Recorded(r) EXCEPT !.rv = n] IN
           /\ s \in Item
           /\ s.pc = IF r.pc = "creating" THEN "setup" ELSE "ready"
           /\ s.pc = "setup" => s.at # 0
           /\ s.rv = n /\ s.uid = r.uid
<1>1. CASE r.pc = "creating"
  <2> DEFINE f == Following(CreationOrder, Wanted(r.spec), 0)
  <2>1. f \in 1..Len(CreationOrder)
    BY SomethingToDo, FollowingFacts, Orders
  <2>2. Recorded(r) = [r EXCEPT !.pc = "setup", !.at = f]
    BY <1>1 DEF Recorded
  <2> HIDE DEF f
  <2>3. f \in 0..Len(CreationOrder) /\ f # 0
    BY <2>1, Orders
  <2> QED
    BY <1>1, <2>2, <2>3 DEF Item
<1>2. CASE r.pc # "creating"
  BY <1>2 DEF Recorded, Item
<1> QED
  BY <1>1, <1>2

LEMMA AdvancedFacts ==
  ASSUME NEW r \in Item, r.pc = "setup", r.at # 0
  PROVE  /\ Advanced(r) \in Item
         /\ Advanced(r).pc \in {"setup", "activating"}
         /\ Advanced(r).pc = "setup" => Advanced(r).at # 0
         /\ Advanced(r).pc = "activating" => Advanced(r).status = "Active"
         /\ Advanced(r).rv = r.rv /\ Advanced(r).uid = r.uid
<1>1. CASE Remaining(CreationOrder, Wanted(r.spec), r.at) = {}
  BY <1>1 DEF Advanced, Item, Phases
<1>2. CASE Remaining(CreationOrder, Wanted(r.spec), r.at) # {}
  <2> DEFINE f == Following(CreationOrder, Wanted(r.spec), r.at)
  <2>1. r.at \in Nat
    BY Orders DEF Item
  <2>2. f \in 1..Len(CreationOrder)
    BY <1>2, <2>1, FollowingFacts, Orders
  <2>3. Advanced(r) = [r EXCEPT !.at = f]
    BY <1>2 DEF Advanced
  <2> HIDE DEF f
  <2>4. f \in 0..Len(CreationOrder) /\ f # 0
    BY <2>2, Orders
  <2> QED
    BY <2>3, <2>4 DEF Item
<1> QED
  BY <1>1, <1>2

LEMMA DeletingFacts ==
  ASSUME NEW r \in Item
  PROVE  /\ Deleting(r) \in Item /\ Deleting(r).pc = "deleting"
         /\ Deleting(r).rv = r.rv /\ Deleting(r).uid = r.uid
<1> DEFINE f == Following(DeletionOrder, Unwanted(r.spec), 0)
<1>1. f \in 1..Len(DeletionOrder)
  BY SomethingToDo, FollowingFacts, Orders
<1>2. Deleting(r) = [r EXCEPT !.pc = "deleting", !.at = f]
  BY DEF Deleting
<1> HIDE DEF f
<1>3. f \in 0..Len(CreationOrder)
  BY <1>1, Orders
<1> QED
  BY <1>2, <1>3 DEF Item

LEMMA DeletedFacts ==
  ASSUME NEW r \in Item, r.pc = "deleting"
  PROVE  /\ Deleted(r) \in Item
         /\ Deleted(r) = NoItem \/ (Deleted(r).pc = "deleting" /\ Deleted(r).rv = r.rv /\ Deleted(r).uid = r.uid)
<1>1. CASE Remaining(DeletionOrder, Unwanted(r.spec), r.at) = {}
  BY <1>1, Fixed DEF Deleted
<1>2. CASE Remaining(DeletionOrder, Unwanted(r.spec), r.at) # {}
  <2> DEFINE f == Following(DeletionOrder, Unwanted(r.spec), r.at)
  <2>1. r.at \in Nat
    BY Orders DEF Item
  <2>2. f \in 1..Len(DeletionOrder)
    BY <1>2, <2>1, FollowingFacts, Orders
  <2>3. Deleted(r) = [r EXCEPT !.at = f]
    BY <1>2 DEF Deleted
  <2> HIDE DEF f
  <2>4. f \in 0..Len(CreationOrder)
    BY <2>2, Orders
  <2> QED
    BY <2>3, <2>4 DEF Item
<1> QED
  BY <1>1, <1>2

-----------------------------------------------------------------------------
(* Steps.                                                                  *)

(* An app that changes gets a newer version, or goes. *)
Moves(q, n) ==
  \/ n = q
  \/ n.rv > q.rv /\ n.uid >= q.uid
  \/ n.phase = "absent" /\ n.rv = q.rv /\ n.uid = q.uid

LEMMA SoundKept ==
  ASSUME NEW q \in Copy, NEW n \in Copy, Moves(q, n)
  PROVE  /\ \A r \in Item : Sound(r, q) => Sound(r, n)
         /\ \A p \in Copy : CopySound(p, q) => CopySound(p, n)
<1>0. q.rv \in Nat /\ q.uid \in Nat /\ n.rv \in Nat /\ n.uid \in Nat
  BY DEF Copy
<1>1. ASSUME NEW r \in Item, Sound(r, q) PROVE Sound(r, n)
  <2>0. r.rv \in Nat /\ r.uid \in Nat
    BY DEF Item
  <2>1. CASE n = q
    BY <1>1, <2>1
  <2>2. CASE n.rv > q.rv /\ n.uid >= q.uid
    BY <1>0, <1>1, <2>0, <2>2 DEF Sound
  <2>3. CASE n.phase = "absent" /\ n.rv = q.rv /\ n.uid = q.uid
    BY <1>1, <2>3 DEF Sound
  <2> QED
    BY <2>1, <2>2, <2>3 DEF Moves
<1>2. ASSUME NEW p \in Copy, CopySound(p, q) PROVE CopySound(p, n)
  <2>0. p.rv \in Nat /\ p.uid \in Nat
    BY DEF Copy
  <2>1. CASE n = q
    BY <1>2, <2>1
  <2>2. CASE n.rv > q.rv /\ n.uid >= q.uid
    BY <1>0, <1>2, <2>0, <2>2 DEF CopySound
  <2>3. CASE n.phase = "absent" /\ n.rv = q.rv /\ n.uid = q.uid
    BY <1>2, <2>3 DEF CopySound
  <2> QED
    BY <2>1, <2>2, <2>3 DEF Moves
<1> QED
  BY <1>1, <1>2

LEMMA InvStep ==
  ASSUME AppInv,
         cr' \in [Apps -> Copy], \A a \in Apps : Moves(cr[a], cr'[a]),
         objs' \in [Apps -> SUBSET Objects],
         loop' \in [Controllers -> {"list", "reconcile", "watch"} \cup Range(Passes)],
         crashes' \in 0..MaxCrashes, begun' \subseteq Apps \X Nat,
         item' \in [Controllers -> [Apps -> Item]], inbox' \in [Controllers -> [Apps -> Copy]],
         \A a \in Apps : BegunOK(a, cr[a])',
         \A c \in Controllers, a \in Apps :
           /\ item'[c][a] = item[c][a] \/ Sound(item'[c][a], cr'[a])
           /\ inbox'[c][a] = inbox[c][a] \/ CopySound(inbox'[c][a], cr'[a]),
         \A c \in Controllers : loop'[c] = "list" => \A a \in Apps : item'[c][a].pc \in {"none", "ready"}
  PROVE  AppInv'
<1>1. ASSUME NEW c \in Controllers, NEW a \in Apps
      PROVE  Sound(item'[c][a], cr'[a]) /\ CopySound(inbox'[c][a], cr'[a])
  <2>1. /\ item[c][a] \in Item /\ inbox[c][a] \in Copy /\ cr[a] \in Copy /\ cr'[a] \in Copy
        /\ Sound(item[c][a], cr[a]) /\ CopySound(inbox[c][a], cr[a])
    BY DEF AppInv, TypeOK
  <2>2. Sound(item[c][a], cr'[a]) /\ CopySound(inbox[c][a], cr'[a])
    BY <2>1, SoundKept
  <2>3. CASE item'[c][a] = item[c][a] /\ inbox'[c][a] = inbox[c][a]
    BY <2>2, <2>3
  <2>4. CASE item'[c][a] = item[c][a] /\ CopySound(inbox'[c][a], cr'[a])
    BY <2>2, <2>4
  <2>5. CASE Sound(item'[c][a], cr'[a]) /\ inbox'[c][a] = inbox[c][a]
    BY <2>2, <2>5
  <2> QED
    BY <2>3, <2>4, <2>5
<1>2. \A c \in Controllers, a \in Apps : item'[c][a].pc = "setup" => item'[c][a].at # 0
  BY <1>1 DEF Sound
<1>3. TypeOK'
  BY <1>2 DEF TypeOK, At
<1> QED
  BY <1>1, <1>3 DEF AppInv, Free

(* What was begun is marked as long as the app is. *)
LEMMA BegunKept ==
  ASSUME AppInv, NEW a \in Apps, begun' = begun, cr'[a] \in Copy,
         \/ cr'[a].uid > cr[a].uid
         \/ cr'[a].uid = cr[a].uid /\ (cr'[a].phase \in {"absent", cr[a].phase} \/ cr'[a].phase # "None")
  PROVE  BegunOK(a, cr[a])'
<1>0. cr[a].uid \in Nat /\ cr'[a].uid \in Nat
  BY DEF AppInv, TypeOK, Copy
<1> SUFFICES ASSUME NEW u \in Nat, <<a, u>> \in begun
             PROVE  u <= cr'[a].uid /\ (u = cr'[a].uid /\ cr'[a].phase # "absent" => cr'[a].phase # "None")
  BY DEF BegunOK
<1>1. u <= cr[a].uid /\ (u = cr[a].uid /\ cr[a].phase # "absent" => cr[a].phase # "None")
  BY DEF AppInv, BegunOK
<1> QED
  BY <1>0, <1>1

(* What a user changes: an app of a new uid, or a newer one, or none. *)
LEMMA UserFacts ==
  ASSUME AppInv, NEW a \in Apps, Users(a)
  PROVE  /\ UNCHANGED <<objs, loop, item, inbox, begun, crashes>>
         /\ \E n \in Copy :
              /\ cr' = [cr EXCEPT ![a] = n] /\ Moves(cr[a], n)
              /\ \/ n.uid > cr[a].uid
                 \/ n.uid = cr[a].uid /\ n.phase \in {"absent", cr[a].phase}
<1>0. /\ TypeOK /\ cr[a] \in Copy /\ cr[a].uid \in Nat /\ cr[a].rv \in Nat
      /\ UNCHANGED <<objs, loop, item, inbox, begun, crashes>>
  BY DEF AppInv, TypeOK, Copy, Users, CreateApp, ModifyApp, DeleteApp
<1>1. ASSUME NEW sp \in Specs, CreateApp(a, sp)
      PROVE  \E n \in Copy :
               /\ cr' = [cr EXCEPT ![a] = n] /\ Moves(cr[a], n)
               /\ \/ n.uid > cr[a].uid
                  \/ n.uid = cr[a].uid /\ n.phase \in {"absent", cr[a].phase}
  <2> DEFINE n == [uid |-> cr[a].uid + 1, rv |-> cr[a].rv + 1, phase |-> "None",
                   spec |-> sp, asked |-> {}]
  <2>1. cr' = [cr EXCEPT ![a] = n]
    BY <1>1 DEF CreateApp
  <2>2. n \in Copy
    BY <1>0, AppAssumption DEF Copy, Phases
  <2>3. n.uid > cr[a].uid /\ n.rv > cr[a].rv
    BY <1>0
  <2> HIDE DEF n
  <2>4. Moves(cr[a], n)
    BY <1>0, <2>2, <2>3 DEF Moves, Copy
  <2> QED
    BY <2>1, <2>2, <2>3, <2>4
<1>2. ASSUME NEW sp \in Specs, ModifyApp(a, sp)
      PROVE  \E n \in Copy :
               /\ cr' = [cr EXCEPT ![a] = n] /\ Moves(cr[a], n)
               /\ \/ n.uid > cr[a].uid
                  \/ n.uid = cr[a].uid /\ n.phase \in {"absent", cr[a].phase}
  <2> DEFINE n == [cr[a] EXCEPT !.rv = cr[a].rv + 1, !.spec = sp]
  <2>1. cr' = [cr EXCEPT ![a] = n]
    BY <1>2 DEF ModifyApp
  <2>2. n \in Copy
    <3>1. sp \in SUBSET Options /\ cr[a] \in Copy
      BY <1>0, AppAssumption
    <3>2. cr[a].rv + 1 \in Nat
      BY <1>0
    <3> QED
      BY <3>1, <3>2 DEF Copy
  <2>3. n.uid = cr[a].uid /\ n.rv > cr[a].rv /\ n.phase = cr[a].phase
    BY <1>0 DEF Copy
  <2> HIDE DEF n
  <2>4. Moves(cr[a], n)
    BY <1>0, <2>2, <2>3 DEF Moves, Copy
  <2> QED
    BY <2>1, <2>2, <2>3, <2>4
<1>3. ASSUME DeleteApp(a)
      PROVE  \E n \in Copy :
               /\ cr' = [cr EXCEPT ![a] = n] /\ Moves(cr[a], n)
               /\ \/ n.uid > cr[a].uid
                  \/ n.uid = cr[a].uid /\ n.phase \in {"absent", cr[a].phase}
  <2> DEFINE n == [cr[a] EXCEPT !.phase = "absent"]
  <2>1. cr' = [cr EXCEPT ![a] = n]
    BY <1>3 DEF DeleteApp
  <2>2. n \in Copy /\ n.uid = cr[a].uid /\ n.rv = cr[a].rv /\ n.phase = "absent"
    BY <1>0 DEF Copy
  <2> QED
    BY <2>1, <2>2 DEF Moves
<1> QED
  BY <1>0, <1>1, <1>2, <1>3 DEF Users

LEMMA UsersStep ==
  ASSUME AppInv, NEW a \in Apps, Users(a)
  PROVE  AppInv'
<1>0. TypeOK
  BY DEF AppInv
<1>1. UNCHANGED <<objs, loop, item, inbox, begun, crashes>>
  BY UserFacts
<1>2. PICK n \in Copy :
        /\ cr' = [cr EXCEPT ![a] = n] /\ Moves(cr[a], n)
        /\ \/ n.uid > cr[a].uid
           \/ n.uid = cr[a].uid /\ n.phase \in {"absent", cr[a].phase}
  BY UserFacts
<1>3. cr' \in [Apps -> Copy]
  BY <1>0, <1>2 DEF TypeOK
<1>4. ASSUME NEW b \in Apps PROVE Moves(cr[b], cr'[b]) /\ BegunOK(b, cr[b])'
  <2>1. CASE b = a
    <3>1. cr'[a] = n
      BY <1>0, <1>2 DEF TypeOK
    <3> QED
      BY <1>1, <1>2, <2>1, <3>1, BegunKept
  <2>2. CASE b # a
    <3>1. cr'[b] = cr[b] /\ cr[b] \in Copy
      BY <1>0, <1>2, <2>2 DEF TypeOK
    <3> QED
      BY <1>1, <3>1, BegunKept DEF Moves
  <2> QED
    BY <2>1, <2>2
<1>5. \A c \in Controllers : loop'[c] = "list" => \A b \in Apps : item'[c][b].pc \in {"none", "ready"}
  BY <1>1 DEF AppInv, Free
<1>6. /\ objs' \in [Apps -> SUBSET Objects]
      /\ loop' \in [Controllers -> {"list", "reconcile", "watch"} \cup Range(Passes)]
      /\ crashes' \in 0..MaxCrashes /\ begun' \subseteq Apps \X Nat
      /\ item' \in [Controllers -> [Apps -> Item]] /\ inbox' \in [Controllers -> [Apps -> Copy]]
      /\ item' = item /\ inbox' = inbox
  BY <1>0, <1>1 DEF TypeOK
<1> QED
  BY <1>3, <1>4, <1>5, <1>6, InvStep

(* A runtime takes a step, or a loop begins with one. *)
LEMMA ItemStep ==
  ASSUME AppInv, NEW c \in Controllers, NEW a \in Apps, NEW x \in Item,
         item' = [item EXCEPT ![c][a] = x], Sound(x, cr'[a]), loop[c] # "list",
         UNCHANGED <<loop, crashes>>,
         inbox' \in [Controllers -> [Apps -> Copy]],
         \A d \in Controllers, b \in Apps : inbox'[d][b] \in {inbox[d][b], NoCopy},
         cr' \in [Apps -> Copy], \A b \in Apps : Moves(cr[b], cr'[b]),
         objs' \in [Apps -> SUBSET Objects], begun' \subseteq Apps \X Nat,
         \A b \in Apps : BegunOK(b, cr[b])'
  PROVE  AppInv'
<1>0. TypeOK
  BY DEF AppInv
<1>1. item' \in [Controllers -> [Apps -> Item]]
  BY <1>0 DEF TypeOK
<1>2. ASSUME NEW d \in Controllers, NEW b \in Apps
      PROVE  item'[d][b] = IF d = c /\ b = a THEN x ELSE item[d][b]
  BY <1>0 DEF TypeOK
<1>3. ASSUME NEW d \in Controllers, NEW b \in Apps
      PROVE  /\ item'[d][b] = item[d][b] \/ Sound(item'[d][b], cr'[b])
             /\ inbox'[d][b] = inbox[d][b] \/ CopySound(inbox'[d][b], cr'[b])
  BY <1>2 DEF CopySound
<1>4. \A d \in Controllers : loop'[d] = "list" => \A b \in Apps : item'[d][b].pc \in {"none", "ready"}
  BY <1>2 DEF AppInv, Free
<1>5. /\ loop' \in [Controllers -> {"list", "reconcile", "watch"} \cup Range(Passes)]
      /\ crashes' \in 0..MaxCrashes
  BY <1>0 DEF TypeOK
<1> QED
  BY <1>1, <1>3, <1>4, <1>5, InvStep

(* A runtime's own steps leave the resource alone, but for the writes. *)
LEMMA QuietStep ==
  ASSUME AppInv, NEW c \in Controllers, NEW a \in Apps, NEW x \in Item,
         item' = [item EXCEPT ![c][a] = x], Sound(x, cr[a]), loop[c] # "list",
         UNCHANGED <<cr, loop, crashes, begun>>,
         inbox' \in [Controllers -> [Apps -> Copy]],
         \A d \in Controllers, b \in Apps : inbox'[d][b] \in {inbox[d][b], NoCopy},
         objs' \in [Apps -> SUBSET Objects]
  PROVE  AppInv'
<1>1. TypeOK
  BY DEF AppInv
<1>2. ASSUME NEW b \in Apps PROVE Moves(cr[b], cr'[b]) /\ BegunOK(b, cr[b])'
  <2>1. cr'[b] = cr[b] /\ cr[b] \in Copy
    BY <1>1 DEF TypeOK
  <2> QED
    BY <2>1, BegunKept DEF Moves
<1>3. cr' \in [Apps -> Copy] /\ begun' \subseteq Apps \X Nat /\ Sound(x, cr'[a])
  BY <1>1 DEF TypeOK
<1> QED
  BY <1>2, <1>3, ItemStep

LEMMA Busy ==
  ASSUME AppInv, NEW c \in Controllers, NEW a \in Apps, item[c][a].pc \notin {"none", "ready"}
  PROVE  loop[c] # "list"
  BY DEF AppInv, Free

LEMMA WrittenFacts ==
  ASSUME NEW r \in Copy, NEW status \in Phases
  PROVE  /\ Written(r, status) \in Copy
         /\ Written(r, status).uid = r.uid /\ Written(r, status).rv = r.rv + 1
         /\ Written(r, status).spec = r.spec /\ Written(r, status).phase = status
         /\ Written(r, status).asked = IF status = "Active" THEN r.spec ELSE r.asked
<1> DEFINE kept == IF status = "Active" THEN r.spec ELSE r.asked
<1>1. r.rv + 1 \in Nat /\ kept \in SUBSET Options
  BY DEF Copy
<1>2. Written(r, status) = [r EXCEPT !.phase = status, !.rv = r.rv + 1, !.asked = kept]
  BY DEF Written, Copy
<1> HIDE DEF kept
<1>3. /\ Written(r, status) \in Copy
      /\ Written(r, status).uid = r.uid /\ Written(r, status).rv = r.rv + 1
      /\ Written(r, status).spec = r.spec /\ Written(r, status).phase = status
      /\ Written(r, status).asked = kept
  BY <1>1, <1>2 DEF Copy
<1> QED
  BY <1>3 DEF kept

(* What a write that lands changes, and from which phase. *)
LEMMA LandsFacts ==
  ASSUME AppInv, NEW c \in Controllers, NEW a \in Apps, Recording(c, a), Lands(c, a)
  PROVE  /\ cr' \in [Apps -> Copy]
         /\ \A b \in Apps : b # a => cr'[b] = cr[b]
         /\ cr'[a].uid = cr[a].uid /\ cr'[a].rv = cr[a].rv + 1 /\ cr'[a].spec = cr[a].spec
         /\ cr'[a].phase = item[c][a].status /\ item[c][a].status \in {"Creating", "Active", "Failed"}
         /\ cr'[a].asked = IF cr'[a].phase = "Active" THEN cr[a].spec ELSE cr[a].asked
         /\ Exists(a) /\ Knows(item[c][a], cr[a]) /\ Sound(item[c][a], cr[a])
         /\ \A b \in Apps : Moves(cr[b], cr'[b])
<1>1. cr \in [Apps -> Copy] /\ cr[a] \in Copy /\ item[c][a] \in Item /\ Sound(item[c][a], cr[a])
  BY DEF AppInv, TypeOK
<1>2. cr[a].rv + 1 \in Nat /\ cr[a].rv + 1 > cr[a].rv /\ cr[a].uid >= cr[a].uid
  BY <1>1 DEF Copy
<1>3. item[c][a].status \in {"Creating", "Active", "Failed"}
  BY <1>1 DEF Recording, Sound
<1> DEFINE n == Written(cr[a], item[c][a].status)
<1>4. cr' = [cr EXCEPT ![a] = n]
  BY DEF Lands
<1>5. /\ n \in Copy /\ n.uid = cr[a].uid /\ n.rv = cr[a].rv + 1 /\ n.spec = cr[a].spec
      /\ n.phase = item[c][a].status
      /\ n.asked = IF n.phase = "Active" THEN cr[a].spec ELSE cr[a].asked
  BY <1>1, <1>2, <1>3, WrittenFacts DEF Phases
<1> HIDE DEF n
<1>6. cr' \in [Apps -> Copy] /\ cr'[a] = n /\ \A b \in Apps : b # a => cr'[b] = cr[b]
  BY <1>1, <1>4, <1>5
<1>7. \A b \in Apps : Moves(cr[b], cr'[b])
  BY <1>2, <1>5, <1>6 DEF Moves
<1>8. Exists(a) /\ Knows(item[c][a], cr[a])
  BY <1>1 DEF Lands, Exists, Recording, Sound, Working
<1> QED
  BY <1>1, <1>3, <1>5, <1>6, <1>7, <1>8

LEMMA RecordPhaseStep ==
  ASSUME AppInv, NEW c \in Controllers, NEW a \in Apps, RecordPhase(c, a)
  PROVE  AppInv'
<1> DEFINE r == item[c][a]
           x == [Recorded(r) EXCEPT !.rv = cr'[a].rv]
<1>0. TypeOK /\ r \in Item /\ cr[a] \in Copy /\ cr[a].rv \in Nat /\ cr[a].uid \in Nat
  BY DEF AppInv, TypeOK, Copy
<1>1. Recording(c, a) /\ Lands(c, a) /\ UNCHANGED <<objs, loop, inbox, crashes>>
  BY DEF RecordPhase, loopVars
<1>2. /\ cr' \in [Apps -> Copy]
      /\ \A b \in Apps : b # a => cr'[b] = cr[b]
      /\ cr'[a].uid = cr[a].uid /\ cr'[a].rv = cr[a].rv + 1
      /\ cr'[a].phase = r.status /\ r.status \in {"Creating", "Active", "Failed"}
      /\ Knows(r, cr[a]) /\ Sound(r, cr[a])
      /\ \A b \in Apps : Moves(cr[b], cr'[b])
  BY <1>1, LandsFacts
<1>3. /\ x \in Item /\ x.pc = IF r.pc = "creating" THEN "setup" ELSE "ready"
      /\ x.pc = "setup" => x.at # 0
      /\ x.rv = cr'[a].rv /\ x.uid = r.uid
  <2>1. cr'[a].rv \in Nat
    BY <1>0, <1>2
  <2> QED
    BY <1>0, <2>1, RecordedFacts
<1>4. item' = [item EXCEPT ![c][a] = x]
  BY DEF RecordPhase
<1>5. loop[c] # "list"
  BY <1>1, Busy DEF Recording
<1> HIDE DEF x
<1>6. Sound(x, cr'[a])
  <2>1. x.uid = cr'[a].uid /\ x.rv = cr'[a].rv /\ cr'[a].uid \in Nat /\ cr'[a].rv \in Nat
    BY <1>0, <1>2, <1>3 DEF Knows
  <2>2. x.pc = "setup" => cr'[a].phase = "Creating"
    BY <1>2, <1>3 DEF Sound
  <2> QED
    BY <1>3, <2>1, <2>2 DEF Sound, Knows, Working
<1>7. begun' \subseteq begun \cup {<<a, r.uid>>} /\ r.uid = cr'[a].uid
  BY <1>2 DEF RecordPhase, Knows
<1>8. ASSUME NEW b \in Apps PROVE BegunOK(b, cr[b])'
  <2> SUFFICES ASSUME NEW u \in Nat, <<b, u>> \in begun'
               PROVE  u <= cr'[b].uid /\ (u = cr'[b].uid /\ cr'[b].phase # "absent" => cr'[b].phase # "None")
    BY DEF BegunOK
  <2>1. CASE <<b, u>> \in begun
    <3>1. u <= cr[b].uid /\ (u = cr[b].uid /\ cr[b].phase # "absent" => cr[b].phase # "None")
      BY <2>1 DEF AppInv, BegunOK
    <3> QED
      BY <1>2, <3>1
  <2>2. CASE b = a /\ u = r.uid
    BY <1>2, <1>7, <2>2
  <2> QED
    BY <1>7, <2>1, <2>2
<1>9. begun' \subseteq Apps \X Nat
  BY <1>0, <1>7 DEF TypeOK, Item
<1>10. /\ inbox' \in [Controllers -> [Apps -> Copy]] /\ objs' \in [Apps -> SUBSET Objects]
       /\ \A d \in Controllers, b \in Apps : inbox'[d][b] \in {inbox[d][b], NoCopy}
  BY <1>0, <1>1 DEF TypeOK
<1> QED
  BY <1>1, <1>2, <1>3, <1>4, <1>5, <1>6, <1>8, <1>9, <1>10, ItemStep

LEMMA RecordFailsStep ==
  ASSUME AppInv, NEW c \in Controllers, NEW a \in Apps, RecordFails(c, a)
  PROVE  AppInv'
<1> DEFINE r == item[c][a]
           x == Failed(r)
<1>0. TypeOK /\ r \in Item /\ cr[a] \in Copy /\ cr[a].rv \in Nat /\ cr[a].uid \in Nat /\ Sound(r, cr[a])
  BY DEF AppInv, TypeOK, Copy
<1>1. Recording(c, a) /\ UNCHANGED <<objs, loop, inbox, crashes, begun>>
  BY DEF RecordFails, loopVars
<1>2. item' = [item EXCEPT ![c][a] = x] /\ loop[c] # "list"
  BY <1>1, Busy DEF RecordFails, Recording
<1>3. /\ x \in Item /\ x.pc = IF r.status = "Failed" THEN "ready" ELSE "failing"
      /\ x.status = "Failed" /\ x.rv = r.rv /\ x.uid = r.uid
  BY <1>0, FailedFacts
<1> HIDE DEF x
<1>4. Sound(x, cr[a])
  <2>1. /\ r.rv <= cr[a].rv /\ r.uid <= cr[a].uid /\ r.pc \in Working
        /\ r.rv = cr[a].rv /\ cr[a].phase # "absent" => Knows(r, cr[a])
    BY <1>0, <1>1 DEF Sound, Recording, Working
  <2>2. Knows(r, cr[a]) => Knows(x, cr[a])
    BY <1>1, <1>3 DEF Knows, Recording
  <2> QED
    BY <1>3, <2>1, <2>2 DEF Sound
<1>5. /\ inbox' \in [Controllers -> [Apps -> Copy]] /\ objs' \in [Apps -> SUBSET Objects]
      /\ begun' \subseteq Apps \X Nat
      /\ \A d \in Controllers, b \in Apps : inbox'[d][b] \in {inbox[d][b], NoCopy}
  BY <1>0, <1>1 DEF TypeOK
<1>6. CASE UNCHANGED cr
  BY <1>1, <1>2, <1>3, <1>4, <1>5, <1>6, QuietStep
<1>7. CASE Lands(c, a)
  <2>1. /\ cr' \in [Apps -> Copy]
        /\ \A b \in Apps : b # a => cr'[b] = cr[b]
        /\ cr'[a].uid = cr[a].uid /\ cr'[a].phase = r.status /\ r.status \in {"Creating", "Active", "Failed"}
        /\ \A b \in Apps : Moves(cr[b], cr'[b])
    BY <1>1, <1>7, LandsFacts
  <2>2. Sound(x, cr'[a])
    BY <1>0, <1>3, <1>4, <2>1, SoundKept
  <2>3. ASSUME NEW b \in Apps PROVE BegunOK(b, cr[b])'
    <3>1. cr'[b] \in Copy /\ (b # a => cr'[b] = cr[b])
      BY <2>1
    <3> QED
      BY <1>1, <2>1, <3>1, BegunKept
  <2> QED
    BY <1>1, <1>2, <1>3, <1>5, <2>1, <2>2, <2>3, ItemStep
<1> QED
  BY <1>6, <1>7 DEF RecordFails

LEMMA SetupStep ==
  ASSUME AppInv, NEW c \in Controllers, NEW a \in Apps,
         CannotGenerate(c, a) \/ Put(c, a) \/ PutFails(c, a)
  PROVE  AppInv'
<1> DEFINE r == item[c][a]
<1>0. TypeOK /\ r \in Item /\ Sound(r, cr[a]) /\ CopySound(inbox[c][a], cr[a])
  BY DEF AppInv, TypeOK
<1>1. r.pc = "setup" /\ r.at # 0 /\ UNCHANGED <<cr, loop, inbox, crashes, begun>>
  BY <1>0 DEF CannotGenerate, Put, PutFails, Puts, At, Sound, loopVars
<1>2. loop[c] # "list"
  BY <1>1, Busy
<1>3. objs' \in [Apps -> SUBSET Objects]
  <2>1. r.at \in 1..10
    BY <1>0, <1>1, Orders DEF Item
  <2>2. CreationOrder[r.at] \in Objects
    BY <2>1, Orders
  <2>3. Created(c, a) => objs' \in [Apps -> SUBSET Objects]
    BY <1>0, <2>2 DEF Created, TypeOK
  <2> QED
    BY <1>0, <2>3 DEF CannotGenerate, Put, PutFails, TypeOK
<1>4. \/ item' = [item EXCEPT ![c][a] = Failed(r)]
      \/ item' = [item EXCEPT ![c][a] = Advanced(r)]
  BY DEF CannotGenerate, Put, PutFails
<1>5. /\ Failed(r) \in Item /\ Failed(r).pc = IF r.status = "Failed" THEN "ready" ELSE "failing"
      /\ Failed(r).status = "Failed" /\ Failed(r).rv = r.rv /\ Failed(r).uid = r.uid
  BY <1>0, FailedFacts
<1>6. Sound(Failed(r), cr[a])
  BY <1>0, <1>1, <1>5 DEF Sound, Knows, Working
<1>7. /\ Advanced(r) \in Item /\ Advanced(r).pc \in {"setup", "activating"}
      /\ Advanced(r).pc = "setup" => Advanced(r).at # 0
      /\ Advanced(r).pc = "activating" => Advanced(r).status = "Active"
      /\ Advanced(r).rv = r.rv /\ Advanced(r).uid = r.uid
  BY <1>0, <1>1, AdvancedFacts
<1>8. Sound(Advanced(r), cr[a])
  BY <1>0, <1>1, <1>7 DEF Sound, Knows, Working
<1>9. /\ inbox' \in [Controllers -> [Apps -> Copy]]
      /\ \A d \in Controllers, b \in Apps : inbox'[d][b] \in {inbox[d][b], NoCopy}
  BY <1>0, <1>1 DEF TypeOK
<1>10. CASE item' = [item EXCEPT ![c][a] = Failed(r)]
  BY <1>1, <1>2, <1>3, <1>5, <1>6, <1>9, <1>10, QuietStep
<1>11. CASE item' = [item EXCEPT ![c][a] = Advanced(r)]
  BY <1>1, <1>2, <1>3, <1>7, <1>8, <1>9, <1>11, QuietStep
<1> QED
  BY <1>4, <1>10, <1>11

LEMMA DeletionStep ==
  ASSUME AppInv, NEW c \in Controllers, NEW a \in Apps,
         DeleteStep(c, a) \/ DeleteUnlisted(c, a) \/ HandleDeleted(c, a)
  PROVE  AppInv'
<1> DEFINE r == item[c][a]
<1>0. TypeOK /\ r \in Item /\ Sound(r, cr[a]) /\ cr[a] \in Copy
  BY DEF AppInv, TypeOK
<1>1. UNCHANGED <<cr, loop, inbox, crashes, begun>>
  BY DEF DeleteStep, DeleteUnlisted, HandleDeleted, loopVars
<1>2. loop[c] # "list"
  BY Busy DEF DeleteStep, DeleteUnlisted, HandleDeleted, At
<1>3. objs' \in [Apps -> SUBSET Objects]
  BY <1>0 DEF DeleteStep, DeleteUnlisted, HandleDeleted, Removed, TypeOK
<1>4. /\ inbox' \in [Controllers -> [Apps -> Copy]]
      /\ \A d \in Controllers, b \in Apps : inbox'[d][b] \in {inbox[d][b], NoCopy}
  BY <1>0, <1>1 DEF TypeOK
<1>5. CASE DeleteStep(c, a)
  <2>1. item' = [item EXCEPT ![c][a] = Deleted(r)] /\ r.pc = "deleting"
    BY <1>5 DEF DeleteStep, At
  <2>2. /\ Deleted(r) \in Item
        /\ \/ Deleted(r) = NoItem
           \/ Deleted(r).pc = "deleting" /\ Deleted(r).rv = r.rv /\ Deleted(r).uid = r.uid
    BY <1>0, <2>1, DeletedFacts
  <2>3. CASE Deleted(r) = NoItem
    <3>1. Deleted(r).pc = "none" /\ Deleted(r).rv = 0 /\ Deleted(r).uid = 0
      BY <2>3 DEF NoItem
    <3>2. Sound(Deleted(r), cr[a])
      BY <1>0, <3>1 DEF Sound, Copy, Working
    <3> QED
      BY <1>1, <1>2, <1>3, <1>4, <2>1, <2>2, <3>2, QuietStep
  <2>4. CASE Deleted(r).pc = "deleting" /\ Deleted(r).rv = r.rv /\ Deleted(r).uid = r.uid
    <3>1. Sound(Deleted(r), cr[a])
      BY <1>0, <2>4 DEF Sound, Working
    <3> QED
      BY <1>1, <1>2, <1>3, <1>4, <2>1, <2>2, <3>1, QuietStep
  <2> QED
    BY <2>2, <2>3, <2>4
<1>6. CASE DeleteUnlisted(c, a) \/ HandleDeleted(c, a)
  <2>1. item' = [item EXCEPT ![c][a] = Deleting(r)]
    BY <1>6 DEF DeleteUnlisted, HandleDeleted, BeginDelete
  <2>2. /\ Deleting(r) \in Item /\ Deleting(r).pc = "deleting"
        /\ Deleting(r).rv = r.rv /\ Deleting(r).uid = r.uid
    BY <1>0, DeletingFacts
  <2>3. Sound(Deleting(r), cr[a])
    BY <1>0, <2>2 DEF Sound, Working
  <2> QED
    BY <1>1, <1>2, <1>3, <1>4, <2>1, <2>2, <2>3, QuietStep
<1> QED
  BY <1>5, <1>6

LEMMA CreationStep ==
  ASSUME AppInv, NEW c \in Controllers, NEW a \in Apps, InitListed(c, a) \/ HandleAdded(c, a)
  PROVE  AppInv'
<1> DEFINE p == inbox[c][a]
<1>0. TypeOK /\ p \in Copy /\ cr[a] \in Copy /\ CopySound(p, cr[a])
  BY DEF AppInv, TypeOK
<1>1. /\ UNCHANGED <<cr, objs, loop, crashes, begun>> /\ p # NoCopy /\ loop[c] # "list"
      /\ item' = [item EXCEPT ![c][a] = New(p)]
  BY DEF InitListed, HandleAdded, Unmanaged, loopVars
<1>2. New(p) \in Item /\ Sound(New(p), cr[a])
  BY <1>0, <1>1, NewFacts
<1>3. /\ inbox' \in [Controllers -> [Apps -> Copy]] /\ objs' \in [Apps -> SUBSET Objects]
      /\ \A d \in Controllers, b \in Apps : inbox'[d][b] \in {inbox[d][b], NoCopy}
  <2>1. CASE inbox' = inbox
    BY <1>0, <1>1, <2>1 DEF TypeOK
  <2>2. CASE inbox' = [inbox EXCEPT ![c][a] = NoCopy]
    BY <1>0, <1>1, <2>2, Fixed DEF TypeOK
  <2> QED
    BY <2>1, <2>2 DEF InitListed, HandleAdded, loopVars
<1> QED
  BY <1>1, <1>2, <1>3, QuietStep

(* The loop of one controller goes on. *)
LEMMA LoopStep ==
  ASSUME AppInv, UNCHANGED <<cr, begun>>,
         objs' \in [Apps -> SUBSET Objects], crashes' \in 0..MaxCrashes,
         NEW c \in Controllers, NEW l \in {"list", "reconcile", "watch"} \cup Range(Passes),
         NEW is \in [Apps -> Item], NEW ps \in [Apps -> Copy],
         loop' = [loop EXCEPT ![c] = l],
         item' = [item EXCEPT ![c] = is], inbox' = [inbox EXCEPT ![c] = ps],
         \A a \in Apps : Sound(is[a], cr[a]) /\ CopySound(ps[a], cr[a]),
         l = "list" => \A a \in Apps : is[a].pc \in {"none", "ready"}
  PROVE  AppInv'
<1>0. TypeOK
  BY DEF AppInv
<1>1. ASSUME NEW b \in Apps PROVE Moves(cr[b], cr'[b]) /\ BegunOK(b, cr[b])'
  <2>1. cr'[b] = cr[b] /\ cr[b] \in Copy
    BY <1>0 DEF TypeOK
  <2> QED
    BY <2>1, BegunKept DEF Moves
<1>2. /\ loop' \in [Controllers -> {"list", "reconcile", "watch"} \cup Range(Passes)]
      /\ item' \in [Controllers -> [Apps -> Item]] /\ inbox' \in [Controllers -> [Apps -> Copy]]
      /\ cr' \in [Apps -> Copy] /\ begun' \subseteq Apps \X Nat
  BY <1>0 DEF TypeOK
<1>3. ASSUME NEW d \in Controllers
      PROVE  /\ item'[d] = IF d = c THEN is ELSE item[d]
             /\ inbox'[d] = IF d = c THEN ps ELSE inbox[d]
             /\ loop'[d] = IF d = c THEN l ELSE loop[d]
  BY <1>0 DEF TypeOK
<1>4. \A d \in Controllers, b \in Apps :
        /\ item'[d][b] = item[d][b] \/ Sound(item'[d][b], cr'[b])
        /\ inbox'[d][b] = inbox[d][b] \/ CopySound(inbox'[d][b], cr'[b])
  BY <1>3
<1>5. \A d \in Controllers : loop'[d] = "list" => \A b \in Apps : item'[d][b].pc \in {"none", "ready"}
  BY <1>3 DEF AppInv, Free
<1> QED
  BY <1>1, <1>2, <1>4, <1>5, InvStep

(* Copies and runtimes of nothing. *)
LEMMA EmptySound ==
  ASSUME NEW q \in Copy
  PROVE  Sound(NoItem, q) /\ CopySound(NoCopy, q)
<1>1. NoItem.pc = "none" /\ NoItem.rv = 0 /\ NoItem.uid = 0
  BY DEF NoItem
<1>2. q.rv \in Nat /\ q.uid \in Nat
  BY DEF Copy
<1> QED
  BY <1>1, <1>2 DEF Sound, Working, CopySound

LEMMA LoopsStep ==
  ASSUME AppInv, NEW c \in Controllers,
         \/ List(c) \/ Reconciled(c) \/ EndPass(c) \/ StreamCloses(c) \/ RunFails(c) \/ Crash(c)
         \/ \E a \in Apps : Collect(c, a) \/ Send(c, a)
  PROVE  AppInv'
<1>0. /\ TypeOK /\ item[c] \in [Apps -> Item] /\ inbox[c] \in [Apps -> Copy]
      /\ cr \in [Apps -> Copy] /\ loop[c] \in {"list", "reconcile", "watch"} \cup Range(Passes)
      /\ \A a \in Apps : Sound(item[c][a], cr[a]) /\ CopySound(inbox[c][a], cr[a])
  BY DEF AppInv, TypeOK
<1>1. /\ item = [item EXCEPT ![c] = item[c]] /\ inbox = [inbox EXCEPT ![c] = inbox[c]]
      /\ loop = [loop EXCEPT ![c] = loop[c]]
      /\ objs \in [Apps -> SUBSET Objects] /\ crashes \in 0..MaxCrashes
  BY <1>0 DEF TypeOK
<1>2. Passes[1] \in Range(Passes) /\ \A i \in 1..Len(Passes) : Passes[i] \in Range(Passes) /\ Passes[i] # "list"
  BY DEF Passes, Range
<1>3. \A b \in Apps : Sound(NoItem, cr[b]) /\ CopySound(NoCopy, cr[b])
  BY <1>0, EmptySound
<1> DEFINE nothing == [b \in Apps |-> NoItem]
           none == [b \in Apps |-> NoCopy]
<1>4. /\ nothing \in [Apps -> Item] /\ none \in [Apps -> Copy]
      /\ \A b \in Apps : nothing[b] = NoItem /\ none[b] = NoCopy
  BY Fixed
<1>5. NoItem.pc = "none"
  BY DEF NoItem
<1>6. CASE List(c)
  <2> DEFINE is == [a \in Apps |-> IF Exists(a) /\ item[c][a] # NoItem
                                  THEN [item[c][a] EXCEPT !.uid = cr[a].uid] ELSE item[c][a]]
             ps == [a \in Apps |-> IF Exists(a) THEN cr[a] ELSE NoCopy]
  <2>1. /\ loop' = [loop EXCEPT ![c] = "reconcile"]
        /\ item' = [item EXCEPT ![c] = is] /\ inbox' = [inbox EXCEPT ![c] = ps]
        /\ UNCHANGED <<cr, objs, begun, crashes>> /\ loop[c] = "list"
    BY <1>6 DEF List
  <2>2. ASSUME NEW a \in Apps
        PROVE  is[a] \in Item /\ ps[a] \in Copy /\ Sound(is[a], cr[a]) /\ CopySound(ps[a], cr[a])
    <3>1. item[c][a] \in Item /\ cr[a] \in Copy /\ Sound(item[c][a], cr[a])
      BY <1>0
    <3>2. item[c][a].pc \in {"none", "ready"}
      BY <2>1 DEF AppInv, Free
    <3>3. /\ is[a] \in Item /\ is[a].pc = item[c][a].pc /\ is[a].rv = item[c][a].rv
          /\ is[a].uid \in {item[c][a].uid, cr[a].uid}
      BY <3>1 DEF Item, Copy
    <3>4. Sound(is[a], cr[a])
      BY <3>1, <3>2, <3>3 DEF Sound, Working, Copy
    <3>5. ps[a] \in Copy
      BY <3>1, Fixed
    <3>6. CopySound(ps[a], cr[a])
      BY <3>1 DEF CopySound, Exists, Copy
    <3> QED
      BY <3>3, <3>4, <3>5, <3>6
  <2>3. is \in [Apps -> Item] /\ ps \in [Apps -> Copy]
    <3>1. is = [a \in Apps |-> is[a]] /\ ps = [a \in Apps |-> ps[a]]
      OBVIOUS
    <3> HIDE DEF is, ps
    <3> QED
      BY <2>2, <3>1
  <2> HIDE DEF is, ps
  <2> QED
    BY <1>1, <2>1, <2>2, <2>3, LoopStep
<1>7. CASE Reconciled(c)
  <2>1. /\ loop' = [loop EXCEPT ![c] = Passes[1]] /\ inbox' = [inbox EXCEPT ![c] = none]
        /\ UNCHANGED <<cr, objs, item, begun, crashes>>
    BY <1>7 DEF Reconciled
  <2>2. PICK l \in Range(Passes) : l # "list" /\ loop' = [loop EXCEPT ![c] = l]
    <3>1. Passes[1] # "list"
      BY DEF Passes
    <3> QED
      BY <1>2, <2>1, <3>1
  <2>3. PICK ps \in [Apps -> Copy] : /\ inbox' = [inbox EXCEPT ![c] = ps]
                                     /\ \A b \in Apps : ps[b] = NoCopy
    <3> HIDE DEF none
    <3> QED
      BY <1>4, <2>1
  <2>4. \A b \in Apps : Sound(item[c][b], cr[b]) /\ CopySound(ps[b], cr[b])
    BY <1>0, <1>3, <2>3
  <2> HIDE DEF none, nothing
  <2> QED
    BY <1>0, <1>1, <2>1, <2>2, <2>3, <2>4, LoopStep
<1>8. CASE EndPass(c)
  <2>1. PICK i \in 1..Len(Passes) :
          loop' = [loop EXCEPT ![c] = IF i = Len(Passes) THEN "watch" ELSE Passes[i + 1]]
    BY <1>8 DEF EndPass
  <2>2. PICK l \in {"watch"} \cup Range(Passes) : loop' = [loop EXCEPT ![c] = l] /\ l # "list"
    <3>1. i # Len(Passes) => i + 1 \in 1..Len(Passes)
      BY Orders
    <3> QED
      BY <1>2, <2>1, <3>1
  <2>3. UNCHANGED <<cr, objs, item, inbox, begun, crashes>>
    BY <1>8 DEF EndPass
  <2> QED
    BY <1>0, <1>1, <2>2, <2>3, LoopStep
<1>9. CASE StreamCloses(c)
  <2>1. PICK l \in {"list"} \cup Range(Passes) : loop' = [loop EXCEPT ![c] = l]
    BY <1>2, <1>9 DEF StreamCloses
  <2>2. /\ UNCHANGED <<cr, objs, item, inbox, begun, crashes>>
        /\ \A a \in Apps : item[c][a].pc \in {"none", "ready"}
    BY <1>9 DEF StreamCloses, Free
  <2> HIDE DEF none, nothing
  <2> QED
    BY <1>0, <1>1, <2>1, <2>2, LoopStep
<1>10. CASE RunFails(c) \/ Crash(c)
  <2>1. /\ loop' = [loop EXCEPT ![c] = "list"] /\ item' = [item EXCEPT ![c] = nothing]
        /\ inbox' = [inbox EXCEPT ![c] = none] /\ UNCHANGED <<cr, objs, begun>>
    BY <1>10 DEF RunFails, Crash, Restarted
  <2>2. crashes' \in 0..MaxCrashes
    BY <1>1, <1>10, AppAssumption DEF RunFails, Crash
  <2>3. PICK is \in [Apps -> Item] : /\ item' = [item EXCEPT ![c] = is]
                                     /\ \A b \in Apps : is[b] = NoItem
    <3> HIDE DEF nothing
    <3> QED
      BY <1>4, <2>1
  <2>4. PICK ps \in [Apps -> Copy] : /\ inbox' = [inbox EXCEPT ![c] = ps]
                                     /\ \A b \in Apps : ps[b] = NoCopy
    <3> HIDE DEF none
    <3> QED
      BY <1>4, <2>1
  <2>5. \A b \in Apps : /\ Sound(is[b], cr[b]) /\ CopySound(ps[b], cr[b])
                        /\ is[b].pc \in {"none", "ready"}
    BY <1>3, <1>5, <2>3, <2>4
  <2>6. objs' \in [Apps -> SUBSET Objects]
    BY <1>1, <2>1
  <2>7. UNCHANGED <<cr, begun>> /\ loop' = [loop EXCEPT ![c] = "list"]
    BY <2>1
  <2> HIDE DEF nothing, none
  <2> QED
    BY <2>2, <2>3, <2>4, <2>5, <2>6, <2>7, LoopStep
<1>11. ASSUME NEW a \in Apps, Collect(c, a) PROVE AppInv'
  <2>1. objs' \in [Apps -> SUBSET Objects] /\ UNCHANGED <<cr, loop, item, inbox, begun, crashes>>
    BY <1>1, <1>11 DEF Collect, loopVars
  <2>2. loop[c] # "list"
    BY <1>2, <1>11, Orders DEF Collect, Range
  <2> QED
    BY <1>0, <1>1, <2>1, <2>2, LoopStep
<1>12. ASSUME NEW a \in Apps, Send(c, a) PROVE AppInv'
  <2> DEFINE ps == [inbox[c] EXCEPT ![a] = cr[a]]
  <2>1. /\ inbox' = [inbox EXCEPT ![c] = ps] /\ loop[c] # "list" /\ Exists(a)
        /\ UNCHANGED <<cr, objs, loop, item, begun, crashes>>
    BY <1>12 DEF Send
  <2>2. ps \in [Apps -> Copy] /\ ps[a] = cr[a] /\ \A b \in Apps : b # a => ps[b] = inbox[c][b]
    BY <1>0
  <2>3. CopySound(cr[a], cr[a])
    BY <1>0, <2>1 DEF CopySound, Exists, Copy
  <2>4. \A b \in Apps : CopySound(ps[b], cr[b])
    BY <1>0, <2>2, <2>3
  <2> HIDE DEF ps
  <2> QED
    BY <1>0, <1>1, <2>1, <2>2, <2>4, LoopStep
<1> QED
  BY <1>6, <1>7, <1>8, <1>9, <1>10, <1>11, <1>12

-----------------------------------------------------------------------------

LEMMA AppInit == Init => AppInv
<1> SUFFICES ASSUME Init PROVE AppInv
  OBVIOUS
<1>1. /\ cr \in [Apps -> Copy] /\ objs \in [Apps -> SUBSET Objects]
      /\ item \in [Controllers -> [Apps -> Item]] /\ inbox \in [Controllers -> [Apps -> Copy]]
  BY Fixed DEF Init
<1>2. /\ \A a \in Apps : cr[a] = NoCopy
      /\ \A c \in Controllers, a \in Apps : item[c][a] = NoItem /\ inbox[c][a] = NoCopy
  BY DEF Init
<1>3. NoItem.pc = "none"
  BY DEF NoItem
<1>4. TypeOK
  BY <1>1, <1>2, <1>3, AppAssumption DEF Init, TypeOK, At
<1>5. \A a \in Apps : BegunOK(a, cr[a])
  BY DEF Init, BegunOK
<1>6. \A c \in Controllers, a \in Apps : Sound(item[c][a], cr[a]) /\ CopySound(inbox[c][a], cr[a])
  BY <1>2, Fixed, EmptySound
<1>7. \A c \in Controllers : Free(c)
  BY <1>2, <1>3 DEF Free
<1> QED
  BY <1>4, <1>5, <1>6, <1>7 DEF AppInv

LEMMA AppStep == AppInv /\ [Next]_vars => AppInv'
<1> SUFFICES ASSUME AppInv, [Next]_vars PROVE AppInv'
  OBVIOUS
<1>1. ASSUME NEW a \in Apps, Users(a) PROVE AppInv'
  BY <1>1, UsersStep
<1>2. ASSUME NEW c \in Controllers, NEW a \in Apps, Runtime(c, a) PROVE AppInv'
  BY <1>2, RecordPhaseStep, RecordFailsStep, SetupStep, DeletionStep DEF Runtime
<1>3. ASSUME NEW c \in Controllers, Reconciling(c) PROVE AppInv'
  BY <1>3, LoopsStep, DeletionStep, CreationStep DEF Reconciling
<1>4. ASSUME NEW c \in Controllers, Watching(c) PROVE AppInv'
  BY <1>4, LoopsStep, DeletionStep, CreationStep DEF Watching
<1>5. ASSUME NEW c \in Controllers, EndPass(c) \/ Crash(c) \/ \E a \in Apps : Collect(c, a) PROVE AppInv'
  BY <1>5, LoopsStep
<1>6. CASE UNCHANGED vars
  BY <1>6 DEF vars, AppInv, TypeOK, BegunOK, Free, At
<1> QED
  BY <1>1, <1>2, <1>3, <1>4, <1>5, <1>6 DEF Next

LEMMA AppInvariant == Spec => []AppInv
  BY AppInit, AppStep, PTL DEF Spec

-----------------------------------------------------------------------------
(* The theorems.                                                           *)

(* The variables of the apps and their controllers keep their types. *)
THEOREM TypeCorrect == Spec => []TypeOK
<1>1. AppInv => TypeOK
  BY DEF AppInv
<1> QED
  BY <1>1, AppInvariant, PTL

(* Only recording Creating starts the creation of objects. *)
LEMMA SetupStarts ==
  ASSUME AppInv, [Next]_vars, NEW c \in Controllers, NEW a \in Apps,
         At(c, a, "creating"), item'[c][a].pc = "setup"
  PROVE  RecordPhase(c, a)
<1>0. item \in [Controllers -> [Apps -> Item]] /\ item[c][a] \in Item /\ item[c][a].pc = "creating"
  BY DEF AppInv, TypeOK, At
<1>1. ~Free(c) /\ loop[c] # "list" /\ item'[c][a] # item[c][a]
  BY <1>0, Busy DEF Free
<1>2. NoItem.pc = "none"
  BY DEF NoItem
<1>3. ASSUME NEW d \in Controllers, NEW b \in Apps, Runtime(d, b) PROVE RecordPhase(c, a)
  <2>1. d = c /\ b = a
    BY <1>0, <1>1, <1>3 DEF Runtime, RecordPhase, RecordFails, CannotGenerate, Put, PutFails, DeleteStep
  <2>2. Failed(item[c][a]).pc # "setup"
    BY <1>0, FailedFacts
  <2>3. ~RecordFails(c, a)
    BY <1>0, <2>2 DEF RecordFails
  <2> QED
    BY <1>0, <1>3, <2>1, <2>3
       DEF Runtime, CannotGenerate, Put, PutFails, Puts, DeleteStep, At
<1>4. ASSUME NEW d \in Controllers, Reconciling(d) PROVE FALSE
  <2>1. d = c
    BY <1>0, <1>1, <1>4 DEF Reconciling, List, DeleteUnlisted, InitListed, Reconciled, BeginDelete
  <2> QED
    BY <1>1, <1>4, <2>1 DEF Reconciling, List, DeleteUnlisted, InitListed, Reconciled
<1>5. ASSUME NEW d \in Controllers, Watching(d) PROVE FALSE
  <2>1. CASE \E b \in Apps : Send(d, b)
    BY <1>1, <2>1 DEF Send
  <2>2. CASE StreamCloses(d)
    BY <1>1, <2>2 DEF StreamCloses
  <2>3. CASE RunFails(d) \/ \E b \in Apps : HandleAdded(d, b) \/ HandleDeleted(d, b)
    <3>1. d = c
      BY <1>0, <1>1, <2>3 DEF RunFails, Restarted, HandleAdded, HandleDeleted, BeginDelete
    <3> QED
      BY <1>1, <2>3, <3>1 DEF RunFails, HandleAdded, HandleDeleted
  <2> QED
    BY <1>5, <2>1, <2>2, <2>3 DEF Watching
<1>6. ASSUME NEW d \in Controllers, Crash(d) PROVE FALSE
  BY <1>0, <1>1, <1>2, <1>6 DEF Crash, Restarted
<1>7. ASSUME NEW b \in Apps, Users(b) PROVE FALSE
  BY <1>1, <1>7, UserFacts
<1>8. ASSUME NEW d \in Controllers, EndPass(d) \/ \E b \in Apps : Collect(d, b) PROVE FALSE
  BY <1>1, <1>8 DEF EndPass, Collect
<1>9. CASE UNCHANGED vars
  BY <1>1, <1>9 DEF vars
<1> QED
  BY <1>3, <1>4, <1>5, <1>6, <1>7, <1>8, <1>9 DEF Next

(* create() is begun once for an app at most, whoever runs, dies and comes *)
(* back: the write of Creating is taken from the copy that knows of no     *)
(* attempt before it. *)
THEOREM CreatedOnce == Spec => CreateOnce
<1>1. ASSUME AppInv, [Next]_vars, NEW c \in Controllers, NEW a \in Apps,
             At(c, a, "creating"), item'[c][a].pc = "setup"
      PROVE  <<a, item[c][a].uid>> \notin begun
  <2>1. Recording(c, a) /\ Lands(c, a)
    BY <1>1, SetupStarts DEF RecordPhase
  <2>2. Knows(item[c][a], cr[a])
    BY <1>1, <2>1, LandsFacts
  <2>3. item[c][a].uid = cr[a].uid /\ cr[a].phase = "None" /\ cr[a].uid \in Nat
    BY <1>1, <2>2 DEF Knows, At, AppInv, TypeOK, Copy
  <2> QED
    BY <1>1, <2>3 DEF AppInv, BegunOK
<1>2. AppInv /\ [Next]_vars =>
        \A c \in Controllers, a \in Apps :
          At(c, a, "creating") /\ item'[c][a].pc = "setup" => <<a, item[c][a].uid>> \notin begun
  BY <1>1
<1> QED
  BY <1>2, AppInvariant, PTL DEF Spec, CreateOnce

-----------------------------------------------------------------------------
(* An app is a resource as Lifecycle describes it.                         *)

(* What is being set up has been claimed.                                  *)
Claims ==
  \A c \in Controllers, a \in Apps :
    item[c][a].pc \in {"setup", "activating"} => <<a, item[c][a].uid>> \in begun

(* A setup goes on, or starts with the record of Creating.                 *)
Continues(c, a) ==
  /\ item'[c][a].uid = item[c][a].uid
  /\ \/ item[c][a].pc \in {"setup", "activating"}
     \/ At(c, a, "creating") /\ RecordPhase(c, a)

LEMMA RuntimeContinues ==
  ASSUME AppInv, NEW c \in Controllers, NEW a \in Apps, Runtime(c, a),
         item'[c][a].pc \in {"setup", "activating"}
  PROVE  Continues(c, a)
<1> DEFINE r == item[c][a]
<1>0. item \in [Controllers -> [Apps -> Item]] /\ r \in Item /\ Sound(r, cr[a])
  BY DEF AppInv, TypeOK
<1>1. CASE RecordPhase(c, a)
  <2>1. cr'[a].rv \in Nat
    BY <1>1, LandsFacts DEF RecordPhase, Copy
  <2> DEFINE x == [Recorded(r) EXCEPT !.rv = cr'[a].rv]
  <2>2. x.pc = (IF r.pc = "creating" THEN "setup" ELSE "ready") /\ x.uid = r.uid
    BY <1>0, <2>1, RecordedFacts
  <2>3. item'[c][a] = x
    BY <1>0, <1>1 DEF RecordPhase
  <2> HIDE DEF x
  <2> QED
    BY <1>1, <2>2, <2>3 DEF Continues, At
<1>2. CASE item' = [item EXCEPT ![c][a] = Failed(r)]
  <2>1. Failed(r).pc \notin {"setup", "activating"}
    BY <1>0, FailedFacts
  <2> QED
    BY <1>0, <1>2, <2>1
<1>3. CASE Puts(c, a) /\ item' = [item EXCEPT ![c][a] = Advanced(r)]
  <2>1. r.pc = "setup" /\ r.at # 0
    BY <1>0, <1>3 DEF Puts, At, Sound
  <2>2. Advanced(r).uid = r.uid
    BY <1>0, <2>1, AdvancedFacts
  <2> QED
    BY <1>0, <1>3, <2>1, <2>2 DEF Continues
<1>4. CASE At(c, a, "deleting") /\ item' = [item EXCEPT ![c][a] = Deleted(r)]
  <2>1. Deleted(r).pc \notin {"setup", "activating"}
    BY <1>0, <1>4, DeletedFacts DEF At, NoItem
  <2> QED
    BY <1>0, <1>4, <2>1
<1> QED
  BY <1>1, <1>2, <1>3, <1>4 DEF Runtime, RecordFails, CannotGenerate, Put, PutFails, DeleteStep

LEMMA SetupContinues ==
  ASSUME AppInv, [Next]_vars, NEW c \in Controllers, NEW a \in Apps,
         item'[c][a].pc \in {"setup", "activating"}
  PROVE  Continues(c, a)
<1>0. item \in [Controllers -> [Apps -> Item]] /\ item[c][a] \in Item
  BY DEF AppInv, TypeOK
<1>1. CASE item'[c][a] = item[c][a]
  BY <1>1 DEF Continues
<1>2. ASSUME NEW d \in Controllers, NEW b \in Apps, Runtime(d, b), item'[c][a] # item[c][a]
      PROVE  Continues(c, a)
  <2>1. d = c /\ b = a
    BY <1>0, <1>2 DEF Runtime, RecordPhase, RecordFails, CannotGenerate, Put, PutFails, DeleteStep
  <2> QED
    BY <1>2, <2>1, RuntimeContinues
<1>3. ASSUME NEW d \in Controllers, NEW b \in Apps, InitListed(d, b) \/ HandleAdded(d, b)
      PROVE  item'[c][a] = item[c][a]
  <2>1. inbox[d][b] \in Copy /\ inbox[d][b] # NoCopy /\ cr[b] \in Copy /\ CopySound(inbox[d][b], cr[b])
        /\ item' = [item EXCEPT ![d][b] = New(inbox[d][b])]
    BY <1>3 DEF InitListed, HandleAdded, Unmanaged, AppInv, TypeOK
  <2>2. New(inbox[d][b]).pc \notin {"setup", "activating"}
    BY <2>1, NewFacts
  <2> QED
    BY <1>0, <2>1, <2>2
<1>4. ASSUME NEW d \in Controllers, NEW b \in Apps, DeleteUnlisted(d, b) \/ HandleDeleted(d, b)
      PROVE  item'[c][a] = item[c][a]
  <2>1. item' = [item EXCEPT ![d][b] = Deleting(item[d][b])] /\ item[d][b] \in Item
    BY <1>0, <1>4 DEF DeleteUnlisted, HandleDeleted, BeginDelete
  <2>2. Deleting(item[d][b]).pc \notin {"setup", "activating"}
    BY <2>1, DeletingFacts
  <2> QED
    BY <1>0, <2>1, <2>2
<1>5. ASSUME NEW d \in Controllers, List(d)
      PROVE  item'[c][a] = item[c][a]
  <2>1. CASE d = c
    <3>1. item[c][a].pc \in {"none", "ready"}
      BY <1>5, <2>1 DEF List, AppInv, Free
    <3>2. item'[c][a].pc = item[c][a].pc
      BY <1>0, <1>5, <2>1 DEF List, Item
    <3> QED
      BY <3>1, <3>2
  <2>2. CASE d # c
    BY <1>0, <1>5, <2>2 DEF List
  <2> QED
    BY <2>1, <2>2
<1>6. ASSUME NEW d \in Controllers, RunFails(d) \/ Crash(d)
      PROVE  item'[c][a] = item[c][a]
  <2>1. item' = [item EXCEPT ![d] = [b \in Apps |-> NoItem]] /\ NoItem.pc = "none"
    BY <1>6 DEF RunFails, Crash, Restarted, NoItem
  <2> QED
    BY <1>0, <2>1
<1>7. ASSUME NEW d \in Controllers,
             \/ Reconciled(d) \/ EndPass(d) \/ StreamCloses(d)
             \/ \E b \in Apps : Send(d, b) \/ Collect(d, b)
      PROVE  item' = item
  BY <1>7 DEF Reconciled, EndPass, StreamCloses, Send, Collect
<1>8. ASSUME NEW b \in Apps, Users(b)
      PROVE  item' = item
  BY <1>8 DEF Users, CreateApp, ModifyApp, DeleteApp
<1>9. CASE UNCHANGED vars
  BY <1>1, <1>9 DEF vars
<1> QED
  BY <1>1, <1>2, <1>3, <1>4, <1>5, <1>6, <1>7, <1>8, <1>9 DEF Next, Reconciling, Watching

LEMMA ClaimsStep == AppInv /\ Claims /\ [Next]_vars => Claims'
<1> SUFFICES ASSUME AppInv, Claims, [Next]_vars, NEW c \in Controllers, NEW a \in Apps,
                    item'[c][a].pc \in {"setup", "activating"}
             PROVE  <<a, item'[c][a].uid>> \in begun'
  BY DEF Claims
<1>1. begun \subseteq begun'
  <2>1. ASSUME NEW d \in Controllers, NEW b \in Apps, Runtime(d, b) PROVE begun \subseteq begun'
    BY <2>1 DEF Runtime, RecordPhase, RecordFails, CannotGenerate, Put, PutFails, DeleteStep
  <2>2. ASSUME NEW b \in Apps, Users(b) PROVE begun' = begun
    BY <2>2 DEF Users, CreateApp, ModifyApp, DeleteApp
  <2>3. ASSUME NEW d \in Controllers, Reconciling(d) \/ EndPass(d) \/ Watching(d) \/ Crash(d)
        PROVE  begun' = begun
    BY <2>3 DEF Reconciling, List, DeleteUnlisted, InitListed, Reconciled, EndPass, Watching,
                Send, HandleAdded, HandleDeleted, StreamCloses, RunFails, Crash
  <2>4. ASSUME NEW d \in Controllers, NEW b \in Apps, Collect(d, b) PROVE begun' = begun
    BY <2>4 DEF Collect
  <2> QED
    BY <2>1, <2>2, <2>3, <2>4 DEF Next, vars
<1> QED
  BY <1>1, SetupContinues DEF Continues, Claims, RecordPhase

LEMMA LifeInvariant == Spec => [](AppInv /\ Claims)
<1>1. Init => Claims
  BY DEF Init, Claims, NoItem
<1> QED
  BY <1>1, AppInit, AppStep, ClaimsStep, PTL DEF Spec

(* A setup that starts is of a uid that was not begun, and so of none that *)
(* another controller is setting up.                                       *)
LEMMA OneSetupStep == AppInv /\ Claims /\ OneSetup /\ [Next]_vars => OneSetup'
<1> USE DEF SettingUp
<1> SUFFICES ASSUME AppInv, Claims, OneSetup, [Next]_vars,
                    NEW c \in Controllers, NEW d \in Controllers, NEW a \in Apps,
                    SettingUp(c, a)', SettingUp(d, a)', item'[c][a].uid = item'[d][a].uid
             PROVE  c = d
  BY DEF OneSetup
<1>1. Continues(c, a) /\ Continues(d, a)
  BY SetupContinues
<1>2. item[c][a].uid = item[d][a].uid
  BY <1>1 DEF Continues
<1>3. ASSUME NEW e \in Controllers, NEW f \in Controllers,
             At(e, a, "creating"), RecordPhase(e, a), SettingUp(f, a)
      PROVE  item[e][a].uid # item[f][a].uid
  <2>1. Knows(item[e][a], cr[a])
    BY <1>3, LandsFacts DEF RecordPhase
  <2>2. item[e][a].uid = cr[a].uid /\ cr[a].phase = "None" /\ cr[a].uid \in Nat
    BY <1>3, <2>1 DEF Knows, At, AppInv, TypeOK, Copy
  <2> QED
    BY <1>3, <2>2 DEF AppInv, BegunOK, Claims
<1>4. ASSUME RecordPhase(c, a), At(d, a, "creating") PROVE c = d
  <2>1. item'[d][a].pc # item[d][a].pc
    BY <1>4 DEF At
  <2>2. item \in [Controllers -> [Apps -> Item]]
    BY DEF AppInv, TypeOK
  <2> QED
    BY <1>4, <2>1, <2>2 DEF RecordPhase
<1> QED
  BY <1>1, <1>2, <1>3, <1>4 DEF Continues, OneSetup

(* With any number of controllers, one at most is setting an app resource  *)
(* up (create).                                                            *)
THEOREM SetUpByOne == Spec => []OneSetup
<1>1. Init => OneSetup
  BY DEF Init, OneSetup, SettingUp, NoItem
<1> QED
  BY <1>1, AppInit, AppStep, OneSetupStep, ClaimsStep, LifeInvariant, PTL DEF Spec

(* What an app is to Lifecycle, before and after a step.                   *)
Begun(a) == {u \in 0..cr[a].uid : <<a, u>> \in begun}

(* The uids that were begun are the app's, and those before it.            *)
LEMMA BegunSame ==
  ASSUME AppInv, NEW a \in Apps, cr'[a] \in Copy, cr'[a].uid >= cr[a].uid,
         \A u \in Nat : <<a, u>> \in begun' <=> <<a, u>> \in begun
  PROVE  Begun(a)' = Begun(a)
<1>0. cr[a].uid \in Nat /\ cr'[a].uid \in Nat
  BY DEF AppInv, TypeOK, Copy
<1>1. \A u \in Nat : <<a, u>> \in begun => u <= cr[a].uid
  BY DEF AppInv, BegunOK
<1> QED
  BY <1>0, <1>1 DEF Begun

LEMMA BegunMore ==
  ASSUME AppInv, NEW a \in Apps, cr'[a].uid = cr[a].uid,
         begun' = begun \cup {<<a, cr[a].uid>>}
  PROVE  Begun(a)' = Begun(a) \cup {cr[a].uid}
<1>0. cr[a].uid \in Nat
  BY DEF AppInv, TypeOK, Copy
<1> QED
  BY <1>0 DEF Begun

(* A step of the app, of users or of an operator.                          *)
LEMMA LifeUsers ==
  ASSUME AppInv, NEW a \in Apps, Users(a)
  PROVE  [Life(a)!Next]_(Life(a)!vars)
<1> USE DEF Life!Next, Life!vars
<1>0. cr \in [Apps -> Copy] /\ cr[a] \in Copy /\ begun' = begun
  BY UserFacts DEF AppInv, TypeOK
<1>1. Begun(a)' = Begun(a)
  <2>1. cr'[a] \in Copy /\ cr'[a].uid >= cr[a].uid
    BY <1>0, UserFacts DEF Copy
  <2> QED
    BY <1>0, <2>1, BegunSame
<1>2. ASSUME NEW sp \in Specs, CreateApp(a, sp)
      PROVE  Life(a)!Create
  <2>1. cr'[a].uid = cr[a].uid + 1 /\ cr'[a].phase = "None" /\ cr[a].phase = "absent"
    BY <1>0, <1>2 DEF CreateApp, Exists
  <2> QED
    BY <1>1, <2>1 DEF Life!Create, Begun
<1>3. ASSUME NEW sp \in Specs, ModifyApp(a, sp)
      PROVE  Life(a)!Change
  <2>1. cr'[a].uid = cr[a].uid /\ cr'[a].phase = cr[a].phase /\ cr[a].phase # "absent"
    BY <1>0, <1>3 DEF ModifyApp, Exists, Copy
  <2> QED
    BY <1>1, <2>1 DEF Life!Change, Begun
<1>4. ASSUME DeleteApp(a)
      PROVE  Life(a)!Delete
  <2>1. /\ cr'[a].uid = cr[a].uid /\ cr'[a].phase = "absent" /\ cr'[a].spec = cr[a].spec
        /\ cr[a].phase # "absent"
    BY <1>0, <1>4 DEF DeleteApp, Exists, Copy
  <2> QED
    BY <1>1, <2>1 DEF Life!Delete, Begun
<1> QED
  BY <1>2, <1>3, <1>4 DEF Users

LEMMA LifeLanding ==
  ASSUME AppInv, Claims, NEW c \in Controllers, NEW a \in Apps, Recording(c, a), Lands(c, a),
         begun' = begun \/ (At(c, a, "creating") /\ begun' = begun \cup {<<a, item[c][a].uid>>})
  PROVE  [Life(a)!Next]_(Life(a)!vars)
<1> USE DEF Life!Next, Life!vars
<1>0. /\ cr'[a].uid = cr[a].uid /\ cr'[a].spec = cr[a].spec /\ cr'[a].phase = item[c][a].status
      /\ item[c][a].uid = cr[a].uid /\ cr[a].uid \in Nat /\ cr'[a] \in Copy
      /\ Knows(item[c][a], cr[a]) /\ Sound(item[c][a], cr[a])
  BY LandsFacts DEF AppInv, TypeOK, Copy, Knows
<1>1. Begun(a)' = IF begun' = begun THEN Begun(a) ELSE Begun(a) \cup {cr[a].uid}
  BY <1>0, BegunSame, BegunMore
<1>2. CASE At(c, a, "creating")
  <2>1. cr[a].phase = "None" /\ cr'[a].phase = "Creating"
    BY <1>0, <1>2 DEF Knows, Sound, At
  <2>2. <<a, cr[a].uid>> \notin begun
    BY <1>0, <2>1 DEF AppInv, BegunOK
  <2>3. cr[a].uid \notin Begun(a) /\ Begun(a)' \in {Begun(a), Begun(a) \cup {cr[a].uid}}
    BY <1>1, <2>2 DEF Begun
  <2> QED
    BY <1>0, <2>1, <2>3 DEF Life!Start, Begun
<1>3. CASE At(c, a, "activating")
  <2>1. cr[a].phase = "Creating" /\ cr'[a].phase = "Active" /\ <<a, cr[a].uid>> \in begun
    BY <1>0, <1>3 DEF Knows, Sound, At, Claims
  <2>2. cr[a].uid \in Begun(a) /\ Begun(a)' = Begun(a)
    BY <1>0, <1>1, <1>3, <2>1 DEF Begun, At
  <2> QED
    BY <1>0, <2>1, <2>2 DEF Life!Finish, Begun
<1>4. CASE At(c, a, "failing")
  <2>1. /\ cr[a].phase \in {"None", "Creating"} \/ (cr[a].phase = "Active" /\ "invalid" \in cr[a].spec)
        /\ cr'[a].phase = "Failed" /\ Begun(a)' = Begun(a)
    BY <1>0, <1>1, <1>4 DEF Knows, Sound, At
  <2> QED
    BY <1>0, <2>1 DEF Life!Fail, Begun
<1> QED
  BY <1>2, <1>3, <1>4 DEF Recording, At

LEMMA LifeStep ==
  ASSUME AppInv, Claims, [Next]_vars, NEW a \in Apps
  PROVE  [Life(a)!Next]_(Life(a)!vars)
<1>0. cr \in [Apps -> Copy] /\ cr[a] \in Copy
  BY DEF AppInv, TypeOK
<1>1. ASSUME cr'[a] = cr[a], \A u \in Nat : <<a, u>> \in begun' <=> <<a, u>> \in begun
      PROVE  UNCHANGED (Life(a)!vars)
  <2>1. Begun(a)' = Begun(a)
    BY <1>0, <1>1, BegunSame DEF Copy
  <2> QED
    BY <1>1, <2>1 DEF Life!vars, Begun
<1>2. ASSUME NEW b \in Apps, Users(b), b # a
      PROVE  cr'[a] = cr[a] /\ begun' = begun
  BY <1>0, <1>2, UserFacts
<1>3. ASSUME NEW c \in Controllers, RecordPhase(c, a) \/ (RecordFails(c, a) /\ Lands(c, a))
      PROVE  [Life(a)!Next]_(Life(a)!vars)
  <2>1. /\ Recording(c, a) /\ Lands(c, a)
        /\ begun' = begun \/ (At(c, a, "creating") /\ begun' = begun \cup {<<a, item[c][a].uid>>})
    BY <1>3 DEF RecordPhase, RecordFails
  <2> QED
    BY <2>1, LifeLanding
<1>4. ASSUME NEW c \in Controllers, NEW b \in Apps, Runtime(c, b),
             ~(b = a /\ (RecordPhase(c, a) \/ (RecordFails(c, a) /\ Lands(c, a))))
      PROVE  cr'[a] = cr[a] /\ \A u \in Nat : <<a, u>> \in begun' <=> <<a, u>> \in begun
  <2>1. CASE RecordPhase(c, b) \/ (RecordFails(c, b) /\ Lands(c, b))
    <3>1. b # a /\ Lands(c, b)
      BY <1>4, <2>1 DEF RecordPhase
    <3>2. cr'[a] = cr[a]
      BY <1>0, <3>1 DEF Lands
    <3>3. begun' \subseteq begun \cup {<<b, item[c][b].uid>>} /\ begun \subseteq begun'
      BY <2>1 DEF RecordPhase, RecordFails
    <3> QED
      BY <3>1, <3>2, <3>3
  <2>2. CASE ~(RecordPhase(c, b) \/ (RecordFails(c, b) /\ Lands(c, b)))
    BY <1>4, <2>2 DEF Runtime, RecordFails, CannotGenerate, Put, PutFails, DeleteStep
  <2> QED
    BY <2>1, <2>2
<1>5. ASSUME NEW c \in Controllers,
             \/ Reconciling(c) \/ EndPass(c) \/ Watching(c) \/ Crash(c)
             \/ \E b \in Apps : Collect(c, b)
      PROVE  cr' = cr /\ begun' = begun
  BY <1>5 DEF Reconciling, List, DeleteUnlisted, InitListed, Reconciled, EndPass, Watching, Send,
              HandleAdded, HandleDeleted, StreamCloses, RunFails, Crash, Collect, loopVars
<1>6. CASE UNCHANGED vars
  BY <1>1, <1>6 DEF vars
<1> QED
  BY <1>1, <1>2, <1>3, <1>4, <1>5, <1>6, LifeUsers DEF Next

(* Every app implements Lifecycle, with any number of controllers that     *)
(* crash, lose answers and write from old copies (setup, create,           *)
(* updateCRStatus). *)
THEOREM LivesAsPromised == Spec => ImplementsLifecycle
<1>1. Init => \A a \in Apps : Life(a)!Init
  BY DEF Init, NoCopy, Life!Init
<1>2. AppInv /\ Claims /\ [Next]_vars => \A a \in Apps : [Life(a)!Next]_(Life(a)!vars)
  BY LifeStep
<1> QED
  BY <1>1, <1>2, LifeInvariant, PTL DEF Spec, ImplementsLifecycle

(* So the phase of an app moves forward only: a write that lands is by a   *)
(* runtime that knows the phase that is recorded (updateCRStatus). *)
THEOREM Forward == ASSUME NEW a \in Apps PROVE Spec => Life(a)!Forward
<1>1. ASSUME AppInv, Life(a)!Next
      PROVE  Life(a)!Moves
  <2>1. cr[a].uid \in Nat
    BY <1>1 DEF AppInv, TypeOK, Copy
  <2> QED
    BY <1>1, <2>1 DEF Life!Next, Life!Create, Life!Change, Life!Delete, Life!Start, Life!Finish,
                      Life!Fail, Life!Moves
<1>2. AppInv /\ Claims /\ [Next]_vars => [Life(a)!Moves]_(Life(a)!vars)
  BY <1>1, LifeStep
<1> QED
  BY <1>2, LifeInvariant, PTL DEF Spec, Life!Forward
=============================================================================
