---------------------------- MODULE WatcherProofs ----------------------------
(***************************************************************************)
(* Proofs about the watch loop, for any objects, names and bounds: types,  *)
(* the version a watch resumes from, and, where no two objects share a     *)
(* name, that the item map is a snapshot of the API server's history, that *)
(* handleEvent never meets an unsafe state, and that the loop implements   *)
(* the abstract cache.                                                     *)
(***************************************************************************)
EXTENDS Watcher, TLAPS, SequenceTheorems

(* What a write leaves behind: an entry follows from the content before it *)
(* (v is its revision), and carries its own revision unless it deletes.    *)
Follows(e, v, before) ==
  /\ e.type = "ADDED" => /\ before[e.obj] = 0
                         /\ e.live = [before EXCEPT ![e.obj] = v]
                         /\ e.rv = v
  /\ e.type = "MODIFIED" => /\ before[e.obj] # 0
                            /\ e.live = before
                            /\ e.rv = v
  /\ e.type = "DELETED" => /\ before[e.obj] # 0
                           /\ e.live = [before EXCEPT ![e.obj] = 0]

LogOK == \A v \in 1..Rev : Follows(log[v], v, LiveAt(v - 1))

(* A finished loop has no map; an opened one has a version to watch from.  *)
LoopOK ==
  /\ pc = "watch" => watchVersion # NoVersion
  /\ pc \in {"exited", "terminated"} => pos = 0 /\ watchVersion = NoVersion

VersionInv == TypeOK /\ LogOK /\ LoopOK /\ ResumesWhereItStopped

SnapshotInv == VersionInv /\ ViewIsSnapshot /\ NeverUnsafe

-----------------------------------------------------------------------------
(* The history.                                                            *)

LEMMA LogFacts ==
  ASSUME TypeOK
  PROVE  Rev \in Nat /\ \A v \in 1..Rev : log[v] \in LogEntry
<1>1. log \in Seq(LogEntry)
  BY DEF TypeOK
<1> QED
  BY <1>1 DEF Rev

LEMMA LiveType ==
  ASSUME TypeOK, NEW v \in 0..Rev
  PROVE  LiveAt(v) \in [Objects -> Nat]
<1>1. CASE v = 0
  BY <1>1 DEF LiveAt, Nothing
<1>2. CASE v # 0
  <2>1. log[v] \in LogEntry
    BY <1>2, LogFacts
  <2> QED
    BY <1>2, <2>1 DEF LogEntry, LiveAt
<1> QED
  BY <1>1, <1>2

LEMMA VersionsType ==
  ASSUME TypeOK
  PROVE  Versions \in [Objects -> Nat]
<1>1. CASE Rev = 0
  BY <1>1 DEF Versions, Nothing
<1>2. CASE Rev # 0
  <2>1. log[Rev] \in LogEntry
    BY <1>2, LogFacts
  <2> QED
    BY <1>2, <2>1 DEF LogEntry, Versions
<1> QED
  BY <1>1, <1>2

(* A write appends one entry, which follows from the content before it,    *)
(* and changes nothing else.                                               *)
LEMMA UsersWrite ==
  ASSUME TypeOK, Users
  PROVE  /\ UNCHANGED <<crd, loopVars, stopCh, faults>>
         /\ \E e \in LogEntry : log' = Append(log, e) /\ Follows(e, Rev + 1, Live)
<1>0. Rev \in Nat /\ Live \in [Objects -> Nat] /\ Versions \in [Objects -> Nat]
  BY LogFacts, LiveType, VersionsType DEF Live
<1>1. PICK o \in Objects : CreateObject(o) \/ ModifyObject(o) \/ DeleteObject(o)
  BY DEF Users
<1>2. CASE CreateObject(o)
  <2> DEFINE e == [type |-> "ADDED", obj |-> o, rv |-> Rev + 1,
                   live |-> [Live EXCEPT ![o] = Rev + 1],
                   versions |-> [Versions EXCEPT ![o] = Rev + 1]]
  <2>1. log' = Append(log, e) /\ UNCHANGED <<crd, loopVars, stopCh, faults>>
    BY <1>2 DEF CreateObject, Write
  <2>2. e \in LogEntry
    BY <1>0 DEF LogEntry
  <2>3. Follows(e, Rev + 1, Live)
    BY <1>2 DEF Follows, CreateObject
  <2> QED
    BY <2>1, <2>2, <2>3
<1>3. CASE ModifyObject(o)
  <2> DEFINE e == [type |-> "MODIFIED", obj |-> o, rv |-> Rev + 1,
                   live |-> [Live EXCEPT ![o] = Live[o]],
                   versions |-> [Versions EXCEPT ![o] = Rev + 1]]
  <2>1. log' = Append(log, e) /\ UNCHANGED <<crd, loopVars, stopCh, faults>>
    BY <1>3 DEF ModifyObject, Write
  <2>2. e \in LogEntry
    BY <1>0 DEF LogEntry
  <2>3. Follows(e, Rev + 1, Live)
    BY <1>0, <1>3 DEF Follows, ModifyObject
  <2> QED
    BY <2>1, <2>2, <2>3
<1>4. CASE DeleteObject(o)
  <2> DEFINE e == [type |-> "DELETED", obj |-> o, rv |-> Versions[o],
                   live |-> [Live EXCEPT ![o] = 0],
                   versions |-> [Versions EXCEPT ![o] = Versions[o]]]
  <2>1. log' = Append(log, e) /\ UNCHANGED <<crd, loopVars, stopCh, faults>>
    BY <1>4 DEF DeleteObject, Write
  <2>2. e \in LogEntry
    BY <1>0 DEF LogEntry
  <2>3. Follows(e, Rev + 1, Live)
    BY <1>4 DEF Follows, DeleteObject
  <2> QED
    BY <2>1, <2>2, <2>3
<1> QED
  BY <1>1, <1>2, <1>3, <1>4

(* An appended entry leaves the revisions before it as they were.          *)
LEMMA AppendKeeps ==
  ASSUME TypeOK, NEW e \in LogEntry, log' = Append(log, e)
  PROVE  /\ log' \in Seq(LogEntry)
         /\ Rev' = Rev + 1
         /\ log'[Rev + 1] = e
         /\ \A v \in 1..Rev : log'[v] = log[v]
         /\ \A v \in 0..Rev : LiveAt(v)' = LiveAt(v) /\ NamesAt(v)' = NamesAt(v)
<1>1. /\ log' \in Seq(LogEntry)
      /\ Rev' = Rev + 1
      /\ log'[Rev + 1] = e
      /\ \A v \in 1..Rev : log'[v] = log[v]
  BY DEF TypeOK, Rev
<1>2. \A v \in 0..Rev : LiveAt(v)' = LiveAt(v)
  BY <1>1, LenProperties DEF LiveAt, Nothing, TypeOK, Rev
<1> QED
  BY <1>1, <1>2 DEF NamesAt

LEMMA LoopKeepsHistory ==
  ASSUME Loop \/ CloseStopCh
  PROVE  log' = log
BY DEF Loop, CreateCRD, ResyncFails, RetryResync, Reconcile, StartWatch,
       StartWatchFails, HandleEvent, StreamCloses, StreamBreaks, Terminate,
       Restart, CloseStopCh, apiVars

-----------------------------------------------------------------------------
(* Types, and the version a watch resumes from.                            *)

LEMMA TypeInit == Init => TypeOK
<1>1. <<>> \in Seq(LogEntry) /\ Len(<<>>) = 0
  BY EmptySeq
<1>2. Init => log \in Seq(LogEntry) /\ Rev = 0
  BY <1>1 DEF Init, Rev
<1>3. Init => itemMap \in [Names -> Nat] /\ watchVersion \in Nat \cup {NoVersion}
  BY DEF Init, Empty
<1>4. Init => pos \in 0..Rev /\ faults \in 0..MaxFaults
  BY <1>2, WatcherAssumption DEF Init
<1>5. Init => crd \in BOOLEAN /\ stopCh \in BOOLEAN
  BY DEF Init
<1> QED
  BY <1>2, <1>3, <1>4, <1>5 DEF Init, TypeOK

LEMMA TypeStep ==
  ASSUME VersionInv, [Next]_vars
  PROVE  TypeOK'
<1>0. TypeOK /\ Rev \in Nat /\ \A v \in 1..Rev : log[v] \in LogEntry
  BY LogFacts DEF VersionInv
<1>1. CASE Users
  <2>1. PICK e \in LogEntry : log' = Append(log, e)
    BY <1>0, <1>1, UsersWrite
  <2>2. log' \in Seq(LogEntry) /\ Rev' = Rev + 1
    BY <1>0, <2>1, AppendKeeps
  <2>3. UNCHANGED <<crd, loopVars, stopCh, faults>>
    BY <1>0, <1>1, UsersWrite
  <2> QED
    BY <1>0, <2>2, <2>3 DEF loopVars, TypeOK
<1>2. CASE CreateCRD \/ RetryResync \/ StreamCloses \/ Restart \/ CloseStopCh
  BY <1>0, <1>2
     DEF TypeOK, CreateCRD, RetryResync, StreamCloses, Restart, CloseStopCh,
         apiVars, loopVars, Rev
<1>3. CASE Reconcile
  BY <1>0, <1>3 DEF TypeOK, Reconcile, apiVars, Rev
<1>4. CASE StartWatch
  BY <1>0, <1>4
     DEF TypeOK, StartWatch, apiVars, Rev, VersionInv, LoopOK, ResumesWhereItStopped
<1>5. CASE StartWatchFails \/ StreamBreaks
  BY <1>0, <1>5, WatcherAssumption
     DEF TypeOK, StartWatchFails, StreamBreaks, Fault, Exit, Empty, apiVars, Rev, NoVersion
<1>6. CASE HandleEvent
  <2> DEFINE e == log[pos + 1]
  <2>1. pos < Rev /\ pos + 1 \in 1..Rev
    BY <1>0, <1>6 DEF HandleEvent, TypeOK
  <2>2. e \in LogEntry
    BY <1>0, <2>1
  <2>3. CASE Unsafe(e)
    BY <1>0, <1>6, <2>3
       DEF TypeOK, HandleEvent, Exit, Empty, apiVars, Rev, NoVersion
  <2>4. CASE ~Unsafe(e)
    <3>1. Handled(e) \in [Names -> Nat]
      BY <1>0, <2>2 DEF Handled, TypeOK, LogEntry
    <3>2. NextWatchVersion(e) \in Nat \cup {NoVersion}
      BY <2>2 DEF NextWatchVersion, LogEntry
    <3> QED
      BY <1>0, <1>6, <2>1, <2>4, <3>1, <3>2 DEF TypeOK, HandleEvent, apiVars, Rev
  <2> QED
    BY <2>3, <2>4
<1>7. CASE Terminate
  BY <1>0, <1>7 DEF TypeOK, Terminate, Exit, Empty, apiVars, Rev, NoVersion
<1>8. CASE UNCHANGED vars
  BY <1>0, <1>8 DEF TypeOK, vars, Rev
<1>9. CASE ResyncFails
  BY <1>0, <1>9, WatcherAssumption DEF TypeOK, ResyncFails, Fault, apiVars, Rev
<1> QED
  BY <1>1, <1>2, <1>3, <1>4, <1>5, <1>6, <1>7, <1>8, <1>9 DEF Next, Loop

LEMMA LogStep ==
  ASSUME VersionInv, [Next]_vars
  PROVE  LogOK'
<1>0. TypeOK /\ LogOK /\ Rev \in Nat
  BY LogFacts DEF VersionInv
<1>1. CASE Users
  <2>1. PICK e \in LogEntry : log' = Append(log, e) /\ Follows(e, Rev + 1, Live)
    BY <1>0, <1>1, UsersWrite
  <2>2. /\ Rev' = Rev + 1
        /\ log'[Rev + 1] = e
        /\ \A v \in 1..Rev : log'[v] = log[v]
        /\ \A v \in 0..Rev : LiveAt(v)' = LiveAt(v)
    BY <1>0, <2>1, AppendKeeps
  <2>3. SUFFICES ASSUME NEW v \in 1..(Rev + 1)
                 PROVE  Follows(log'[v], v, LiveAt(v - 1)')
    BY <1>0, <2>2 DEF LogOK, Follows
  <2>4. CASE v = Rev + 1
    <3>1. log'[v] = e /\ v - 1 = Rev /\ LiveAt(v - 1)' = LiveAt(v - 1)
      BY <1>0, <2>2, <2>4
    <3>2. LiveAt(v - 1)' = Live
      BY <3>1 DEF Live
    <3> QED
      BY <2>1, <2>4, <3>1, <3>2
  <2>5. CASE v \in 1..Rev
    <3>1. log'[v] = log[v] /\ LiveAt(v - 1)' = LiveAt(v - 1)
      BY <1>0, <2>2, <2>5
    <3> QED
      BY <2>5, <1>0, <3>1 DEF LogOK
  <2> QED
    BY <1>0, <2>4, <2>5
<1>2. CASE Loop \/ CloseStopCh
  BY <1>0, <1>2, LoopKeepsHistory DEF LogOK, Follows, LiveAt, Rev
<1>3. CASE UNCHANGED vars
  BY <1>0, <1>3 DEF LogOK, Follows, LiveAt, Rev, vars
<1> QED
  BY <1>1, <1>2, <1>3 DEF Next

LEMMA VersionStep ==
  ASSUME VersionInv, [Next]_vars
  PROVE  (LoopOK /\ ResumesWhereItStopped)'
<1>0. TypeOK /\ LogOK /\ LoopOK /\ ResumesWhereItStopped /\ Rev \in Nat
  BY LogFacts DEF VersionInv
<1>1. CASE Users
  BY <1>0, <1>1, UsersWrite DEF LoopOK, ResumesWhereItStopped, loopVars
<1>2. CASE CreateCRD \/ ResyncFails \/ RetryResync \/ Restart \/ CloseStopCh
  BY <1>0, <1>2
     DEF CreateCRD, ResyncFails, RetryResync, Restart, CloseStopCh, loopVars,
         LoopOK, ResumesWhereItStopped
<1>3. CASE Reconcile
  BY <1>0, <1>3 DEF Reconcile, LoopOK, ResumesWhereItStopped, NoVersion
<1>4. CASE StartWatch
  BY <1>0, <1>4 DEF StartWatch, LoopOK, ResumesWhereItStopped
<1>5. CASE StartWatchFails \/ StreamBreaks \/ Terminate
  BY <1>5 DEF StartWatchFails, StreamBreaks, Terminate, Exit, LoopOK, ResumesWhereItStopped
<1>6. CASE HandleEvent
  <2> DEFINE e == log[pos + 1]
  <2>1. pos + 1 \in 1..Rev /\ e \in LogEntry
    BY <1>0, <1>6, LogFacts DEF HandleEvent, TypeOK
  <2>2. Follows(e, pos + 1, LiveAt(pos))
    BY <1>0, <2>1 DEF LogOK, TypeOK
  <2>3. e.type # "DELETED" => e.rv = pos + 1
    BY <2>1, <2>2 DEF Follows, LogEntry
  <2>4. CASE Unsafe(e)
    BY <1>6, <2>4 DEF HandleEvent, Exit, LoopOK, ResumesWhereItStopped
  <2>5. CASE ~Unsafe(e)
    BY <1>6, <2>3, <2>5
       DEF HandleEvent, NextWatchVersion, LoopOK, ResumesWhereItStopped
  <2> QED
    BY <2>4, <2>5
<1>7. CASE StreamCloses
  BY <1>0, <1>7 DEF StreamCloses, LoopOK, ResumesWhereItStopped
<1>8. CASE UNCHANGED vars
  BY <1>0, <1>8 DEF vars, LoopOK, ResumesWhereItStopped
<1> QED
  BY <1>1, <1>2, <1>3, <1>4, <1>5, <1>6, <1>7, <1>8 DEF Next, Loop

LEMMA VersionInit == Init => VersionInv
BY TypeInit DEF Init, VersionInv, LogOK, LoopOK, ResumesWhereItStopped, Rev

(* The variables keep their types in every behaviour of the loop.          *)
THEOREM TypeCorrect == Spec => []TypeOK
<1>1. VersionInv /\ [Next]_vars => VersionInv'
  BY TypeStep, LogStep, VersionStep DEF VersionInv
<1>2. VersionInv => TypeOK
  BY DEF VersionInv
<1> QED
  BY VersionInit, <1>1, <1>2, PTL DEF Spec

(* Whatever the users, the faults and the closures of the streams do, a    *)
(* watch request starts from the revision the loop has taken into account  *)
(* (watch and processWatchResponse).                                       *)
THEOREM Resumes == Spec => []ResumesWhereItStopped
<1>1. VersionInv /\ [Next]_vars => VersionInv'
  BY TypeStep, LogStep, VersionStep DEF VersionInv
<1>2. VersionInv => ResumesWhereItStopped
  BY DEF VersionInv
<1> QED
  BY VersionInit, <1>1, <1>2, PTL DEF Spec

-----------------------------------------------------------------------------
(* The item map is a snapshot, where names are unique.                     *)

LEMMA NamesMember ==
  ASSUME NEW v, NEW n
  PROVE  n \in NamesAt(v) <=> \E o \in Objects : NameOf[o] = n /\ LiveAt(v)[o] # 0
BY DEF NamesAt

LEMMA UidsFacts ==
  ASSUME NEW v, NEW n
  PROVE  /\ UidsOf(n, v) = {} <=> n \notin NamesAt(v)
         /\ 0 \notin UidsOf(n, v)
BY DEF NamesAt, UidsOf

(* The event the loop is about to handle, against its map.                 *)
LEMMA EventFits ==
  ASSUME NamesAreUnique, SnapshotInv, pos < Rev,
         NEW e, e = log[pos + 1]
  PROVE  /\ ~Unsafe(e)
         /\ \A n \in Names : Handled(e)[n] # 0 <=> n \in NamesAt(pos + 1)
<1>0. /\ TypeOK /\ LogOK /\ ViewIsSnapshot /\ Rev \in Nat
      /\ \A v \in 1..Rev : log[v] \in LogEntry
  BY LogFacts DEF SnapshotInv, VersionInv
<1>1. pos + 1 \in 1..Rev /\ pos \in 0..Rev /\ e \in LogEntry
  BY <1>0 DEF TypeOK
<1>2. LiveAt(pos) \in [Objects -> Nat]
  BY <1>0, <1>1, LiveType
<1>3. Follows(e, pos + 1, LiveAt(pos))
  <2>1. (pos + 1) - 1 = pos
    BY <1>1
  <2> QED
    BY <1>0, <1>1, <2>1 DEF LogOK
<1>4. LiveAt(pos + 1) = e.live
  BY <1>1 DEF LiveAt
<1>5. e.obj \in Objects /\ NameOf[e.obj] \in Names
  BY <1>1, WatcherAssumption DEF LogEntry
<1>6. \A n \in Names : itemMap[n] # 0 <=> n \in NamesAt(pos)
  BY <1>0 DEF ViewIsSnapshot, Managed
<1>7. NameOf[e.obj] \in NamesAt(pos) <=> LiveAt(pos)[e.obj] # 0
  BY <1>5, NamesMember DEF NamesAreUnique
<1>8. e.type \in {"ADDED", "MODIFIED", "DELETED"}
  BY <1>1 DEF LogEntry
<1>9. ~Unsafe(e)
  BY <1>3, <1>5, <1>6, <1>7, <1>8 DEF Unsafe, Follows
<1>10. \A o \in Objects : o # e.obj => e.live[o] = LiveAt(pos)[o]
  BY <1>2, <1>3, <1>8 DEF Follows
<1>11. ASSUME NEW n \in Names, n # NameOf[e.obj]
       PROVE  n \in NamesAt(pos + 1) <=> n \in NamesAt(pos)
  BY <1>4, <1>10, <1>11, NamesMember
<1>12. NameOf[e.obj] \in NamesAt(pos + 1) <=> e.live[e.obj] # 0
  BY <1>4, <1>5, NamesMember DEF NamesAreUnique
<1>13. CASE e.type = "MODIFIED"
  <2>1. LiveAt(pos + 1) = LiveAt(pos) /\ Handled(e) = itemMap
    BY <1>3, <1>4, <1>13 DEF Follows, Handled
  <2>2. NamesAt(pos + 1) = NamesAt(pos)
    BY <2>1 DEF NamesAt
  <2> QED
    BY <1>6, <1>9, <2>1, <2>2
<1>14. CASE e.type # "MODIFIED"
  <2>1. Handled(e) = [itemMap EXCEPT ![NameOf[e.obj]] = e.live[e.obj]]
    BY <1>14 DEF Handled
  <2>2. itemMap \in [Names -> Nat]
    BY <1>0 DEF TypeOK
  <2>3. Handled(e)[NameOf[e.obj]] = e.live[e.obj]
    BY <1>5, <2>1, <2>2
  <2>4. \A n \in Names : n # NameOf[e.obj] => Handled(e)[n] = itemMap[n]
    BY <2>1, <2>2
  <2>5. \A n \in Names : Handled(e)[n] # 0 <=> n \in NamesAt(pos + 1)
    BY <1>6, <1>11, <1>12, <2>3, <2>4
  <2> QED
    BY <1>9, <2>5
<1> QED
  BY <1>9, <1>13, <1>14

(* What a step that leaves the history alone has to show.                  *)
LEMMA SnapshotAfter ==
  ASSUME log' = log, \A n \in Names : itemMap'[n] # 0 <=> n \in NamesAt(pos')
  PROVE  ViewIsSnapshot'
<1>1. NamesAt(pos)' = NamesAt(pos')
  BY DEF NamesAt, LiveAt, Nothing
<1>2. NamesAt(pos') \subseteq Names
  BY WatcherAssumption DEF NamesAt
<1> QED
  BY <1>1, <1>2 DEF ViewIsSnapshot, Managed

LEMMA SnapshotStep ==
  ASSUME NamesAreUnique, SnapshotInv, [Next]_vars
  PROVE  SnapshotInv'
<1>0. /\ VersionInv /\ TypeOK /\ ViewIsSnapshot /\ NeverUnsafe
      /\ Rev \in Nat /\ LoopOK /\ ResumesWhereItStopped
  BY LogFacts DEF SnapshotInv, VersionInv
<1>1. VersionInv'
  BY <1>0, TypeStep, LogStep, VersionStep DEF VersionInv
<1>2. SUFFICES ViewIsSnapshot' /\ NeverUnsafe'
  BY <1>1 DEF SnapshotInv
<1>3. \A n \in Names : itemMap[n] # 0 <=> n \in NamesAt(pos)
  BY <1>0 DEF ViewIsSnapshot, Managed
<1>4. CASE Users
  <2>1. PICK e \in LogEntry : log' = Append(log, e)
    BY <1>0, <1>4, UsersWrite
  <2>2. \A v \in 0..Rev : NamesAt(v)' = NamesAt(v)
    BY <1>0, <2>1, AppendKeeps
  <2>3. UNCHANGED loopVars
    BY <1>0, <1>4, UsersWrite
  <2>4. pos \in 0..Rev /\ pos' = pos /\ itemMap' = itemMap /\ runErr' = runErr
    BY <1>0, <2>3 DEF TypeOK, loopVars
  <2>5. NamesAt(pos)' = NamesAt(pos)
    <3>1. PICK p \in 0..Rev : p = pos /\ p = pos'
      BY <2>4
    <3>2. NamesAt(p)' = NamesAt(p)
      BY <2>2, <3>1
    <3>3. NamesAt(p)' = NamesAt(pos)' /\ NamesAt(p) = NamesAt(pos)
      BY <3>1 DEF NamesAt, LiveAt
    <3> QED
      BY <3>2, <3>3
  <2> QED
    BY <1>0, <2>4, <2>5 DEF ViewIsSnapshot, Managed, NeverUnsafe
<1>5. CASE Loop \/ CloseStopCh
  <2>1. log' = log
    BY <1>5, LoopKeepsHistory
  <2>2. CASE CreateCRD \/ ResyncFails \/ RetryResync \/ StreamCloses \/ Restart \/ CloseStopCh
    <3>1. pos' = pos /\ itemMap' = itemMap /\ runErr' \in {runErr, "nil"}
      BY <2>2
         DEF CreateCRD, ResyncFails, RetryResync, StreamCloses, Restart, CloseStopCh, loopVars
    <3> QED
      BY <1>0, <1>3, <2>1, <3>1, SnapshotAfter DEF NeverUnsafe
  <2>3. CASE Reconcile
    <3>1. PICK m \in [Names -> 0..Rev] :
            (\A n \in Names : m[n] \in Reconciled(n)) /\ itemMap' = m
      BY <2>3 DEF Reconcile
    <3>2. pos' = Rev /\ runErr' = runErr
      BY <2>3 DEF Reconcile
    <3>3. \A n \in Names : m[n] # 0 <=> n \in NamesAt(Rev)
      BY <3>1, UidsFacts DEF Reconciled
    <3> QED
      BY <1>0, <2>1, <3>1, <3>2, <3>3, SnapshotAfter DEF NeverUnsafe
  <2>4. CASE StartWatch
    <3>1. pos' = pos /\ itemMap' = itemMap /\ runErr' = runErr
      BY <1>0, <2>4 DEF StartWatch, LoopOK, ResumesWhereItStopped
    <3> QED
      BY <1>0, <1>3, <2>1, <3>1, SnapshotAfter DEF NeverUnsafe
  <2>5. CASE StartWatchFails \/ StreamBreaks \/ Terminate
    <3>1. pos' = 0 /\ itemMap' = Empty /\ runErr' # "unsafe"
      BY <2>5 DEF StartWatchFails, StreamBreaks, Terminate, Exit
    <3>2. NamesAt(0) = {}
      BY DEF NamesAt, LiveAt, Nothing
    <3> QED
      BY <2>1, <3>1, <3>2, SnapshotAfter DEF NeverUnsafe, Empty
  <2>6. CASE HandleEvent
    <3>1. pos < Rev /\ ~Unsafe(log[pos + 1])
      BY <2>6, EventFits DEF HandleEvent
    <3>2. pos' = pos + 1 /\ itemMap' = Handled(log[pos + 1]) /\ runErr' = runErr
      BY <2>6, <3>1 DEF HandleEvent
    <3>3. \A n \in Names : itemMap'[n] # 0 <=> n \in NamesAt(pos')
      BY <3>1, <3>2, EventFits
    <3> QED
      BY <1>0, <2>1, <3>2, <3>3, SnapshotAfter DEF NeverUnsafe
  <2> QED
    BY <1>5, <2>2, <2>3, <2>4, <2>5, <2>6 DEF Loop
<1>6. CASE UNCHANGED vars
  <2>1. pos' = pos /\ log' = log /\ itemMap' = itemMap /\ runErr' = runErr
    BY <1>6 DEF vars
  <2> QED
    BY <1>0, <1>3, <2>1, SnapshotAfter DEF NeverUnsafe
<1> QED
  BY <1>4, <1>5, <1>6 DEF Next

LEMMA SnapshotInit == Init => SnapshotInv
<1>1. Init => pos = 0 /\ itemMap = Empty /\ runErr = "nil"
  BY DEF Init
<1>2. NamesAt(0) = {}
  BY DEF NamesAt, LiveAt, Nothing
<1> QED
  BY VersionInit, <1>1, <1>2 DEF SnapshotInv, ViewIsSnapshot, Managed, Empty, NeverUnsafe

(* Where no two objects share a name (the apps of one namespace), the item *)
(* map of a watch loop is at every moment the set of names of one revision *)
(* of the API server, whatever the users, the closures and the faults do.  *)
THEOREM Snapshot ==
  ASSUME NamesAreUnique
  PROVE  Spec => []ViewIsSnapshot
<1>1. SnapshotInv /\ [Next]_vars => SnapshotInv'
  BY SnapshotStep
<1>2. SnapshotInv => ViewIsSnapshot
  BY DEF SnapshotInv
<1> QED
  BY SnapshotInit, <1>1, <1>2, PTL DEF Spec

(* Where names are unique, no event finds the map in what handleEvent      *)
(* calls an unsafe state: an added object registered, a deleted one not.   *)
THEOREM NoUnsafeState ==
  ASSUME NamesAreUnique
  PROVE  Spec => []NeverUnsafe
<1>1. SnapshotInv /\ [Next]_vars => SnapshotInv'
  BY SnapshotStep
<1>2. SnapshotInv => NeverUnsafe
  BY DEF SnapshotInv
<1> QED
  BY SnapshotInit, <1>1, <1>2, PTL DEF Spec

-----------------------------------------------------------------------------
(* The loop implements the abstract cache.                                 *)

LEMMA CacheHistSeq ==
  ASSUME TypeOK
  PROVE  /\ CacheHist \in Seq(SUBSET Names)
         /\ Len(CacheHist) = Rev
         /\ \A v \in 1..Rev : CacheHist[v] = NamesAt(v)
<1>0. Rev \in Nat
  BY LogFacts
<1>1. CacheHist \in [1..Rev -> SUBSET Names]
  BY WatcherAssumption DEF CacheHist, NamesAt
<1> QED
  BY <1>0, <1>1, SeqDef DEF CacheHist

LEMMA CacheNames ==
  ASSUME TypeOK, NEW v \in 0..Rev
  PROVE  Cache!NamesAt(v) = NamesAt(v)
<1>0. Rev \in Nat /\ \A w \in 1..Rev : CacheHist[w] = NamesAt(w)
  BY LogFacts, CacheHistSeq
<1>1. CASE v = 0
  BY <1>1 DEF Cache!NamesAt, NamesAt, LiveAt, Nothing
<1>2. CASE v # 0
  BY <1>0, <1>2 DEF Cache!NamesAt
<1> QED
  BY <1>1, <1>2

LEMMA CacheInitial == Init => Cache!CacheInit
<1>1. Init => Rev = 0
  <2>1. Len(<<>>) = 0
    BY EmptySeq
  <2> QED
    BY <2>1 DEF Init, Rev
<1>2. ASSUME Rev = 0, TypeOK
      PROVE  CacheHist = <<>>
  BY <1>2, CacheHistSeq
<1>3. Init => pos = 0 /\ Managed = {}
  BY DEF Init, Empty, Managed
<1> QED
  BY <1>1, <1>2, <1>3, TypeInit DEF Cache!CacheInit

LEMMA CacheStep ==
  ASSUME SnapshotInv, SnapshotInv', [Next]_vars
  PROVE  [Cache!CacheNext]_(Cache!cacheVars)
<1>0. /\ TypeOK /\ TypeOK' /\ ViewIsSnapshot /\ ViewIsSnapshot'
      /\ Rev \in Nat /\ LoopOK /\ ResumesWhereItStopped
  BY LogFacts DEF SnapshotInv, VersionInv
<1>1. CASE Users
  <2>1. PICK e \in LogEntry : log' = Append(log, e)
    BY <1>0, <1>1, UsersWrite
  <2>2. pos' = pos /\ Managed' = Managed
    BY <1>0, <1>1, UsersWrite DEF loopVars, Managed
  <2>3. /\ Rev' = Rev + 1
        /\ \A v \in 1..Rev : NamesAt(v)' = NamesAt(v)
    BY <1>0, <2>1, AppendKeeps
  <2> DEFINE S == {NameOf[o] : o \in {x \in Objects : e.live[x] # 0}}
  <2>4. S \in SUBSET Names
    BY WatcherAssumption
  <2>5. CacheHist' = Append(CacheHist, S)
    <3>1. log'[Rev + 1] = e
      BY <1>0, <2>1, AppendKeeps
    <3>3. CacheHist' = [v \in 1..(Rev + 1) |-> NamesAt(v)']
      BY <2>3 DEF CacheHist
    <3>4. \A v \in 1..(Rev + 1) : v = Rev + 1 => NamesAt(v)' = S
      BY <1>0, <3>1 DEF NamesAt, LiveAt
    <3>5. /\ CacheHist \in Seq(SUBSET Names)
          /\ Len(CacheHist) = Rev
          /\ \A v \in 1..Rev : CacheHist[v] = NamesAt(v)
      BY <1>0, CacheHistSeq
    <3>6. CacheHist' = [v \in 1..(Rev + 1) |-> IF v = Rev + 1 THEN S ELSE CacheHist[v]]
      BY <1>0, <2>3, <3>3, <3>4, <3>5
    <3> QED
      BY <1>0, <3>5, <3>6
  <2> QED
    BY <2>2, <2>4, <2>5 DEF Cache!CacheNext, Cache!Publish
<1>2. CASE Loop \/ CloseStopCh
  <2>1. log' = log
    BY <1>2, LoopKeepsHistory
  <2>2. CacheHist' = CacheHist /\ Rev' = Rev
    BY <2>1 DEF CacheHist, Rev, NamesAt, LiveAt, Nothing
  <2>3. pos' \in 0..Rev
    BY <1>0, <2>2 DEF TypeOK
  <2>4. Managed' = Cache!NamesAt(pos')
    <3>1. Managed' = NamesAt(pos')
      BY <1>0, <2>1 DEF ViewIsSnapshot, NamesAt, LiveAt, Nothing
    <3> QED
      BY <1>0, <2>3, <3>1, CacheNames
  <2>5. pos' >= pos => Cache!CatchUp(pos')
    BY <2>2, <2>4 DEF Cache!CatchUp
  <2>6. Cache!NamesAt(0) = {}
    BY DEF Cache!NamesAt
  <2>7. pos' = 0 => Cache!StartOver
    BY <2>2, <2>4, <2>6 DEF Cache!StartOver
  <2>8. pos' >= pos \/ pos' = 0
    BY <1>0, <1>2
       DEF Loop, CreateCRD, ResyncFails, RetryResync, Reconcile, StartWatch,
           StartWatchFails, HandleEvent, StreamCloses, StreamBreaks, Terminate,
           Restart, Exit, CloseStopCh, loopVars, TypeOK, LoopOK, ResumesWhereItStopped
  <2>9. Len(CacheHist) = Rev
    BY <1>0, CacheHistSeq
  <2> QED
    BY <2>3, <2>5, <2>7, <2>8, <2>9 DEF Cache!CacheNext
<1>3. CASE UNCHANGED vars
  BY <1>3 DEF vars, Cache!cacheVars, CacheHist, Rev, NamesAt, LiveAt, Managed
<1> QED
  BY <1>1, <1>2, <1>3 DEF Next

(* Where names are unique, every behaviour of the loop, with its lists,    *)
(* streams, soft restarts and restarts, is one of the abstract cache.      *)
THEOREM Refinement ==
  ASSUME NamesAreUnique
  PROVE  Spec => ImplementsCache
<1>1. SnapshotInv /\ [Next]_vars => SnapshotInv'
  BY SnapshotStep
<1>2. SnapshotInv /\ SnapshotInv' /\ [Next]_vars
        => [Cache!CacheNext]_(Cache!cacheVars)
  BY CacheStep
<1> QED
  BY SnapshotInit, CacheInitial, <1>1, <1>2, PTL
     DEF Spec, ImplementsCache, Cache!CacheSpec
=============================================================================
