------------------------------ MODULE DnsProofs ------------------------------
(* Theorems about the DNS records (Dns), for any number of records, any    *)
(* back-off and any durations: types, the bound on the time a handler is   *)
(* held up, and what success means for the records.                        *)
EXTENDS Dns, TLAPS

(* The retries go on from an elapsed time that leaves room for an attempt, *)
(* and wait after one only within MaxElapsedTime. *)
TimeInv ==
  /\ pc = "wait" => elapsed <= MaxElapsedTime
  /\ pc \in {"next", "lookup", "apply", "failed", "succeeded"} =>
       elapsed <= MaxElapsedTime + MaxInterval
  /\ HoldUpIsBounded

(* Before the turn at, and nowhere else, the loop has done its work. *)
Done(r) == IF phase = "deleting" THEN records[r] = None ELSE records[r] # None

LoopInv ==
  /\ owner = "space" => wanted = {1}
  /\ pc # "idle" <=> phase \in {"creating", "deleting"}
  /\ pc \in {"lookup", "apply", "failed", "wait", "succeeded"} => value # None /\ at <= Records
  /\ pc = "succeeded" => Done(at)
  /\ pc = "apply" => seen = records[at]
  /\ pc # "idle" => \A r \in wanted : r < at => Done(r)
  /\ phase = "active" /\ ~Unneeded => \A r \in wanted : Done(r)
  /\ phase = "gone" /\ ~Unneeded => \A r \in wanted : records[r] = None

DnsInv == TypeOK /\ TimeInv /\ LoopInv

-----------------------------------------------------------------------------

LEMMA DnsInit == Init => DnsInv
<1> SUFFICES ASSUME Init PROVE DnsInv
  OBVIOUS
<1>1. TypeOK
  BY ConstantsAssumption DEF Init, TypeOK
<1>2. TimeInv
  BY ConstantsAssumption DEF Init, TimeInv, HoldUpIsBounded
<1>3. LoopInv
  BY DEF Init, LoopInv
<1> QED
  BY <1>1, <1>2, <1>3 DEF DnsInv

LEMMA TypeStep == DnsInv /\ [Next]_vars => TypeOK'
<1> SUFFICES ASSUME DnsInv, [Next]_vars PROVE TypeOK'
  OBVIOUS
<1>0. TypeOK /\ LoopInv
  BY DEF DnsInv
<1> DEFINE Frame == /\ owner' \in {"space", "app"} /\ enabled' \in BOOLEAN
                    /\ wanted' \subseteq 1..Records /\ hooked' \in BOOLEAN
                    /\ addr' \in Addrs \cup {None}
           Zone == records' \in [1..Records -> Addrs \cup {None}]
           Turn == at' \in 1..(Records + 1)
           Seen == value' \in Addrs \cup {None} /\ seen' \in Addrs \cup {None}
           Time == elapsed' \in Nat /\ interval' \in InitialInterval..MaxInterval
           Where == /\ phase' \in {"none", "creating", "active", "failed", "deleting", "gone", "leaked"}
                    /\ pc' \in {"idle", "next", "lookup", "apply", "failed", "wait", "succeeded"}
<1> USE DEF TypeOK, config, backoff
<1>1. Frame
  BY <1>0 DEF Next, Handler, BeginCreate, BeginDelete, Begin, Finish, Return,
    SkipEndpoint, ReadAddress, NoAddress, NoProvider, Lookup, NothingToDelete,
    Apply, RequestFails, AnswerLost, EndAttempt, PostSuccess, Wait, Crash,
    AddressChanges, Recreate, vars
<1>2. Where
  BY <1>0 DEF Next, Handler, BeginCreate, BeginDelete, Begin, Finish, Return,
    SkipEndpoint, ReadAddress, NoAddress, NoProvider, Lookup, NothingToDelete,
    Apply, RequestFails, AnswerLost, EndAttempt, PostSuccess, Wait, Crash,
    AddressChanges, Recreate, vars, Succeeded
<1>3. Zone
  <2>1. CASE Apply \/ AnswerLost
    BY <1>0, <2>1 DEF Apply, AnswerLost, Changed
  <2>2. CASE UNCHANGED records
    BY <1>0, <2>2
  <2> QED
    BY <2>1, <2>2 DEF Next, Handler, BeginCreate, BeginDelete, Begin, Finish,
      Return, SkipEndpoint, ReadAddress, NoAddress, NoProvider, Lookup,
      NothingToDelete, RequestFails, EndAttempt, PostSuccess, Wait, Crash,
      AddressChanges, Recreate, vars
<1>4. Turn
  <2>1. CASE BeginCreate \/ BeginDelete
    BY <2>1, ConstantsAssumption DEF BeginCreate, BeginDelete, Begin
  <2>2. CASE SkipEndpoint
    BY <1>0, <2>2, ConstantsAssumption DEF SkipEndpoint, AllDone, LoopInv
  <2>3. CASE NothingToDelete \/ Apply \/ PostSuccess
    BY <1>0, <2>3, ConstantsAssumption
      DEF NothingToDelete, Apply, PostSuccess, Succeeded, LoopInv
  <2>4. CASE UNCHANGED at
    BY <1>0, <2>4
  <2> QED
    BY <2>1, <2>2, <2>3, <2>4 DEF Next, Handler, Finish, Return, ReadAddress,
      NoAddress, NoProvider, Lookup, RequestFails, AnswerLost, EndAttempt,
      PostSuccess, Wait, Crash, AddressChanges, Recreate, vars
<1>5. Seen
  <2>1. CASE Lookup
    <3>1. at \in 1..Records
      BY <1>0, <2>1, ConstantsAssumption DEF Lookup, LoopInv
    <3> QED
      BY <1>0, <2>1, <3>1 DEF Lookup
  <2>2. CASE ReadAddress
    BY <1>0, <2>2 DEF ReadAddress
  <2>3. CASE UNCHANGED <<value, seen>>
    BY <1>0, <2>3
  <2> QED
    BY <2>1, <2>2, <2>3 DEF Next, Handler, BeginCreate, BeginDelete, Begin,
      Finish, Return, SkipEndpoint, NoAddress, NoProvider, NothingToDelete,
      Apply, RequestFails, AnswerLost, EndAttempt, PostSuccess, Wait, Crash,
      AddressChanges, Recreate, vars
<1>6. Time
  <2>1. CASE BeginCreate \/ BeginDelete
    BY <2>1, ConstantsAssumption DEF BeginCreate, BeginDelete, Begin
  <2>2. CASE EndAttempt
    <3>1. PICK d \in Durations : elapsed' = elapsed + d
      BY <2>2 DEF EndAttempt
    <3>2. d \in Nat
      BY ConstantsAssumption
    <3> QED
      BY <1>0, <2>2, <3>1, <3>2 DEF EndAttempt
  <2>3. CASE Wait
    BY <1>0, <2>3, ConstantsAssumption DEF Wait, Increased
  <2>4. CASE UNCHANGED backoff
    BY <1>0, <2>4
  <2> QED
    BY <2>1, <2>2, <2>3, <2>4 DEF Next, Handler, Finish, Return, SkipEndpoint,
      ReadAddress, NoAddress, NoProvider, Lookup, NothingToDelete, Apply,
      RequestFails, AnswerLost, PostSuccess, Crash, AddressChanges, Recreate,
      vars
<1> QED
  BY <1>1, <1>2, <1>3, <1>4, <1>5, <1>6

LEMMA TimeStep == DnsInv /\ [Next]_vars => TimeInv'
<1> SUFFICES ASSUME DnsInv, [Next]_vars PROVE TimeInv'
  OBVIOUS
<1>0. TypeOK /\ TimeInv
  BY DEF DnsInv
<1> USE <1>0, ConstantsAssumption DEF TimeInv, HoldUpIsBounded, TypeOK
<1>1. CASE BeginCreate \/ BeginDelete
  BY <1>1 DEF BeginCreate, BeginDelete, Begin
<1>2. CASE Finish \/ NoAddress \/ NoProvider \/ SkipEndpoint \/ ReadAddress
  BY <1>2 DEF Finish, NoAddress, NoProvider, Return, SkipEndpoint, ReadAddress,
    backoff
<1>3. CASE Lookup \/ NothingToDelete \/ Apply \/ RequestFails \/ AnswerLost \/ PostSuccess
  BY <1>3 DEF Lookup, NothingToDelete, Apply, RequestFails, AnswerLost,
    PostSuccess, Succeeded, backoff
<1>4. CASE EndAttempt
  <2>1. PICK d \in Durations :
          IF GivesUp(elapsed + d)
          THEN pc' = "idle" /\ elapsed' = elapsed + d
          ELSE pc' = "wait" /\ elapsed' = elapsed + d
    BY <1>4 DEF EndAttempt
  <2>2. d \in 0..MaxDuration /\ pc = "failed"
    BY <1>4 DEF EndAttempt
  <2> QED
    BY <2>1, <2>2 DEF GivesUp
<1>5. CASE Wait
  BY <1>5 DEF Wait
<1>6. CASE Crash \/ AddressChanges \/ Recreate \/ UNCHANGED vars
  BY <1>6 DEF Crash, AddressChanges, Recreate, vars, backoff
<1> QED
  BY <1>1, <1>2, <1>3, <1>4, <1>5, <1>6 DEF Next, Handler

LEMMA LoopStep == DnsInv /\ [Next]_vars => LoopInv'
<1> SUFFICES ASSUME DnsInv, [Next]_vars PROVE LoopInv'
  OBVIOUS
<1>0. TypeOK /\ LoopInv
  BY DEF DnsInv
<1> USE <1>0, ConstantsAssumption DEF TypeOK, LoopInv, Done, config
<1>1. CASE BeginCreate \/ BeginDelete
  <2>1. pc' = "next" /\ phase' \in {"creating", "deleting"} /\ at' = 1
    BY <1>1 DEF BeginCreate, BeginDelete, Begin
  <2>2. UNCHANGED <<owner, wanted>>
    BY <1>1 DEF BeginCreate, BeginDelete, Begin
  <2>3. \A r \in wanted : ~(r < 1)
    OBVIOUS
  <2> QED
    BY <2>1, <2>2, <2>3
<1>2. CASE Finish
  BY <1>2 DEF Finish, AllDone, Return, Deleting, Unneeded, backoff
<1>3. CASE NoAddress \/ NoProvider
  BY <1>3 DEF NoAddress, NoProvider, Return, Deleting, Unneeded, backoff
<1>4. CASE SkipEndpoint
  BY <1>4 DEF SkipEndpoint, AllDone, Unneeded, backoff
<1>5. CASE ReadAddress
  BY <1>5 DEF ReadAddress, AllDone, Unneeded, backoff
<1>6. CASE Lookup
  BY <1>6 DEF Lookup, Unneeded, backoff
<1>7. CASE NothingToDelete \/ Apply
  <2>1. /\ pc = "apply" /\ UNCHANGED <<owner, wanted, phase, value>>
        /\ \/ pc' = "next" /\ at' = at + 1
           \/ pc' = "succeeded" /\ at' = at
    BY <1>7 DEF NothingToDelete, Apply, Succeeded
  <2>2. phase \in {"creating", "deleting"} /\ at \in 1..Records /\ value # None
    BY <2>1
  <2>3. IF phase = "deleting" THEN records'[at] = None ELSE records'[at] # None
    BY <1>7, <2>1, <2>2 DEF NothingToDelete, Apply, Changed, Deleting
  <2>4. \A r \in wanted : r < at => Done(r)'
    BY <1>7, <2>1 DEF NothingToDelete, Apply, Changed
  <2>5. \A r \in wanted : r < at + 1 => r < at \/ r = at
    OBVIOUS
  <2>6. CASE pc' = "next" /\ at' = at + 1
    BY <2>1, <2>2, <2>3, <2>4, <2>5, <2>6
  <2>7. CASE pc' = "succeeded" /\ at' = at
    BY <2>1, <2>2, <2>3, <2>4, <2>7
  <2> QED
    BY <2>1, <2>6, <2>7
<1>8. CASE RequestFails \/ AnswerLost
  <2>1. /\ pc \in {"lookup", "apply"} /\ pc' = "failed"
        /\ UNCHANGED <<owner, enabled, wanted, phase, at, value>>
    BY <1>8 DEF RequestFails, AnswerLost
  <2>2. \A r \in wanted : r < at => records'[r] = records[r]
    BY <1>8, <2>1 DEF RequestFails, AnswerLost, Changed
  <2> QED
    BY <2>1, <2>2
<1>9. CASE EndAttempt
  BY <1>9 DEF EndAttempt, Deleting, Unneeded
<1>10. CASE PostSuccess
  <2>1. /\ pc = "succeeded" /\ pc' = "next" /\ at' = at + 1
        /\ UNCHANGED <<owner, wanted, phase, records>>
    BY <1>10 DEF PostSuccess
  <2>2. \A r \in wanted : r < at + 1 => r < at \/ r = at
    OBVIOUS
  <2> QED
    BY <2>1, <2>2
<1>11. CASE Wait
  BY <1>11 DEF Wait, Unneeded
<1>12. CASE Crash \/ Recreate
  BY <1>12 DEF Crash, Recreate, Deleting, Unneeded, backoff
<1>13. CASE AddressChanges \/ UNCHANGED vars
  <2>1. UNCHANGED <<owner, enabled, wanted, phase, records, pc, at, value, seen>>
    BY <1>13 DEF AddressChanges, vars
  <2> QED
    BY <2>1 DEF Unneeded
<1> QED
  BY <1>1, <1>2, <1>3, <1>4, <1>5, <1>6, <1>7, <1>8, <1>9, <1>10, <1>11, <1>12, <1>13
    DEF Next, Handler

LEMMA DnsInvariant == Spec => []DnsInv
<1>1. DnsInv /\ [Next]_vars => DnsInv'
  BY TypeStep, TimeStep, LoopStep DEF DnsInv
<1> QED
  BY DnsInit, <1>1, PTL DEF Spec

(* The variables keep their types; the interval stays between its bounds.  *)
THEOREM TypeCorrect == Spec => []TypeOK
<1>1. DnsInv => TypeOK
  BY DEF DnsInv
<1> QED
  BY DnsInvariant, <1>1, PTL

(* Failed attempts, with their posts to Slack, and the waits between them  *)
(* hold up no handler for longer than MaxElapsedTime, one interval and one *)
(* attempt, whatever the bound on an attempt is.                           *)
THEOREM HoldUp == Spec => []HoldUpIsBounded
<1>1. DnsInv => HoldUpIsBounded
  BY DEF DnsInv, TimeInv
<1> QED
  BY DnsInvariant, <1>1, PTL

(* An Active owner has a record for each endpoint that asks for one, for   *)
(* any number of endpoints.                                                *)
THEOREM RecordsOfActive == Spec => []ActiveHasRecords
<1>1. DnsInv => ActiveHasRecords
  BY DEF DnsInv, LoopInv, ActiveHasRecords, Done
<1> QED
  BY DnsInvariant, <1>1, PTL

(* A deletion that reports success has left no record.                     *)
THEOREM NoRecordsOfGone == Spec => []GoneHasNoRecords
<1>1. DnsInv => GoneHasNoRecords
  BY DEF DnsInv, LoopInv, GoneHasNoRecords
<1> QED
  BY DnsInvariant, <1>1, PTL
=============================================================================
