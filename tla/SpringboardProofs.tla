-------------------------- MODULE SpringboardProofs --------------------------
(* Theorems about springboard (Springboard), for any number of clients:    *)
(* types, and when the child is, and is not, told to end.                  *)
EXTENDS Springboard, TLAPS

Connected == \E c \in Clients : conn[c] = "accepted"

(* What main() and the goroutine know of the child: the loop ends for a    *)
(* connection or for the child's exit, and childExited is never wrong.     *)
LoopInv ==
  /\ pc = "delay" => child = "none"
  /\ child = "none" => pc \in {"delay", "fatal"}
  /\ waiter \in {"sending", "done"} => child = "exited"
  /\ childExited => child = "exited"
  /\ ~keepLooping => Connected \/ childExited
  /\ pc = "end" => ~keepLooping

SpringboardInv == TypeOK /\ LoopInv /\ SignalledOnRequest /\ ChildNotLeft

-----------------------------------------------------------------------------

LEMMA SpringboardInit == Init => SpringboardInv
  BY DEF Init, SpringboardInv, TypeOK, LoopInv, SignalledOnRequest, ChildNotLeft

LEMMA TypeStep == TypeOK /\ [Next]_vars => TypeOK'
<1> SUFFICES ASSUME TypeOK, [Next]_vars PROVE TypeOK'
  OBVIOUS
<1> USE DEF TypeOK, main
<1>0. Dropped \in [Clients -> {"none", "pending", "lost", "accepted", "gone"}]
  BY DEF Dropped
<1>1. CASE StartChild \/ Listen \/ Timeout \/ Receive \/ NothingToReceive \/ Terminate
  <2>1. CASE StartChild
    BY <2>1 DEF StartChild
  <2>6. CASE Listen
    BY <2>6 DEF Listen
  <2>2. CASE Timeout
    BY <2>2 DEF Timeout
  <2>3. CASE Receive
    BY <2>3 DEF Receive
  <2>4. CASE NothingToReceive
    BY <2>4 DEF NothingToReceive
  <2>5. CASE Terminate
    BY <2>5 DEF Terminate
  <2> QED
    BY <1>1, <2>1, <2>2, <2>3, <2>4, <2>5, <2>6
<1>2. CASE Close
  <2>1. conn' \in [Clients -> {"none", "pending", "lost", "accepted", "gone"}]
    BY <1>0, <1>2 DEF Close
  <2>2. pc' = "select" /\ open' = FALSE /\ UNCHANGED <<child, waiter, main>>
    BY <1>2 DEF Close
  <2> QED
    BY <2>1, <2>2
<1>3. CASE StartFails \/ ListenFails \/ AcceptFails
  BY <1>0, <1>3 DEF StartFails, ListenFails, AcceptFails, Fatal
<1>4. ASSUME NEW c \in Clients, Accept(c) \/ Connect(c) \/ GiveUp(c) PROVE TypeOK'
  <2>1. CASE Accept(c)
    BY <2>1 DEF Accept
  <2>2. CASE Connect(c)
    BY <2>2 DEF Connect
  <2>3. CASE GiveUp(c)
    BY <2>3 DEF GiveUp
  <2> QED
    BY <1>4, <2>1, <2>2, <2>3
<1>5. CASE Send \/ ChildExits
  BY <1>5 DEF Send, ChildExits
<1>6. CASE UNCHANGED vars
  BY <1>6 DEF vars
<1> QED
  BY <1>1, <1>2, <1>3, <1>4, <1>5, <1>6 DEF Next, Turn

(* Who has been accepted stays accepted: a socket that is closed drops     *)
(* only the connections that wait. *)
LEMMA AcceptedStays == TypeOK /\ [Next]_vars /\ Connected => Connected'
<1> SUFFICES ASSUME TypeOK, [Next]_vars, NEW c \in Clients, conn[c] = "accepted"
             PROVE conn'[c] = "accepted"
  BY DEF Connected
<1>1. CASE Close \/ StartFails \/ ListenFails \/ AcceptFails
  BY <1>1 DEF Close, StartFails, ListenFails, AcceptFails, Fatal, Dropped
<1>2. ASSUME NEW d \in Clients, Accept(d) \/ Connect(d) \/ GiveUp(d)
      PROVE conn'[c] = "accepted"
  BY <1>2 DEF Accept, Connect, GiveUp, TypeOK
<1>3. CASE UNCHANGED conn
  BY <1>3
<1> QED
  BY <1>1, <1>2, <1>3 DEF Next, Turn, StartChild, Listen, Timeout, Receive, NothingToReceive,
    Terminate, Send, ChildExits, vars

LEMMA LoopStep == SpringboardInv /\ [Next]_vars => (LoopInv /\ SignalledOnRequest /\ ChildNotLeft)'
<1> SUFFICES ASSUME SpringboardInv, [Next]_vars
             PROVE LoopInv' /\ SignalledOnRequest' /\ ChildNotLeft'
  OBVIOUS
<1>0. Connected => Connected'
  BY AcceptedStays DEF SpringboardInv
<1>1. TypeOK /\ LoopInv /\ SignalledOnRequest /\ ChildNotLeft
  BY DEF SpringboardInv
<1>2. SignalledOnRequest' <=> (child' = "signalled" => Connected')
  BY DEF SignalledOnRequest, Connected
<1>3. SignalledOnRequest <=> (child = "signalled" => Connected)
  BY DEF SignalledOnRequest, Connected
<1> USE <1>0, <1>1, <1>2, <1>3 DEF LoopInv, ChildNotLeft, TypeOK, main
<1>4. CASE StartChild \/ Listen \/ Timeout \/ Close
  BY <1>4 DEF StartChild, Listen, Timeout, Close
<1>5. CASE Receive \/ NothingToReceive \/ Terminate
  BY <1>5 DEF Receive, NothingToReceive, Terminate
<1>6. CASE StartFails \/ ListenFails \/ AcceptFails
  BY <1>6 DEF StartFails, ListenFails, AcceptFails, Fatal
<1>7. ASSUME NEW c \in Clients, Accept(c)
      PROVE LoopInv' /\ SignalledOnRequest' /\ ChildNotLeft'
  <2>1. Connected'
    BY <1>7 DEF Accept, Connected
  <2> QED
    BY <1>7, <2>1 DEF Accept
<1>8. ASSUME NEW c \in Clients, Connect(c) \/ GiveUp(c)
      PROVE LoopInv' /\ SignalledOnRequest' /\ ChildNotLeft'
  BY <1>8 DEF Connect, GiveUp
<1>9. CASE Send \/ ChildExits
  BY <1>9 DEF Send, ChildExits
<1>10. CASE UNCHANGED vars
  BY <1>10 DEF vars
<1> QED
  BY <1>4, <1>5, <1>6, <1>7, <1>8, <1>9, <1>10 DEF Next, Turn

LEMMA SpringboardInvariant == Spec => []SpringboardInv
<1>1. SpringboardInv /\ [Next]_vars => SpringboardInv'
  BY TypeStep, LoopStep DEF SpringboardInv
<1> QED
  BY SpringboardInit, <1>1, PTL DEF Spec

(* The variables keep their types; the socket is open during a turn only.  *)
THEOREM TypeCorrect == Spec => []TypeOK
<1>1. SpringboardInv => TypeOK
  BY DEF SpringboardInv
<1> QED
  BY SpringboardInvariant, <1>1, PTL

(* A turn of two seconds that ends without a connection never ends the     *)
(* child, however many turns and clients there are.                        *)
THEOREM OnRequestOnly == Spec => []SignalledOnRequest
<1>1. SpringboardInv => SignalledOnRequest
  BY DEF SpringboardInv
<1> QED
  BY SpringboardInvariant, <1>1, PTL

(* main() comes to its end only with the child told to end, or gone; it    *)
(* does not wait for the one it has told.                                  *)
THEOREM NoChildLeft == Spec => []ChildNotLeft
<1>1. SpringboardInv => ChildNotLeft
  BY DEF SpringboardInv
<1> QED
  BY SpringboardInvariant, <1>1, PTL
=============================================================================
