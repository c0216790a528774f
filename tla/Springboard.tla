----------------------------- MODULE Springboard -----------------------------
(* springboard (src/cmd/springboard/springboard.go): starts a child,       *)
(* waits for a connection to its port in turns of two seconds, and then    *)
(* terminates the child. A goroutine waits for the child to exit. The      *)
(* kernel completes connections to an open socket before they are          *)
(* accepted, and resets them when it is closed.                            *)
CONSTANTS
  Clients   \* those who connect to the port, perhaps again if the connection is lost

VARIABLES
  pc,           \* main()
  child,        \* the child process
  waiter,       \* the goroutine that waits for it, and then sends on cancel
  open,         \* the listening socket exists
  conn,         \* the connection of each client
  keepLooping,  \* as the turn left it
  childExited

vars == <<pc, child, waiter, open, conn, keepLooping, childExited>>
main == <<keepLooping, childExited>>

Init ==
  /\ pc = "delay"
  /\ child = "none"
  /\ waiter = "none"
  /\ open = FALSE
  /\ conn = [c \in Clients |-> "none"]
  /\ keepLooping = TRUE
  /\ childExited = FALSE

Ended == pc \in {"exited", "fatal"}

(* The connections a closed socket leaves behind. *)
Dropped == [c \in Clients |-> IF conn[c] = "pending" THEN "lost" ELSE conn[c]]

Fatal ==
  /\ pc' = "fatal"
  /\ open' = FALSE
  /\ conn' = Dropped
  /\ UNCHANGED <<child, waiter, keepLooping, childExited>>

-----------------------------------------------------------------------------
(* main().                                                                 *)

(* After the delay. *)
StartChild ==
  /\ pc = "delay"
  /\ pc' = "listen"
  /\ child' = "running"
  /\ waiter' = "waiting"
  /\ UNCHANGED <<open, conn, main>>

StartFails == pc = "delay" /\ Fatal

Listen ==
  /\ pc = "listen"
  /\ pc' = "accept"
  /\ open' = TRUE
  /\ UNCHANGED <<child, waiter, conn, main>>

ListenFails == pc = "listen" /\ Fatal

MutAccept_Again(c) ==
  /\ pc = "accept" /\ conn[c] = "pending"
  /\ pc' = "close"
  /\ conn' = [conn EXCEPT ![c] = "accepted"]
  /\ UNCHANGED <<child, waiter, open, main>>

Accept(c) ==
  /\ pc = "accept" /\ conn[c] = "pending"
  /\ pc' = "close"
  /\ conn' = [conn EXCEPT ![c] = "accepted"]
  /\ keepLooping' = FALSE
  /\ UNCHANGED <<child, waiter, open, childExited>>

MutTimeout_Ends ==
  /\ pc = "accept"
  /\ pc' = "close"
  /\ keepLooping' = FALSE
  /\ UNCHANGED <<child, waiter, open, conn, childExited>>

(* The deadline passes, perhaps with connections the kernel has completed. *)
Timeout ==
  /\ pc = "accept"
  /\ pc' = "close"
  /\ UNCHANGED <<child, waiter, open, conn, main>>

AcceptFails == pc = "accept" /\ Fatal

(* The deferred ln.Close(). *)
Close ==
  /\ pc = "close"
  /\ pc' = "select"
  /\ open' = FALSE
  /\ conn' = Dropped
  /\ UNCHANGED <<child, waiter, main>>

MutReceive_KeepsLooping ==
  /\ pc = "select" /\ waiter = "sending"
  /\ waiter' = "done"
  /\ childExited' = TRUE
  /\ pc' = IF keepLooping THEN "listen" ELSE "end"
  /\ UNCHANGED <<child, open, conn, keepLooping>>

Receive ==
  /\ pc = "select" /\ waiter = "sending"
  /\ waiter' = "done"
  /\ childExited' = TRUE
  /\ keepLooping' = FALSE
  /\ pc' = "end"
  /\ UNCHANGED <<child, open, conn>>

(* The default of the select. *)
NothingToReceive ==
  /\ pc = "select" /\ waiter # "sending"
  /\ pc' = IF keepLooping THEN "listen" ELSE "end"
  /\ UNCHANGED <<child, waiter, open, conn, main>>

MutTerminate_IfExited ==
  /\ pc = "end"
  /\ pc' = "exited"
  /\ child' = IF childExited /\ child = "running" THEN "signalled" ELSE child
  /\ UNCHANGED <<waiter, open, conn, main>>

(* The signal goes nowhere if the child has exited meanwhile. *)
Terminate ==
  /\ pc = "end"
  /\ pc' = "exited"
  /\ child' = IF ~childExited /\ child = "running" THEN "signalled" ELSE child
  /\ UNCHANGED <<waiter, open, conn, main>>

-----------------------------------------------------------------------------
(* The goroutine, the child and the clients.                               *)

Send ==
  /\ waiter = "waiting" /\ child = "exited" /\ ~Ended
  /\ waiter' = "sending"
  /\ UNCHANGED <<pc, child, open, conn, main>>

ChildExits ==
  /\ child \in {"running", "signalled"}
  /\ child' = "exited"
  /\ UNCHANGED <<pc, waiter, open, conn, main>>

(* A connection to no socket is refused: nothing comes of it. *)
Connect(c) ==
  /\ conn[c] \in {"none", "lost"} /\ open
  /\ conn' = [conn EXCEPT ![c] = "pending"]
  /\ UNCHANGED <<pc, child, waiter, open, main>>

GiveUp(c) ==
  /\ conn[c] \in {"none", "lost"}
  /\ conn' = [conn EXCEPT ![c] = "gone"]
  /\ UNCHANGED <<pc, child, waiter, open, main>>

-----------------------------------------------------------------------------

Turn ==
  \/ StartChild \/ Listen \/ Timeout \/ Close \/ Receive \/ NothingToReceive \/ Terminate

Next ==
  \/ Turn
  \/ StartFails \/ ListenFails \/ AcceptFails
  \/ \E c \in Clients : Accept(c) \/ Connect(c) \/ GiveUp(c)
  \/ Send \/ ChildExits

Spec == Init /\ [][Next]_vars

(* The two processes run, and a turn lasts two seconds at most (weak       *)
(* fairness). A connection that waits in turn after turn is accepted in    *)
(* one of them: accepting takes far less than a turn (strong). A client    *)
(* that finds no socket, or loses its connection, tries again, and not     *)
(* always in the instant between a deadline and the closing (strong: the   *)
(* socket comes and goes). *)
Fairness ==
  /\ WF_vars(Turn)
  /\ WF_vars(Send)
  /\ \A c \in Clients : SF_vars(Accept(c)) /\ SF_vars(pc = "accept" /\ Connect(c))

FairSpec == Spec /\ Fairness

-----------------------------------------------------------------------------
(* Properties.                                                             *)

(* Types of the variables; the socket is open during a turn only. *)
TypeOK ==
  /\ pc \in {"delay", "listen", "accept", "close", "select", "end", "exited", "fatal"}
  /\ child \in {"none", "running", "signalled", "exited"}
  /\ waiter \in {"none", "waiting", "sending", "done"}
  /\ conn \in [Clients -> {"none", "pending", "lost", "accepted", "gone"}]
  /\ keepLooping \in BOOLEAN /\ childExited \in BOOLEAN
  /\ open \in BOOLEAN /\ (open <=> pc \in {"accept", "close"})

(* The child is told to end only when somebody has connected: a turn that  *)
(* times out is followed by another. *)
SignalledOnRequest ==
  child = "signalled" => \E c \in Clients : conn[c] = "accepted"

(* springboard does not end of its own accord and leave a child that runs  *)
(* on untold, whichever of the connection and the child's exit comes first *)
(* (SIGTERM is sent where childExited is not set). It does not wait for    *)
(* the child it has told to end; an error of the socket ends it at once,   *)
(* and does leave the child. *)
ChildNotLeft == pc = "exited" => child \in {"signalled", "exited"}

(* A child that exits on its own takes springboard with it, also while     *)
(* nobody connects: the goroutine's message waits for the next select. *)
ChildExitEndsIt == child = "exited" ~> Ended

(* Who keeps connecting ends the child, though connections that come       *)
(* between the deadline and the closing of the socket are lost: "as soon   *)
(* as anyone connects to that port, terminate the child, then exit"        *)
(* (src/cmd/springboard/README.md). *)
ConnectionEndsIt ==
  \A c \in Clients :
    conn[c] \in {"pending", "accepted"} ~>
      child \in {"signalled", "exited"} \/ pc = "fatal" \/ conn[c] = "gone"
=============================================================================
