-------------------------------- MODULE Dns ----------------------------------
(* The DNS records of a space, or of the endpoints of an app: UpdateRecord *)
(* (src/pkg/dns/dns.go), retried with exponential back-off by updateDns    *)
(* (src/pkg/space/space.go), and called once for each endpoint by          *)
(* configureDNS (src/pkg/app/app.go), within the handler of one event.     *)
EXTENDS Integers

CONSTANTS
  Records,          \* the number of records an app may ask for
  Addrs,            \* addresses of the TCP ingress
  None,             \* no record, no address
  InitialInterval,  \* of DefaultBackoff, in seconds
  MaxInterval,
  MaxElapsedTime,
  MaxDuration,      \* bound: what a failed attempt takes, its post to Slack
                    \* included; the code sets no timeout on either
  Durations         \* what a failed attempt may take, in seconds

ASSUME ConstantsAssumption ==
  /\ Records \in Nat \ {0}
  /\ None \notin Addrs
  /\ InitialInterval \in Nat \ {0}
  /\ MaxInterval \in Nat /\ MaxInterval >= InitialInterval
  /\ MaxElapsedTime \in Nat
  /\ MaxDuration \in Nat
  /\ Durations \subseteq 0..MaxDuration

VARIABLES
  owner,     \* "space" or "app"
  enabled,   \* there is a DNS provider
  wanted,    \* the endpoints with CreateDnsRecord; a space wants its one record
  hooked,    \* a space's updates are posted to Slack: there is a webhook
  phase,     \* of the owner, as its handler leaves it
  addr,      \* the ingress's address
  records,   \* the zone
  pc,        \* the handler
  at,        \* the turn of configureDNS's loop
  value,     \* ipOrHostname
  seen,      \* rrSetList
  elapsed,   \* since the first attempt
  interval   \* the back-off's currentInterval

config == <<owner, enabled, wanted, hooked>>
backoff == <<elapsed, interval>>
vars == <<owner, enabled, wanted, hooked, phase, addr, records, pc, at, value, seen,
          elapsed, interval>>

Deleting == phase = "deleting"

Init ==
  /\ owner \in {"space", "app"}
  /\ enabled \in BOOLEAN
  /\ wanted \in SUBSET (1..Records)
  /\ owner = "space" => wanted = {1}
  /\ hooked \in BOOLEAN
  /\ owner = "app" => ~hooked
  /\ phase = "none"
  /\ addr \in Addrs \cup {None}
  /\ records = [r \in 1..Records |-> None]
  /\ pc = "idle"
  /\ at = 1
  /\ value = None
  /\ seen = None
  /\ elapsed = 0
  /\ interval = InitialInterval

-----------------------------------------------------------------------------
(* The handler begins and ends.                                            *)

Begin(from, to) ==
  /\ pc = "idle"
  /\ phase \in from
  /\ phase' = to
  /\ pc' = "next"
  /\ at' = 1
  /\ elapsed' = 0
  /\ interval' = InitialInterval
  /\ UNCHANGED <<config, addr, records, value, seen>>

BeginCreate == Begin({"none"}, "creating")

(* Delete() is called for a failed owner too. *)
BeginDelete == Begin({"active", "failed"}, "deleting")

Return(ok) ==
  /\ pc' = "idle"
  /\ phase' = CASE Deleting /\ ok -> "gone"
                [] Deleting /\ ~ok -> "leaked"
                [] ~Deleting /\ ok -> "active"
                [] OTHER -> "failed"
  /\ UNCHANGED <<config, addr, records, at, value, seen, backoff>>

(* A space skips the update without a provider. *)
Unneeded == owner = "space" /\ ~enabled

MutAllDone_OneLess == Unneeded \/ at >= Records

(* The last endpoint is done, or a space's one record. *)
AllDone == Unneeded \/ at > (IF owner = "space" THEN 1 ELSE Records)

Finish ==
  /\ pc = "next" /\ AllDone
  /\ Return(TRUE)

SkipEndpoint ==
  /\ pc = "next" /\ ~AllDone /\ at \notin wanted
  /\ at' = at + 1
  /\ UNCHANGED <<config, phase, addr, records, pc, value, seen, backoff>>

(* GetTcpIngressIpOrHostname: once for a space, whatever happens to the    *)
(* address during the retries. *)
ReadAddress ==
  /\ pc = "next" /\ ~AllDone /\ at \in wanted /\ enabled
  /\ addr # None
  /\ value' = addr
  /\ pc' = "lookup"
  /\ UNCHANGED <<config, phase, addr, records, at, seen, backoff>>

(* The k8sniff service has no address, or the request fails.               *)
NoAddress ==
  /\ pc = "next" /\ ~AllDone /\ at \in wanted /\ enabled
  /\ Return(FALSE)

(* An endpoint asks for a record where there is no provider.               *)
NoProvider ==
  /\ pc = "next" /\ ~AllDone /\ at \in wanted /\ ~enabled
  /\ Return(FALSE)

-----------------------------------------------------------------------------
(* UpdateRecord. Every request may stay without an answer.                 *)

(* A success at a second attempt, or a later one, is posted first.         *)
Succeeded ==
  IF hooked /\ elapsed > 0
  THEN pc' = "succeeded" /\ at' = at
  ELSE pc' = "next" /\ at' = at + 1

PostSuccess ==
  /\ pc = "succeeded"
  /\ pc' = "next"
  /\ at' = at + 1
  /\ UNCHANGED <<config, phase, addr, records, value, seen, backoff>>

(* Listing the zones, finding the one of the domain, looking up the name. *)
Lookup ==
  /\ pc = "lookup"
  /\ seen' = records[at]
  /\ pc' = "apply"
  /\ UNCHANGED <<config, phase, addr, records, at, value, backoff>>

NothingToDelete ==
  /\ pc = "apply" /\ Deleting /\ seen = None
  /\ Succeeded
  /\ UNCHANGED <<config, phase, addr, records, value, seen, backoff>>

(* The change set, which removes what was seen, is applied as a whole. *)
Changed ==
  records' = [records EXCEPT ![at] = IF Deleting THEN None ELSE value]

Apply ==
  /\ pc = "apply" /\ ~(Deleting /\ seen = None)
  /\ Changed
  /\ Succeeded
  /\ UNCHANGED <<config, phase, addr, value, seen, backoff>>

MutRequestFails_TakenForNone ==
  /\ pc = "lookup"
  /\ seen' = None
  /\ pc' = "apply"
  /\ UNCHANGED <<config, phase, addr, records, at, value, backoff>>

RequestFails ==
  /\ pc \in {"lookup", "apply"}
  /\ ~(pc = "apply" /\ Deleting /\ seen = None)
  /\ pc' = "failed"
  /\ UNCHANGED <<config, phase, addr, records, at, value, seen, backoff>>

(* The changes are made, but the answer is an error. *)
AnswerLost ==
  /\ pc = "apply" /\ ~(Deleting /\ seen = None)
  /\ Changed
  /\ pc' = "failed"
  /\ UNCHANGED <<config, phase, addr, at, value, seen, backoff>>

(* An app's records are tried once. A space's are tried until the time is  *)
(* over; NextBackOff checks it after an attempt, not before the wait. *)
GivesUp(e) == owner = "app" \/ e > MaxElapsedTime

(* The failure is posted, where there is a webhook, within the attempt.    *)
EndAttempt ==
  /\ pc = "failed"
  /\ \E d \in Durations :
       /\ elapsed' = elapsed + d
       /\ IF GivesUp(elapsed + d)
          THEN pc' = "idle" /\ phase' = IF Deleting THEN "leaked" ELSE "failed"
          ELSE pc' = "wait" /\ phase' = phase
  /\ UNCHANGED <<config, addr, records, at, value, seen, interval>>

MutIncreased_NoCap(n) == 2 * n

Increased(n) == IF 2 * n > MaxInterval THEN MaxInterval ELSE 2 * n

MutWait_Resets ==
  /\ pc = "wait"
  /\ elapsed' = 0
  /\ interval' = InitialInterval
  /\ pc' = "lookup"
  /\ UNCHANGED <<config, phase, addr, records, at, value, seen>>

Wait ==
  /\ pc = "wait"
  /\ elapsed' = elapsed + interval
  /\ interval' = Increased(interval)
  /\ pc' = "lookup"
  /\ UNCHANGED <<config, phase, addr, records, at, value, seen>>

-----------------------------------------------------------------------------
(* The surroundings.                                                       *)

(* The operator dies: a creation is found unfinished and recorded as       *)
(* failed, a deletion is forgotten. *)
Crash ==
  /\ pc # "idle"
  /\ pc' = "idle"
  /\ phase' = IF Deleting THEN "leaked" ELSE "failed"
  /\ UNCHANGED <<config, addr, records, at, value, seen, backoff>>

AddressChanges ==
  /\ addr' \in (Addrs \cup {None}) \ {addr}
  /\ UNCHANGED <<config, phase, records, pc, at, value, seen, backoff>>

(* An owner of the same name, over what the last one left. *)
Recreate ==
  /\ pc = "idle" /\ phase \in {"gone", "leaked"}
  /\ phase' = "none"
  /\ UNCHANGED <<config, addr, records, pc, at, value, seen, backoff>>

-----------------------------------------------------------------------------

Handler ==
  \/ Finish \/ SkipEndpoint \/ ReadAddress \/ NoAddress \/ NoProvider
  \/ Lookup \/ NothingToDelete \/ Apply \/ RequestFails \/ AnswerLost
  \/ EndAttempt \/ PostSuccess \/ Wait

Next ==
  \/ BeginCreate \/ BeginDelete
  \/ Handler
  \/ Crash \/ AddressChanges \/ Recreate

Spec == Init /\ [][Next]_vars

(* The handler goes on where it waits for nobody. The answer to a request  *)
(* is nobody's promise: neither the provider's calls nor slack.go's post   *)
(* have a timeout.                                                         *)
Local ==
  \/ Finish \/ SkipEndpoint \/ NoProvider \/ NothingToDelete \/ Wait
  \/ ~hooked /\ EndAttempt

FairSpec == Spec /\ WF_vars(Local)

-----------------------------------------------------------------------------
(* Properties.                                                             *)

(* Types of the variables. *)
TypeOK ==
  /\ owner \in {"space", "app"} /\ enabled \in BOOLEAN
  /\ wanted \subseteq 1..Records /\ hooked \in BOOLEAN
  /\ phase \in {"none", "creating", "active", "failed", "deleting", "gone", "leaked"}
  /\ addr \in Addrs \cup {None}
  /\ records \in [1..Records -> Addrs \cup {None}]
  /\ pc \in {"idle", "next", "lookup", "apply", "failed", "wait", "succeeded"}
  /\ at \in 1..(Records + 1)
  /\ value \in Addrs \cup {None} /\ seen \in Addrs \cup {None}
  /\ elapsed \in Nat
  /\ interval \in InitialInterval..MaxInterval

(* Failed attempts and the waits between them hold up the handler, and     *)
(* every other space with it, for one interval and one attempt more than   *)
(* MaxElapsedTime at the most: the interval is capped, and no wait begins  *)
(* after that time. The bound is relative to what an attempt takes, which  *)
(* nothing in the code limits, and leaves out an attempt that succeeds.    *)
HoldUpIsBounded == elapsed <= MaxElapsedTime + MaxInterval + MaxDuration

(* An owner that is Active has a record for every endpoint that asks for   *)
(* one, whatever failed before and whatever an earlier owner left.         *)
(* (configureDNS returns at the first error.) *)
ActiveHasRecords ==
  phase = "active" /\ ~Unneeded => \A r \in wanted : records[r] # None

(* A deletion without an error leaves no record, also of an owner whose    *)
(* creation had failed halfway or lost an answer. *)
GoneHasNoRecords ==
  phase = "gone" /\ ~Unneeded => \A r \in wanted : records[r] = None

(* Where the handler waits for an answer.                                  *)
Requests == {"address", "lookup", "apply", "failed", "succeeded"}

Awaits(request) ==
  CASE request = "address" -> pc = "next" /\ ~AllDone /\ at \in wanted /\ enabled
    [] request = "apply" -> pc = "apply" /\ ~(Deleting /\ seen = None)
    [] request = "failed" -> pc = "failed" /\ hooked
    [] OTHER -> pc = request

(* The retries come to an end, however the attempts fail and whatever they *)
(* take: the handler returns, unless one request stays without an answer   *)
(* for ever, and then no other space is served (no timeout is set). *)
ReturnsOrHangs ==
  []<>(pc = "idle") \/ \E request \in Requests : <>[]Awaits(request)
=============================================================================
