---------------------------- MODULE PlatformClient ----------------------------
(***************************************************************************)
(* The calls that one replica makes to the platform agent:                 *)
(* _bounded_platform_request (main.py) and _platform_request with its      *)
(* PlatformCircuitBreaker (platform_client.py), together with the          *)
(* readiness check that looks at the breaker and decides whether requests  *)
(* are routed to the replica at all.                                       *)
(*                                                                         *)
(* All calls share one event loop: what happens between two awaits is one  *)
(* step.  A call awaits a permit of the semaphore, the platform's answer,  *)
(* and the pause before a retry.                                           *)
(***************************************************************************)
EXTENDS Naturals, FiniteSets

CONSTANTS
  Calls,       \* calls that can be in progress at once
  Background,  \* those of them that the terminal reconciler makes
  Threshold,   \* PLATFORM_CIRCUIT_FAILURE_THRESHOLD
  MaxAttempts, \* PLATFORM_REQUEST_MAX_ATTEMPTS
  Permits,     \* MAX_CONCURRENT_PLATFORM_REQUESTS
  MaxEscapes   \* bound: calls that end with neither success nor failure recorded

ASSUME CallsAssumption == IsFiniteSet(Calls) /\ Background \subseteq Calls
ASSUME LimitsAssumption ==
  /\ Threshold \in Nat \ {0} /\ MaxAttempts \in Nat \ {0}
  /\ Permits \in Nat \ {0} /\ MaxEscapes \in Nat

VARIABLES
  failures,  \* _failure_count, counted up to Threshold
  opened,    \* _opened_at: "no" (None), "recent", or "over" the recovery time
  probing,   \* _probe_in_flight
  permits,   \* the value of _platform_request_semaphore
  call,      \* where each call is
  ready,     \* the latest answer of the readiness check
  healthy,   \* does the platform answer every request as it should?
  escapes,   \* calls that ended with nothing recorded, so far
  admitted   \* history: calls admitted since the circuit was last (re)opened

breaker == <<failures, opened, probing, admitted>>
vars == <<failures, opened, probing, permits, call, ready, healthy, escapes, admitted>>

Quiet == [pc |-> "idle", method |-> "GET", attempt |-> 0, fate |-> "none"]

Init ==
  /\ failures = 0 /\ opened = "no" /\ probing = FALSE /\ admitted = 0
  /\ permits = Permits
  /\ call = [c \in Calls |-> Quiet]
  /\ ready = TRUE /\ healthy = TRUE
  /\ escapes = 0

Goes(c, r) == call' = [call EXCEPT ![c] = r]

Queued   == {c \in Calls : call[c].pc = "queued"}
InFlight == {c \in Calls : call[c].pc \in {"sending", "backoff"}}

-----------------------------------------------------------------------------
(* The circuit breaker.                                                      *)

BeforeRequestRefuses == opened = "recent" \/ (opened = "over" /\ probing)

BeforeRequestAdmits ==
  /\ ~BeforeRequestRefuses
  /\ probing' = (probing \/ opened # "no")
  /\ admitted' = IF opened = "no" THEN admitted ELSE admitted + 1
  /\ UNCHANGED <<failures, opened>>

(* Mutant of RecordSuccess: the flag of the probe is not reset. *)
ForgetfulSuccess ==
  /\ failures' = 0 /\ opened' = "no" /\ admitted' = 0
  /\ UNCHANGED probing

RecordSuccess == failures' = 0 /\ opened' = "no" /\ probing' = FALSE /\ admitted' = 0

(* Mutant of RecordFailure: the time of an open circuit is left as it is. *)
LenientFailure ==
  LET n == IF failures < Threshold THEN failures + 1 ELSE Threshold IN
  /\ failures' = n
  /\ probing' = FALSE
  /\ opened' = IF n = Threshold /\ opened = "no" THEN "recent" ELSE opened
  /\ admitted' = IF n = Threshold /\ opened = "no" THEN 0 ELSE admitted

(* At the threshold the circuit opens, or the recovery time starts again. *)
RecordFailure ==
  LET n == IF failures < Threshold THEN failures + 1 ELSE Threshold IN
  /\ failures' = n
  /\ probing' = FALSE
  /\ opened' = IF n = Threshold THEN "recent" ELSE opened
  /\ admitted' = IF n = Threshold THEN 0 ELSE admitted

-----------------------------------------------------------------------------
(* _bounded_platform_request and _platform_request.                          *)

(* What becomes of one HTTP request: a success; a failure that may be        *)
(* retried; an error status that raise_for_status raises for; or an end that *)
(* the except clause does not list, a cancelled call, a protocol error or an *)
(* oversized response.                                                       *)
Fates == (IF healthy THEN {"ok"} ELSE {"ok", "failed", "rejected"})
         \cup (IF escapes < MaxEscapes THEN {"escaped"} ELSE {})

Send(c, m, n) ==
  \E f \in Fates :
    /\ Goes(c, [pc |-> "sending", method |-> m, attempt |-> n, fate |-> f])
    /\ escapes' = IF f = "escaped" THEN escapes + 1 ELSE escapes

(* The permit is held: the breaker refuses, and the permit goes back, or the *)
(* request is sent.                                                          *)
Enter(c, m) ==
  \/ /\ BeforeRequestRefuses
     /\ Goes(c, Quiet)
     /\ UNCHANGED <<breaker, permits, escapes>>
  \/ /\ BeforeRequestAdmits
     /\ permits' = permits - 1
     /\ Send(c, m, 0)

(* Requests reach a ready replica only; the reconciler's polls are its own. *)
Arrive(c, m) ==
  /\ call[c].pc = "idle"
  /\ IF c \in Background THEN m = "GET" ELSE ready
  /\ IF permits > 0 /\ Queued = {}
     THEN Enter(c, m)
     ELSE /\ Goes(c, [pc |-> "queued", method |-> m, attempt |-> 0, fate |-> "none"])
          /\ UNCHANGED <<breaker, permits, escapes>>
  /\ UNCHANGED <<ready, healthy>>

Grant(c) ==
  /\ c \in Queued /\ permits > 0
  /\ Enter(c, call[c].method)
  /\ UNCHANGED <<ready, healthy>>

(* Mutant of QueueTimeout: the permit that was never acquired is released. *)
ReleasingQueueTimeout(c) ==
  /\ c \in Queued
  /\ Goes(c, Quiet)
  /\ permits' = permits + 1
  /\ UNCHANGED <<breaker, ready, healthy, escapes>>

QueueTimeout(c) ==
  /\ c \in Queued
  /\ Goes(c, Quiet)
  /\ UNCHANGED <<breaker, permits, ready, healthy, escapes>>

Answered(c, fates) == call[c].pc = "sending" /\ call[c].fate \in fates

(* Mutant of Retryable: one attempt too many. *)
LaxRetryable(c) == call[c].method = "GET" /\ call[c].attempt < MaxAttempts

Retryable(c) == call[c].method = "GET" /\ call[c].attempt + 1 < MaxAttempts

(* The call returns or raises, and the permit goes back. *)
Leave(c) ==
  /\ Goes(c, Quiet)
  /\ permits' = permits + 1
  /\ UNCHANGED <<ready, healthy, escapes>>

Succeed(c) == Answered(c, {"ok"}) /\ RecordSuccess /\ Leave(c)

Pause(c) ==
  /\ Answered(c, {"failed", "rejected"}) /\ Retryable(c)
  /\ Goes(c, [call[c] EXCEPT !.pc = "backoff", !.fate = "none"])
  /\ UNCHANGED <<breaker, permits, ready, healthy, escapes>>

(* Mutant of SendAgain: the attempt is not counted. *)
SendForever(c) ==
  /\ call[c].pc = "backoff"
  /\ Send(c, call[c].method, call[c].attempt)
  /\ UNCHANGED <<breaker, permits, ready, healthy>>

(* A retry does not ask the breaker again. *)
SendAgain(c) ==
  /\ call[c].pc = "backoff"
  /\ Send(c, call[c].method, call[c].attempt + 1)
  /\ UNCHANGED <<breaker, permits, ready, healthy>>

Exhaust(c) ==
  /\ Answered(c, {"failed", "rejected"}) /\ ~Retryable(c)
  /\ RecordFailure /\ Leave(c)

(* Mutant of Escape: an exception out of _platform_request keeps the permit. *)
GreedyEscape(c) ==
  /\ Answered(c, {"escaped"})
  /\ Goes(c, Quiet)
  /\ UNCHANGED <<breaker, permits, ready, healthy, escapes>>

(* Neither record_success nor record_failure is called. *)
Escape(c) == Answered(c, {"escaped"}) /\ Leave(c) /\ UNCHANGED breaker

-----------------------------------------------------------------------------
(* Around the calls.                                                         *)

RecoveryTimePasses ==
  /\ opened = "recent" /\ opened' = "over"
  /\ UNCHANGED <<failures, probing, admitted, permits, call, ready, healthy, escapes>>

(* The platform's part of the readiness check, is_available. *)
CheckReadiness ==
  /\ ready' = (opened = "no" /\ ~probing)
  /\ UNCHANGED <<breaker, permits, call, healthy, escapes>>

(* The platform fails or recovers. *)
PlatformTurns ==
  /\ healthy' = ~healthy
  /\ UNCHANGED <<breaker, permits, call, ready, escapes>>

CallStep(c) == \/ Grant(c) \/ QueueTimeout(c) \/ Succeed(c) \/ Pause(c) \/ SendAgain(c)
               \/ Exhaust(c) \/ Escape(c)

Next ==
  \/ \E c \in Calls : CallStep(c) \/ \E m \in {"GET", "POST"} : Arrive(c, m)
  \/ RecoveryTimePasses \/ CheckReadiness \/ PlatformTurns

Spec == Init /\ [][Next]_vars

(* Every request and every wait has a timeout, the reconciler polls again    *)
(* and again, and so does the readiness probe of the container platform.     *)
Fairness ==
  /\ \A c \in Calls : WF_vars(CallStep(c))
  /\ \A c \in Background : WF_vars(Arrive(c, "GET"))
  /\ WF_vars(RecoveryTimePasses) /\ WF_vars(CheckReadiness)

FairSpec == Spec /\ Fairness

-----------------------------------------------------------------------------
(* Properties.                                                               *)

Call == [pc : {"idle", "queued", "sending", "backoff"}, method : {"GET", "POST"},
         attempt : 0..MaxAttempts, fate : {"none", "ok", "failed", "rejected", "escaped"}]

TypeOK ==
  /\ failures \in 0..Threshold
  /\ opened \in {"no", "recent", "over"}
  /\ probing \in BOOLEAN
  /\ permits \in 0..Permits
  /\ call \in [Calls -> Call]
  /\ ready \in BOOLEAN /\ healthy \in BOOLEAN
  /\ escapes \in 0..MaxEscapes
  /\ admitted \in Nat

(* Every permit is free or held by a call in flight: no way out of a call,   *)
(* refused, timed out, answered or escaped, loses one or returns it twice.   *)
PermitsKept == permits + Cardinality(InFlight) = Permits

(* main.bicep:208, an open circuit "waits before allowing one recovery       *)
(* probe": however late the calls from before it opened come back, at most   *)
(* one call is admitted from one opening of the circuit to the next.         *)
OneProbe == opened # "no" => admitted <= 1

(* A call ends, whatever the platform and the other calls do. *)
CallEnds == \A c \in Calls : call[c].pc # "idle" ~> call[c].pc = "idle"

(* plan.md:557: "Recovery restores readiness without restart." *)
ReadyAgain == <>[]healthy => <>[]ready

(* Where the reconciler polls, the replica becomes ready again once the      *)
(* platform stays healthy, unless the flag of a probe that is over stays set *)
(* for ever.                                                                 *)
ReadyUnlessProbeLost ==
  <>[]healthy /\ []<>(probing => InFlight # {}) => <>[]ready
=============================================================================
