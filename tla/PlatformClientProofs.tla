------------------------- MODULE PlatformClientProofs -------------------------
(***************************************************************************)
(* ClientInv is an invariant of PlatformClient for any number of calls,    *)
(* permits, attempts and failures, and the safety properties follow.       *)
(***************************************************************************)
EXTENDS PlatformClientInvariants, FiniteSetTheorems, TLAPS

USE LimitsAssumption

LEMMA InFlightFinite == IsFiniteSet(InFlight) /\ Cardinality(InFlight) \in Nat
<1>1. InFlight \subseteq Calls
  BY DEF InFlight
<1>2. IsFiniteSet(InFlight)
  BY <1>1, CallsAssumption, FS_Subset
<1> QED
  BY <1>2, FS_CardinalityType

(* A call that is sent takes one place among the calls in flight. *)
LEMMA OneMore ==
  ASSUME NEW c \in Calls, call \in [Calls -> Call], c \notin InFlight,
         NEW r \in Call, Goes(c, r), r.pc \in {"sending", "backoff"}
  PROVE  Cardinality(InFlight') = Cardinality(InFlight) + 1
<1>1. InFlight' = InFlight \cup {c}
  BY DEF InFlight, Goes
<1> QED
  BY <1>1, InFlightFinite, FS_AddElement

(* A call that ends leaves the calls in flight, which were at least one. *)
LEMMA OneLess ==
  ASSUME NEW c \in Calls, call \in [Calls -> Call], c \in InFlight, Goes(c, Quiet)
  PROVE  /\ Cardinality(InFlight') = Cardinality(InFlight) - 1
         /\ Cardinality(InFlight) >= 1
<1>1. InFlight' = InFlight \ {c}
  BY DEF InFlight, Goes, Quiet
<1>2. Cardinality(InFlight \ {c}) = Cardinality(InFlight) - 1
  BY InFlightFinite, FS_RemoveElement
<1>3. IsFiniteSet(InFlight \ {c}) /\ Cardinality(InFlight \ {c}) \in Nat
  BY InFlightFinite, FS_RemoveElement, FS_CardinalityType
<1> QED
  BY <1>1, <1>2, <1>3, InFlightFinite

(* A call that moves on without changing sides does not change their number. *)
LEMMA SameMany ==
  ASSUME NEW c \in Calls, call \in [Calls -> Call], NEW r \in Call, Goes(c, r),
         c \in InFlight <=> r.pc \in {"sending", "backoff"}
  PROVE  InFlight' = InFlight
BY DEF InFlight, Goes

LEMMA QuietType == Quiet \in Call /\ Quiet.pc = "idle" /\ Quiet.attempt = 0
BY DEF Quiet, Call

(* The breaker's own steps keep its invariant. *)
LEMMA BreakerSteps ==
  ASSUME TypeOK, CircuitOK,
         BeforeRequestAdmits \/ RecordSuccess \/ RecordFailure \/ UNCHANGED breaker
  PROVE  /\ CircuitOK'
         /\ failures' \in 0..Threshold /\ opened' \in {"no", "recent", "over"}
         /\ probing' \in BOOLEAN /\ admitted' \in Nat
<1>1. CASE BeforeRequestAdmits
  <2>1. UNCHANGED <<failures, opened>> /\ probing' \in BOOLEAN
    BY <1>1 DEF BeforeRequestAdmits
  <2>2. CASE opened = "no"
    <3>1. ~probing /\ ~probing' /\ admitted = 0
      BY <1>1, <2>2 DEF BeforeRequestAdmits, CircuitOK
    <3>2. admitted' = 0
      BY <1>1, <2>2, <3>1 DEF BeforeRequestAdmits
    <3> QED
      BY <2>1, <2>2, <3>1, <3>2 DEF TypeOK, CircuitOK
  <2>3. CASE opened # "no"
    <3>1. opened = "over" /\ ~probing /\ probing'
      BY <1>1, <2>3 DEF BeforeRequestAdmits, BeforeRequestRefuses, TypeOK
    <3>2. ~(admitted > 0)
      BY <3>1 DEF CircuitOK
    <3>3. admitted' = 1
      BY <1>1, <2>3, <3>2 DEF BeforeRequestAdmits, TypeOK
    <3> QED
      BY <2>1, <2>3, <3>1, <3>3 DEF TypeOK, CircuitOK
  <2> QED
    BY <2>2, <2>3
<1>2. CASE RecordSuccess
  <2>1. failures' = 0 /\ opened' = "no" /\ admitted' = 0
    BY <1>2 DEF RecordSuccess
  <2>2. ~probing' /\ probing' \in BOOLEAN
    BY <1>2 DEF RecordSuccess
  <2> QED
    BY <2>1, <2>2 DEF CircuitOK
<1>3. CASE RecordFailure
  <2>1. ~probing' /\ probing' \in BOOLEAN
    BY <1>3 DEF RecordFailure
  <2>2. CASE failures' = Threshold
    <3>1. opened' = "recent" /\ admitted' = 0
      BY <1>3, <2>2 DEF RecordFailure
    <3> QED
      BY <2>1, <2>2, <3>1 DEF CircuitOK
  <2>3. CASE failures' # Threshold
    <3>1. opened' = opened /\ admitted' = admitted /\ failures < Threshold
          /\ failures' = failures + 1
      BY <1>3, <2>3 DEF RecordFailure, TypeOK
    <3>2. opened = "no" /\ admitted = 0
      BY <3>1 DEF CircuitOK, TypeOK
    <3> QED
      BY <2>1, <3>1, <3>2 DEF CircuitOK, TypeOK
  <2> QED
    BY <2>2, <2>3
<1>4. CASE UNCHANGED breaker
  BY <1>4 DEF breaker, TypeOK, CircuitOK
<1> QED
  BY <1>1, <1>2, <1>3, <1>4

(* Sending puts the call among those in flight, with an attempt allowed. *)
LEMMA Sending ==
  ASSUME ClientInv, NEW c \in Calls, NEW m \in {"GET", "POST"}, NEW n \in Nat,
         n < MaxAttempts, Send(c, m, n)
  PROVE  /\ \E r \in Call : Goes(c, r) /\ r.pc = "sending" /\ r.attempt = n
         /\ call' \in [Calls -> Call] /\ AttemptsOK'
         /\ escapes' \in 0..MaxEscapes
<1>1. PICK f \in Fates : /\ Goes(c, [pc |-> "sending", method |-> m, attempt |-> n, fate |-> f])
                         /\ escapes' = IF f = "escaped" THEN escapes + 1 ELSE escapes
  BY DEF Send
<1> DEFINE r == [pc |-> "sending", method |-> m, attempt |-> n, fate |-> f]
<1>2. r \in Call
  BY DEF Fates, Call
<1>3. call' \in [Calls -> Call]
  BY <1>1, <1>2 DEF Goes, ClientInv, TypeOK
<1>4. AttemptsOK'
  BY <1>1, <1>2 DEF Goes, ClientInv, TypeOK, AttemptsOK
<1>5. escapes' \in 0..MaxEscapes
  BY <1>1 DEF Fates, ClientInv, TypeOK
<1> QED
  BY <1>1, <1>2, <1>3, <1>4, <1>5

(* A refused or admitted call keeps everything in order. *)
LEMMA Entering ==
  ASSUME ClientInv, NEW c \in Calls, NEW m \in {"GET", "POST"}, c \notin InFlight,
         permits > 0, Enter(c, m), UNCHANGED <<ready, healthy>>
  PROVE  ClientInv'
<1>1. CASE /\ BeforeRequestRefuses /\ Goes(c, Quiet)
           /\ UNCHANGED <<breaker, permits, escapes>>
  <2>1. InFlight' = InFlight
    BY <1>1, SameMany, QuietType DEF ClientInv, TypeOK
  <2>2. AttemptsOK' /\ call' \in [Calls -> Call]
    BY <1>1, QuietType DEF Goes, ClientInv, TypeOK, AttemptsOK
  <2> QED
    BY <1>1, <2>1, <2>2, BreakerSteps DEF ClientInv, TypeOK, PermitsKept
<1>2. CASE BeforeRequestAdmits /\ permits' = permits - 1 /\ Send(c, m, 0)
  <2>1. /\ \E r \in Call : Goes(c, r) /\ r.pc = "sending"
        /\ call' \in [Calls -> Call] /\ AttemptsOK' /\ escapes' \in 0..MaxEscapes
    BY <1>2, Sending
  <2>2. Cardinality(InFlight') = Cardinality(InFlight) + 1
    BY <2>1, OneMore DEF ClientInv, TypeOK
  <2>3. PermitsKept' /\ permits' \in 0..Permits
    BY <1>2, <2>2, InFlightFinite DEF ClientInv, TypeOK, PermitsKept
  <2> QED
    BY <1>2, <2>1, <2>3, BreakerSteps DEF ClientInv, TypeOK
<1> QED
  BY <1>1, <1>2 DEF Enter

(* However a call in flight ends, its permit comes back. *)
LEMMA Leaving ==
  ASSUME ClientInv, NEW c \in Calls, c \in InFlight, Leave(c),
         RecordSuccess \/ RecordFailure \/ UNCHANGED breaker
  PROVE  ClientInv'
<1>1. /\ Cardinality(InFlight') = Cardinality(InFlight) - 1
      /\ Cardinality(InFlight) >= 1
  BY OneLess DEF Leave, ClientInv, TypeOK
<1>2. PermitsKept' /\ permits' \in 0..Permits
  BY <1>1, InFlightFinite DEF Leave, ClientInv, TypeOK, PermitsKept
<1>3. AttemptsOK' /\ call' \in [Calls -> Call]
  BY QuietType DEF Leave, Goes, ClientInv, TypeOK, AttemptsOK
<1> QED
  BY <1>2, <1>3, BreakerSteps DEF Leave, ClientInv, TypeOK

(* A call that only changes its own place. *)
LEMMA Moving ==
  ASSUME ClientInv, NEW c \in Calls, NEW r \in Call, Goes(c, r), r.attempt < MaxAttempts,
         c \in InFlight <=> r.pc \in {"sending", "backoff"},
         r.pc = "backoff" => r.attempt + 1 < MaxAttempts,
         escapes' \in 0..MaxEscapes, UNCHANGED <<breaker, permits, ready, healthy>>
  PROVE  ClientInv'
<1>1. InFlight' = InFlight
  BY SameMany DEF ClientInv, TypeOK
<1>2. AttemptsOK' /\ call' \in [Calls -> Call]
  BY DEF Goes, ClientInv, TypeOK, AttemptsOK
<1> QED
  BY <1>1, <1>2, BreakerSteps DEF ClientInv, TypeOK, PermitsKept

LEMMA InitInv == Init => ClientInv
<1> SUFFICES ASSUME Init PROVE ClientInv
  OBVIOUS
<1>1. InFlight = {}
  BY DEF Init, InFlight, Quiet
<1>2. PermitsKept
  BY <1>1, FS_EmptySet DEF Init, PermitsKept
<1>3. probing \in BOOLEAN /\ ready \in BOOLEAN /\ healthy \in BOOLEAN /\ ~probing
  BY DEF Init
<1>4. call \in [Calls -> Call] /\ AttemptsOK
  BY QuietType DEF Init, AttemptsOK
<1>5. failures = 0 /\ opened = "no" /\ admitted = 0 /\ permits = Permits /\ escapes = 0
  BY DEF Init
<1> QED
  BY <1>2, <1>3, <1>4, <1>5 DEF ClientInv, TypeOK, CircuitOK

LEMMA Inductive == ClientInv /\ [Next]_vars => ClientInv'
<1> SUFFICES ASSUME ClientInv, [Next]_vars PROVE ClientInv'
  OBVIOUS
<1>1. ASSUME NEW c \in Calls, NEW m \in {"GET", "POST"}, Arrive(c, m) PROVE ClientInv'
  <2>1. c \notin InFlight
    BY <1>1 DEF Arrive, InFlight
  <2>2. CASE permits > 0 /\ Queued = {}
    BY <1>1, <2>1, <2>2, Entering DEF Arrive
  <2>3. CASE ~(permits > 0 /\ Queued = {})
    <3> DEFINE r == [pc |-> "queued", method |-> m, attempt |-> 0, fate |-> "none"]
    <3>1. r \in Call /\ r.pc = "queued" /\ r.attempt = 0
      BY DEF Call
    <3>2. Goes(c, r) /\ UNCHANGED <<breaker, permits, ready, healthy, escapes>>
      BY <1>1, <2>3 DEF Arrive
    <3> HIDE DEF r
    <3>3. escapes' \in 0..MaxEscapes
      BY <3>2 DEF ClientInv, TypeOK
    <3> QED
      BY <2>1, <3>1, <3>2, <3>3, Moving
  <2> QED
    BY <2>2, <2>3
<1>2. ASSUME NEW c \in Calls, Grant(c) PROVE ClientInv'
  <2>1. c \notin InFlight /\ call[c].method \in {"GET", "POST"}
    BY <1>2 DEF Grant, Queued, InFlight, ClientInv, TypeOK, Call
  <2> QED
    BY <1>2, <2>1, Entering DEF Grant
<1>3. ASSUME NEW c \in Calls, QueueTimeout(c) PROVE ClientInv'
  <2>1. c \notin InFlight
    BY <1>3 DEF QueueTimeout, Queued, InFlight
  <2>2. escapes' \in 0..MaxEscapes
    BY <1>3 DEF QueueTimeout, ClientInv, TypeOK
  <2> QED
    BY <1>3, <2>1, <2>2, QuietType, Moving DEF QueueTimeout
<1>4. ASSUME NEW c \in Calls, Succeed(c) \/ Exhaust(c) \/ Escape(c) PROVE ClientInv'
  <2>1. c \in InFlight
    BY <1>4 DEF Succeed, Exhaust, Escape, Answered, InFlight
  <2> QED
    BY <1>4, <2>1, Leaving DEF Succeed, Exhaust, Escape
<1>5. ASSUME NEW c \in Calls, Pause(c) PROVE ClientInv'
  <2> DEFINE r == [call[c] EXCEPT !.pc = "backoff", !.fate = "none"]
  <2>1. c \in InFlight /\ call[c] \in Call
    BY <1>5 DEF Pause, Answered, InFlight, ClientInv, TypeOK
  <2>2. r \in Call /\ r.pc = "backoff" /\ r.attempt = call[c].attempt
    BY <2>1 DEF Call
  <2>3. r.attempt \in Nat /\ r.attempt + 1 < MaxAttempts
    BY <1>5, <2>1, <2>2 DEF Pause, Retryable, Call
  <2>4. Goes(c, r) /\ UNCHANGED <<breaker, permits, ready, healthy, escapes>>
    BY <1>5 DEF Pause
  <2> HIDE DEF r
  <2>5. escapes' \in 0..MaxEscapes
    BY <2>4 DEF ClientInv, TypeOK
  <2>6. r.attempt < MaxAttempts
    BY <2>3
  <2> QED
    BY <2>1, <2>2, <2>3, <2>4, <2>5, <2>6, Moving
<1>6. ASSUME NEW c \in Calls, SendAgain(c) PROVE ClientInv'
  <2> DEFINE n == call[c].attempt + 1
  <2>1. c \in InFlight /\ call[c].method \in {"GET", "POST"} /\ n \in Nat
    BY <1>6 DEF SendAgain, InFlight, ClientInv, TypeOK, Call
  <2>2. n < MaxAttempts
    BY <1>6 DEF SendAgain, ClientInv, AttemptsOK
  <2>3. /\ \E r \in Call : Goes(c, r) /\ r.pc = "sending" /\ r.attempt = n
        /\ escapes' \in 0..MaxEscapes
    BY <1>6, <2>1, <2>2, Sending DEF SendAgain
  <2>4. UNCHANGED <<breaker, permits, ready, healthy>>
    BY <1>6 DEF SendAgain
  <2> HIDE DEF n
  <2> QED
    BY <2>1, <2>2, <2>3, <2>4, Moving
<1>7. CASE RecoveryTimePasses
  <2>1. InFlight' = InFlight
    BY <1>7 DEF RecoveryTimePasses, InFlight
  <2> QED
    BY <1>7, <2>1 DEF RecoveryTimePasses, ClientInv, TypeOK, CircuitOK, AttemptsOK, PermitsKept
<1>8. CASE CheckReadiness \/ PlatformTurns
  <2>1. UNCHANGED <<failures, opened, probing, admitted, permits, call, escapes>>
    BY <1>8 DEF CheckReadiness, PlatformTurns, breaker
  <2>2. InFlight' = InFlight
    BY <2>1 DEF InFlight
  <2>3. ready' \in BOOLEAN /\ healthy' \in BOOLEAN
    <3>1. CASE CheckReadiness
      BY <3>1 DEF CheckReadiness, ClientInv, TypeOK
    <3>2. CASE PlatformTurns
      BY <3>2 DEF PlatformTurns, ClientInv, TypeOK
    <3> QED
      BY <1>8, <3>1, <3>2
  <2> QED
    BY <2>1, <2>2, <2>3 DEF ClientInv, TypeOK, CircuitOK, AttemptsOK, PermitsKept
<1>9. CASE UNCHANGED vars
  <2>1. InFlight' = InFlight
    BY <1>9 DEF vars, InFlight
  <2> QED
    BY <1>9, <2>1 DEF vars, ClientInv, TypeOK, CircuitOK, AttemptsOK, PermitsKept
<1> QED
  BY <1>1, <1>2, <1>3, <1>4, <1>5, <1>6, <1>7, <1>8, <1>9 DEF Next, CallStep

(* The breaker, the semaphore and the calls stay consistent with each other. *)
THEOREM ClientInvariance == Spec => []ClientInv
<1> QED
  BY InitInv, Inductive, PTL DEF Spec

(* Type correctness of the client. *)
THEOREM ClientTypes == Spec => []TypeOK
<1>1. ClientInv => TypeOK
  BY DEF ClientInv
<1> QED
  BY <1>1, ClientInvariance, PTL

(* No permit of the request semaphore is ever lost or returned twice. *)
THEOREM PermitsAreKept == Spec => []PermitsKept
<1>1. ClientInv => PermitsKept
  BY DEF ClientInv
<1> QED
  BY <1>1, ClientInvariance, PTL

(* One opening of the circuit admits at most one recovery probe, even when   *)
(* calls from before it fail late, and when calls end unrecorded.            *)
THEOREM OneProbeOnly == Spec => []OneProbe
<1>1. ClientInv => OneProbe
  BY DEF ClientInv, CircuitOK, TypeOK, OneProbe
<1> QED
  BY <1>1, ClientInvariance, PTL
=============================================================================
