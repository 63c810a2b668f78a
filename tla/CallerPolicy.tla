----------------------------- MODULE CallerPolicy -----------------------------
(***************************************************************************)
(* RefreshingCallerPolicyStore (caller_policy.py) of one replica: the      *)
(* worker threads that ask it, and the document in App Configuration that  *)
(* operators replace while it is cached here.                              *)
(*                                                                         *)
(* The code compares differences of clock readings only, so times are kept *)
(* as ages, counted up to Horizon; lag is the age of the reading a thread  *)
(* took when it entered refresh().                                         *)
(***************************************************************************)
EXTENDS Integers

CONSTANTS
  Threads,     \* worker threads that use the store
  MaxVersions, \* bound: replacements of the document
  Refresh,     \* refresh_interval_seconds
  Stale,       \* maximum_staleness_seconds
  MaxDelay,    \* bound: from reading the clock to the use of the snapshot
  None

ASSUME BoundsAssumption ==
  /\ MaxVersions \in Nat /\ MaxDelay \in Nat
  /\ Refresh \in Nat \ {0} /\ Stale \in Nat /\ Refresh <= Stale  \* main.py:123-127

Versions == 0..MaxVersions
ASSUME NoneAssumption == None \notin Versions

Horizon == Stale + MaxDelay + 1

VARIABLES
  doc,          \* the document's version, which its ETag tells
  content,      \* what each version says of the caller; "broken" does not parse
  retired,      \* history: how long ago each version was replaced
  up,           \* can App Configuration be reached?
  store,        \* the version parsed into _store (and _etag), or None
  sinceAttempt, \* age of _last_refresh_attempt
  sinceSuccess, \* age of _last_success
  thread,       \* where each thread is
  failed        \* history: has a refresh failed?

document == <<doc, content, retired, up>>
cache == <<store, sinceAttempt, sinceSuccess, failed>>
vars == <<document, cache, thread>>

Idle == [pc |-> "idle", asks |-> "read", lag |-> 0, read |-> None]

Init ==
  /\ doc = 0 /\ up \in BOOLEAN
  /\ content \in [Versions -> {"allows", "denies", "broken"}]
  /\ retired = [v \in Versions |-> 0]
  /\ store = None /\ failed = FALSE
  /\ sinceAttempt = Horizon /\ sinceSuccess = Horizon
  /\ thread = [t \in Threads |-> Idle]

At(t, pc) == thread[t].pc = pc
Goes(t, pc) == thread' = [thread EXCEPT ![t].pc = pc]
Leaves(t) == thread' = [thread EXCEPT ![t] = Idle]

-----------------------------------------------------------------------------
(* refresh.                                                                  *)

(* Mutant of LockFree: refresh() is not serialised. *)
Unlocked == TRUE

LockFree == \A t \in Threads : thread[t].pc \notin {"fetching", "answered"}

(* Mutant of Throttled: the comparison includes the interval itself. *)
OverThrottled(asks) == asks # "health" /\ sinceAttempt <= Refresh

Throttled(asks) == asks # "health" /\ sinceAttempt < Refresh

(* A thread takes the lock and reads the clock. *)
EnterRefresh(t, asks) ==
  /\ LockFree
  /\ thread' = [thread EXCEPT ![t] = [pc |-> IF Throttled(asks) THEN "checking" ELSE "fetching",
                                      asks |-> asks, lag |-> 0, read |-> None]]
  /\ sinceAttempt' = IF Throttled(asks) THEN sinceAttempt ELSE 0
  /\ UNCHANGED <<document, store, sinceSuccess, failed>>

(* authorize (create, read) or health_check is called. *)
Begin(t) == At(t, "idle") /\ \E asks \in {"authorize", "read", "health"} : EnterRefresh(t, asks)

(* create_investigation goes on with authorize_resource_group. *)
BeginGroup(t) == At(t, "between") /\ EnterRefresh(t, "group")

(* get_configuration_setting returns what the document is now. *)
Answer(t) ==
  /\ At(t, "fetching") /\ up
  /\ thread' = [thread EXCEPT ![t].pc = "answered", ![t].read = doc]
  /\ UNCHANGED <<document, cache>>

(* Mutant of Accepted: a document that does not parse is taken as it is. *)
Credulous(t) == At(t, "answered")

Accepted(t) == At(t, "answered") /\ content[thread[t].read] # "broken"

(* Mutant of RefreshSucceeds: an unchanged document is no success. *)
RefreshSucceedsOnChange(t) ==
  /\ Accepted(t)
  /\ store' = thread[t].read
  /\ sinceSuccess' = IF store = thread[t].read THEN sinceSuccess ELSE thread[t].lag
  /\ Goes(t, "checking")
  /\ UNCHANGED <<document, sinceAttempt, failed>>

(* Mutant of RefreshSucceeds: the success is dated to its end. *)
RefreshSucceedsLate(t) ==
  /\ Accepted(t)
  /\ store' = thread[t].read
  /\ sinceSuccess' = 0
  /\ Goes(t, "checking")
  /\ UNCHANGED <<document, sinceAttempt, failed>>

(* The success is dated back to the clock reading. *)
RefreshSucceeds(t) ==
  /\ Accepted(t)
  /\ store' = thread[t].read
  /\ sinceSuccess' = thread[t].lag
  /\ Goes(t, "checking")
  /\ UNCHANGED <<document, sinceAttempt, failed>>

Expired(t) == store = None \/ sinceSuccess - thread[t].lag > Stale

RefreshFails(t) ==
  /\ (At(t, "fetching") /\ ~up) \/ (At(t, "answered") /\ ~Accepted(t))
  /\ IF Expired(t) THEN Leaves(t) ELSE Goes(t, "checking")
  /\ failed' = TRUE
  /\ UNCHANGED <<document, store, sinceAttempt, sinceSuccess>>

-----------------------------------------------------------------------------
(* _require_usable_snapshot and the check against it, outside the lock.      *)

Unavailable(t) ==
  /\ At(t, "checking") /\ Expired(t)
  /\ Leaves(t)
  /\ UNCHANGED <<document, cache>>

(* Mutant of FindUsable: the age of the snapshot is not looked at. *)
FindAny(t) ==
  /\ At(t, "checking") /\ store # None
  /\ IF thread[t].asks = "health" THEN Leaves(t) ELSE Goes(t, "usable")
  /\ UNCHANGED <<document, cache>>

FindUsable(t) ==
  /\ At(t, "checking") /\ ~Expired(t)
  /\ IF thread[t].asks = "health" THEN Leaves(t) ELSE Goes(t, "usable")
  /\ UNCHANGED <<document, cache>>

(* The snapshot of this moment allows it. *)
Allow(t) ==
  /\ At(t, "usable") /\ content[store] = "allows"
  /\ IF thread[t].asks = "authorize"
     THEN thread' = [thread EXCEPT ![t] = [Idle EXCEPT !.pc = "between"]]
     ELSE Leaves(t)
  /\ UNCHANGED <<document, cache>>

Deny(t) ==
  /\ At(t, "usable") /\ content[store] # "allows"
  /\ Leaves(t)
  /\ UNCHANGED <<document, cache>>

-----------------------------------------------------------------------------
(* Around the threads.                                                       *)

(* An operator replaces the document. *)
Publish ==
  /\ doc < MaxVersions /\ doc' = doc + 1
  /\ UNCHANGED <<content, retired, up, cache, thread>>

AppConfigurationTurns ==
  /\ up' = ~up
  /\ UNCHANGED <<doc, content, retired, cache, thread>>

Older(age) == IF age < Horizon THEN age + 1 ELSE Horizon

Reading == {t \in Threads : thread[t].pc \in {"fetching", "answered", "checking", "usable"}}

Tick ==
  /\ \A t \in Reading : thread[t].lag < MaxDelay
  /\ thread' = [t \in Threads |-> IF t \in Reading
                                  THEN [thread[t] EXCEPT !.lag = @ + 1] ELSE thread[t]]
  /\ sinceAttempt' = Older(sinceAttempt) /\ sinceSuccess' = Older(sinceSuccess)
  /\ retired' = [v \in Versions |-> IF v < doc THEN Older(retired[v]) ELSE 0]
  /\ UNCHANGED <<doc, content, up, store, failed>>

ThreadStep(t) ==
  \/ BeginGroup(t) \/ Answer(t) \/ RefreshSucceeds(t) \/ RefreshFails(t)
  \/ Unavailable(t) \/ FindUsable(t) \/ Allow(t) \/ Deny(t)

Next ==
  \/ \E t \in Threads : Begin(t) \/ ThreadStep(t)
  \/ Publish \/ AppConfigurationTurns \/ Tick

Spec == Init /\ [][Next]_vars

(* Threads run, a request for the document has a timeout, and time passes. *)
FairSpec == Spec /\ WF_vars(Tick) /\ \A t \in Threads : WF_vars(ThreadStep(t))

-----------------------------------------------------------------------------
(* Properties.                                                               *)

Thread == [pc : {"idle", "between", "fetching", "answered", "checking", "usable"},
           asks : {"authorize", "group", "read", "health"},
           lag : 0..MaxDelay, read : {None} \cup Versions]

(* The snapshot in use is a document that parsed: a broken document never    *)
(* replaces the last good one.                                               *)
TypeOK ==
  /\ doc \in Versions /\ up \in BOOLEAN /\ failed \in BOOLEAN
  /\ content \in [Versions -> {"allows", "denies", "broken"}]
  /\ retired \in [Versions -> 0..Horizon]
  /\ store \in {None} \cup {v \in Versions : content[v] # "broken"}
  /\ sinceAttempt \in 0..Horizon /\ sinceSuccess \in 0..Horizon
  /\ thread \in [Threads -> Thread]

(* plan.md:482, "Enforce snapshot age on every policy access": what allows   *)
(* or denies a request was the current document not longer ago than the      *)
(* maximum staleness and the delay of the thread itself, through outages,    *)
(* broken documents and the other threads' refreshes.                        *)
BoundedStaleness == [][
  \A t \in Threads : Allow(t) \/ Deny(t) => retired[store] <= Stale + MaxDelay]_vars

(* As long as no refresh has failed, a replaced document stops to count      *)
(* within one refresh interval (and the thread's delay): no thread that      *)
(* skips the refresh overtakes the one that is fetching.                     *)
PromptPropagation == [][
  \A t \in Threads : ~failed /\ (Allow(t) \/ Deny(t)) => retired[store] < Refresh + MaxDelay]_vars

(* A caller that was disabled does not come back through an older answer     *)
(* that arrives late: the snapshot only moves forward.                       *)
NeverBackwards == [][store # None => store' >= store]_vars

(* plan.md:491, "a successful refresh restores access without restart": once *)
(* the document can be read and parses, the policy is unavailable to no more *)
(* than finitely many requests.                                              *)
AccessRestored ==
  <>[](up /\ content[doc] # "broken")
    => <>[][\A t \in Threads : ~(At(t, "checking") /\ Unavailable(t))]_vars
=============================================================================
