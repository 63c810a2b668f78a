-------------------------- MODULE CallerPolicyProofs --------------------------
(***************************************************************************)
(* PolicyInv is an invariant of CallerPolicy for any threads, number of    *)
(* versions, refresh interval, staleness and delay, and the bounds on the  *)
(* age of what a request is checked against follow.                        *)
(***************************************************************************)
EXTENDS CallerPolicyInvariants, TLAPS

USE BoundsAssumption, NoneAssumption

LEMMA Numbers == Horizon \in Nat /\ MaxDelay < Horizon /\ Refresh + MaxDelay < Horizon
                 /\ Versions \subseteq Nat
BY DEF Horizon, Versions

LEMMA Initially == Init => PolicyInv
<1> SUFFICES ASSUME Init PROVE PolicyInv
  OBVIOUS
<1>1. Idle \in Thread /\ Idle.pc = "idle"
  BY DEF Idle, Thread
<1>2. TypeOK
  <2>1. doc \in Versions /\ store \in {None}
    BY DEF Init, Versions
  <2>2. up \in BOOLEAN /\ failed \in BOOLEAN
    BY DEF Init
  <2>3. content \in [Versions -> {"allows", "denies", "broken"}]
    BY DEF Init
  <2>4. retired \in [Versions -> 0..Horizon]
    BY Numbers DEF Init
  <2>5. sinceAttempt \in 0..Horizon /\ sinceSuccess \in 0..Horizon
    BY Numbers DEF Init
  <2>6. thread \in [Threads -> Thread]
    BY <1>1 DEF Init
  <2> QED
    BY <2>1, <2>2, <2>3, <2>4, <2>5, <2>6 DEF TypeOK
<1>3. \A t \in Threads : thread[t].pc = "idle"
  BY <1>1 DEF Init
<1>4. SnapshotOK
  BY Numbers DEF Init, SnapshotOK, Versions
<1>5. LockOK /\ AnswersOK /\ UsableOK /\ PromptOK
  BY <1>3 DEF Init, Fetching, LockOK, AnswersOK, UsableOK, PromptOK, At
<1> QED
  BY <1>2, <1>4, <1>5 DEF PolicyInv

(* A step of one thread that leaves document and cache alone, and brings the *)
(* thread nowhere near the lock, keeps the parts about the other threads.    *)
LEMMA QuietStep ==
  ASSUME PolicyInv, NEW t \in Threads, NEW r \in Thread,
         thread' = [thread EXCEPT ![t] = r],
         UNCHANGED <<document, store, sinceAttempt, sinceSuccess>>,
         t \notin Fetching, r.pc \notin {"fetching", "answered"},
         failed' \in BOOLEAN, failed => failed',
         r.pc = "usable" => store # None /\ sinceSuccess <= Stale + r.lag,
         ~failed' /\ r.pc \in {"checking", "usable"} => sinceSuccess < Refresh + r.lag
  PROVE  PolicyInv'
<1>1. TypeOK'
  BY DEF PolicyInv, TypeOK, document
<1>2. Fetching' = Fetching
  BY DEF PolicyInv, TypeOK, Fetching
<1>3. \A u \in Threads : thread'[u] = IF u = t THEN r ELSE thread[u]
  BY DEF PolicyInv, TypeOK
<1>4. LockOK'
  BY <1>2, <1>3 DEF PolicyInv, LockOK
<1>5. SnapshotOK'
  BY DEF PolicyInv, SnapshotOK, document
<1>6. AnswersOK'
  BY <1>3 DEF PolicyInv, AnswersOK, At, document
<1>7. UsableOK'
  BY <1>3 DEF PolicyInv, UsableOK, At
<1>8. PromptOK'
  BY <1>2, <1>3 DEF PolicyInv, PromptOK
<1> QED
  BY <1>1, <1>4, <1>5, <1>6, <1>7, <1>8 DEF PolicyInv

LEMMA EnterStep ==
  ASSUME PolicyInv, NEW t \in Threads, thread[t].pc \in {"idle", "between"},
         NEW asks \in {"authorize", "group", "read", "health"}, EnterRefresh(t, asks)
  PROVE  PolicyInv'
<1> DEFINE r == [pc |-> IF Throttled(asks) THEN "checking" ELSE "fetching",
                 asks |-> asks, lag |-> 0, read |-> None]
<1>1. r \in Thread /\ r.lag = 0 /\ thread' = [thread EXCEPT ![t] = r]
  BY DEF EnterRefresh, Thread
<1>2. Fetching = {}
  BY DEF EnterRefresh, LockFree, Fetching
<1>3. CASE Throttled(asks)
  <2>1. r.pc = "checking" /\ UNCHANGED <<document, store, sinceAttempt, sinceSuccess, failed>>
    BY <1>3 DEF EnterRefresh
  <2>2. ~failed => sinceSuccess < Refresh
    BY <1>2, <1>3 DEF PolicyInv, PromptOK, Throttled
  <2>3. failed' \in BOOLEAN /\ (failed => failed')
    BY <2>1 DEF PolicyInv, TypeOK
  <2> HIDE DEF r
  <2>4. ~failed' => sinceSuccess < Refresh + r.lag
    BY <1>1, <2>1, <2>2
  <2>5. t \notin Fetching /\ r.pc \notin {"fetching", "answered"} /\ r.pc # "usable"
    BY <1>2, <2>1
  <2>6. UNCHANGED <<document, store, sinceAttempt, sinceSuccess>>
    BY <2>1
  <2> QED
    BY <1>1, <2>3, <2>4, <2>5, <2>6, QuietStep
<1>4. CASE ~Throttled(asks)
  <2>1. r.pc = "fetching" /\ sinceAttempt' = 0
        /\ UNCHANGED <<document, store, sinceSuccess, failed>>
    BY <1>4 DEF EnterRefresh
  <2> HIDE DEF r
  <2>2. \A u \in Threads : thread'[u] = IF u = t THEN r ELSE thread[u]
    BY <1>1 DEF PolicyInv, TypeOK
  <2>3. Fetching' = {t}
    BY <1>2, <2>1, <2>2 DEF Fetching
  <2>4. TypeOK'
    BY <1>1, <2>1, Numbers DEF PolicyInv, TypeOK, document
  <2>5. LockOK'
    BY <1>1, <2>1, <2>2, <2>3 DEF PolicyInv, LockOK, TypeOK
  <2>6. SnapshotOK'
    BY <2>1 DEF PolicyInv, SnapshotOK, document
  <2>7. AnswersOK' /\ UsableOK'
    BY <2>1, <2>2 DEF PolicyInv, AnswersOK, UsableOK, At, document
  <2>8. PromptOK'
    BY <1>1, <2>1, <2>2, <2>3 DEF PolicyInv, PromptOK
  <2> QED
    BY <2>4, <2>5, <2>6, <2>7, <2>8 DEF PolicyInv
<1> QED
  BY <1>3, <1>4

LEMMA AnswerStep ==
  ASSUME PolicyInv, NEW t \in Threads, Answer(t)
  PROVE  PolicyInv'
<1>1. At(t, "fetching") /\ UNCHANGED <<document, cache>>
  BY DEF Answer
<1> DEFINE r == [thread[t] EXCEPT !.pc = "answered", !.read = doc]
<1>2. thread[t] \in Thread /\ thread \in [Threads -> Thread] /\ doc \in Versions
  BY DEF PolicyInv, TypeOK
<1>3. r \in Thread /\ r.pc = "answered" /\ r.read = doc /\ r.lag = thread[t].lag
  BY <1>2 DEF Thread
<1>4. thread' = [thread EXCEPT ![t] = r]
  BY <1>2 DEF Answer
<1> HIDE DEF r
<1>5. \A u \in Threads : thread'[u] = IF u = t THEN r ELSE thread[u]
  BY <1>2, <1>4
<1>6. Fetching' = Fetching
  BY <1>1, <1>3, <1>5 DEF Fetching, At
<1>7. \A u \in Threads : thread'[u].lag = thread[u].lag
  BY <1>3, <1>5
<1>8. TypeOK'
  BY <1>1, <1>3, <1>4 DEF PolicyInv, TypeOK, document, cache
<1>9. LockOK'
  BY <1>1, <1>6, <1>7 DEF PolicyInv, LockOK, Fetching, cache
<1>10. SnapshotOK'
  BY <1>1 DEF PolicyInv, SnapshotOK, document, cache
<1>11. AnswersOK'
  <2>1. r.lag \in Nat /\ retired[doc] = 0 /\ doc <= doc /\ (store # None => store <= doc)
    BY <1>2, <1>3, Numbers DEF PolicyInv, SnapshotOK, Thread
  <2> QED
    BY <1>1, <1>2, <1>3, <1>5, <2>1 DEF PolicyInv, AnswersOK, At, document, cache
<1>12. UsableOK'
  BY <1>1, <1>3, <1>5 DEF PolicyInv, UsableOK, At, cache
<1>13. PromptOK'
  BY <1>1, <1>3, <1>5, <1>6, <1>7 DEF PolicyInv, PromptOK, Fetching, cache
<1> QED
  BY <1>8, <1>9, <1>10, <1>11, <1>12, <1>13 DEF PolicyInv

(* The only step that changes the snapshot: it moves forward, and its age is *)
(* that of the clock reading, which no later thread can undercut.            *)
LEMMA SucceedStep ==
  ASSUME PolicyInv, NEW t \in Threads, RefreshSucceeds(t)
  PROVE  PolicyInv' /\ (store # None => store' >= store)
<1>1. At(t, "answered") /\ content[thread[t].read] # "broken"
  BY DEF RefreshSucceeds, Accepted
<1>2. store' = thread[t].read /\ sinceSuccess' = thread[t].lag
      /\ UNCHANGED <<document, sinceAttempt, failed>>
  BY DEF RefreshSucceeds
<1> DEFINE r == [thread[t] EXCEPT !.pc = "checking"]
<1>3. thread[t] \in Thread /\ thread \in [Threads -> Thread]
  BY DEF PolicyInv, TypeOK
<1>4. r \in Thread /\ r.pc = "checking" /\ r.lag = thread[t].lag /\ r.lag \in 0..MaxDelay
  BY <1>3 DEF Thread
<1>5. thread' = [thread EXCEPT ![t] = r]
  BY <1>3 DEF RefreshSucceeds, Goes
<1> HIDE DEF r
<1>6. \A u \in Threads : thread'[u] = IF u = t THEN r ELSE thread[u]
  BY <1>3, <1>5
<1>7. /\ thread[t].read \in Versions /\ thread[t].read <= doc
      /\ retired[thread[t].read] <= thread[t].lag
      /\ store # None => store <= thread[t].read
  BY <1>1 DEF PolicyInv, AnswersOK
<1>8. t \in Fetching /\ Fetching = {t} /\ thread[t].lag <= sinceSuccess
  BY <1>1 DEF PolicyInv, LockOK, Fetching, At
<1>9. Fetching' = {}
  BY <1>4, <1>6, <1>8 DEF Fetching
<1>10. TypeOK'
  <2>1. store' \in {v \in Versions : content'[v] # "broken"}
    BY <1>1, <1>2, <1>7 DEF document
  <2>2. sinceSuccess' \in 0..Horizon
    BY <1>2, <1>4, Numbers
  <2> QED
    BY <1>2, <1>4, <1>5, <2>1, <2>2 DEF PolicyInv, TypeOK, document
<1>11. LockOK'
  BY <1>9 DEF LockOK
<1>12. SnapshotOK'
  BY <1>2, <1>7 DEF PolicyInv, SnapshotOK, document
<1>13. AnswersOK'
  BY <1>4, <1>6, <1>8 DEF AnswersOK, At, Fetching
<1>14. UsableOK'
  <2>1. ASSUME NEW u \in Threads, At(u, "usable")'
        PROVE  store' # None /\ sinceSuccess' <= Stale + thread'[u].lag
    <3>1. thread'[u] = thread[u] /\ At(u, "usable")
      BY <1>4, <1>6, <2>1 DEF At
    <3>2. sinceSuccess <= Stale + thread[u].lag
      BY <3>1 DEF PolicyInv, UsableOK
    <3>3. thread[u].lag \in Nat /\ sinceSuccess \in Nat /\ thread[t].lag \in Nat
      BY <1>3, Numbers DEF PolicyInv, TypeOK, Thread
    <3> QED
      BY <1>2, <1>7, <1>8, <3>1, <3>2, <3>3
  <2> QED
    BY <2>1 DEF UsableOK
<1>15. PromptOK'
  <2>1. ASSUME ~failed, NEW u \in Threads, thread'[u].pc \in {"checking", "usable"}
        PROVE  sinceSuccess' < Refresh + thread'[u].lag
    <3>1. CASE u = t
      BY <1>2, <1>4, <1>6, <3>1
    <3>2. CASE u # t
      <4>1. thread'[u] = thread[u] /\ thread[u].lag \in Nat
        BY <1>3, <1>6, <3>2, Numbers DEF Thread
      <4>2. sinceSuccess < Refresh + thread[u].lag
        BY <2>1, <4>1 DEF PolicyInv, PromptOK
      <4>3. sinceSuccess \in Nat /\ thread[t].lag \in Nat
        BY <1>3, Numbers DEF PolicyInv, TypeOK, Thread
      <4> QED
        BY <1>2, <1>8, <4>1, <4>2, <4>3
    <3> QED
      BY <3>1, <3>2
  <2>2. ~failed => sinceSuccess' = sinceAttempt'
    BY <1>2, <1>8 DEF PolicyInv, PromptOK
  <2> QED
    BY <1>2, <1>9, <2>1, <2>2 DEF PromptOK
<1>16. store # None => store' >= store
  BY <1>2, <1>7, Numbers DEF PolicyInv, TypeOK
<1> QED
  BY <1>10, <1>11, <1>12, <1>13, <1>14, <1>15, <1>16 DEF PolicyInv

LEMMA FailStep ==
  ASSUME PolicyInv, NEW t \in Threads, RefreshFails(t)
  PROVE  PolicyInv'
<1>1. thread[t].pc \in {"fetching", "answered"} /\ failed' = TRUE
      /\ UNCHANGED <<document, store, sinceAttempt, sinceSuccess>>
  BY DEF RefreshFails, At
<1>2. PICK r \in Thread : /\ thread' = [thread EXCEPT ![t] = r]
                          /\ r.pc \in {"idle", "checking"}
  <2>1. thread[t] \in Thread /\ thread \in [Threads -> Thread]
    BY DEF PolicyInv, TypeOK
  <2>2. CASE Expired(t)
    <3>1. Idle \in Thread /\ Idle.pc = "idle"
      BY Numbers DEF Idle, Thread
    <3> QED
      BY <2>2, <3>1 DEF RefreshFails, Leaves
  <2>3. CASE ~Expired(t)
    <3>1. [thread[t] EXCEPT !.pc = "checking"] \in Thread
      BY <2>1 DEF Thread
    <3>2. [thread[t] EXCEPT !.pc = "checking"].pc = "checking"
      BY <2>1 DEF Thread
    <3>3. thread' = [thread EXCEPT ![t] = [thread[t] EXCEPT !.pc = "checking"]]
      BY <2>1, <2>3 DEF RefreshFails, Goes
    <3> QED
      BY <3>1, <3>2, <3>3
  <2> QED
    BY <2>2, <2>3
<1>3. \A u \in Threads : thread'[u] = IF u = t THEN r ELSE thread[u]
  BY <1>2 DEF PolicyInv, TypeOK
<1>4. TypeOK'
  BY <1>1, <1>2 DEF PolicyInv, TypeOK, document
<1>5. Fetching' \subseteq Fetching
  BY <1>2, <1>3 DEF Fetching
<1>6. LockOK'
  BY <1>1, <1>2, <1>3, <1>5 DEF PolicyInv, LockOK, Fetching
<1>7. SnapshotOK'
  BY <1>1 DEF PolicyInv, SnapshotOK, document
<1>8. AnswersOK' /\ UsableOK'
  BY <1>1, <1>2, <1>3 DEF PolicyInv, AnswersOK, UsableOK, At, document
<1>9. PromptOK'
  BY <1>1 DEF PromptOK
<1> QED
  BY <1>4, <1>6, <1>7, <1>8, <1>9 DEF PolicyInv

(* The checks outside the lock: the thread gives up, goes on or is done. *)
LEMMA CheckStep ==
  ASSUME PolicyInv, NEW t \in Threads,
         Unavailable(t) \/ FindUsable(t) \/ Allow(t) \/ Deny(t)
  PROVE  PolicyInv'
<1>1. thread[t] \in Thread /\ thread \in [Threads -> Thread]
  BY DEF PolicyInv, TypeOK
<1>2. thread[t].pc \in {"checking", "usable"} /\ UNCHANGED <<document, cache>>
  BY DEF Unavailable, FindUsable, Allow, Deny, At
<1>3. t \notin Fetching /\ failed' \in BOOLEAN /\ (failed => failed')
  BY <1>2 DEF PolicyInv, TypeOK, Fetching, cache
<1>4. CASE FindUsable(t) /\ thread[t].asks # "health"
  <2> DEFINE r == [thread[t] EXCEPT !.pc = "usable"]
  <2>1. r \in Thread /\ r.pc = "usable" /\ r.lag = thread[t].lag
    BY <1>1 DEF Thread
  <2>2. thread' = [thread EXCEPT ![t] = r]
    BY <1>1, <1>4 DEF FindUsable, Goes
  <2>3. store # None /\ sinceSuccess <= Stale + r.lag
    BY <1>1, <1>4, <2>1, Numbers DEF FindUsable, Expired, PolicyInv, TypeOK, Thread
  <2>4. ~failed' => sinceSuccess < Refresh + r.lag
    BY <1>2, <2>1 DEF PolicyInv, PromptOK, cache
  <2> HIDE DEF r
  <2> QED
    BY <1>2, <1>3, <2>1, <2>2, <2>3, <2>4, QuietStep DEF cache
<1>5. CASE ~(FindUsable(t) /\ thread[t].asks # "health")
  <2>1. PICK r \in Thread : /\ thread' = [thread EXCEPT ![t] = r]
                            /\ r.pc \in {"idle", "between"}
    <3>1. Idle \in Thread /\ Idle.pc = "idle"
          /\ [Idle EXCEPT !.pc = "between"] \in Thread
          /\ [Idle EXCEPT !.pc = "between"].pc = "between"
      BY Numbers DEF Idle, Thread
    <3>2. \/ thread' = [thread EXCEPT ![t] = Idle]
          \/ thread' = [thread EXCEPT ![t] = [Idle EXCEPT !.pc = "between"]]
      BY <1>5 DEF Unavailable, FindUsable, Allow, Deny, Leaves
    <3> QED
      BY <3>1, <3>2
  <2> QED
    BY <1>2, <1>3, <2>1, QuietStep DEF cache
<1> QED
  BY <1>4, <1>5

LEMMA EnvironmentStep ==
  ASSUME PolicyInv, Publish \/ AppConfigurationTurns
  PROVE  PolicyInv'
<1>1. UNCHANGED <<content, retired, cache, thread>> /\ (up' = up \/ up' = ~up)
  BY DEF Publish, AppConfigurationTurns
<1>2. doc' \in Versions /\ doc' >= doc
  BY Numbers DEF Publish, AppConfigurationTurns, PolicyInv, TypeOK, Versions
<1>3. up' \in BOOLEAN
  BY DEF Publish, AppConfigurationTurns, PolicyInv, TypeOK
<1>4. TypeOK'
  BY <1>1, <1>2, <1>3 DEF PolicyInv, TypeOK, cache
<1>5. Fetching' = Fetching
  BY <1>1 DEF Fetching
<1>6. LockOK' /\ UsableOK'
  BY <1>1, <1>5 DEF PolicyInv, LockOK, UsableOK, At, cache
<1>7. PromptOK'
  BY <1>1, <1>5 DEF PolicyInv, PromptOK, cache
<1>8. SnapshotOK'
  <2>1. doc \in Nat /\ doc' \in Nat /\ Versions \subseteq Nat
    BY <1>2, Numbers DEF PolicyInv, TypeOK
  <2>2. retired[doc'] = 0
    BY <1>2, <2>1 DEF PolicyInv, SnapshotOK
  <2>3. \A v \in Versions : v > doc' => retired[v] = 0
    BY <1>2, <2>1 DEF PolicyInv, SnapshotOK
  <2>4. ASSUME store # None
        PROVE  store <= doc' /\ retired[store] <= sinceSuccess
    <3>1. store \in Nat
      BY <2>1, <2>4 DEF PolicyInv, TypeOK
    <3> QED
      BY <1>2, <2>1, <2>4, <3>1 DEF PolicyInv, SnapshotOK
  <2> QED
    BY <1>1, <2>2, <2>3, <2>4 DEF PolicyInv, SnapshotOK, cache
<1>9. AnswersOK'
  <2>1. doc \in Nat /\ doc' \in Nat /\ Versions \subseteq Nat
    BY <1>2, Numbers DEF PolicyInv, TypeOK
  <2>2. \A v \in Versions : v <= doc => v <= doc'
    BY <1>2, <2>1
  <2> QED
    BY <1>1, <2>2 DEF PolicyInv, AnswersOK, At, cache
<1> QED
  BY <1>4, <1>6, <1>7, <1>8, <1>9 DEF PolicyInv

(* Ages saturate at the same number, so a tick keeps their order. *)
LEMMA OlderKeeps ==
  /\ \A a \in 0..Horizon : Older(a) \in 0..Horizon /\ Older(a) <= a + 1
  /\ \A a, b \in 0..Horizon : a <= b => Older(a) <= Older(b)
  /\ \A a \in 0..MaxDelay : Older(a) = a + 1
BY Numbers DEF Older

LEMMA TickStep ==
  ASSUME PolicyInv, Tick
  PROVE  PolicyInv'
<1>1. /\ UNCHANGED <<doc, content, up, store, failed>>
      /\ sinceAttempt' = Older(sinceAttempt) /\ sinceSuccess' = Older(sinceSuccess)
      /\ retired' = [v \in Versions |-> IF v < doc THEN Older(retired[v]) ELSE 0]
  BY DEF Tick
<1>2. \A t \in Threads : thread[t] \in Thread
  BY DEF PolicyInv, TypeOK
<1>3. \A t \in Reading : /\ thread'[t] = [thread[t] EXCEPT !.lag = @ + 1]
                         /\ thread[t].lag < MaxDelay
  BY DEF Tick, Reading
<1>4. \A t \in Threads \ Reading : thread'[t] = thread[t]
  BY DEF Tick
<1>5. \A t \in Threads : /\ thread'[t] \in Thread
                         /\ thread'[t].pc = thread[t].pc /\ thread'[t].read = thread[t].read
  <2> SUFFICES ASSUME NEW t \in Threads
               PROVE  /\ thread'[t] \in Thread
                      /\ thread'[t].pc = thread[t].pc /\ thread'[t].read = thread[t].read
    OBVIOUS
  <2>1. CASE t \in Reading
    <3>1. thread[t].lag + 1 \in 0..MaxDelay
      <4>1. thread[t].lag \in 0..MaxDelay
        BY <1>2 DEF Thread
      <4>2. thread[t].lag < MaxDelay
        BY <1>3, <2>1
      <4> QED
        BY <4>1, <4>2
    <3>2. thread'[t] = [thread[t] EXCEPT !.lag = thread[t].lag + 1]
      BY <1>3, <2>1
    <3>3. thread[t] \in Thread
      BY <1>2
    <3> QED
      BY <3>1, <3>2, <3>3 DEF Thread
  <2>2. CASE t \notin Reading
    BY <1>2, <1>4, <2>2
  <2> QED
    BY <2>1, <2>2
<1>6. \A t \in Reading : thread'[t].lag = thread[t].lag + 1 /\ thread[t].lag \in 0..MaxDelay
  BY <1>2, <1>3 DEF Thread, Reading
<1>7. sinceAttempt \in 0..Horizon /\ sinceSuccess \in 0..Horizon
      /\ \A v \in Versions : retired[v] \in 0..Horizon
  BY DEF PolicyInv, TypeOK
<1>8. Fetching' = Fetching /\ Fetching \subseteq Reading
  BY <1>5 DEF Fetching, Reading
<1>9. TypeOK'
  <2>1. thread' \in [Threads -> Thread]
    BY <1>5 DEF Tick
  <2>2. retired' \in [Versions -> 0..Horizon]
    BY <1>1, <1>7, OlderKeeps, Numbers
  <2> QED
    BY <1>1, <1>7, <2>1, <2>2, OlderKeeps DEF PolicyInv, TypeOK
<1>10. LockOK'
  <2>1. ASSUME NEW t \in Fetching' PROVE thread'[t].lag <= sinceSuccess'
    <3>1. thread[t].lag <= sinceSuccess /\ thread'[t].lag = thread[t].lag + 1
          /\ thread[t].lag \in 0..MaxDelay
      BY <1>6, <1>8, <2>1 DEF PolicyInv, LockOK
    <3>2. Older(thread[t].lag) <= Older(sinceSuccess) /\ thread[t].lag \in 0..Horizon
      BY <1>7, <3>1, OlderKeeps, Numbers
    <3> QED
      BY <1>1, <3>1, <3>2, OlderKeeps
  <2> QED
    BY <1>8, <2>1 DEF PolicyInv, LockOK
<1>11. SnapshotOK'
  <2>1. doc \in Versions /\ (store # None => store \in Versions)
    BY DEF PolicyInv, TypeOK
  <2>2. retired'[doc] = 0 /\ \A v \in Versions : v > doc => retired'[v] = 0
    BY <1>1, <2>1, Numbers
  <2>3. ASSUME store # None PROVE retired'[store] <= sinceSuccess'
    <3>1. retired[store] <= sinceSuccess /\ store \in Versions
      BY <2>1, <2>3 DEF PolicyInv, SnapshotOK
    <3>2. Older(retired[store]) <= Older(sinceSuccess) /\ 0 <= Older(sinceSuccess)
      BY <1>7, <3>1, OlderKeeps
    <3> QED
      BY <1>1, <3>1, <3>2
  <2> QED
    BY <1>1, <2>2, <2>3 DEF PolicyInv, SnapshotOK
<1>12. AnswersOK'
  <2>1. ASSUME NEW t \in Threads, At(t, "answered")'
        PROVE  /\ thread'[t].read \in Versions /\ thread'[t].read <= doc'
               /\ retired'[thread'[t].read] <= thread'[t].lag
               /\ store' # None => store' <= thread'[t].read
    <3>1. At(t, "answered") /\ t \in Reading /\ thread'[t].read = thread[t].read
      BY <1>5, <2>1 DEF At, Reading
    <3>2. /\ thread[t].read \in Versions /\ thread[t].read <= doc
          /\ retired[thread[t].read] <= thread[t].lag
          /\ store # None => store <= thread[t].read
      BY <3>1 DEF PolicyInv, AnswersOK
    <3>3. retired'[thread[t].read] <= thread[t].lag + 1
      <4>1. retired'[thread[t].read] \in {Older(retired[thread[t].read]), 0}
        BY <1>1, <3>2
      <4>2. Older(retired[thread[t].read]) <= retired[thread[t].read] + 1
            /\ retired[thread[t].read] \in 0..Horizon
        BY <1>7, <3>2, OlderKeeps
      <4> QED
        BY <1>6, <3>1, <3>2, <4>1, <4>2, OlderKeeps, Numbers
    <3> QED
      BY <1>1, <1>6, <3>1, <3>2, <3>3
  <2> QED
    BY <2>1 DEF AnswersOK
<1>13. UsableOK'
  <2>1. ASSUME NEW t \in Threads, At(t, "usable")'
        PROVE  store' # None /\ sinceSuccess' <= Stale + thread'[t].lag
    <3>1. At(t, "usable") /\ t \in Reading
      BY <1>5, <2>1 DEF At, Reading
    <3>2. store # None /\ sinceSuccess <= Stale + thread[t].lag
      BY <3>1 DEF PolicyInv, UsableOK
    <3>3. Older(sinceSuccess) <= sinceSuccess + 1 /\ Older(sinceSuccess) \in 0..Horizon
      BY <1>7, OlderKeeps
    <3> QED
      BY <1>1, <1>6, <1>7, <3>1, <3>2, <3>3, Numbers
  <2> QED
    BY <2>1 DEF UsableOK
<1>14. PromptOK'
  <2> SUFFICES ASSUME ~failed'
               PROVE  PromptOK'
    BY DEF PromptOK
  <2>1. ~failed
    BY <1>1
  <2>2. Fetching' = {} => sinceSuccess' = sinceAttempt'
    BY <1>1, <1>8, <2>1 DEF PolicyInv, PromptOK
  <2>3. \A t \in Fetching' : thread'[t].lag = sinceAttempt'
    BY <1>1, <1>6, <1>8, <2>1, OlderKeeps DEF PolicyInv, PromptOK
  <2>4. ASSUME NEW t \in Threads, thread'[t].pc \in {"checking", "usable"}
        PROVE  sinceSuccess' < Refresh + thread'[t].lag
    <3>1. t \in Reading /\ sinceSuccess < Refresh + thread[t].lag
      BY <1>5, <2>1, <2>4 DEF PolicyInv, PromptOK, Reading
    <3>2. Older(sinceSuccess) <= sinceSuccess + 1 /\ Older(sinceSuccess) \in 0..Horizon
      BY <1>7, OlderKeeps
    <3> QED
      BY <1>1, <1>6, <1>7, <3>1, <3>2, Numbers
  <2> QED
    BY <2>2, <2>3, <2>4 DEF PromptOK
<1> QED
  BY <1>9, <1>10, <1>11, <1>12, <1>13, <1>14 DEF PolicyInv

LEMMA Stuttering == ASSUME PolicyInv, UNCHANGED vars PROVE PolicyInv'
<1>1. TypeOK' /\ SnapshotOK'
  BY DEF PolicyInv, TypeOK, SnapshotOK, vars, document, cache
<1>2. LockOK' /\ PromptOK'
  BY DEF PolicyInv, LockOK, PromptOK, Fetching, vars, document, cache
<1>3. AnswersOK' /\ UsableOK'
  BY DEF PolicyInv, AnswersOK, UsableOK, At, vars, document, cache
<1> QED
  BY <1>1, <1>2, <1>3 DEF PolicyInv

LEMMA Inductive == PolicyInv /\ [Next]_vars => PolicyInv'
<1> SUFFICES ASSUME PolicyInv, [Next]_vars PROVE PolicyInv'
  OBVIOUS
<1>1. ASSUME NEW t \in Threads, Begin(t) PROVE PolicyInv'
  BY <1>1, EnterStep DEF Begin, At
<1>2. ASSUME NEW t \in Threads, BeginGroup(t) PROVE PolicyInv'
  BY <1>2, EnterStep DEF BeginGroup, At
<1>3. ASSUME NEW t \in Threads, ThreadStep(t) PROVE PolicyInv'
  BY <1>2, <1>3, AnswerStep, SucceedStep, FailStep, CheckStep DEF ThreadStep
<1> QED
  BY <1>1, <1>3, EnvironmentStep, TickStep, Stuttering DEF Next

(* The lock, the age of the snapshot and the age of every answer, for any    *)
(* number of threads and any intervals.                                      *)
THEOREM PolicyInvariance == Spec => []PolicyInv
BY Initially, Inductive, PTL DEF Spec

(* The snapshot is always a version that parsed, and ages keep their bounds. *)
THEOREM PolicyTypes == Spec => []TypeOK
<1>1. PolicyInv => TypeOK
  BY DEF PolicyInv
<1> QED
  BY <1>1, PolicyInvariance, PTL

(* The snapshot never goes back to an earlier version of the document. *)
THEOREM OnlyForwards == Spec => NeverBackwards
<1>1. PolicyInv /\ [Next]_vars => [store # None => store' >= store]_vars
  <2> SUFFICES ASSUME PolicyInv, [Next]_vars, store # None PROVE store' >= store
    OBVIOUS
  <2>1. store \in Nat
    BY Numbers DEF PolicyInv, TypeOK
  <2>2. CASE store' = store
    BY <2>1, <2>2
  <2>3. CASE store' # store
    <3>1. PICK t \in Threads : RefreshSucceeds(t)
      BY <2>3 DEF Next, ThreadStep, Begin, BeginGroup, EnterRefresh, Answer, RefreshFails,
        Unavailable, FindUsable, Allow, Deny, Publish, AppConfigurationTurns, Tick, vars, cache
    <3> QED
      BY <3>1, SucceedStep
  <2> QED
    BY <2>2, <2>3
<1> QED
  BY <1>1, PolicyInvariance, PTL DEF Spec, NeverBackwards

LEMMA UseIsBounded ==
  ASSUME PolicyInv, NEW t \in Threads, Allow(t) \/ Deny(t)
  PROVE  /\ retired[store] <= Stale + MaxDelay
         /\ ~failed => retired[store] < Refresh + MaxDelay
<1>1. At(t, "usable") /\ thread[t].lag \in 0..MaxDelay
  BY DEF Allow, Deny, PolicyInv, TypeOK, Thread
<1>2. store \in Versions /\ sinceSuccess <= Stale + thread[t].lag
  BY <1>1 DEF PolicyInv, UsableOK, TypeOK
<1>3. retired[store] <= sinceSuccess /\ retired[store] \in Nat /\ sinceSuccess \in Nat
  BY <1>2, Numbers DEF PolicyInv, SnapshotOK, TypeOK
<1>4. ~failed => sinceSuccess < Refresh + thread[t].lag
  BY <1>1 DEF PolicyInv, PromptOK, At
<1> QED
  BY <1>1, <1>2, <1>3, <1>4, Numbers

(* What a request is checked against was the current document not longer ago *)
(* than the maximum staleness and the thread's own delay.                    *)
THEOREM StalenessIsBounded == Spec => BoundedStaleness
<1>1. PolicyInv => [\A t \in Threads : Allow(t) \/ Deny(t)
                                       => retired[store] <= Stale + MaxDelay]_vars
  BY UseIsBounded
<1> QED
  BY <1>1, PolicyInvariance, PTL DEF BoundedStaleness

(* While no refresh fails, a replaced document is used for less than one     *)
(* refresh interval and the thread's own delay.                              *)
THEOREM PropagationIsPrompt == Spec => PromptPropagation
<1>1. PolicyInv => [\A t \in Threads : ~failed /\ (Allow(t) \/ Deny(t))
                                       => retired[store] < Refresh + MaxDelay]_vars
  BY UseIsBounded
<1> QED
  BY <1>1, PolicyInvariance, PTL DEF PromptPropagation
=============================================================================
