------------------------ MODULE CallerPolicyInvariants ------------------------
(***************************************************************************)
(* The inductive strengthening of CallerPolicy's safety properties.        *)
(***************************************************************************)
EXTENDS CallerPolicy

Fetching == {t \in Threads : thread[t].pc \in {"fetching", "answered"}}

(* One thread at a time is inside the lock, and its clock reading is newer   *)
(* than the latest success.                                                  *)
LockOK ==
  /\ \A t, u \in Fetching : t = u
  /\ \A t \in Fetching : thread[t].lag <= sinceSuccess

(* The snapshot was current when the latest success is dated; the current    *)
(* version has no age.                                                       *)
SnapshotOK ==
  /\ retired[doc] = 0 /\ \A v \in Versions : v > doc => retired[v] = 0
  /\ store # None => store <= doc /\ retired[store] <= sinceSuccess

(* An answer was current after the thread read the clock, and the snapshot   *)
(* is not newer.                                                             *)
AnswersOK == \A t \in Threads : At(t, "answered") =>
  /\ thread[t].read \in Versions /\ thread[t].read <= doc
  /\ retired[thread[t].read] <= thread[t].lag
  /\ store # None => store <= thread[t].read

(* A snapshot that was found usable stays so until it is used. *)
UsableOK == \A t \in Threads : At(t, "usable") =>
  store # None /\ sinceSuccess <= Stale + thread[t].lag

(* As long as no refresh has failed, the latest attempt outside the lock is  *)
(* the latest success, and no thread goes on with an older one than that.    *)
PromptOK == ~failed =>
  /\ Fetching = {} => sinceSuccess = sinceAttempt
  /\ \A t \in Fetching : thread[t].lag = sinceAttempt
  /\ \A t \in Threads : thread[t].pc \in {"checking", "usable"} =>
       sinceSuccess < Refresh + thread[t].lag

PolicyInv == TypeOK /\ LockOK /\ SnapshotOK /\ AnswersOK /\ UsableOK /\ PromptOK
=============================================================================
