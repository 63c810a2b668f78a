------------------------ MODULE InvestigationPolling ------------------------
(***************************************************************************)
(* The read side of the escalation proxy: the callers' status and summary  *)
(* requests (EscalationService.get_status, get_summary) and the terminal   *)
(* reconciler of every replica (main.py, _run_terminal_reconciliation),    *)
(* which race to poll the same platform threads and to write the same rows *)
(* of Table storage.                                                       *)
(*                                                                         *)
(* A request or a sweep is a worker, w.  Each Table or platform call of it *)
(* is one step.  fresh[w] holds the rows whose ETag, as w last read it, is *)
(* current: a conditional write succeeds exactly when its rows are in it.  *)
(*                                                                         *)
(* There is no clock: the minimum interval between two polls, the lease of *)
(* a reconciler, the caller's wait and the retention of a row each end at  *)
(* some step, whatever the other deadlines do.                             *)
(***************************************************************************)
EXTENDS ReportSelection, FiniteSets

CONSTANTS
  Readers,      \* requests that are served at once, on all replicas
  Replicas,     \* the reconcilers, one for each replica
  Inv,          \* investigation ids, numbered in the table's order of rows
  None,         \* no replica
  Counter,      \* the caller's quota counter row (its value: TableRegistry)
  MaxPolls,     \* MAX_STATUS_POLLS_, MAX_SUMMARY_POLLS_PER_INVESTIGATION
  MaxTries,     \* attempts of every conditional update (3 in the code)
  Limit,        \* MAX_RECONCILIATIONS_PER_SWEEP
  MaxMessages,  \* max_agent_messages
  Threads,      \* bound: the sequences of messages that each thread may hold
  Reports,      \* bound: the ends that the platform may report of each thread
  Ageing,       \* bound: the rows that may outlive expires_at
  MaxFaults     \* bound: calls that fail, requests and sweeps that die

ASSUME NamesAssumption ==
  Inv \subseteq Nat /\ Readers \cap Replicas = {} /\ None \notin Replicas /\ Counter \notin Inv
ASSUME BoundsAssumption ==
  /\ MaxPolls \in Nat /\ MaxTries \in Nat \ {0} /\ Limit \in Nat \ {0}
  /\ MaxMessages \in Nat \ {0} /\ MaxFaults \in Nat

Workers == Readers \cup Replicas
Kinds   == {"status", "summary"}
Ends    == {"completed", "failed"}

ASSUME PlatformAssumption ==
  Threads \in [Inv -> SUBSET Seq(Message)] /\ Reports \in [Inv -> SUBSET Ends]

VARIABLES
  signals,   \* platform: the terminal words in the status fields of each thread
  posts,     \* platform: the messages of each thread
  state,     \* reservation_state of each row ("gone": deleted)
  threaded,  \* rows that hold a platform_thread_id
  polls,     \* status_poll_count and summary_poll_count
  spaced,    \* the minimum interval since last_status_poll, last_summary_poll is over
  lease,     \* reconciliation_lease_owner while the lease lasts
  expired,   \* rows that have outlived expires_at
  finalized, \* rows with findings_finalized_at
  creating,  \* rows that their creation may still finalize or release
  loc,       \* the operation of each worker and its local variables
  fresh,     \* rows whose ETag each worker holds and is current
  granted,   \* history: the polls that were let through
  shown,     \* history: the outcomes the platform ever gave grounds for
  reopened,  \* history: rows that a finalize made active after they were terminal
  faults     \* faults so far

platform == <<signals, posts, shown>>
outside  == <<platform, creating, reopened>>
row      == <<state, threaded, polls, spaced, lease, expired, finalized>>
vars     == <<outside, row, loc, fresh, granted, faults>>

Idle == [op |-> "none", pc |-> "idle", id |-> None, bare |-> FALSE, wait |-> FALSE,
         verdict |-> "open", cnt |-> 0, tries |-> 0, batch |-> {}, queue |-> {}]

(* A worker that this deployment does not have. *)
Off == [Idle EXCEPT !.pc = "off"]

Open    == {"reserved", "active"}
Present == {i \in Inv : state[i] # "gone"}
Active  == {i \in Inv : state[i] = "active"}

At(w, p)      == loc[w].pc = p
Becomes(w, l) == loc' = [loc EXCEPT ![w] = l]
GoTo(w, p)    == Becomes(w, [loc[w] EXCEPT !.pc = p])

(* A request ends; a sweep goes on to the next of the rows it has claimed. *)
Done(w) ==
  Becomes(w, IF loc[w].op # "sweep" THEN Idle
             ELSE [Idle EXCEPT !.op = "sweep", !.pc = "next", !.queue = loc[w].queue])

(* w now holds current ETags of rows, and the written rows got new ones. *)
Holds(w, rows, written) ==
  fresh' = [v \in Workers |-> IF v = w THEN rows ELSE fresh[v] \ written]

Fault == faults < MaxFaults /\ faults' = faults + 1

(* After a 412: another attempt from p, or the "conflicted" ValueError. *)
Retry(w, p) ==
  IF loc[w].tries + 1 < MaxTries
  THEN Becomes(w, [loc[w] EXCEPT !.pc = p, !.tries = @ + 1, !.cnt = 0]) ELSE Done(w)

(* A write was applied: w goes on as l, or, its response lost and the call   *)
(* sent again by the client library, finds its own new ETag in the way.      *)
Applied(w, l, p) ==
  \/ Becomes(w, l) /\ UNCHANGED faults
  \/ Retry(w, p) /\ Fault

Delete(i) == state' = [state EXCEPT ![i] = "gone"]

-----------------------------------------------------------------------------
(* The thread on the platform.                                               *)

(* Of the last messages, the texts of the agent that are not empty. *)
AgentTexts(s) ==
  LET texts[n \in 0..Len(s)] ==
        IF n = 0 THEN <<>>
        ELSE IF n + MaxMessages > Len(s) /\ s[n].agent /\ s[n].length > 0
             THEN Append(texts[n - 1], s[n]) ELSE texts[n - 1]
  IN  texts[Len(s)]

Grounds(words, s) ==
  words \cup IF IsFinalized(Selected(AgentTexts(s))) THEN {"completed"} ELSE {}

(* Initially the registry holds rows of every kind, of threads in every      *)
(* state, and nobody is at work.                                             *)
Init ==
  /\ signals \in [Inv -> SUBSET Ends]
  /\ posts \in [Inv -> Seq(Message)]
  /\ shown = [i \in Inv |-> Grounds(signals[i], posts[i])]
  /\ state \in [Inv -> {"reserved", "active", "completed", "failed", "gone"}]
  /\ \A i \in Inv : state[i] = "completed" => "completed" \in shown[i]
  /\ threaded = {i \in Inv : state[i] \in {"active", "completed"}}
  /\ polls \in [Inv -> [Kinds -> 0..MaxPolls]]
  /\ spaced = [i \in Inv |-> [k \in Kinds |-> TRUE]]
  /\ lease = [i \in Inv |-> None]
  /\ expired = {}
  /\ finalized = {}
  /\ creating \subseteq {i \in Inv : state[i] \in Open}
  /\ reopened = {}
  /\ loc \in [Workers -> {Idle, Off}]
  /\ fresh = [w \in Workers |-> {}]
  /\ granted = polls
  /\ faults \in 0..MaxFaults

-----------------------------------------------------------------------------
(* get_status, get_summary: the record, and the poll that it admits.         *)

(* get_investigation.  What the row says now is all that the rest of the      *)
(* request knows of its thread.  (A row that is gone, or that failed without *)
(* a thread, is answered at once.)                                           *)
Ask(w, i, k) ==
  /\ w \in Readers /\ At(w, "idle") /\ i \in Present
  /\ i \in expired \/ state[i] # "failed" \/ i \in threaded
  /\ \E wait \in (IF k = "status" THEN BOOLEAN ELSE {FALSE}) :
       Becomes(w, [Idle EXCEPT !.op = k, !.id = i, !.bare = i \notin threaded, !.wait = wait,
                               !.pc = IF i \in expired THEN "drop" ELSE "pollRead"])
  /\ Holds(w, IF i \in expired THEN {i} ELSE {}, {})
  /\ UNCHANGED <<outside, row, granted, faults>>

(* An expired row is deleted if it is unchanged; either way it is a 404, but *)
(* a poll that loses the race tries again.                                   *)
Drop(w) ==
  /\ loc[w].pc \in {"drop", "pollDrop"}
  /\ LET i == loc[w].id IN
       \/ i \in fresh[w] /\ Delete(i) /\ Done(w) /\ Holds(w, {}, {i})
       \/ /\ i \notin fresh[w] /\ Holds(w, {}, {}) /\ UNCHANGED state
          /\ IF At(w, "pollDrop") /\ i \in Present THEN Retry(w, "pollRead") ELSE Done(w)
  /\ UNCHANGED <<outside, threaded, polls, spaced, lease, expired, finalized, granted, faults>>

Exhausted(i, k) == polls[i][k] >= MaxPolls

(* Mutant of PollRead: one poll more than the maximum. *)
LaxPollRead(w) ==
  /\ At(w, "pollRead")
  /\ LET i == loc[w].id  k == loc[w].op IN
       \/ i \notin Present /\ Done(w) /\ UNCHANGED fresh
       \/ i \in Present /\ i \in expired /\ GoTo(w, "pollDrop") /\ Holds(w, {i}, {})
       \/ /\ i \in Present /\ i \notin expired
          /\ ~spaced[i][k] \/ polls[i][k] > MaxPolls
          /\ Done(w) /\ UNCHANGED fresh
       \/ /\ i \in Present /\ i \notin expired /\ spaced[i][k] /\ polls[i][k] <= MaxPolls
          /\ Becomes(w, [loc[w] EXCEPT !.pc = "pollWrite", !.cnt = polls[i][k]])
          /\ Holds(w, {i}, {})
  /\ UNCHANGED <<outside, row, granted, faults>>

(* record_status_poll, record_summary_poll: gone, expired, refused (429) ... *)
PollRead(w) ==
  /\ At(w, "pollRead")
  /\ LET i == loc[w].id  k == loc[w].op IN
       \/ i \notin Present /\ Done(w) /\ UNCHANGED fresh
       \/ i \in Present /\ i \in expired /\ GoTo(w, "pollDrop") /\ Holds(w, {i}, {})
       \/ /\ i \in Present /\ i \notin expired
          /\ ~spaced[i][k] \/ Exhausted(i, k)
          /\ Done(w) /\ UNCHANGED fresh
       \/ /\ i \in Present /\ i \notin expired /\ spaced[i][k] /\ ~Exhausted(i, k)
          /\ Becomes(w, [loc[w] EXCEPT !.pc = "pollWrite", !.cnt = polls[i][k]])
          /\ Holds(w, {i}, {})
  /\ UNCHANGED <<outside, row, granted, faults>>

Asks(k) == IF k = "status" THEN "thread" ELSE "report"

(* The poll is counted, and, unless its response was lost, let through. *)
Poll(w, i, k) ==
  /\ polls' = [polls EXCEPT ![i][k] = loc[w].cnt + 1]
  /\ spaced' = [spaced EXCEPT ![i][k] = FALSE]
  /\ \/ /\ Becomes(w, [loc[w] EXCEPT !.pc = Asks(k), !.cnt = 0, !.tries = 0])
        /\ granted' = [granted EXCEPT ![i][k] = @ + 1]
        /\ UNCHANGED faults
     \/ Retry(w, "pollRead") /\ Fault /\ UNCHANGED granted
  /\ Holds(w, {}, {i})

(* Mutant of PollWrite: the row is written without If-Match. *)
UnconditionalPollWrite(w) ==
  /\ At(w, "pollWrite") /\ loc[w].id \in Present
  /\ Poll(w, loc[w].id, loc[w].op)
  /\ UNCHANGED <<outside, state, threaded, lease, expired, finalized>>

(* ... or written back, counted and stamped, if nobody wrote it meanwhile. *)
PollWrite(w) ==
  /\ At(w, "pollWrite") /\ loc[w].id \in fresh[w]
  /\ Poll(w, loc[w].id, loc[w].op)
  /\ UNCHANGED <<outside, state, threaded, lease, expired, finalized>>

PollConflict(w) ==
  /\ At(w, "pollWrite") /\ loc[w].id \notin fresh[w]
  /\ IF loc[w].id \in Present THEN Retry(w, "pollRead") ELSE Done(w)
  /\ UNCHANGED <<outside, row, fresh, granted, faults>>

-----------------------------------------------------------------------------
(* fetch_investigation_status_once, of requests and of sweeps.               *)

Concludes(w, end) == Becomes(w, [loc[w] EXCEPT !.pc = "close", !.verdict = end])

(* Nothing final: the request waits and asks again, or says so; a sweep      *)
(* leaves the row to the next one.                                           *)
Inconclusive(w) ==
  IF loc[w].op = "sweep" THEN Done(w) ELSE GoTo(w, IF loc[w].wait THEN "thread" ELSE "answer")

(* The status fields; a failure outranks a completion.  An empty thread id   *)
(* asks for something that has none of them.                                 *)
FetchThread(w) ==
  /\ At(w, "thread")
  /\ LET words == IF loc[w].bare THEN {} ELSE signals[loc[w].id] IN
       \/ "failed" \in words /\ Concludes(w, "failed")
       \/ words = {"completed"} /\ Concludes(w, "completed")
       \/ words = {} /\ GoTo(w, "messages")
  /\ UNCHANGED <<outside, row, fresh, granted, faults>>

(* Mutant of MessagesUnread: a thread whose messages cannot be read failed. *)
MessagesUnreadFails(w) ==
  /\ At(w, "messages") /\ Fault
  /\ Concludes(w, "failed")
  /\ UNCHANGED <<outside, row, fresh, granted>>

(* The call for the messages fails, which the status does not tell. *)
MessagesUnread(w) ==
  /\ At(w, "messages") /\ Fault
  /\ Inconclusive(w)
  /\ UNCHANGED <<outside, row, fresh, granted>>

FetchMessages(w) ==
  /\ At(w, "messages")
  /\ IF ~loc[w].bare /\ IsFinalized(Selected(AgentTexts(posts[loc[w].id])))
     THEN Concludes(w, "completed") ELSE Inconclusive(w)
  /\ UNCHANGED <<outside, row, fresh, granted, faults>>

(* get_summary: pending or running, rejected (502), or findings to deliver. *)
ReadReport(w) ==
  /\ At(w, "report")
  /\ LET s == IF loc[w].bare THEN "pending" ELSE SummaryOf(AgentTexts(posts[loc[w].id])) IN
       \/ s \in {"pending", "running"} /\ GoTo(w, "answer")
       \/ s = "rejected" /\ Done(w)
       \/ s = "completed" /\ Concludes(w, "completed")
  /\ UNCHANGED <<outside, row, fresh, granted, faults>>

(* The platform call fails: the request is an error, the sweep goes on.  It  *)
(* may well fail for an empty thread id.                                     *)
CallFails(w) ==
  /\ loc[w].pc \in {"thread", "report"}
  /\ Done(w)
  /\ IF loc[w].bare THEN UNCHANGED faults ELSE Fault
  /\ UNCHANGED <<outside, row, fresh, granted>>

-----------------------------------------------------------------------------
(* complete_investigation, then record_findings_metadata for a summary.      *)

(* What follows a recorded outcome: the answer, the findings' metadata, or   *)
(* the sweep's next row.                                                     *)
Closed(w) ==
  CASE loc[w].op = "status"  -> [loc[w] EXCEPT !.pc = "answer", !.tries = 0]
    [] loc[w].op = "summary" -> [loc[w] EXCEPT !.pc = "findings", !.tries = 0]
    [] OTHER -> [Idle EXCEPT !.op = "sweep", !.pc = "next", !.queue = loc[w].queue]

(* The record, and the counter right after it; a row that is already         *)
(* terminal stays as it is.                                                  *)
CloseRead(w) ==
  /\ At(w, "close")
  /\ LET i == loc[w].id IN
       \/ i \notin Present /\ Done(w) /\ UNCHANGED fresh
       \/ i \in Present /\ state[i] \notin Open /\ Becomes(w, Closed(w)) /\ UNCHANGED fresh
       \/ state[i] \in Open /\ GoTo(w, "closeWrite") /\ Holds(w, {i, Counter}, {})
  /\ UNCHANGED <<outside, row, granted, faults>>

(* The record gets its outcome and, if need be, a later expires_at. *)
Close(w, i) ==
  /\ state' = [state EXCEPT ![i] = loc[w].verdict]
  /\ expired' = expired \ {i}
  /\ Applied(w, Closed(w), "close")
  /\ Holds(w, {}, {i, Counter})
  /\ UNCHANGED <<outside, threaded, polls, spaced, lease, finalized, granted>>

(* Mutant of CloseWrite: the transaction is sent without the ETags. *)
UnconditionalClose(w) ==
  /\ At(w, "closeWrite") /\ loc[w].id \in Present
  /\ Close(w, loc[w].id)

CloseWrite(w) ==
  /\ At(w, "closeWrite") /\ {loc[w].id, Counter} \subseteq fresh[w]
  /\ Close(w, loc[w].id)

(* 412; the 404 of a deleted row comes after the counter's 412, and ends it. *)
CloseConflict(w) ==
  /\ At(w, "closeWrite") /\ ~({loc[w].id, Counter} \subseteq fresh[w])
  /\ IF loc[w].id \in Present \/ Counter \notin fresh[w] THEN Retry(w, "close") ELSE Done(w)
  /\ Holds(w, {}, {})
  /\ UNCHANGED <<outside, row, granted, faults>>

FindingsRead(w) ==
  /\ At(w, "findings")
  /\ IF loc[w].id \in Present THEN GoTo(w, "findingsWrite") /\ Holds(w, {loc[w].id}, {})
     ELSE Done(w) /\ UNCHANGED fresh
  /\ UNCHANGED <<outside, row, granted, faults>>

(* Mutant of FindingsWrite: every summary extends the retention. *)
ExtendingFindingsWrite(w) ==
  /\ At(w, "findingsWrite") /\ loc[w].id \in fresh[w]
  /\ expired' = expired \ {loc[w].id}
  /\ finalized' = finalized \cup {loc[w].id}
  /\ Applied(w, [loc[w] EXCEPT !.pc = "answer", !.tries = 0], "findings")
  /\ Holds(w, {}, {loc[w].id})
  /\ UNCHANGED <<outside, state, threaded, polls, spaced, lease, granted>>

(* The first findings set the final retention. *)
FindingsWrite(w) ==
  /\ At(w, "findingsWrite") /\ loc[w].id \in fresh[w]
  /\ expired' = IF loc[w].id \in finalized THEN expired ELSE expired \ {loc[w].id}
  /\ finalized' = finalized \cup {loc[w].id}
  /\ Applied(w, [loc[w] EXCEPT !.pc = "answer", !.tries = 0], "findings")
  /\ Holds(w, {}, {loc[w].id})
  /\ UNCHANGED <<outside, state, threaded, polls, spaced, lease, granted>>

(* Mutant of FindingsConflict: the metadata is given up, the answer is not. *)
HastyFindingsConflict(w) ==
  /\ At(w, "findingsWrite") /\ loc[w].id \notin fresh[w]
  /\ GoTo(w, "answer")
  /\ UNCHANGED <<outside, row, fresh, granted, faults>>

FindingsConflict(w) ==
  /\ At(w, "findingsWrite") /\ loc[w].id \notin fresh[w]
  /\ IF loc[w].id \in Present THEN Retry(w, "findings") ELSE Done(w)
  /\ UNCHANGED <<outside, row, fresh, granted, faults>>

(* The caller has an answer. *)
Answer(w) ==
  /\ At(w, "answer") /\ Done(w)
  /\ UNCHANGED <<outside, row, fresh, granted, faults>>

(* A v1 route reads the record once more, and it is gone or expired: a 404.  *)
(* (Findings that are not there yet are a 409 before that.)                  *)
AnswerWithheld(w) ==
  /\ At(w, "answer")
  /\ loc[w].op = "status" \/ loc[w].verdict # "open"
  /\ LET i == loc[w].id IN
       \/ i \notin Present /\ Done(w) /\ UNCHANGED fresh
       \/ i \in Present /\ i \in expired /\ GoTo(w, "drop") /\ Holds(w, {i}, {})
  /\ UNCHANGED <<outside, row, granted, faults>>

-----------------------------------------------------------------------------
(* _run_terminal_reconciliation of one replica.                              *)

(* The first rows of the query for active ones, whatever their lease. *)
Window == {i \in Active : Cardinality({j \in Active : j < i}) < Limit}

Claimable(i) == i \in threaded /\ i \notin expired /\ lease[i] = None

(* claim_reconcilable_investigations: the rows that the query returns now    *)
(* and that nobody leases; with none to claim the sweep does nothing.        *)
StartSweep(w) ==
  /\ w \in Replicas /\ At(w, "idle")
  /\ \E i \in Window : Claimable(i)
  /\ Becomes(w, [Idle EXCEPT !.op = "sweep", !.pc = "claim",
                             !.batch = {i \in Window : Claimable(i)}])
  /\ Holds(w, {i \in Window : Claimable(i)}, {})
  /\ UNCHANGED <<outside, row, granted, faults>>

IsNext(i, rows) == i \in rows /\ \A j \in rows : i <= j

Lease(w, i) ==
  /\ lease' = [lease EXCEPT ![i] = w]
  /\ \/ Becomes(w, [loc[w] EXCEPT !.batch = @ \ {i}, !.queue = @ \cup {i}]) /\ UNCHANGED faults
     \/ Becomes(w, [loc[w] EXCEPT !.batch = @ \ {i}]) /\ Fault
  /\ Holds(w, fresh[w] \ {i}, {i})
  /\ UNCHANGED <<outside, state, threaded, polls, spaced, expired, finalized, granted>>

(* Mutant of Claim: the row is leased without If-Match. *)
UnconditionalClaim(w) ==
  /\ w \in Replicas /\ At(w, "claim")
  /\ \E i \in loc[w].batch : IsNext(i, loc[w].batch) /\ Lease(w, i)

(* A lease whose response is lost is not the sweep's to use. *)
Claim(w) ==
  /\ w \in Replicas /\ At(w, "claim")
  /\ \E i \in loc[w].batch : IsNext(i, loc[w].batch) /\ i \in fresh[w] /\ Lease(w, i)

ClaimConflict(w) ==
  /\ At(w, "claim")
  /\ \E i \in loc[w].batch \ fresh[w] :
       /\ IsNext(i, loc[w].batch)
       /\ IF i \in Present THEN Becomes(w, [loc[w] EXCEPT !.batch = @ \ {i}])
          ELSE Becomes(w, Idle)
       /\ Holds(w, IF i \in Present THEN fresh[w] ELSE {}, {})
  /\ UNCHANGED <<outside, row, granted, faults>>

ClaimDone(w) ==
  /\ At(w, "claim") /\ loc[w].batch = {}
  /\ GoTo(w, "next") /\ Holds(w, {}, {})
  /\ UNCHANGED <<outside, row, granted, faults>>

(* The claimed rows, one after the other. *)
NextRecord(w) ==
  /\ At(w, "next")
  /\ \/ \E i \in loc[w].queue :
          /\ IsNext(i, loc[w].queue)
          /\ Becomes(w, [loc[w] EXCEPT !.pc = "thread", !.id = i, !.queue = @ \ {i}])
     \/ loc[w].queue = {} /\ Becomes(w, Idle)
  /\ UNCHANGED <<outside, row, fresh, granted, faults>>

-----------------------------------------------------------------------------
(* The other operations on these rows (TableRegistry), time, and faults.     *)

Rewritten(rows) == fresh' = [w \in Workers |-> fresh[w] \ rows]

(* finalize_reservation enters the thread id and makes the row active,       *)
(* whatever its state was.  After a lost response it does so once more.      *)
Finalize(i) ==
  /\ i \in creating \cap Present
  /\ state' = [state EXCEPT ![i] = "active"]
  /\ threaded' = threaded \cup {i}
  /\ reopened' = IF state[i] \in Ends THEN reopened \cup {i} ELSE reopened
  /\ \/ creating' = creating \ {i} /\ UNCHANGED faults
     \/ Fault /\ UNCHANGED creating
  /\ Rewritten({i})
  /\ UNCHANGED <<platform, polls, spaced, lease, expired, finalized, loc, granted>>

(* The creation fails, its POST is in doubt, or the finalize gives up. *)
CreationEnds(i) ==
  /\ i \in creating
  /\ creating' = creating \ {i}
  /\ UNCHANGED <<platform, reopened, row, loc, fresh, granted, faults>>

(* release_stale_uncertain_reservations, which extends the retention, or,    *)
(* before the POST, release_reservation.                                     *)
Settle(i) ==
  /\ state[i] = "reserved"
  /\ \/ state' = [state EXCEPT ![i] = "failed"] /\ expired' = expired \ {i} /\ UNCHANGED creating
     \/ i \in creating /\ Delete(i) /\ creating' = creating \ {i} /\ UNCHANGED expired
  /\ Rewritten({i, Counter})
  /\ UNCHANGED <<platform, reopened, threaded, polls, spaced, lease, finalized, loc, granted, faults>>

(* cleanup_expired *)
Cleanup(i) ==
  /\ i \in Present \cap expired
  /\ Delete(i)
  /\ Rewritten({i, Counter})
  /\ UNCHANGED <<outside, threaded, polls, spaced, lease, expired, finalized, loc, granted, faults>>

(* Another investigation of the same caller moves its quota counter. *)
TouchCounter ==
  /\ Fault
  /\ Rewritten({Counter})
  /\ UNCHANGED <<outside, row, loc, granted>>

Expire(i) ==
  /\ i \in (Ageing \cap Present) \ expired
  /\ expired' = expired \cup {i}
  /\ UNCHANGED <<outside, state, threaded, polls, spaced, lease, finalized, loc, fresh, granted, faults>>

(* (When no poll is left nothing asks for it.) *)
IntervalEnds(i, k) ==
  /\ i \in Present /\ ~spaced[i][k] /\ ~Exhausted(i, k)
  /\ spaced' = [spaced EXCEPT ![i][k] = TRUE]
  /\ UNCHANGED <<outside, state, threaded, polls, lease, expired, finalized, loc, fresh, granted, faults>>

(* Mutant of LeaseEnds: the lease of a replica that is gone lasts. *)
LeaseNeverEnds(i) == FALSE /\ UNCHANGED vars

LeaseEnds(i) ==
  /\ lease[i] # None
  /\ lease' = [lease EXCEPT ![i] = None]
  /\ UNCHANGED <<outside, state, threaded, polls, spaced, expired, finalized, loc, fresh, granted, faults>>

(* Mutant of WaitEnds: the deadline moves with every poll. *)
WaitNeverEnds(w) == FALSE /\ UNCHANGED vars

WaitEnds(w) ==
  /\ loc[w].wait
  /\ Becomes(w, [loc[w] EXCEPT !.wait = FALSE])
  /\ UNCHANGED <<outside, row, fresh, granted, faults>>

(* The agent posts a message, or the platform reports an end. *)
PostMessage(i, thread) ==
  /\ i \in threaded \cap Present
  /\ Len(thread) = Len(posts[i]) + 1 /\ posts[i] = SubSeq(thread, 1, Len(posts[i]))
  /\ posts' = [posts EXCEPT ![i] = thread]
  /\ shown' = [shown EXCEPT ![i] = @ \cup Grounds(signals[i], thread)]
  /\ UNCHANGED <<signals, creating, reopened, row, loc, fresh, granted, faults>>

ReportEnd(i, e) ==
  /\ i \in threaded \cap Present /\ e \notin signals[i]
  /\ signals' = [signals EXCEPT ![i] = @ \cup {e}]
  /\ shown' = [shown EXCEPT ![i] = @ \cup {e}]
  /\ UNCHANGED <<posts, creating, reopened, row, loc, fresh, granted, faults>>

(* The replica stops, the request is cancelled, or a Table call fails: the   *)
(* operation ends where it is.                                               *)
Abandon(w) ==
  /\ loc[w].pc \notin {"idle", "off"} /\ Fault
  /\ Becomes(w, Idle) /\ Holds(w, {}, {})
  /\ UNCHANGED <<outside, row, granted>>

-----------------------------------------------------------------------------
PollStep(w)    == Drop(w) \/ PollRead(w) \/ PollWrite(w) \/ PollConflict(w)
FetchStep(w)   == \/ FetchThread(w) \/ MessagesUnread(w) \/ FetchMessages(w)
                  \/ ReadReport(w) \/ CallFails(w)
CloseStep(w)   == \/ CloseRead(w) \/ CloseWrite(w) \/ CloseConflict(w)
                  \/ FindingsRead(w) \/ FindingsWrite(w) \/ FindingsConflict(w)
AnswerStep(w)  == Answer(w) \/ AnswerWithheld(w)
SweepStep(w)   == Claim(w) \/ ClaimConflict(w) \/ ClaimDone(w) \/ NextRecord(w)

(* One more step of the operation w is in. *)
Step(w) == PollStep(w) \/ FetchStep(w) \/ CloseStep(w) \/ AnswerStep(w) \/ SweepStep(w)

RowStep(i) == \/ Finalize(i) \/ CreationEnds(i) \/ Settle(i) \/ Cleanup(i) \/ Expire(i) \/ LeaseEnds(i)
              \/ \E k \in Kinds : IntervalEnds(i, k)
              \/ \E thread \in Threads[i] : PostMessage(i, thread)
              \/ \E e \in Reports[i] : ReportEnd(i, e)

Next ==
  \/ \E w \in Workers : \/ Step(w) \/ StartSweep(w) \/ WaitEnds(w) \/ Abandon(w)
                        \/ \E i \in Inv, k \in Kinds : Ask(w, i, k)
  \/ \E i \in Inv : RowStep(i)
  \/ TouchCounter

Spec == Init /\ [][Next]_vars

(* Every operation that has begun is carried on, waits and leases end, and   *)
(* both background loops of every replica come round again and again.        *)
Fairness ==
  /\ \A w \in Workers : WF_vars(Step(w) \/ StartSweep(w))
  /\ \A w \in Readers : WF_vars(WaitEnds(w))
  /\ \A i \in Inv : WF_vars(LeaseEnds(i) \/ Cleanup(i))

FairSpec == Spec /\ Fairness

-----------------------------------------------------------------------------
(* Properties.                                                               *)

Pcs == {"idle", "off", "drop", "pollRead", "pollDrop", "pollWrite", "thread", "messages", "report",
        "close", "closeWrite", "findings", "findingsWrite", "answer", "claim",
        "next"}
Operation == [op : Kinds \cup {"none", "sweep"}, pc : Pcs, id : Inv \cup {None},
              bare : BOOLEAN, wait : BOOLEAN, verdict : Ends \cup {"open"},
              cnt : 0..MaxPolls, tries : 0..(MaxTries - 1),
              batch : SUBSET Inv, queue : SUBSET Inv]

(* The variables of the model have the types of the code's. *)
TypeOK ==
  /\ signals \in [Inv -> SUBSET Ends] /\ shown \in [Inv -> SUBSET Ends]
  /\ posts \in [Inv -> Seq(Message)]
  /\ state \in [Inv -> {"reserved", "active", "completed", "failed", "gone"}]
  /\ threaded \subseteq Inv /\ expired \subseteq Inv /\ finalized \subseteq Inv
  /\ creating \subseteq Inv /\ reopened \subseteq Inv
  /\ polls \in [Inv -> [Kinds -> 0..MaxPolls]] /\ granted \in [Inv -> [Kinds -> 0..MaxPolls]]
  /\ spaced \in [Inv -> [Kinds -> BOOLEAN]]
  /\ lease \in [Inv -> Replicas \cup {None}]
  /\ loc \in [Workers -> Operation]
  /\ fresh \in [Workers -> SUBSET (Inv \cup {Counter})]
  /\ faults \in 0..MaxFaults

(* No request is let through to the platform without one of the polls of its *)
(* investigation's budget, however many requests race on however many        *)
(* replicas, and whatever response is lost (record_status_poll,              *)
(* record_summary_poll; operations.md).                                      *)
EveryPollCounts == \A i \in Inv, k \in Kinds : granted[i][k] <= polls[i][k]

(* ... nor before the minimum interval since the last one is over. *)
PollsAreSpaced ==
  [][\A i \in Inv, k \in Kinds : granted'[i][k] # granted[i][k] => spaced[i][k]]_vars

(* A lease that lasts is nobody else's to take, nor its owner's to renew     *)
(* from an old copy of the row (claim_reconcilable_investigations: "so only  *)
(* one replica reconciles each thread").                                     *)
LeaseIsExclusive ==
  [][\A i \in Inv : lease[i] # None /\ lease'[i] # lease[i] => lease'[i] = None]_vars

(* Requests and reconcilers may reach different verdicts on one thread; the  *)
(* first that is recorded stands (complete_investigation): no other verdict  *)
(* takes its place.  Only the finalize of a creation still in progress does  *)
(* away with it, by making the row active again.                             *)
FirstOutcomeStands ==
  [][\A i \in Inv : state[i] \in Ends =>
       state'[i] \in {state[i], "gone"} \/ (i \in creating /\ state'[i] = "active")]_vars

(* A caller who was told of an end, or given findings, finds the record      *)
(* closed, its place in the quota given back, and, after findings, their     *)
(* retention set: no conflict, crash or deletion makes the proxy answer what *)
(* it has not recorded.  A record that finalize_reservation has reopened is  *)
(* the exception.                                                            *)
AnswersAreRecorded == \A w \in Readers :
  At(w, "answer") /\ loc[w].verdict # "open" =>
    /\ state[loc[w].id] \notin Open \/ loc[w].id \in reopened
    /\ loc[w].op = "summary" => loc[w].id \in finalized

(* An investigation ends as the platform has at some time said it ended: an  *)
(* unreadable answer, a lost race or a stale record never decides it.        *)
OutcomeHasCause == \A i \in threaded : state[i] \in Ends => state[i] \in shown[i]

(* operations.md: repeated summary reads do not extend retention (only the   *)
(* second completion of a reopened record does).                             *)
RetentionIsSetOnce ==
  [][\A i \in Inv : i \in finalized \ reopened /\ i \in expired => i \in expired']_vars

(* Once every active thread has ended, no investigation keeps its place in   *)
(* the quota: crashed sweeps, lost claims and callers that stopped polling   *)
(* notwithstanding (the docstring of _run_terminal_reconciliation).          *)
Over(i) == signals[i] # {}
EndedIsReconciled ==
  (\E w \in Replicas : ~At(w, "off")) /\ <>[](\A i \in Active : Over(i)) => <>[](Active = {})

(* Every request is answered: the long poll and the retries end. *)
RequestEnds == \A w \in Readers : loc[w].op \in Kinds ~> loc[w].op = "none"

(* Whatever a thread holds, messages put together are never taken for its    *)
(* report, the one report among them is found, and findings come from no     *)
(* other message (output_validation.py; see ReportSelection).                *)
ReportIsFound == \A i \in Inv :
  LET msgs == AgentTexts(posts[i])
  IN  CompositeIsNotFinal(msgs) /\ OneReportIsFound(msgs) /\ FindingsComeFromReport(msgs)
=============================================================================
