---------------------- MODULE InvestigationPollingProofs ----------------------
(***************************************************************************)
(* The safety properties of InvestigationPolling, for any requests,        *)
(* replicas, investigations and bounds.  What each worker knows in the     *)
(* middle of its operation strengthens them: PollingInv.                   *)
(***************************************************************************)
EXTENDS InvestigationPolling, ReportSelectionProofs, TLAPS

USE NamesAssumption, BoundsAssumption, PlatformAssumption

Requesting == {"drop", "pollRead", "pollDrop", "pollWrite", "thread", "messages", "report",
               "close", "closeWrite", "findings", "findingsWrite", "answer"}
Polling    == {"pollRead", "pollDrop", "pollWrite"}
Asking     == {"thread", "messages", "report"}
Closing    == {"close", "closeWrite"}
Finishing  == {"findings", "findingsWrite"}

(* The record is terminal or deleted, or was so until a finalize reopened it. *)
Settled(i) == state[i] \notin Open \/ i \in reopened

(* What the worker with the locals l has established stays true: a verdict   *)
(* had its grounds, and what follows a recorded outcome finds it recorded.   *)
Fine(l) ==
  /\ l.pc \in Requesting => l.id \in Inv
  /\ l.pc \in Polling => l.op \in Kinds
  /\ l.pc \in Polling \cup Asking \cup {"claim", "next"} => l.verdict = "open"
  /\ l.pc \in Closing => l.verdict \in Ends
  /\ l.verdict # "open" => l.id \in Inv /\ l.verdict \in shown[l.id]
  /\ l.pc \in Finishing => Settled(l.id)
  /\ l.pc = "answer" /\ l.verdict # "open" =>
       Settled(l.id) /\ (l.op = "summary" => l.id \in finalized)

(* What it read is still what the table holds, while its ETags F are current. *)
Current(l, F) ==
  /\ l.pc = "pollWrite" =>
       l.cnt < MaxPolls /\ (l.id \in F => polls[l.id][l.op] = l.cnt /\ spaced[l.id][l.op])
  /\ l.pc = "closeWrite" /\ l.id \in F => state[l.id] \in Open
  /\ l.pc = "claim" => \A i \in l.batch \cap F : lease[i] = None

WorkersOK == \A w \in Workers : Fine(loc[w]) /\ Current(loc[w], fresh[w])

GroundsOK  == \A i \in Inv : Grounds(signals[i], posts[i]) \subseteq shown[i]
ReservedOK == \A i \in threaded : state[i] # "reserved"
FinalOK    == \A i \in finalized : Settled(i)

RowsOK == GroundsOK /\ ReservedOK /\ FinalOK /\ EveryPollCounts /\ OutcomeHasCause

PollingInv == TypeOK /\ RowsOK /\ WorkersOK

-----------------------------------------------------------------------------
Resting(l) == l \in Operation /\ l.pc \in {"idle", "off", "next"} /\ l.verdict = "open"

LEMMA RestingOK ==
  /\ Resting(Idle) /\ Resting(Off)
  /\ \A l, F : Resting(l) => Fine(l) /\ Current(l, F)
<1>1. Idle \in Operation /\ Idle.pc = "idle" /\ Idle.verdict = "open"
  <2>1. 0 \in 0..MaxPolls /\ 0 \in 0..(MaxTries - 1)
    OBVIOUS
  <2> QED
    BY <2>1 DEF Idle, Operation, Pcs
<1>2. Off \in Operation /\ Off.pc = "off" /\ Off.verdict = "open"
  BY <1>1 DEF Off, Operation, Pcs
<1>3. ASSUME NEW l, NEW F, Resting(l) PROVE Fine(l) /\ Current(l, F)
  BY <1>3 DEF Resting, Fine, Settled, Current, Requesting, Polling, Asking, Closing, Finishing
<1> QED
  BY <1>1, <1>2, <1>3 DEF Resting

LEMMA Initially == Init => PollingInv
<1> SUFFICES ASSUME Init PROVE PollingInv
  OBVIOUS
<1>1. signals \in [Inv -> SUBSET Ends] /\ posts \in [Inv -> Seq(Message)]
      /\ shown = [i \in Inv |-> Grounds(signals[i], posts[i])]
  BY DEF Init
<1>2. shown \in [Inv -> SUBSET Ends]
  BY <1>1 DEF Grounds, Ends
<1>3. \A w \in Workers : Resting(loc[w]) /\ loc[w] \in Operation
  BY RestingOK DEF Init, Resting
<1>4. polls \in [Inv -> [Kinds -> 0..MaxPolls]] /\ granted = polls
  BY DEF Init
<1>5. spaced \in [Inv -> [Kinds -> BOOLEAN]]
  BY DEF Init
<1>6. loc \in [Workers -> Operation] /\ fresh \in [Workers -> SUBSET (Inv \cup {Counter})]
  BY <1>3 DEF Init
<1>7. /\ state \in [Inv -> {"reserved", "active", "completed", "failed", "gone"}]
      /\ threaded = {i \in Inv : state[i] \in {"active", "completed"}}
      /\ expired = {} /\ finalized = {} /\ faults \in 0..MaxFaults
      /\ lease \in [Inv -> Replicas \cup {None}]
      /\ creating \subseteq Inv /\ reopened = {}
  BY DEF Init
<1>8. TypeOK
  BY <1>1, <1>2, <1>4, <1>5, <1>6, <1>7 DEF TypeOK
<1>9. WorkersOK
  BY <1>3, RestingOK DEF WorkersOK
<1>10. GroundsOK /\ ReservedOK /\ FinalOK
  BY <1>1, <1>7 DEF GroundsOK, ReservedOK, FinalOK, Settled
<1>11. EveryPollCounts
  <2> SUFFICES ASSUME NEW i \in Inv, NEW k \in Kinds PROVE granted[i][k] <= polls[i][k]
    BY DEF EveryPollCounts
  <2>1. polls[i][k] \in Nat
    BY <1>4
  <2> QED
    BY <1>4, <2>1
<1>12. OutcomeHasCause
  BY <1>7 DEF Init, OutcomeHasCause, Ends
<1> QED
  BY <1>8, <1>9, <1>10, <1>11, <1>12 DEF PollingInv, RowsOK

-----------------------------------------------------------------------------
(* What a step does to the rows that the other workers may rely on.          *)
Steady ==
  /\ \A i \in Inv : shown[i] \subseteq shown'[i]
  /\ \A i \in Inv : Settled(i) => Settled(i)'
  /\ finalized \subseteq finalized'

Unwritten(i) ==
  /\ state'[i] = state[i] /\ polls'[i] = polls[i] /\ lease'[i] \in {lease[i], None}
  /\ \A k \in Kinds : spaced[i][k] => spaced'[i][k]

(* A worker that does not move keeps what it knows. *)
LEMMA Bystander ==
  ASSUME PollingInv, Steady, NEW v \in Workers, loc'[v] = loc[v], fresh'[v] \subseteq fresh[v],
         \A i \in Inv \cap fresh'[v] : Unwritten(i)
  PROVE  Fine(loc[v])' /\ Current(loc[v], fresh[v])'
<1> DEFINE l == loc[v]
<1>1. Fine(l) /\ Current(l, fresh[v]) /\ l \in Operation
  BY DEF PollingInv, WorkersOK, TypeOK
<1>2. l.batch \subseteq Inv
  BY <1>1 DEF Operation
<1> HIDE DEF l
<1>3. l = loc[v] /\ l = loc'[v]
  BY DEF l
<1>4. Fine(l)'
  BY <1>1, <1>3 DEF Fine, Settled, Steady, Requesting, Polling, Asking, Closing, Finishing, l
<1>5. Current(l, fresh[v])'
  <2>1. CASE l.pc = "pollWrite"
    <3>1. l.id \in Inv /\ l.op \in Kinds
      BY <1>1, <2>1 DEF Fine, Settled, Requesting, Polling
    <3> QED
      BY <1>1, <1>3, <2>1, <3>1 DEF Current, Unwritten, l
  <2>2. CASE l.pc = "closeWrite"
    <3>1. l.id \in Inv
      BY <1>1, <2>2 DEF Fine, Settled, Requesting
    <3> QED
      BY <1>1, <1>3, <2>2, <3>1 DEF Current, Unwritten, l
  <2>3. CASE l.pc \notin {"pollWrite", "closeWrite"}
    BY <1>1, <1>2, <1>3, <2>3 DEF Current, Unwritten, l
  <2> QED
    BY <2>1, <2>2, <2>3
<1> QED
  BY <1>3, <1>4, <1>5 DEF l

LEMMA HoldsType ==
  ASSUME TypeOK, NEW w \in Workers, NEW F \in SUBSET (Inv \cup {Counter}), NEW written,
         Holds(w, F, written)
  PROVE  fresh' \in [Workers -> SUBSET (Inv \cup {Counter})]
<1>1. \A v \in Workers : fresh[v] \in SUBSET (Inv \cup {Counter})
  BY DEF TypeOK
<1>2. \A v \in Workers : (IF v = w THEN F ELSE fresh[v] \ written) \in SUBSET (Inv \cup {Counter})
  BY <1>1
<1> QED
  BY <1>2, Zenon DEF Holds

(* A step of worker w that leaves the rows and the platform alone. *)
LEMMA LocalStep ==
  ASSUME PollingInv, NEW w \in Workers, NEW r \in Operation, Becomes(w, r),
         UNCHANGED <<outside, row, granted>>, faults' \in 0..MaxFaults,
         NEW F \in SUBSET (Inv \cup {Counter}),
         \/ UNCHANGED fresh /\ F = fresh[w]
         \/ \E written \in SUBSET (Inv \cup {Counter}) : Holds(w, F, written),
         Fine(r), Current(r, F)
  PROVE  PollingInv'
<1>1. UNCHANGED <<signals, posts, shown, creating, reopened, state, threaded, polls, spaced,
                  lease, expired, finalized,
                  granted>>
  BY DEF platform, outside, row
<1>2. \A v \in Workers : /\ loc'[v] = (IF v = w THEN r ELSE loc[v])
                         /\ v # w => fresh'[v] \subseteq fresh[v]
                         /\ v = w => fresh'[v] = F
  BY DEF PollingInv, TypeOK, Becomes, Holds
<1>3. fresh' \in [Workers -> SUBSET (Inv \cup {Counter})]
  BY HoldsType DEF PollingInv, TypeOK
<1>4. TypeOK'
  BY <1>1, <1>3 DEF PollingInv, TypeOK, Becomes
<1>5. RowsOK'
  BY <1>1 DEF PollingInv, RowsOK, GroundsOK, ReservedOK, FinalOK, Settled, EveryPollCounts, OutcomeHasCause
<1>6. Steady /\ \A i \in Inv : Unwritten(i)
  BY <1>1 DEF Steady, Settled, Unwritten
<1>7. Fine(loc[w])' /\ Current(loc[w], fresh[w])'
  <2>1. loc'[w] = r /\ fresh'[w] = F
    BY <1>2
  <2> QED
    BY <1>1, <2>1 DEF Fine, Settled, Current
<1>8. WorkersOK'
  BY <1>2, <1>6, <1>7, Bystander DEF WorkersOK
<1> QED
  BY <1>4, <1>5, <1>8 DEF PollingInv

LEMMA Local ==
  ASSUME PollingInv, NEW w \in Workers
  PROVE  loc[w] \in Operation /\ fresh[w] \in SUBSET (Inv \cup {Counter})
         /\ Fine(loc[w]) /\ Current(loc[w], fresh[w])
BY DEF PollingInv, TypeOK, WorkersOK

LEMMA DoneRests ==
  ASSUME PollingInv, NEW w \in Workers, Done(w)
  PROVE  \E r \in Operation : Becomes(w, r) /\ Resting(r)
<1>1. CASE loc[w].op # "sweep"
  BY <1>1, RestingOK DEF Done, Resting
<1>2. CASE loc[w].op = "sweep"
  <2> DEFINE r == [Idle EXCEPT !.op = "sweep", !.pc = "next", !.queue = loc[w].queue]
  <2>1. r \in Operation /\ r.pc = "next" /\ r.verdict = "open"
    BY Local, RestingOK DEF Resting, Operation, Pcs, Idle
  <2> QED
    BY <1>2, <2>1 DEF Done, Resting
<1> QED
  BY <1>1, <1>2

LEMMA RetryType ==
  ASSUME PollingInv, NEW w \in Workers, NEW p \in Pcs, loc[w].tries + 1 < MaxTries
  PROVE  [loc[w] EXCEPT !.pc = p, !.tries = @ + 1, !.cnt = 0] \in Operation
<1>1. loc[w] \in Operation
  BY Local
<1>2. loc[w].tries + 1 \in 0..(MaxTries - 1) /\ 0 \in 0..MaxPolls
  BY <1>1 DEF Operation
<1> QED
  BY <1>1, <1>2 DEF Operation

Etags == SUBSET (Inv \cup {Counter})

LEMMA FaultOK == TypeOK /\ (UNCHANGED faults \/ Fault) => faults' \in 0..MaxFaults
BY DEF TypeOK, Fault

(* The same for a step to a point where nothing hangs on an ETag. *)
LEMMA QuietStep ==
  ASSUME PollingInv, NEW w \in Workers, NEW r \in Operation, Becomes(w, r),
         UNCHANGED <<outside, row, granted>>, UNCHANGED faults \/ Fault,
         UNCHANGED fresh \/ \E F, written \in Etags : Holds(w, F, written),
         Fine(r), r.pc \notin {"pollWrite", "closeWrite", "claim"}
  PROVE  PollingInv'
<1>1. faults' \in 0..MaxFaults
  BY FaultOK DEF PollingInv
<1>2. \A F : Current(r, F)
  BY DEF Current
<1>3. CASE UNCHANGED fresh
  <2>1. fresh[w] \in Etags
    BY DEF PollingInv, TypeOK, Etags
  <2> QED
    BY <1>1, <1>2, <1>3, <2>1, LocalStep DEF Etags
<1>4. CASE \E F, written \in Etags : Holds(w, F, written)
  BY <1>1, <1>2, <1>4, LocalStep DEF Etags
<1> QED
  BY <1>3, <1>4

(* An operation that is over. *)
LEMMA RestStep ==
  ASSUME PollingInv, NEW w \in Workers, Done(w) \/ Becomes(w, Idle),
         UNCHANGED <<outside, row, granted>>, UNCHANGED faults \/ Fault,
         UNCHANGED fresh \/ \E F, written \in Etags : Holds(w, F, written)
  PROVE  PollingInv'
<1>1. PICK r \in Operation : Becomes(w, r) /\ Resting(r)
  BY RestingOK, DoneRests DEF Resting
<1> QED
  BY <1>1, RestingOK, QuietStep DEF Resting

(* An update that is tried once more, or given up. *)
LEMMA RetryStep ==
  ASSUME PollingInv, NEW w \in Workers,
         NEW p \in {"pollRead", "close", "findings"}, Retry(w, p),
         UNCHANGED <<outside, row, granted>>, UNCHANGED faults \/ Fault,
         UNCHANGED fresh \/ \E F, written \in Etags : Holds(w, F, written),
         Fine([loc[w] EXCEPT !.pc = p])
  PROVE  PollingInv'
<1>1. CASE loc[w].tries + 1 < MaxTries
  <2> DEFINE r == [loc[w] EXCEPT !.pc = p, !.tries = @ + 1, !.cnt = 0]
  <2> p \in Pcs
    BY DEF Pcs
  <2>1. r \in Operation /\ r.pc = p
    BY <1>1, RetryType, Local DEF Operation
  <2>2. Fine(r)
    BY Local DEF Fine, Settled, Operation
  <2>3. Becomes(w, r)
    BY <1>1 DEF Retry
  <2> HIDE DEF r
  <2> QED
    BY <2>1, <2>2, <2>3, QuietStep
<1>2. CASE ~(loc[w].tries + 1 < MaxTries)
  BY <1>2, RestStep DEF Retry
<1> QED
  BY <1>1, <1>2

LEMMA EtagSets ==
  /\ {} \in Etags /\ \A i \in Inv : {i} \in Etags /\ {i, Counter} \in Etags
  /\ \A S \in SUBSET Inv : S \in Etags
BY DEF Etags

LEMMA AskStep ==
  ASSUME PollingInv, NEW w \in Workers, NEW i \in Inv, NEW k \in Kinds, Ask(w, i, k)
  PROVE  PollingInv'
<1>1. PICK wait \in BOOLEAN, p \in {"drop", "pollRead"} :
        Becomes(w, [Idle EXCEPT !.op = k, !.id = i, !.bare = i \notin threaded, !.wait = wait,
                                !.pc = p])
  <2>1. (IF i \in expired THEN "drop" ELSE "pollRead") \in {"drop", "pollRead"}
    OBVIOUS
  <2> QED
    BY <2>1 DEF Ask
<1> DEFINE r == [Idle EXCEPT !.op = k, !.id = i, !.bare = i \notin threaded, !.wait = wait,
                             !.pc = p]
<1>2. Idle \in Operation /\ Idle.verdict = "open"
  BY RestingOK DEF Resting
<1>3. p \in Pcs
  BY DEF Pcs
<1>4. r \in Operation /\ r.id = i /\ r.op = k /\ r.verdict = "open" /\ r.pc = p
  BY <1>2, <1>3 DEF Operation
<1>5. Becomes(w, r)
  BY <1>1
<1> HIDE DEF r
<1>6. Fine(r)
  BY <1>4 DEF Fine, Settled, Closing, Finishing
<1>7. \E F, written \in Etags : Holds(w, F, written)
  BY EtagSets DEF Ask
<1> QED
  BY <1>4, <1>5, <1>6, <1>7, QuietStep DEF Ask

LEMMA PollReadStep ==
  ASSUME PollingInv, NEW w \in Workers, PollRead(w)
  PROVE  PollingInv'
<1> DEFINE i == loc[w].id
           k == loc[w].op
<1>1. /\ i \in Inv /\ k \in Kinds /\ loc[w] \in Operation /\ loc[w].verdict = "open"
      /\ UNCHANGED <<outside, row, granted, faults>>
  BY Local DEF PollRead, At, Fine, Settled, Requesting, Polling
<1>2. CASE Done(w) /\ UNCHANGED fresh
  BY <1>1, <1>2, RestStep
<1>3. CASE GoTo(w, "pollDrop") /\ Holds(w, {i}, {})
  <2> DEFINE r == [loc[w] EXCEPT !.pc = "pollDrop"]
  <2>1. r \in Operation /\ Fine(r) /\ r.pc = "pollDrop" /\ Becomes(w, r)
    BY <1>1, <1>3 DEF Operation, Pcs, Fine, Settled, Closing, Finishing, GoTo
  <2> HIDE DEF r
  <2>2. \E F, written \in Etags : Holds(w, F, written)
    BY <1>1, <1>3, EtagSets
  <2> QED
    BY <1>1, <2>1, <2>2, QuietStep
<1>4. CASE /\ spaced[i][k] /\ ~Exhausted(i, k)
           /\ Becomes(w, [loc[w] EXCEPT !.pc = "pollWrite", !.cnt = polls[i][k]])
           /\ Holds(w, {i}, {})
  <2> DEFINE r == [loc[w] EXCEPT !.pc = "pollWrite", !.cnt = polls[i][k]]
  <2>1. polls[i][k] \in 0..MaxPolls /\ polls[i][k] < MaxPolls
    BY <1>1, <1>4 DEF PollingInv, TypeOK, Exhausted
  <2>2. /\ r \in Operation /\ r.pc = "pollWrite" /\ r.cnt = polls[i][k] /\ r.id = i /\ r.op = k
        /\ r.verdict = "open" /\ Becomes(w, r)
    BY <1>1, <1>4, <2>1 DEF Operation, Pcs
  <2> HIDE DEF r
  <2>3. Fine(r) /\ Current(r, {i})
    BY <1>1, <1>4, <2>1, <2>2 DEF Fine, Settled, Current, Closing, Finishing
  <2>4. faults' \in 0..MaxFaults /\ {i} \in SUBSET (Inv \cup {Counter})
    BY <1>1 DEF PollingInv, TypeOK
  <2> QED
    BY <1>1, <1>4, <2>2, <2>3, <2>4, LocalStep
<1> QED
  BY <1>2, <1>3, <1>4 DEF PollRead

LEMMA PollConflictStep ==
  ASSUME PollingInv, NEW w \in Workers, PollConflict(w)
  PROVE  PollingInv'
<1>1. Fine([loc[w] EXCEPT !.pc = "pollRead"])
  BY Local DEF PollConflict, At, Fine, Settled, Operation, Requesting, Polling, Closing, Finishing
<1> QED
  BY <1>1, RetryStep, RestStep DEF PollConflict

-----------------------------------------------------------------------------
(* The calls to the platform: a verdict has its grounds.                     *)

LEMMA ConcludesStep ==
  ASSUME PollingInv, NEW w \in Workers, loc[w].pc \in Asking, NEW e \in Ends,
         Concludes(w, e), e \in shown[loc[w].id], UNCHANGED <<outside, row, fresh, granted, faults>>
  PROVE  PollingInv'
<1> DEFINE r == [loc[w] EXCEPT !.pc = "close", !.verdict = e]
<1>1. loc[w] \in Operation /\ loc[w].id \in Inv
  BY Local DEF Fine, Settled, Requesting, Asking
<1>2. /\ r \in Operation /\ r.pc = "close" /\ r.verdict = e /\ r.id = loc[w].id
      /\ Becomes(w, r)
  BY <1>1 DEF Operation, Pcs, Concludes
<1> HIDE DEF r
<1>3. Fine(r)
  BY <1>1, <1>2 DEF Fine, Settled, Polling, Asking, Finishing
<1> QED
  BY <1>2, <1>3, QuietStep

(* A move between the calls, or on to an answer without an outcome. *)
LEMMA MoveStep ==
  ASSUME PollingInv, NEW w \in Workers, loc[w].pc \in Asking,
         NEW p \in {"thread", "messages", "answer"}, GoTo(w, p),
         UNCHANGED <<outside, row, fresh, granted>>, UNCHANGED faults \/ Fault
  PROVE  PollingInv'
<1> DEFINE r == [loc[w] EXCEPT !.pc = p]
<1>1. loc[w] \in Operation /\ loc[w].id \in Inv /\ loc[w].verdict = "open"
  BY Local DEF Fine, Settled, Requesting, Asking
<1>2. /\ r \in Operation /\ r.pc = p /\ r.verdict = "open" /\ r.id = loc[w].id
      /\ Becomes(w, r)
  BY <1>1 DEF Operation, Pcs, GoTo
<1> HIDE DEF r
<1>3. Fine(r)
  BY <1>1, <1>2 DEF Fine, Settled, Polling, Closing, Finishing
<1> QED
  BY <1>2, <1>3, QuietStep

LEMMA InconclusiveStep ==
  ASSUME PollingInv, NEW w \in Workers, loc[w].pc \in Asking, Inconclusive(w),
         UNCHANGED <<outside, row, fresh, granted>>, UNCHANGED faults \/ Fault
  PROVE  PollingInv'
<1>1. CASE loc[w].op = "sweep"
  BY <1>1, RestStep DEF Inconclusive
<1>2. CASE loc[w].op # "sweep"
  <2>1. \E p \in {"thread", "answer"} : GoTo(w, p)
    BY <1>2 DEF Inconclusive
  <2> QED
    BY <2>1, MoveStep
<1> QED
  BY <1>1, <1>2

LEMMA SummaryIsFinal ==
  ASSUME NEW msgs, SummaryOf(msgs) = "completed"
  PROVE  IsFinalized(Selected(msgs))
BY DEF SummaryOf

LEMMA FetchSteps ==
  ASSUME PollingInv, NEW w \in Workers, FetchStep(w)
  PROVE  PollingInv'
<1> DEFINE i == loc[w].id
<1>1. loc[w].pc \in Asking
  BY DEF FetchStep, FetchThread, MessagesUnread, FetchMessages, ReadReport, CallFails, At, Asking
<1>2. i \in Inv /\ Grounds(signals[i], posts[i]) \subseteq shown[i]
  BY <1>1, Local DEF Fine, Settled, Requesting, Asking, PollingInv, RowsOK, GroundsOK
<1>3. /\ signals[i] \subseteq shown[i]
      /\ IsFinalized(Selected(AgentTexts(posts[i]))) => "completed" \in shown[i]
  BY <1>2 DEF Grounds
<1>4. "completed" \in Ends /\ "failed" \in Ends
  BY DEF Ends
<1>5. CASE FetchThread(w)
  <2>1. CASE loc[w].bare
    BY <1>1, <1>5, <2>1, MoveStep DEF FetchThread
  <2>2. CASE ~loc[w].bare
    <3>1. \/ "failed" \in signals[i] /\ Concludes(w, "failed")
          \/ signals[i] = {"completed"} /\ Concludes(w, "completed")
          \/ GoTo(w, "messages")
      BY <1>5, <2>2 DEF FetchThread
    <3> QED
      BY <1>1, <1>3, <1>4, <1>5, <3>1, ConcludesStep, MoveStep DEF FetchThread
  <2> QED
    BY <2>1, <2>2
<1>6. CASE MessagesUnread(w)
  BY <1>1, <1>6, InconclusiveStep DEF MessagesUnread
<1>7. CASE FetchMessages(w)
  BY <1>1, <1>3, <1>4, <1>7, ConcludesStep, InconclusiveStep DEF FetchMessages
<1>8. CASE ReadReport(w)
  <2>1. CASE GoTo(w, "answer")
    BY <1>1, <1>8, <2>1, MoveStep DEF ReadReport
  <2>2. CASE Done(w)
    BY <1>8, <2>2, RestStep DEF ReadReport
  <2>3. CASE ~GoTo(w, "answer") /\ ~Done(w)
    <3>1. ~loc[w].bare /\ SummaryOf(AgentTexts(posts[i])) = "completed" /\ Concludes(w, "completed")
      BY <1>8, <2>3 DEF ReadReport
    <3>2. "completed" \in shown[i]
      BY <1>3, <3>1, SummaryIsFinal
    <3> QED
      BY <1>1, <1>4, <1>8, <3>1, <3>2, ConcludesStep DEF ReadReport
  <2> QED
    BY <2>1, <2>2, <2>3
<1>9. CASE CallFails(w)
  BY <1>9, RestStep DEF CallFails
<1> QED
  BY <1>5, <1>6, <1>7, <1>8, <1>9 DEF FetchStep

-----------------------------------------------------------------------------
(* The reads and the conflicts of the closing operations, and the answers.   *)

LEMMA ClosedFine ==
  ASSUME PollingInv, NEW w \in Workers, loc[w].pc \in Closing
  PROVE  /\ Closed(w) \in Operation /\ Closed(w).pc \in {"answer", "findings", "next"}
         /\ Closed(w).pc = "next" => Resting(Closed(w))
         /\ Closed(w).pc # "next" =>
              /\ Closed(w).id = loc[w].id /\ Closed(w).verdict = loc[w].verdict
              /\ Closed(w).op = loc[w].op
              /\ Closed(w).pc = "answer" => Closed(w).op # "summary"
<1>1. loc[w] \in Operation /\ 0 \in 0..(MaxTries - 1)
  BY Local
<1>2. CASE loc[w].op = "status"
  <2>1. Closed(w) = [loc[w] EXCEPT !.pc = "answer", !.tries = 0]
    BY <1>2 DEF Closed
  <2> QED
    BY <1>1, <1>2, <2>1 DEF Operation, Pcs
<1>3. CASE loc[w].op = "summary"
  <2>1. Closed(w) = [loc[w] EXCEPT !.pc = "findings", !.tries = 0]
    BY <1>3 DEF Closed
  <2> QED
    BY <1>1, <1>3, <2>1 DEF Operation, Pcs
<1>4. CASE loc[w].op \notin {"status", "summary"}
  <2>1. Closed(w) = [Idle EXCEPT !.op = "sweep", !.pc = "next", !.queue = loc[w].queue]
    BY <1>4 DEF Closed
  <2>2. Idle \in Operation /\ Idle.verdict = "open"
    BY RestingOK DEF Resting
  <2> QED
    BY <1>1, <2>1, <2>2 DEF Operation, Pcs, Resting
<1> QED
  BY <1>2, <1>3, <1>4

LEMMA CloseReadStep ==
  ASSUME PollingInv, NEW w \in Workers, CloseRead(w)
  PROVE  PollingInv'
<1> DEFINE i == loc[w].id
<1>1. /\ loc[w].pc \in Closing /\ At(w, "close") /\ i \in Inv /\ loc[w] \in Operation
      /\ loc[w].verdict \in Ends /\ loc[w].verdict \in shown[i] /\ loc[w].verdict # "open"
      /\ UNCHANGED <<outside, row, granted, faults>>
  BY Local DEF CloseRead, At, Closing, Requesting, Fine, Settled, Ends
<1>2. CASE Done(w) /\ UNCHANGED fresh
  BY <1>1, <1>2, RestStep
<1>3. CASE state[i] \notin Open /\ Becomes(w, Closed(w)) /\ UNCHANGED fresh
  <2> DEFINE r == Closed(w)
  <2>1. Fine(r)
    BY <1>1, <1>3, ClosedFine, RestingOK DEF Fine, Settled, Requesting, Polling, Asking, Closing, Finishing
  <2>2. r \in Operation /\ r.pc \notin {"pollWrite", "closeWrite", "claim"} /\ Becomes(w, r)
    BY <1>1, <1>3, ClosedFine
  <2> HIDE DEF r
  <2> QED
    BY <1>1, <1>3, <2>1, <2>2, QuietStep
<1>4. CASE state[i] \in Open /\ GoTo(w, "closeWrite") /\ Holds(w, {i, Counter}, {})
  <2> DEFINE r == [loc[w] EXCEPT !.pc = "closeWrite"]
  <2>1. /\ r \in Operation /\ r.pc = "closeWrite" /\ r.id = i /\ r.verdict = loc[w].verdict
        /\ Becomes(w, r)
    BY <1>1, <1>4 DEF Operation, Pcs, GoTo
  <2> HIDE DEF r
  <2>2. Fine(r) /\ Current(r, {i, Counter})
    BY <1>1, <1>4, <2>1 DEF Fine, Settled, Current, Requesting, Polling, Asking, Closing, Finishing
  <2>3. faults' \in 0..MaxFaults /\ {i, Counter} \in SUBSET (Inv \cup {Counter})
    BY <1>1 DEF PollingInv, TypeOK
  <2> QED
    BY <1>1, <1>4, <2>1, <2>2, <2>3, LocalStep
<1> QED
  BY <1>2, <1>3, <1>4 DEF CloseRead

(* From where an operation may try again. *)
LEMMA RetryFine ==
  ASSUME PollingInv, NEW w \in Workers
  PROVE  /\ loc[w].pc \in Polling => Fine([loc[w] EXCEPT !.pc = "pollRead"])
         /\ loc[w].pc \in Closing => Fine([loc[w] EXCEPT !.pc = "close"])
         /\ loc[w].pc \in Finishing => Fine([loc[w] EXCEPT !.pc = "findings"])
BY Local DEF Fine, Settled, Operation, Requesting, Polling, Asking, Closing, Finishing

LEMMA ConflictSteps ==
  ASSUME PollingInv, NEW w \in Workers, CloseConflict(w) \/ FindingsConflict(w)
  PROVE  PollingInv'
<1>1. CASE CloseConflict(w)
  <2>1. \E F, written \in Etags : Holds(w, F, written)
    BY <1>1, EtagSets DEF CloseConflict
  <2> QED
    BY <1>1, <2>1, RetryFine, RetryStep, RestStep DEF CloseConflict, At, Closing
<1>2. CASE FindingsConflict(w)
  BY <1>2, RetryFine, RetryStep, RestStep DEF FindingsConflict, At, Finishing
<1> QED
  BY <1>1, <1>2

LEMMA FindingsReadStep ==
  ASSUME PollingInv, NEW w \in Workers, FindingsRead(w)
  PROVE  PollingInv'
<1> DEFINE r == [loc[w] EXCEPT !.pc = "findingsWrite"]
<1>1. loc[w] \in Operation /\ loc[w].id \in Inv /\ At(w, "findings") /\ Settled(loc[w].id)
  BY Local DEF FindingsRead, At, Fine, Settled, Requesting, Finishing
<1>2. CASE Done(w) /\ UNCHANGED fresh
  BY <1>2, RestStep DEF FindingsRead
<1>3. CASE Becomes(w, r) /\ Holds(w, {loc[w].id}, {})
  <2>1. r \in Operation /\ r.pc = "findingsWrite"
    BY <1>1 DEF Operation, Pcs
  <2>2. Fine(r)
    BY <1>1, Local DEF Fine, Settled, Operation, At, Requesting, Polling, Asking, Closing, Finishing
  <2>3. \E F, written \in Etags : Holds(w, F, written)
    BY <1>1, <1>3, EtagSets
  <2> HIDE DEF r
  <2> QED
    BY <1>3, <2>1, <2>2, <2>3, QuietStep DEF FindingsRead
<1> QED
  BY <1>2, <1>3 DEF FindingsRead, GoTo

LEMMA AnswerSteps ==
  ASSUME PollingInv, NEW w \in Workers, AnswerStep(w)
  PROVE  PollingInv'
<1>1. CASE Answer(w)
  BY <1>1, RestStep DEF Answer
<1>2. CASE AnswerWithheld(w)
  <2>1. CASE Done(w) /\ UNCHANGED fresh
    BY <1>2, <2>1, RestStep DEF AnswerWithheld
  <2>2. CASE GoTo(w, "drop") /\ Holds(w, {loc[w].id}, {})
    <3> DEFINE r == [loc[w] EXCEPT !.pc = "drop"]
    <3>1. loc[w] \in Operation /\ loc[w].id \in Inv
      BY <1>2, Local DEF AnswerWithheld, At, Fine, Settled, Requesting
    <3>2. r \in Operation /\ r.pc = "drop" /\ Becomes(w, r)
      BY <2>2, <3>1 DEF Operation, Pcs, GoTo
    <3>3. Fine(r)
      BY <3>1, Local DEF Fine, Settled, Operation, Polling, Asking, Closing, Finishing
    <3>4. \E F, written \in Etags : Holds(w, F, written)
      BY <2>2, <3>1, EtagSets
    <3> HIDE DEF r
    <3> QED
      BY <1>2, <3>2, <3>3, <3>4, QuietStep DEF AnswerWithheld
  <2> QED
    BY <1>2, <2>1, <2>2 DEF AnswerWithheld
<1> QED
  BY <1>1, <1>2 DEF AnswerStep

-----------------------------------------------------------------------------
(* The sweep, apart from its writes.                                         *)

LEMMA SweepSteps ==
  ASSUME PollingInv, NEW w \in Workers,
         StartSweep(w) \/ ClaimConflict(w) \/ ClaimDone(w) \/ NextRecord(w)
  PROVE  PollingInv'
<1>1. loc[w] \in Operation /\ fresh[w] \in Etags /\ faults \in 0..MaxFaults
  BY Local DEF PollingInv, TypeOK, Etags
<1>2. Idle \in Operation /\ Idle.verdict = "open"
  BY RestingOK DEF Resting
<1>3. CASE StartSweep(w)
  <2> DEFINE B == {i \in Window : Claimable(i)}
             r == [Idle EXCEPT !.op = "sweep", !.pc = "claim", !.batch = B]
  <2>1. B \in SUBSET Inv /\ \A i \in B : lease[i] = None
    BY DEF Window, Active, Claimable
  <2>2. Becomes(w, r) /\ Holds(w, B, {}) /\ UNCHANGED <<outside, row, granted, faults>>
    BY <1>3 DEF StartSweep
  <2> HIDE DEF B
  <2>3. r \in Operation /\ r.pc = "claim" /\ r.batch = B /\ r.verdict = "open"
    BY <1>2, <2>1 DEF Operation, Pcs
  <2> HIDE DEF r
  <2>4. Fine(r) /\ Current(r, B)
    BY <2>1, <2>3 DEF Fine, Settled, Current, Requesting, Polling, Asking, Closing, Finishing
  <2> QED
    BY <1>1, <2>1, <2>2, <2>3, <2>4, LocalStep
<1>4. CASE ClaimConflict(w)
  <2>1. PICK i \in loc[w].batch \ fresh[w] :
          /\ IF i \in Present THEN Becomes(w, [loc[w] EXCEPT !.batch = @ \ {i}])
             ELSE Becomes(w, Idle)
          /\ Holds(w, IF i \in Present THEN fresh[w] ELSE {}, {})
    BY <1>4 DEF ClaimConflict
  <2>2. CASE i \in Present
    <3> DEFINE r == [loc[w] EXCEPT !.batch = @ \ {i}]
    <3>1. r \in Operation /\ r.pc = "claim" /\ r.batch = loc[w].batch \ {i} /\ Becomes(w, r)
      BY <1>1, <1>4, <2>1, <2>2 DEF Operation, ClaimConflict, At
    <3>2. Fine(r) /\ Current(r, fresh[w])
      BY <1>4, Local
      DEF Fine, Settled, Current, Operation, ClaimConflict, At, Requesting, Polling, Asking, Closing, Finishing
    <3>3. Holds(w, fresh[w], {}) /\ UNCHANGED <<outside, row, granted, faults>>
      BY <1>4, <2>1, <2>2 DEF ClaimConflict
    <3> HIDE DEF r
    <3> QED
      BY <1>1, <3>1, <3>2, <3>3, LocalStep DEF Etags
  <2>3. CASE i \notin Present
    <3>1. Becomes(w, Idle) /\ \E F, written \in Etags : Holds(w, F, written)
      BY <2>1, <2>3, EtagSets
    <3> QED
      BY <1>4, <3>1, RestStep DEF ClaimConflict
  <2> QED
    BY <2>2, <2>3
<1>5. CASE ClaimDone(w)
  <2> DEFINE r == [loc[w] EXCEPT !.pc = "next"]
  <2>1. r \in Operation /\ r.pc = "next" /\ Becomes(w, r)
    BY <1>1, <1>5 DEF Operation, Pcs, ClaimDone, GoTo
  <2>2. Fine(r)
    BY <1>5, Local
    DEF Fine, Settled, Operation, ClaimDone, At, Requesting, Polling, Asking, Closing, Finishing
  <2>3. \E F, written \in Etags : Holds(w, F, written)
    BY <1>5, EtagSets DEF ClaimDone
  <2> HIDE DEF r
  <2> QED
    BY <1>5, <2>1, <2>2, <2>3, QuietStep DEF ClaimDone
<1>6. CASE NextRecord(w)
  <2>1. CASE Becomes(w, Idle)
    BY <1>6, <2>1, RestStep DEF NextRecord
  <2>2. CASE \E i \in loc[w].queue :
               Becomes(w, [loc[w] EXCEPT !.pc = "thread", !.id = i, !.queue = @ \ {i}])
    <3>1. PICK i \in loc[w].queue :
            Becomes(w, [loc[w] EXCEPT !.pc = "thread", !.id = i, !.queue = @ \ {i}])
      BY <2>2
    <3> DEFINE r == [loc[w] EXCEPT !.pc = "thread", !.id = i, !.queue = @ \ {i}]
    <3>2. i \in Inv /\ r \in Operation /\ r.pc = "thread" /\ r.id = i /\ r.verdict = loc[w].verdict
      BY <1>1 DEF Operation, Pcs
    <3>3. loc[w].verdict = "open"
      BY <1>6, Local DEF NextRecord, At, Fine, Settled
    <3> HIDE DEF r
    <3>4. Fine(r)
      BY <3>2, <3>3 DEF Fine, Settled, Requesting, Polling, Asking, Closing, Finishing
    <3>5. Becomes(w, r)
      BY <3>1 DEF r
    <3> QED
      BY <1>6, <3>2, <3>4, <3>5, QuietStep DEF NextRecord
  <2> QED
    BY <1>6, <2>1, <2>2 DEF NextRecord
<1> QED
  BY <1>3, <1>4, <1>5, <1>6

(* A wait that ends, an operation that is abandoned. *)
LEMMA OtherSteps ==
  ASSUME PollingInv, NEW w \in Workers, WaitEnds(w) \/ Abandon(w)
  PROVE  PollingInv'
<1>1. CASE WaitEnds(w)
  <2> DEFINE r == [loc[w] EXCEPT !.wait = FALSE]
  <2>0. loc[w] \in Operation
    BY Local
  <2>1. r \in Operation /\ Becomes(w, r) /\ fresh[w] \in SUBSET (Inv \cup {Counter})
    <3>1. r \in Operation
      BY <2>0 DEF Operation
    <3> QED
      BY <1>1, <3>1, Local DEF WaitEnds
  <2>2. /\ r.pc = loc[w].pc /\ r.op = loc[w].op /\ r.id = loc[w].id /\ r.cnt = loc[w].cnt
        /\ r.verdict = loc[w].verdict /\ r.batch = loc[w].batch
    BY <2>0 DEF Operation
  <2>3. faults' \in 0..MaxFaults
    BY <1>1 DEF WaitEnds, PollingInv, TypeOK
  <2> HIDE DEF r
  <2>4. Fine(r) /\ Current(r, fresh[w])
    BY <2>2, Local DEF Fine, Settled, Current
  <2> QED
    BY <1>1, <2>1, <2>3, <2>4, LocalStep DEF WaitEnds
<1>2. CASE Abandon(w)
  <2>1. \E F, written \in Etags : Holds(w, F, written)
    BY <1>2, EtagSets DEF Abandon
  <2> QED
    BY <1>2, <2>1, RestStep DEF Abandon
<1> QED
  BY <1>1, <1>2

-----------------------------------------------------------------------------
(* The writes: whoever else has read the row loses its ETag.                 *)

LEMMA FineStays == ASSUME NEW l, Fine(l), Steady PROVE Fine(l)'
BY DEF Fine, Settled, Steady, Requesting, Finishing

Safe(l) == l \in Operation /\ Fine(l) /\ l.pc \notin {"pollWrite", "closeWrite", "claim"}

LEMMA RetryRests ==
  ASSUME PollingInv, NEW w \in Workers, NEW p \in {"pollRead", "close", "findings"}, Retry(w, p),
         Fine([loc[w] EXCEPT !.pc = p])
  PROVE  \E r \in Operation : Becomes(w, r) /\ Safe(r)
<1>1. CASE loc[w].tries + 1 < MaxTries
  <2> DEFINE r == [loc[w] EXCEPT !.pc = p, !.tries = @ + 1, !.cnt = 0]
  <2> p \in Pcs
    BY DEF Pcs
  <2>1. r \in Operation /\ r.pc = p
    BY <1>1, RetryType, Local DEF Operation
  <2>2. Fine(r)
    BY Local DEF Fine, Settled, Operation
  <2>3. Becomes(w, r)
    BY <1>1 DEF Retry
  <2> HIDE DEF r
  <2> QED
    BY <2>1, <2>2, <2>3 DEF Safe
<1>2. CASE ~(loc[w].tries + 1 < MaxTries)
  BY <1>2, DoneRests, RestingOK DEF Retry, Resting, Safe
<1> QED
  BY <1>1, <1>2

LEMMA WriteStep ==
  ASSUME PollingInv, NEW w \in Workers, NEW r \in Operation, Becomes(w, r),
         NEW F \in SUBSET (Inv \cup {Counter}), NEW written, Holds(w, F, written),
         signals' \in [Inv -> SUBSET Ends], posts' \in [Inv -> Seq(Message)],
         shown' \in [Inv -> SUBSET Ends],
         state' \in [Inv -> {"reserved", "active", "completed", "failed", "gone"}],
         threaded' \subseteq Inv, expired' \subseteq Inv, finalized' \subseteq Inv,
         polls' \in [Inv -> [Kinds -> 0..MaxPolls]], granted' \in [Inv -> [Kinds -> 0..MaxPolls]],
         spaced' \in [Inv -> [Kinds -> BOOLEAN]], lease' \in [Inv -> Replicas \cup {None}],
         faults' \in 0..MaxFaults, UNCHANGED <<creating, reopened>>,
         RowsOK', Steady, \A i \in Inv \ written : Unwritten(i),
         Fine(r)', Current(r, F)'
  PROVE  PollingInv'
<1>1. TypeOK'
  <2>1. fresh' \in [Workers -> SUBSET (Inv \cup {Counter})]
    BY HoldsType DEF PollingInv
  <2>2. loc' \in [Workers -> Operation]
    BY DEF PollingInv, TypeOK, Becomes
  <2> QED
    BY <2>1, <2>2 DEF PollingInv, TypeOK
<1>2. loc'[w] = r /\ fresh'[w] = F
  BY DEF PollingInv, TypeOK, Becomes, Holds
<1>3. ASSUME NEW v \in Workers, v # w PROVE Fine(loc[v])' /\ Current(loc[v], fresh[v])'
  <2>1. loc'[v] = loc[v] /\ fresh'[v] = fresh[v] \ written
    BY <1>3 DEF PollingInv, TypeOK, Becomes, Holds
  <2> QED
    BY <2>1, Bystander
<1>4. Fine(loc[w])' /\ Current(loc[w], fresh[w])'
  BY <1>2
<1>5. WorkersOK'
  BY <1>3, <1>4 DEF WorkersOK
<1> QED
  BY <1>1, <1>5 DEF PollingInv

LEMMA PollWriteStep ==
  ASSUME PollingInv, NEW w \in Workers, PollWrite(w)
  PROVE  PollingInv'
<1> DEFINE i == loc[w].id
           k == loc[w].op
<1>1. /\ At(w, "pollWrite") /\ i \in Inv /\ k \in Kinds /\ loc[w] \in Operation
      /\ loc[w].verdict = "open" /\ loc[w].cnt < MaxPolls /\ polls[i][k] = loc[w].cnt
      /\ i \in fresh[w]
  BY Local DEF PollWrite, At, Fine, Settled, Current, Requesting, Polling
<1>2. UNCHANGED <<signals, posts, shown, creating, reopened, state, threaded, lease, expired,
                  finalized>>
  BY DEF PollWrite, platform, outside
<1>3. /\ polls' = [polls EXCEPT ![i][k] = loc[w].cnt + 1]
      /\ spaced' = [spaced EXCEPT ![i][k] = FALSE]
      /\ Holds(w, {}, {i})
      /\ \/ /\ Becomes(w, [loc[w] EXCEPT !.pc = Asks(k), !.cnt = 0, !.tries = 0])
            /\ granted' = [granted EXCEPT ![i][k] = @ + 1]
            /\ UNCHANGED faults
         \/ Retry(w, "pollRead") /\ Fault /\ UNCHANGED granted
  BY DEF PollWrite, Poll
<1>4. faults' \in 0..MaxFaults
  BY <1>3, FaultOK DEF PollingInv
<1>5. loc[w].cnt + 1 \in 0..MaxPolls
  BY <1>1 DEF Operation
<1>6. polls' \in [Inv -> [Kinds -> 0..MaxPolls]] /\ spaced' \in [Inv -> [Kinds -> BOOLEAN]]
  BY <1>1, <1>3, <1>5 DEF PollingInv, TypeOK
<1>7. /\ \A j \in Inv \ {i} : polls'[j] = polls[j] /\ spaced'[j] = spaced[j]
      /\ \A m \in Kinds : polls'[i][m] = IF m = k THEN polls[i][k] + 1 ELSE polls[i][m]
  BY <1>1, <1>3 DEF PollingInv, TypeOK
<1>8. Steady /\ \A j \in Inv \ {i} : Unwritten(j)
  BY <1>2, <1>7 DEF Steady, Settled, Unwritten
<1>9. \A j \in Inv, m \in Kinds : granted[j][m] \in Nat /\ polls[j][m] \in Nat
                                  /\ granted[j][m] <= polls[j][m]
  BY DEF PollingInv, TypeOK, RowsOK, EveryPollCounts
<1>10. granted' \in [Inv -> [Kinds -> 0..MaxPolls]] /\ EveryPollCounts'
  <2>1. CASE UNCHANGED granted
    <3>1. ASSUME NEW j \in Inv, NEW m \in Kinds PROVE granted[j][m] <= polls'[j][m]
      <4>1. polls'[j][m] = polls[j][m] \/ polls'[j][m] = polls[j][m] + 1
        BY <1>7
      <4>2. granted[j][m] \in Nat /\ polls[j][m] \in Nat /\ granted[j][m] <= polls[j][m]
        BY <1>9
      <4> DEFINE n == polls[j][m]
                 n2 == polls'[j][m]
                 g == granted[j][m]
      <4> HIDE DEF n, n2, g
      <4>3. g \in Nat /\ n \in Nat /\ g <= n /\ (n2 = n \/ n2 = n + 1)
        BY <4>1, <4>2 DEF n, n2, g
      <4>4. g <= n2
        BY <4>3
      <4> QED
        BY <4>4 DEF n2, g
    <3> QED
      BY <2>1, <3>1 DEF PollingInv, TypeOK, EveryPollCounts
  <2>2. CASE granted' = [granted EXCEPT ![i][k] = @ + 1]
    <3> DEFINE g == granted[i][k]
               q == polls[i][k]
    <3>0. g \in Nat /\ q \in Nat /\ g <= q /\ q + 1 \in 0..MaxPolls
      BY <1>1, <1>5, <1>9
    <3>1. granted[i][k] + 1 \in 0..MaxPolls /\ granted[i][k] + 1 <= polls[i][k] + 1
      <4> HIDE DEF g, q
      <4>1. g + 1 \in 0..MaxPolls /\ g + 1 <= q + 1
        BY <3>0
      <4> QED
        BY <4>1 DEF g, q
    <3>2. granted' \in [Inv -> [Kinds -> 0..MaxPolls]]
      BY <1>1, <2>2, <3>1 DEF PollingInv, TypeOK
    <3>3. /\ \A j \in Inv \ {i} : granted'[j] = granted[j]
          /\ \A m \in Kinds : granted'[i][m] = IF m = k THEN granted[i][k] + 1 ELSE granted[i][m]
      BY <1>1, <2>2 DEF PollingInv, TypeOK
    <3>4. ASSUME NEW j \in Inv, NEW m \in Kinds PROVE granted'[j][m] <= polls'[j][m]
      <4>1. CASE j = i /\ m = k
        BY <1>7, <3>1, <3>3, <4>1
      <4>2. CASE j = i /\ m # k
        BY <1>7, <1>9, <3>3, <4>2
      <4>3. CASE j # i
        BY <1>7, <1>9, <3>3, <4>3
      <4> QED
        BY <4>1, <4>2, <4>3
    <3> QED
      BY <3>2, <3>4 DEF EveryPollCounts
  <2> QED
    BY <1>3, <2>1, <2>2
<1>11. RowsOK'
  BY <1>2, <1>10 DEF PollingInv, RowsOK, GroundsOK, ReservedOK, FinalOK, Settled, OutcomeHasCause
<1>12. PICK r \in Operation : Becomes(w, r) /\ Safe(r)
  <2>1. CASE Becomes(w, [loc[w] EXCEPT !.pc = Asks(k), !.cnt = 0, !.tries = 0])
    <3> DEFINE r == [loc[w] EXCEPT !.pc = Asks(k), !.cnt = 0, !.tries = 0]
    <3>1. 0 \in 0..MaxPolls /\ 0 \in 0..(MaxTries - 1) /\ Asks(k) \in {"thread", "report"}
      BY DEF Asks
    <3>2. r \in Operation /\ r.pc \in {"thread", "report"} /\ r.id = i /\ r.verdict = "open"
      BY <1>1, <3>1 DEF Operation, Pcs
    <3> HIDE DEF r
    <3>3. Safe(r)
      BY <1>1, <3>2 DEF Safe, Fine, Settled, Polling, Closing, Finishing
    <3>4. Becomes(w, r)
      BY <2>1 DEF r
    <3> QED
      BY <3>2, <3>3, <3>4
  <2>2. CASE Retry(w, "pollRead")
    BY <1>1, <2>2, RetryFine, RetryRests DEF At, Polling
  <2> QED
    BY <1>3, <2>1, <2>2
<1>13. Fine(r)' /\ Current(r, {})'
  BY <1>8, <1>12, FineStays DEF Safe, Current
<1> QED
  BY <1>2, <1>3, <1>4, <1>6, <1>8, <1>10, <1>11, <1>12, <1>13, WriteStep DEF PollingInv, TypeOK

(* A row that becomes "gone", or gets the outcome e that has its grounds. *)
LEMMA StateWrite ==
  ASSUME PollingInv, NEW i \in Inv, NEW e \in Ends \cup {"gone"},
         e # "gone" => e \in shown[i],
         state' = [state EXCEPT ![i] = e],
         UNCHANGED <<outside, threaded, polls, spaced, lease, finalized, granted>>
  PROVE  /\ state' \in [Inv -> {"reserved", "active", "completed", "failed", "gone"}]
         /\ RowsOK' /\ Steady /\ state'[i] = e /\ state'[i] \notin Open
         /\ \A j \in Inv \ {i} : Unwritten(j)
<1>1. state \in [Inv -> {"reserved", "active", "completed", "failed", "gone"}]
      /\ threaded \subseteq Inv /\ finalized \subseteq Inv
  BY DEF PollingInv, TypeOK
<1>2. \A j \in Inv : state'[j] = IF j = i THEN e ELSE state[j]
  BY <1>1
<1>3. state' \in [Inv -> {"reserved", "active", "completed", "failed", "gone"}]
  BY <1>1 DEF Ends
<1>4. e \notin Open /\ e # "reserved"
  BY DEF Ends, Open
<1>5. UNCHANGED <<signals, posts, shown, creating, reopened, threaded, polls, spaced, lease,
                  finalized, granted>>
  BY DEF platform, outside
<1>6. GroundsOK' /\ EveryPollCounts'
  BY <1>5 DEF PollingInv, RowsOK, GroundsOK, EveryPollCounts
<1>7. ReservedOK' /\ FinalOK'
  BY <1>1, <1>2, <1>4, <1>5 DEF PollingInv, RowsOK, ReservedOK, FinalOK, Settled
<1>8. OutcomeHasCause'
  BY <1>1, <1>2, <1>5 DEF PollingInv, RowsOK, OutcomeHasCause, Ends
<1> QED
  BY <1>2, <1>3, <1>4, <1>5, <1>6, <1>7, <1>8 DEF RowsOK, Steady, Settled, Unwritten

LEMMA DropStep ==
  ASSUME PollingInv, NEW w \in Workers, Drop(w)
  PROVE  PollingInv'
<1> DEFINE i == loc[w].id
<1>1. i \in Inv
  BY Local DEF Drop, Fine, Settled, Requesting
<1>2. UNCHANGED <<outside, threaded, polls, spaced, lease, expired, finalized, granted, faults>>
  BY DEF Drop
<1>3. CASE Delete(i) /\ Done(w) /\ Holds(w, {}, {i})
  <2>1. PICK r \in Operation : Becomes(w, r) /\ Resting(r)
    BY <1>3, DoneRests
  <2>2. state' = [state EXCEPT ![i] = "gone"]
    BY <1>3 DEF Delete
  <2>3. /\ state' \in [Inv -> {"reserved", "active", "completed", "failed", "gone"}]
        /\ RowsOK' /\ Steady /\ \A j \in Inv \ {i} : Unwritten(j)
    BY <1>1, <1>2, <2>2, StateWrite
  <2>4. Fine(r)' /\ Current(r, {})'
    BY <2>1, <2>3, RestingOK, FineStays DEF Resting, Current
  <2> QED
    BY <1>2, <1>3, <2>1, <2>3, <2>4, WriteStep DEF PollingInv, TypeOK, platform, outside
<1>4. CASE /\ Holds(w, {}, {}) /\ UNCHANGED state
           /\ IF At(w, "pollDrop") /\ i \in Present THEN Retry(w, "pollRead") ELSE Done(w)
  <2>1. UNCHANGED <<outside, row, granted, faults>>
    BY <1>2, <1>4 DEF row
  <2>2. \E F, written \in Etags : Holds(w, F, written)
    BY <1>4, EtagSets
  <2>3. CASE Retry(w, "pollRead") /\ At(w, "pollDrop")
    BY <2>1, <2>2, <2>3, RetryFine, RetryStep DEF At, Polling
  <2>4. CASE Done(w)
    BY <2>1, <2>2, <2>4, RestStep
  <2> QED
    BY <1>4, <2>3, <2>4
<1> QED
  BY <1>3, <1>4 DEF Drop

LEMMA CloseWriteStep ==
  ASSUME PollingInv, NEW w \in Workers, CloseWrite(w)
  PROVE  PollingInv'
<1> DEFINE i == loc[w].id
           e == loc[w].verdict
<1>1. /\ At(w, "closeWrite") /\ i \in Inv /\ e \in Ends /\ e # "open" /\ e # "gone" /\ e \in shown[i]
  BY Local DEF CloseWrite, At, Fine, Settled, Requesting, Closing, Ends
<1>2. /\ state' = [state EXCEPT ![i] = e] /\ expired' = expired \ {i}
      /\ Applied(w, Closed(w), "close") /\ Holds(w, {}, {i, Counter})
      /\ UNCHANGED <<outside, threaded, polls, spaced, lease, finalized, granted>>
  BY DEF CloseWrite, Close
<1>3. /\ state' \in [Inv -> {"reserved", "active", "completed", "failed", "gone"}]
      /\ RowsOK' /\ Steady /\ state'[i] \notin Open
      /\ \A j \in Inv \ {i, Counter} : Unwritten(j)
  BY <1>1, <1>2, StateWrite
<1>4. faults' \in 0..MaxFaults
  BY <1>2, FaultOK DEF PollingInv, Applied
<1>5. PICK r \in Operation : /\ Becomes(w, r) /\ Fine(r)'
                            /\ r.pc \notin {"pollWrite", "closeWrite", "claim"}
  <2>1. CASE Becomes(w, Closed(w))
    <3> DEFINE r == Closed(w)
    <3>1. /\ r \in Operation /\ r.pc \in {"answer", "findings", "next"}
          /\ r.pc = "next" => Fine(r)
          /\ r.pc # "next" => /\ r.id = i /\ r.verdict = e
                              /\ r.pc = "answer" => r.op # "summary"
      BY <1>1, ClosedFine, RestingOK DEF At, Closing
    <3> HIDE DEF r
    <3>2. \A l : l = r => Fine(l)'
      <4> SUFFICES ASSUME NEW l, l = r PROVE Fine(l)'
        OBVIOUS
      <4>1. CASE l.pc = "next"
        BY <1>3, <3>1, <4>1, FineStays
      <4>2. CASE l.pc # "next"
        BY <1>1, <1>2, <1>3, <3>1, <4>2
        DEF Fine, Settled, Requesting, Polling, Asking, Closing, Finishing, platform, outside
      <4> QED
        BY <4>1, <4>2
    <3>3. Becomes(w, r)
      BY <2>1 DEF r
    <3> QED
      BY <3>1, <3>2, <3>3
  <2>2. CASE Retry(w, "close")
    <3>1. PICK r \in Operation : Becomes(w, r) /\ Safe(r)
      BY <1>1, <2>2, RetryFine, RetryRests DEF At, Closing
    <3> QED
      BY <1>3, <3>1, FineStays DEF Safe
  <2> QED
    BY <1>2, <2>1, <2>2 DEF Applied
<1>6. Current(r, {})'
  BY <1>5 DEF Current
<1> QED
  BY <1>2, <1>3, <1>4, <1>5, <1>6, WriteStep DEF PollingInv, TypeOK, platform, outside

LEMMA FindingsWriteStep ==
  ASSUME PollingInv, NEW w \in Workers, FindingsWrite(w)
  PROVE  PollingInv'
<1> DEFINE i == loc[w].id
<1>1. /\ At(w, "findingsWrite") /\ i \in Inv /\ loc[w] \in Operation /\ Fine(loc[w])
      /\ Settled(i)
  BY Local DEF FindingsWrite, At, Fine, Settled, Requesting, Finishing
<1>2. /\ finalized' = finalized \cup {i} /\ expired' \subseteq expired
      /\ Applied(w, [loc[w] EXCEPT !.pc = "answer", !.tries = 0], "findings")
      /\ Holds(w, {}, {i})
      /\ UNCHANGED <<signals, posts, shown, creating, reopened, state, threaded, polls, spaced,
                     lease, granted>>
  BY DEF FindingsWrite, platform, outside
<1>3. faults' \in 0..MaxFaults
  BY <1>2, FaultOK DEF PollingInv, Applied
<1>4. Steady /\ \A j \in Inv \ {i} : Unwritten(j)
  BY <1>2 DEF Steady, Settled, Unwritten
<1>5. RowsOK'
  BY <1>1, <1>2
  DEF PollingInv, RowsOK, GroundsOK, ReservedOK, FinalOK, Settled, EveryPollCounts, OutcomeHasCause
<1>6. PICK r \in Operation : /\ Becomes(w, r) /\ Fine(r)'
                            /\ r.pc \notin {"pollWrite", "closeWrite", "claim"}
  <2>1. CASE Becomes(w, [loc[w] EXCEPT !.pc = "answer", !.tries = 0])
    <3> DEFINE r == [loc[w] EXCEPT !.pc = "answer", !.tries = 0]
    <3>1. 0 \in 0..(MaxTries - 1)
      OBVIOUS
    <3>2. /\ r \in Operation /\ r.pc = "answer" /\ r.id = i /\ r.verdict = loc[w].verdict
      BY <1>1, <3>1 DEF Operation, Pcs
    <3> HIDE DEF r
    <3>3. /\ r.verdict # "open" => r.verdict \in shown[i]
      BY <1>1, <3>2 DEF Fine, Settled
    <3>4. \A l : l = r => Fine(l)'
      <4> SUFFICES ASSUME NEW l, l = r PROVE Fine(l)'
        OBVIOUS
      <4> QED
        BY <1>1, <1>2, <3>2, <3>3 DEF Fine, Settled, Requesting, Polling, Asking, Closing, Finishing
    <3>5. Becomes(w, r)
      BY <2>1 DEF r
    <3> QED
      BY <3>2, <3>4, <3>5
  <2>2. CASE Retry(w, "findings")
    <3>1. PICK r \in Operation : Becomes(w, r) /\ Safe(r)
      BY <1>1, <2>2, RetryFine, RetryRests DEF At, Finishing
    <3> QED
      BY <1>4, <3>1, FineStays DEF Safe
  <2> QED
    BY <1>2, <2>1, <2>2 DEF Applied
<1>7. Current(r, {})'
  BY <1>6 DEF Current
<1>8. finalized' \subseteq Inv /\ expired' \subseteq Inv
  BY <1>1, <1>2 DEF PollingInv, TypeOK
<1> QED
  BY <1>2, <1>3, <1>4, <1>5, <1>6, <1>7, <1>8, WriteStep DEF PollingInv, TypeOK

LEMMA ClaimStep ==
  ASSUME PollingInv, NEW w \in Workers, Claim(w)
  PROVE  PollingInv'
<1>1. PICK i \in loc[w].batch : i \in fresh[w] /\ Lease(w, i)
  BY DEF Claim
<1>2. loc[w] \in Operation /\ i \in Inv /\ At(w, "claim") /\ Fine(loc[w]) /\ Current(loc[w], fresh[w])
      /\ fresh[w] \in SUBSET (Inv \cup {Counter})
  BY Local DEF Claim, Operation
<1>3. /\ lease' = [lease EXCEPT ![i] = w] /\ Holds(w, fresh[w] \ {i}, {i})
      /\ UNCHANGED <<signals, posts, shown, creating, reopened, state, threaded, polls, spaced,
                     expired, finalized, granted>>
  BY <1>1 DEF Lease, platform, outside
<1>4. faults' \in 0..MaxFaults
  BY <1>1, FaultOK DEF PollingInv, Lease
<1>5. lease' \in [Inv -> Replicas \cup {None}] /\ \A j \in Inv \ {i} : lease'[j] = lease[j]
  BY <1>2, <1>3 DEF PollingInv, TypeOK, Claim
<1>6. Steady /\ \A j \in Inv \ {i} : Unwritten(j)
  BY <1>3, <1>5 DEF Steady, Settled, Unwritten
<1>7. RowsOK'
  BY <1>3 DEF PollingInv, RowsOK, GroundsOK, ReservedOK, FinalOK, Settled, EveryPollCounts, OutcomeHasCause
<1>8. PICK r \in Operation : /\ Becomes(w, r) /\ r.pc = "claim" /\ r.batch = loc[w].batch \ {i}
                            /\ r.verdict = "open"
  <2>1. loc[w].verdict = "open"
    BY <1>2 DEF Fine, Settled, At
  <2>2. CASE Becomes(w, [loc[w] EXCEPT !.batch = @ \ {i}, !.queue = @ \cup {i}])
    <3> DEFINE r == [loc[w] EXCEPT !.batch = @ \ {i}, !.queue = @ \cup {i}]
    <3>1. r \in Operation /\ r.pc = "claim" /\ r.batch = loc[w].batch \ {i} /\ r.verdict = "open"
      BY <1>2, <2>1 DEF Operation, At
    <3>2. Becomes(w, r)
      BY <2>2
    <3> HIDE DEF r
    <3> QED
      BY <3>1, <3>2
  <2>3. CASE Becomes(w, [loc[w] EXCEPT !.batch = @ \ {i}])
    <3> DEFINE r == [loc[w] EXCEPT !.batch = @ \ {i}]
    <3>1. r \in Operation /\ r.pc = "claim" /\ r.batch = loc[w].batch \ {i} /\ r.verdict = "open"
      BY <1>2, <2>1 DEF Operation, At
    <3>2. Becomes(w, r)
      BY <2>3
    <3> HIDE DEF r
    <3> QED
      BY <3>1, <3>2
  <2> QED
    BY <1>1, <2>2, <2>3 DEF Lease
<1>9. Fine(r)
  BY <1>8 DEF Fine, Settled, Requesting, Polling, Asking, Closing, Finishing
<1>10. Fine(r)'
  BY <1>6, <1>9, FineStays
<1>11. Current(r, fresh[w] \ {i})
  BY <1>2, <1>8 DEF Current, At
<1>12. \A F : F = fresh[w] \ {i} => Current(r, F)'
  BY <1>5, <1>8, <1>11 DEF Current, Operation
<1> QED
  BY <1>2, <1>3, <1>4, <1>5, <1>6, <1>7, <1>8, <1>10, <1>12, WriteStep DEF PollingInv, TypeOK

-----------------------------------------------------------------------------
(* The steps that are nobody's: other operations, time, and the platform.    *)

LEMMA EtagsLost ==
  ASSUME TypeOK, NEW lost, fresh' = [w \in Workers |-> fresh[w] \ lost]
  PROVE  /\ fresh' \in [Workers -> SUBSET (Inv \cup {Counter})]
         /\ \A v \in Workers : fresh'[v] = fresh[v] \ lost
<1>1. \A v \in Workers : fresh[v] \ lost \in SUBSET (Inv \cup {Counter})
  BY DEF TypeOK
<1> QED
  BY <1>1, Zenon

LEMMA NobodyMoves ==
  ASSUME PollingInv, UNCHANGED loc, TypeOK', RowsOK', Steady,
         \A v \in Workers : fresh'[v] \subseteq fresh[v] /\ \A j \in Inv \cap fresh'[v] : Unwritten(j)
  PROVE  PollingInv'
<1>1. \A v \in Workers : Fine(loc[v])' /\ Current(loc[v], fresh[v])'
  BY Bystander
<1> QED
  BY <1>1 DEF PollingInv, WorkersOK

LEMMA SettleStep ==
  ASSUME PollingInv, NEW i \in Inv, Settle(i)
  PROVE  PollingInv'
<1>1. /\ state[i] = "reserved" /\ i \notin threaded
      /\ state \in [Inv -> {"reserved", "active", "completed", "failed", "gone"}]
      /\ threaded \subseteq Inv /\ expired \subseteq Inv /\ creating \subseteq Inv
  BY DEF Settle, PollingInv, TypeOK, RowsOK, ReservedOK
<1>2. PICK e \in {"failed", "gone"} : state' = [state EXCEPT ![i] = e]
  BY DEF Settle, Delete
<1>3. /\ fresh' = [w \in Workers |-> fresh[w] \ {i, Counter}]
      /\ expired' \subseteq expired /\ creating' \subseteq creating
      /\ UNCHANGED <<signals, posts, shown, reopened, threaded, polls, spaced, lease, finalized,
                     loc,
                     granted, faults>>
  BY DEF Settle, Rewritten, platform
<1>4. \A j \in Inv : state'[j] = IF j = i THEN e ELSE state[j]
  BY <1>1, <1>2
<1>5. state' \in [Inv -> {"reserved", "active", "completed", "failed", "gone"}]
  BY <1>1, <1>2
<1>6. /\ fresh' \in [Workers -> SUBSET (Inv \cup {Counter})]
      /\ \A v \in Workers : fresh'[v] = fresh[v] \ {i, Counter}
  BY <1>3, EtagsLost DEF PollingInv
<1>7. TypeOK'
  BY <1>1, <1>3, <1>5, <1>6 DEF PollingInv, TypeOK
<1>8. Steady
  BY <1>3, <1>4 DEF Steady, Settled, Open
<1>9. ReservedOK' /\ FinalOK'
  BY <1>1, <1>3, <1>4, <1>8 DEF PollingInv, RowsOK, ReservedOK, FinalOK, Steady, TypeOK
<1>10. OutcomeHasCause'
  BY <1>1, <1>3, <1>4 DEF PollingInv, RowsOK, OutcomeHasCause, Ends
<1>11. RowsOK'
  BY <1>3, <1>9, <1>10 DEF PollingInv, RowsOK, GroundsOK, EveryPollCounts
<1>12. \A j \in Inv \ {i} : Unwritten(j)
  BY <1>3, <1>4 DEF Unwritten
<1> QED
  BY <1>3, <1>6, <1>7, <1>8, <1>11, <1>12, NobodyMoves

(* The finalize of a creation: a record that it reopens is in reopened. *)
LEMMA FinalizeStep ==
  ASSUME PollingInv, NEW i \in Inv, Finalize(i)
  PROVE  PollingInv'
<1>1. /\ state \in [Inv -> {"reserved", "active", "completed", "failed", "gone"}]
      /\ threaded \subseteq Inv /\ reopened \subseteq Inv /\ creating \subseteq Inv
      /\ finalized \subseteq Inv /\ state[i] # "gone"
  BY DEF Finalize, Present, PollingInv, TypeOK
<1>2. /\ state' = [state EXCEPT ![i] = "active"] /\ threaded' = threaded \cup {i}
      /\ creating' \subseteq creating
      /\ reopened' = IF state[i] \in Ends THEN reopened \cup {i} ELSE reopened
      /\ fresh' = [w \in Workers |-> fresh[w] \ {i}]
      /\ UNCHANGED <<signals, posts, shown, polls, spaced, lease, expired, finalized, loc, granted>>
  BY DEF Finalize, Rewritten, platform
<1>3. faults' \in 0..MaxFaults
  BY FaultOK DEF Finalize, PollingInv
<1>4. \A j \in Inv : state'[j] = IF j = i THEN "active" ELSE state[j]
  BY <1>1, <1>2
<1>5. state' \in [Inv -> {"reserved", "active", "completed", "failed", "gone"}]
      /\ reopened' \subseteq Inv /\ threaded' \subseteq Inv /\ creating' \subseteq Inv
  BY <1>1, <1>2
<1>6. /\ fresh' \in [Workers -> SUBSET (Inv \cup {Counter})]
      /\ \A v \in Workers : fresh'[v] = fresh[v] \ {i}
  BY <1>2, EtagsLost DEF PollingInv
<1>7. TypeOK'
  BY <1>2, <1>3, <1>5, <1>6 DEF PollingInv, TypeOK
<1>8. \A j \in Inv : Settled(j) => Settled(j)'
  <2>1. Settled(i) => i \in reopened'
    BY <1>1, <1>2 DEF Settled, Open, Ends
  <2> QED
    BY <1>2, <1>4, <2>1 DEF Settled
<1>9. Steady
  BY <1>2, <1>8 DEF Steady
<1>10. ReservedOK' /\ FinalOK'
  BY <1>1, <1>2, <1>4, <1>8 DEF PollingInv, RowsOK, ReservedOK, FinalOK
<1>11. OutcomeHasCause'
  BY <1>1, <1>2, <1>4 DEF PollingInv, RowsOK, OutcomeHasCause, Ends
<1>12. RowsOK'
  BY <1>2, <1>10, <1>11 DEF PollingInv, RowsOK, GroundsOK, EveryPollCounts
<1>13. \A j \in Inv \ {i} : Unwritten(j)
  BY <1>2, <1>4 DEF Unwritten
<1> QED
  BY <1>2, <1>6, <1>7, <1>9, <1>12, <1>13, NobodyMoves

LEMMA CreationEndsStep ==
  ASSUME PollingInv, NEW i \in Inv, CreationEnds(i)
  PROVE  PollingInv'
<1>1. /\ creating' \subseteq creating
      /\ UNCHANGED <<signals, posts, shown, reopened, state, threaded, polls, spaced, lease,
                     expired,
                     finalized, loc, fresh, granted, faults>>
  BY DEF CreationEnds, platform, row
<1>2. TypeOK'
  BY <1>1 DEF PollingInv, TypeOK
<1>3. RowsOK'
  BY <1>1 DEF PollingInv, RowsOK, GroundsOK, ReservedOK, FinalOK, Settled, EveryPollCounts,
              OutcomeHasCause
<1>4. Steady /\ \A j \in Inv : Unwritten(j)
  BY <1>1 DEF Steady, Settled, Unwritten
<1> QED
  BY <1>1, <1>2, <1>3, <1>4, NobodyMoves

LEMMA CleanupStep ==
  ASSUME PollingInv, NEW i \in Inv, Cleanup(i)
  PROVE  PollingInv'
<1>1. /\ state' = [state EXCEPT ![i] = "gone"]
      /\ fresh' = [w \in Workers |-> fresh[w] \ {i, Counter}]
      /\ UNCHANGED <<outside, threaded, polls, spaced, lease, expired, finalized, loc, granted,
                     faults>>
  BY DEF Cleanup, Rewritten, Delete
<1>2. /\ state' \in [Inv -> {"reserved", "active", "completed", "failed", "gone"}]
      /\ RowsOK' /\ Steady /\ \A j \in Inv \ {i} : Unwritten(j)
  BY <1>1, StateWrite
<1>3. /\ fresh' \in [Workers -> SUBSET (Inv \cup {Counter})]
      /\ \A v \in Workers : fresh'[v] = fresh[v] \ {i, Counter}
  BY <1>1, EtagsLost DEF PollingInv
<1>4. TypeOK'
  BY <1>1, <1>2, <1>3 DEF PollingInv, TypeOK, platform, outside
<1> QED
  BY <1>1, <1>2, <1>3, <1>4, NobodyMoves

LEMMA TouchStep ==
  ASSUME PollingInv, TouchCounter
  PROVE  PollingInv'
<1>1. /\ fresh' = [w \in Workers |-> fresh[w] \ {Counter}] /\ faults' \in 0..MaxFaults
      /\ UNCHANGED <<signals, posts, shown, creating, reopened, state, threaded, polls, spaced,
                     lease, expired, finalized,
                     loc, granted>>
  BY FaultOK DEF TouchCounter, Rewritten, platform, outside, row, PollingInv
<1>2. /\ fresh' \in [Workers -> SUBSET (Inv \cup {Counter})]
      /\ \A v \in Workers : fresh'[v] = fresh[v] \ {Counter}
  BY <1>1, EtagsLost DEF PollingInv
<1>3. TypeOK'
  BY <1>1, <1>2 DEF PollingInv, TypeOK
<1>4. RowsOK'
  BY <1>1 DEF PollingInv, RowsOK, GroundsOK, ReservedOK, FinalOK, Settled, EveryPollCounts, OutcomeHasCause
<1>5. Steady /\ \A j \in Inv : Unwritten(j)
  BY <1>1 DEF Steady, Settled, Unwritten
<1> QED
  BY <1>1, <1>2, <1>3, <1>4, <1>5, NobodyMoves

(* A deadline that passes. *)
LEMMA TimeSteps ==
  ASSUME PollingInv, NEW i \in Inv,
         Expire(i) \/ LeaseEnds(i) \/ \E k \in Kinds : IntervalEnds(i, k)
  PROVE  PollingInv'
<1>1. UNCHANGED <<signals, posts, shown, creating, reopened, state, threaded, polls, finalized,
                  loc, fresh, granted, faults>>
  BY DEF Expire, LeaseEnds, IntervalEnds, platform, outside
<1>2. expired' \subseteq Inv /\ lease' \in [Inv -> Replicas \cup {None}]
      /\ \A j \in Inv : lease'[j] \in {lease[j], None}
  BY DEF Expire, LeaseEnds, IntervalEnds, PollingInv, TypeOK
<1>3. spaced' \in [Inv -> [Kinds -> BOOLEAN]]
      /\ \A j \in Inv, k \in Kinds : spaced[j][k] => spaced'[j][k]
  <2>1. CASE UNCHANGED spaced
    BY <2>1 DEF PollingInv, TypeOK
  <2>2. CASE \E k \in Kinds : spaced' = [spaced EXCEPT ![i][k] = TRUE]
    BY <2>2 DEF PollingInv, TypeOK
  <2> QED
    BY <2>1, <2>2 DEF Expire, LeaseEnds, IntervalEnds
<1>4. TypeOK'
  BY <1>1, <1>2, <1>3 DEF PollingInv, TypeOK
<1>5. RowsOK'
  BY <1>1 DEF PollingInv, RowsOK, GroundsOK, ReservedOK, FinalOK, Settled, EveryPollCounts, OutcomeHasCause
<1>6. Steady /\ \A j \in Inv : Unwritten(j)
  BY <1>1, <1>2, <1>3 DEF Steady, Settled, Unwritten
<1> QED
  BY <1>1, <1>4, <1>5, <1>6, NobodyMoves

(* The platform shows more than before. *)
LEMMA ShownMore ==
  ASSUME PollingInv, UNCHANGED <<creating, reopened, row, loc, fresh, granted, faults>>,
         signals' \in [Inv -> SUBSET Ends], posts' \in [Inv -> Seq(Message)],
         shown' \in [Inv -> SUBSET Ends], GroundsOK', \A j \in Inv : shown[j] \subseteq shown'[j]
  PROVE  PollingInv'
<1>1. UNCHANGED <<creating, reopened, state, threaded, polls, spaced, lease, expired, finalized,
                  loc, fresh, granted, faults>>
  BY DEF row
<1>2. TypeOK'
  BY <1>1 DEF PollingInv, TypeOK
<1>3. RowsOK'
  BY <1>1 DEF PollingInv, RowsOK, ReservedOK, FinalOK, Settled, EveryPollCounts, OutcomeHasCause, TypeOK
<1>4. Steady /\ \A j \in Inv : Unwritten(j)
  BY <1>1 DEF Steady, Settled, Unwritten
<1> QED
  BY <1>1, <1>2, <1>3, <1>4, NobodyMoves

LEMMA PostStep ==
  ASSUME PollingInv, NEW i \in Inv, NEW thread \in Threads[i], PostMessage(i, thread)
  PROVE  PollingInv'
<1>1. /\ posts' = [posts EXCEPT ![i] = thread]
      /\ shown' = [shown EXCEPT ![i] = @ \cup Grounds(signals[i], thread)]
      /\ UNCHANGED <<signals, creating, reopened, row, loc, fresh, granted, faults>>
  BY DEF PostMessage
<1>2. thread \in Seq(Message) /\ signals \in [Inv -> SUBSET Ends] /\ shown \in [Inv -> SUBSET Ends]
      /\ posts \in [Inv -> Seq(Message)]
  BY DEF PollingInv, TypeOK
<1>3. Grounds(signals[i], thread) \subseteq Ends
  BY <1>2 DEF Grounds, Ends
<1>4. posts' \in [Inv -> Seq(Message)] /\ shown' \in [Inv -> SUBSET Ends]
      /\ signals' \in [Inv -> SUBSET Ends]
  BY <1>1, <1>2, <1>3
<1>5. /\ posts'[i] = thread /\ shown'[i] = shown[i] \cup Grounds(signals[i], thread)
      /\ \A j \in Inv \ {i} : posts'[j] = posts[j] /\ shown'[j] = shown[j]
  BY <1>1, <1>2
<1>6. \A j \in Inv : Grounds(signals'[j], posts'[j]) \subseteq shown'[j]
  BY <1>1, <1>5 DEF PollingInv, RowsOK, GroundsOK
<1> QED
  BY <1>1, <1>4, <1>5, <1>6, ShownMore DEF GroundsOK

LEMMA ReportStep ==
  ASSUME PollingInv, NEW i \in Inv, NEW e \in Reports[i], ReportEnd(i, e)
  PROVE  PollingInv'
<1>1. /\ signals' = [signals EXCEPT ![i] = @ \cup {e}] /\ shown' = [shown EXCEPT ![i] = @ \cup {e}]
      /\ UNCHANGED <<posts, creating, reopened, row, loc, fresh, granted, faults>>
  BY DEF ReportEnd
<1>2. e \in Ends /\ signals \in [Inv -> SUBSET Ends] /\ shown \in [Inv -> SUBSET Ends]
      /\ posts \in [Inv -> Seq(Message)]
  BY DEF PollingInv, TypeOK
<1>3. /\ signals' \in [Inv -> SUBSET Ends] /\ shown' \in [Inv -> SUBSET Ends]
      /\ posts' \in [Inv -> Seq(Message)]
  BY <1>1, <1>2
<1>4. /\ signals'[i] = signals[i] \cup {e} /\ shown'[i] = shown[i] \cup {e}
      /\ \A j \in Inv \ {i} : signals'[j] = signals[j] /\ shown'[j] = shown[j]
  BY <1>1, <1>2
<1>5. \A j \in Inv : Grounds(signals'[j], posts'[j]) \subseteq shown'[j]
  BY <1>1, <1>4 DEF PollingInv, RowsOK, GroundsOK, Grounds
<1> QED
  BY <1>1, <1>3, <1>4, <1>5, ShownMore DEF GroundsOK

LEMMA Inductive == PollingInv /\ [Next]_vars => PollingInv'
<1> SUFFICES ASSUME PollingInv, [Next]_vars PROVE PollingInv'
  OBVIOUS
<1>1. ASSUME NEW w \in Workers, Step(w) PROVE PollingInv'
  <2>1. CASE PollStep(w)
    BY <2>1, DropStep, PollReadStep, PollWriteStep, PollConflictStep DEF PollStep
  <2>2. CASE CloseStep(w)
    BY <2>2, CloseReadStep, CloseWriteStep, FindingsReadStep, FindingsWriteStep, ConflictSteps
    DEF CloseStep
  <2>3. CASE SweepStep(w)
    BY <2>3, ClaimStep, SweepSteps DEF SweepStep
  <2> QED
    BY <1>1, <2>1, <2>2, <2>3, FetchSteps, AnswerSteps DEF Step
<1>2. ASSUME NEW i \in Inv, RowStep(i) PROVE PollingInv'
  BY <1>2, FinalizeStep, CreationEndsStep, SettleStep, CleanupStep, TimeSteps, PostStep, ReportStep DEF RowStep
<1>3. CASE UNCHANGED vars
  <2>1. UNCHANGED <<signals, posts, shown, creating, reopened, state, threaded, polls, spaced,
                    lease, expired, finalized,
                    loc, fresh, granted, faults>>
    BY <1>3 DEF vars, platform, outside, row
  <2>2. TypeOK' /\ RowsOK'
    BY <2>1 DEF PollingInv, TypeOK, RowsOK, GroundsOK, ReservedOK, FinalOK, Settled, EveryPollCounts,
                OutcomeHasCause
  <2>3. Steady /\ \A j \in Inv : Unwritten(j)
    BY <2>1 DEF Steady, Settled, Unwritten
  <2> QED
    BY <2>1, <2>2, <2>3, NobodyMoves
<1> QED
  BY <1>1, <1>2, <1>3, SweepSteps, OtherSteps, AskStep, TouchStep DEF Next

(* What the workers and the rows know of each other holds at every step of   *)
(* the requests and sweeps of all replicas (the read side of                 *)
(* investigation_service.py and _run_terminal_reconciliation).               *)
THEOREM PollingInvariant == Spec => []PollingInv
BY Initially, Inductive, PTL DEF Spec

(* The variables keep the types of the code's. *)
THEOREM TypeTheorem == Spec => []TypeOK
<1>1. PollingInv => TypeOK
  BY DEF PollingInv
<1> QED
  BY <1>1, PollingInvariant, PTL

(* However many requests race on however many replicas, none is let through  *)
(* to the platform without a poll of its investigation's budget              *)
(* (record_status_poll, record_summary_poll).                                *)
THEOREM PollsTheorem == Spec => []EveryPollCounts
<1>1. PollingInv => EveryPollCounts
  BY DEF PollingInv, RowsOK
<1> QED
  BY <1>1, PollingInvariant, PTL

(* An investigation ends as the platform has at some time said it ended.     *)
THEOREM CauseTheorem == Spec => []OutcomeHasCause
<1>1. PollingInv => OutcomeHasCause
  BY DEF PollingInv, RowsOK
<1> QED
  BY <1>1, PollingInvariant, PTL

(* No caller is told of an end, or given findings, that the registry has not *)
(* recorded (complete_investigation before the answer of get_status and      *)
(* get_summary).                                                             *)
THEOREM AnswersTheorem == Spec => []AnswersAreRecorded
<1>1. PollingInv => AnswersAreRecorded
  <2> SUFFICES ASSUME PollingInv, NEW w \in Readers, At(w, "answer"), loc[w].verdict # "open"
               PROVE  /\ Settled(loc[w].id)
                      /\ loc[w].op = "summary" => loc[w].id \in finalized
    BY DEF AnswersAreRecorded, Settled
  <2>1. Fine(loc[w])
    BY Local DEF Workers
  <2> QED
    BY <2>1 DEF Fine, Settled, At
<1> QED
  BY <1>1, PollingInvariant, PTL

-----------------------------------------------------------------------------
(* Who writes which columns. *)
LEMMA Writers ==
  ASSUME [Next]_vars
  PROVE  \/ UNCHANGED <<state, lease, expired, granted>>
         \/ \E w \in Workers : \/ Drop(w) \/ PollWrite(w) \/ CloseWrite(w) \/ FindingsWrite(w)
                               \/ Claim(w)
         \/ \E i \in Inv : Finalize(i) \/ Settle(i) \/ Cleanup(i) \/ Expire(i) \/ LeaseEnds(i)
<1>1. ASSUME NEW w \in Workers, Step(w)
      PROVE  \/ UNCHANGED <<state, lease, expired, granted>>
             \/ Drop(w) \/ PollWrite(w) \/ CloseWrite(w) \/ FindingsWrite(w) \/ Claim(w)
  <2>1. CASE PollRead(w) \/ PollConflict(w)
    BY <2>1 DEF PollRead, PollConflict, row
  <2>2. CASE FetchStep(w)
    BY <2>2 DEF FetchStep, FetchThread, MessagesUnread, FetchMessages, ReadReport, CallFails, row
  <2>3. CASE CloseRead(w) \/ CloseConflict(w) \/ FindingsRead(w) \/ FindingsConflict(w)
    BY <2>3 DEF CloseRead, CloseConflict, FindingsRead, FindingsConflict, row
  <2>4. CASE AnswerStep(w)
    BY <2>4 DEF AnswerStep, Answer, AnswerWithheld, row
  <2>5. CASE ClaimConflict(w) \/ ClaimDone(w) \/ NextRecord(w)
    BY <2>5 DEF ClaimConflict, ClaimDone, NextRecord, row
  <2> QED
    BY <1>1, <2>1, <2>2, <2>3, <2>4, <2>5 DEF Step, PollStep, CloseStep, SweepStep
<1>2. ASSUME NEW w \in Workers, StartSweep(w) \/ WaitEnds(w) \/ Abandon(w)
      PROVE  UNCHANGED <<state, lease, expired, granted>>
  BY <1>2 DEF StartSweep, WaitEnds, Abandon, row
<1>3. ASSUME NEW w \in Workers, NEW i \in Inv, NEW k \in Kinds, Ask(w, i, k)
      PROVE  UNCHANGED <<state, lease, expired, granted>>
  BY <1>3 DEF Ask, row
<1>4. ASSUME NEW i \in Inv, RowStep(i)
      PROVE  \/ UNCHANGED <<state, lease, expired, granted>>
             \/ Finalize(i) \/ Settle(i) \/ Cleanup(i) \/ Expire(i) \/ LeaseEnds(i)
  BY <1>4 DEF RowStep, CreationEnds, IntervalEnds, PostMessage, ReportEnd, row
<1>5. CASE TouchCounter
  BY <1>5 DEF TouchCounter, row
<1>6. CASE UNCHANGED vars
  BY <1>6 DEF vars, row
<1> QED
  BY <1>1, <1>2, <1>3, <1>4, <1>5, <1>6 DEF Next

(* A poll is let through only once the minimum interval since the last one   *)
(* is over (the checks of record_status_poll and record_summary_poll hold at *)
(* their write).                                                             *)
THEOREM SpacingTheorem == Spec => PollsAreSpaced
<1>1. ASSUME PollingInv, [Next]_vars, NEW i \in Inv, NEW k \in Kinds, granted'[i][k] # granted[i][k]
      PROVE  spaced[i][k]
  <2>1. PICK w \in Workers : PollWrite(w)
    BY <1>1, Writers
    DEF Drop, CloseWrite, Close, FindingsWrite, Claim, Lease, Finalize, Settle, Cleanup, Expire,
        LeaseEnds
  <2>2. /\ loc[w].id \in Inv /\ loc[w].op \in Kinds /\ spaced[loc[w].id][loc[w].op]
        /\ granted \in [Inv -> [Kinds -> 0..MaxPolls]]
    BY <1>1, <2>1, Local
    DEF PollWrite, At, Fine, Settled, Current, Requesting, Polling, PollingInv, TypeOK
  <2>3. \/ granted' = [granted EXCEPT ![loc[w].id][loc[w].op] = @ + 1]
        \/ UNCHANGED granted
    BY <2>1 DEF PollWrite, Poll
  <2>4. i = loc[w].id /\ k = loc[w].op
    <3>1. granted' = [granted EXCEPT ![loc[w].id][loc[w].op] = @ + 1]
      BY <1>1, <2>3
    <3>2. i = loc[w].id
      BY <1>1, <2>2, <3>1
    <3> QED
      BY <1>1, <2>2, <3>1, <3>2
  <2> QED
    BY <2>2, <2>4
<1>2. PollingInv /\ [Next]_vars =>
        [\A i \in Inv, k \in Kinds : granted'[i][k] # granted[i][k] => spaced[i][k]]_vars
  BY <1>1
<1> QED
  BY <1>2, PollingInvariant, PTL DEF Spec, PollsAreSpaced

(* A lease that lasts is nobody else's to take (the conditional merge of     *)
(* claim_reconcilable_investigations).                                       *)
THEOREM LeaseTheorem == Spec => LeaseIsExclusive
<1>1. ASSUME PollingInv, [Next]_vars, NEW i \in Inv, lease[i] # None, lease'[i] # lease[i]
      PROVE  lease'[i] = None
  <2>1. lease \in [Inv -> Replicas \cup {None}]
    BY <1>1 DEF PollingInv, TypeOK
  <2>2. ASSUME NEW w \in Workers, Claim(w) PROVE FALSE
    <3>1. PICK j \in loc[w].batch : j \in fresh[w] /\ lease' = [lease EXCEPT ![j] = w]
      BY <2>2 DEF Claim, Lease
    <3>2. j \in Inv /\ lease[j] = None
      BY <1>1, <2>2, <3>1, Local DEF Claim, At, Current, Operation
    <3> QED
      BY <1>1, <2>1, <3>1, <3>2
  <2>3. PICK j \in Inv : LeaseEnds(j)
    BY <1>1, <2>2, Writers
    DEF Drop, PollWrite, CloseWrite, Close, FindingsWrite, Finalize, Settle, Cleanup, Expire
  <2> QED
    BY <1>1, <2>1, <2>3 DEF LeaseEnds
<1>2. PollingInv /\ [Next]_vars =>
        [\A i \in Inv : lease[i] # None /\ lease'[i] # lease[i] => lease'[i] = None]_vars
  BY <1>1
<1> QED
  BY <1>2, PollingInvariant, PTL DEF Spec, LeaseIsExclusive

(* The first outcome that is recorded stands (complete_investigation), unless *)
(* the finalize of a creation in progress makes the row active again.         *)
THEOREM OutcomeTheorem == Spec => FirstOutcomeStands
<1>1. ASSUME PollingInv, [Next]_vars, NEW i \in Inv, state[i] \in Ends
      PROVE  state'[i] \in {state[i], "gone"} \/ (i \in creating /\ state'[i] = "active")
  <2>1. state \in [Inv -> {"reserved", "active", "completed", "failed", "gone"}]
        /\ state[i] \notin Open
    BY <1>1 DEF PollingInv, TypeOK, Ends, Open
  <2>2. ASSUME NEW w \in Workers, CloseWrite(w) PROVE state'[i] = state[i]
    BY <1>1, <2>1, <2>2, Local DEF CloseWrite, Close, At, Current
  <2>3. ASSUME NEW j \in Inv, Settle(j) PROVE state'[i] = state[i]
    BY <2>1, <2>3 DEF Settle, Delete, Open
  <2>4. ASSUME NEW j, Delete(j) PROVE state'[i] \in {state[i], "gone"}
    BY <2>1, <2>4 DEF Delete
  <2>5. ASSUME NEW j \in Inv, Finalize(j)
        PROVE  state'[i] = state[i] \/ (i \in creating /\ state'[i] = "active")
    BY <1>1, <2>1, <2>5 DEF Finalize
  <2> QED
    BY <1>1, <2>2, <2>3, <2>4, <2>5, Writers
    DEF Drop, PollWrite, FindingsWrite, Claim, Lease, Cleanup, Expire, LeaseEnds
<1>2. PollingInv /\ [Next]_vars =>
        [\A i \in Inv : state[i] \in Ends =>
           state'[i] \in {state[i], "gone"} \/ (i \in creating /\ state'[i] = "active")]_vars
  BY <1>1
<1> QED
  BY <1>2, PollingInvariant, PTL DEF Spec, FirstOutcomeStands

(* Repeated summary reads do not extend the retention (the guard on          *)
(* findings_finalized_at of record_findings_metadata).                       *)
THEOREM RetentionTheorem == Spec => RetentionIsSetOnce
<1>1. ASSUME PollingInv, [Next]_vars, NEW i \in Inv, i \in finalized \ reopened, i \in expired
      PROVE  i \in expired'
  <2>1. state[i] \notin Open
    BY <1>1 DEF PollingInv, RowsOK, FinalOK, Settled
  <2>2. ASSUME NEW w \in Workers, CloseWrite(w) PROVE i \in expired'
    BY <1>1, <2>1, <2>2, Local DEF CloseWrite, Close, At, Current
  <2>3. ASSUME NEW w \in Workers, FindingsWrite(w) PROVE i \in expired'
    BY <1>1, <2>3 DEF FindingsWrite
  <2>4. ASSUME NEW j \in Inv, Settle(j) PROVE i \in expired'
    BY <1>1, <2>1, <2>4 DEF Settle, Open
  <2> QED
    BY <1>1, <2>2, <2>3, <2>4, Writers
    DEF Drop, PollWrite, Claim, Lease, Finalize, Cleanup, Expire, LeaseEnds
<1>2. PollingInv /\ [Next]_vars =>
        [\A i \in Inv : i \in finalized \ reopened /\ i \in expired => i \in expired']_vars
  BY <1>1
<1> QED
  BY <1>2, PollingInvariant, PTL DEF Spec, RetentionIsSetOnce

-----------------------------------------------------------------------------
(* The texts of the agent among some messages are a sequence of messages. *)
LEMMA TextsAreMessages == ASSUME NEW s \in Seq(Message) PROVE AgentTexts(s) \in Seq(Message)
<1> DEFINE Body(f, n) ==
             IF n = 0 THEN <<>>
             ELSE IF n + MaxMessages > Len(s) /\ s[n].agent /\ s[n].length > 0
                  THEN Append(f[n - 1], s[n]) ELSE f[n - 1]
           Upto(f, n) == f \in [0..n -> Seq(Message)] /\ \A m \in 0..n : f[m] = Body(f, m)
           Made  == {n \in 0..Len(s) : \E f : Upto(f, n)}
           texts == CHOOSE f : f = [n \in 0..Len(s) |-> Body(f, n)]
           Typed == {n \in 0..Len(s) : texts[n] \in Seq(Message)}
<1>0. Len(s) \in Nat /\ 0 \in 0..Len(s) /\ Len(s) \in 0..Len(s)
  OBVIOUS
<1>1. 0 \in Made
  <2>1. Upto([m \in 0..0 |-> <<>>], 0)
    OBVIOUS
  <2> QED
    BY <1>0, <2>1
<1>2. ASSUME NEW n \in 1..Len(s), n - 1 \in Made PROVE n \in Made
  <2>1. PICK f : Upto(f, n - 1)
    BY <1>2
  <2> DEFINE g == [m \in 0..n |-> IF m = n THEN Body(f, n) ELSE f[m]]
  <2>2. n \in Nat /\ n # 0 /\ n - 1 \in 0..(n - 1) /\ s[n] \in Message
    OBVIOUS
  <2>3. Body(f, n) \in Seq(Message)
    BY <2>1, <2>2
  <2>4. g \in [0..n -> Seq(Message)]
    BY <2>1, <2>3
  <2>5. ASSUME NEW m \in 0..n PROVE g[m] = Body(g, m)
    <3>1. m # 0 => g[m - 1] = f[m - 1]
      OBVIOUS
    <3>2. Body(g, m) = Body(f, m)
      BY <3>1
    <3> HIDE DEF Body
    <3>3. m # n => m \in 0..(n - 1) /\ g[m] = f[m]
      OBVIOUS
    <3>4. m = n => g[m] = Body(f, m)
      OBVIOUS
    <3> QED
      BY <2>1, <3>2, <3>3, <3>4
  <2> HIDE DEF g, Body
  <2>6. Upto(g, n)
    BY <2>4, <2>5
  <2> HIDE DEF Upto
  <2>7. n \in 0..Len(s)
    OBVIOUS
  <2> QED
    BY <2>6, <2>7
<1>3. Len(s) \in Made
  <2> HIDE DEF Made
  <2> QED
    BY <1>0, <1>1, <1>2, Induction
<1>4. texts = [n \in 0..Len(s) |-> Body(texts, n)]
  <2>1. PICK f : Upto(f, Len(s))
    BY <1>3
  <2> HIDE DEF Body
  <2>2. f = [n \in 0..Len(s) |-> Body(f, n)]
    BY <2>1
  <2> QED
    BY <2>2
<1>5. AgentTexts(s) = texts[Len(s)]
  BY DEF AgentTexts
<1> HIDE DEF texts
<1>6. 0 \in Typed
  BY <1>4
<1>7. ASSUME NEW n \in 1..Len(s), n - 1 \in Typed PROVE n \in Typed
  <2>1. n # 0 /\ n \in 0..Len(s) /\ s[n] \in Message
    OBVIOUS
  <2>2. texts[n] = Body(texts, n)
    BY <1>4, <2>1
  <2>3. Body(texts, n) \in Seq(Message)
    BY <1>7, <2>1
  <2> QED
    BY <2>1, <2>2, <2>3
<1>8. Len(s) \in Typed
  <2> HIDE DEF Typed
  <2> QED
    BY <1>0, <1>6, <1>7, Induction
<1> QED
  BY <1>5, <1>8

(* Of the last messages of any thread, whatever the platform wrote: get_summary *)
(* takes no messages put together for the report, finds the one report that is  *)
(* among them, and gives no findings that are not in one message.               *)
THEOREM ReportTheorem == Spec => []ReportIsFound
<1>1. TypeOK => ReportIsFound
  BY TextsAreMessages, CompositeTheorem, OneReportTheorem, FindingsTheorem DEF TypeOK, ReportIsFound
<1> QED
  BY <1>1, TypeTheorem, PTL
=============================================================================
