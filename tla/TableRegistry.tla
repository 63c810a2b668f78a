---------------------------- MODULE TableRegistry ----------------------------
(***************************************************************************)
(* TableStorageInvestigationRegistry (investigation_registry.py), the      *)
(* durable registry that every replica of the escalation proxy shares, and *)
(* the part of EscalationService that drives a reservation through it.     *)
(*                                                                         *)
(* The state is ONE caller's Table partition: the quota counter row, one   *)
(* row per investigation and one row per idempotency key.  Each call to    *)
(* Azure Table Storage is one atomic step; an operation is the sequence of *)
(* its calls, and the operations of all replicas interleave between them.  *)
(*                                                                         *)
(* ETags: fresh[w] is the set of rows whose ETag, as w last read it, is    *)
(* still the current one.  A read adds rows to it, every write to a row    *)
(* removes the row from everybody's set, and a conditional write succeeds  *)
(* exactly when its rows are in fresh[w].                                  *)
(*                                                                         *)
(* Lost responses: the client library sends a PUT or DELETE of one row     *)
(* again when its response is lost; the resent request meets the row that  *)
(* it has itself written or deleted.  It never sends a transaction again.  *)
(*                                                                         *)
(* Time has no clock: age[i] counts the deadlines that the row of i has    *)
(* outlived (see Age), and time may pass between any two steps.            *)
(***************************************************************************)
EXTENDS Naturals, FiniteSets

CONSTANTS
  Workers,      \* operations that can be in progress at once, on all replicas
  Requesters,   \* the workers that serve API requests
  Sweepers,     \* the workers that run the expiry cleanup
  Reconcilers,  \* the workers that run the terminal reconciler
  Inv,          \* investigation ids (the uuid4 values)
  Keys,         \* idempotency keys
  None,         \* no investigation, no key ("")
  Counter,      \* the quota counter row, "__quota_counter__"
  Quota,        \* maximum_concurrent_investigations of the caller's policy
  MaxTries,     \* attempts of every conditional update (3 in the code)
  Limit,        \* rows a sweep takes from one query
  SlowOperations, \* may an operation outlast the gap between two deadlines of a row?
  SilentDeletes, \* does deleting a row that is gone succeed, or raise ResourceNotFoundError?
  MaxFaults,    \* bound: operations that die half way, and lost responses
  MaxTouches    \* bound: writes to a row by the operations not modelled here

ASSUME RolesAssumption ==
  /\ Requesters \subseteq Workers /\ Sweepers \subseteq Workers
  /\ Reconcilers \subseteq Workers
ASSUME RowsAssumption ==
  /\ Inv \cap Keys = {} /\ Counter \notin Inv \cup Keys
  /\ None \notin Inv \cup Keys \cup {Counter}
ASSUME FiniteAssumption == IsFiniteSet(Workers) /\ IsFiniteSet(Inv) /\ IsFiniteSet(Keys)
ASSUME NumbersAssumption ==
  /\ Quota \in Nat \ {0} /\ MaxTries \in Nat \ {0} /\ Limit \in Nat \ {0}
  /\ MaxFaults \in Nat /\ MaxTouches \in Nat
  /\ SlowOperations \in BOOLEAN /\ SilentDeletes \in BOOLEAN

VARIABLES
  counter,   \* active_count of the quota counter row
  state,     \* reservation_state of each row ("free": never created, "gone": deleted)
  age,       \* deadlines the row has outlived
  retained,  \* rows whose expires_at a terminal state has extended
  keyOf,     \* idempotency_key of each row
  index,     \* investigation_id of each idempotency index row, or None
  loc,       \* the operation each worker is in, and its local variables
  fresh,     \* rows whose ETag each worker holds and is current
  owing,     \* workers that deleted an open row and have yet to decrement
  blind,     \* history: a recount ran when it could not see every held slot
  slips,     \* history: slots given back twice, or held again by a reopened row
  doubtful,  \* history: investigations whose finalize was applied and its response lost
  asked,     \* history: investigations whose POST to the platform was sent
  faults,    \* operations that died and responses lost so far
  touches    \* writes by operations not modelled here, so far

vars == <<counter, state, age, retained, keyOf, index, loc, fresh, owing,
          blind, slips, doubtful, asked, faults, touches>>

Row == Inv \cup Keys \cup {Counter}

Idle == [op |-> "none", pc |-> "idle", id |-> None, tgt |-> None, req |-> None,
         cnt |-> 0, tally |-> 0, tries |-> 0, batch |-> {}, slots |-> {},
         recent |-> {}]

OpenStates == {"reserved", "active"}
Open    == {i \in Inv : state[i] \in OpenStates}
Present == {i \in Inv : state[i] \notin {"free", "gone"}}

(* expires_at < now.  A terminal state moves expires_at of the record, never *)
(* that of its index row.                                                   *)
Expired(i)  == IF i \in retained THEN age[i] = 3 ELSE age[i] >= 2
IndexRows   == {k \in Keys : index[k] # None}
StaleIndex  == {k \in IndexRows : age[index[k]] >= 2}
(* Mutant of ExpiredRows: the cleanup looks at final rows only. *)
FinalExpiredRows == {i \in Present : state[i] = "closed" /\ Expired(i)} \cup StaleIndex

ExpiredRows == {i \in Present : Expired(i)} \cup StaleIndex

(* What the service contract counts against the quota. *)
Live == {i \in Open : ~Expired(i)}

At(w, p) == loc[w].pc = p

(* w continues at p; w's operation is over. *)
Becomes(w, l) == loc' = [loc EXCEPT ![w] = l]
GoTo(w, p) == Becomes(w, [loc[w] EXCEPT !.pc = p])
End(w)     == Becomes(w, Idle)

(* w now holds current ETags of rows, and the written rows got new ones. *)
Holds(w, rows, written) ==
  fresh' = [v \in Workers |-> IF v = w THEN rows ELSE fresh[v] \ written]

(* Every operation in progress remembers the rows that met a deadline, or    *)
(* were created, since it began.                                             *)
Remember(l, i) == [w \in Workers |-> IF l[w].pc = "idle" THEN l[w]
                                     ELSE [l[w] EXCEPT !.recent = @ \cup {i}]]

(* After a 412: another attempt from p, or the "conflicted" ValueError. *)
MayRetry(w) == loc[w].tries + 1 < MaxTries
TryAgain(w, p) ==
  IF MayRetry(w) THEN Becomes(w, [loc[w] EXCEPT !.pc = p, !.tries = @ + 1, !.cnt = 0])
  ELSE End(w)
Retry(w, p) == TryAgain(w, p) /\ Holds(w, {}, {})

(* An operation dies, or a response is lost. *)
Fault == faults < MaxFaults /\ faults' = faults + 1

(* Mutant of Less1: the max(0, ...) is forgotten. *)
UnflooredLess1(n) == n - 1

Less1(n) == IF n = 0 THEN 0 ELSE n - 1

(* islice(query, limit): the table's order of rows is not ours to know, and  *)
(* the query spans all partitions: any share of the batch may be our rows.   *)
Batches(S) == {B \in SUBSET S : Cardinality(B) <= Limit}

table == <<counter, state, age, retained, keyOf, index>>
notes == <<blind, slips, doubtful, asked>>
aux   == <<notes, faults, touches>>

Init ==
  /\ counter = 0
  /\ state = [i \in Inv |-> "free"]
  /\ age = [i \in Inv |-> 0]
  /\ retained = {}
  /\ keyOf = [i \in Inv |-> None]
  /\ index = [k \in Keys |-> None]
  /\ loc = [w \in Workers |-> Idle]
  /\ fresh = [w \in Workers |-> {}]
  /\ owing = {}
  /\ blind = FALSE /\ slips = 0 /\ doubtful = {} /\ asked = {}
  /\ faults = 0 /\ touches = 0

-----------------------------------------------------------------------------
(* create_investigation: find a replay by the idempotency key ...            *)

(* The id is the uuid4 the operation will use if it gets to reserve. *)
StartCreate(w, k, i) ==
  /\ w \in Requesters /\ At(w, "idle")
  /\ state[i] = "free" /\ \A v \in Workers : loc[v].id # i
  /\ Becomes(w, [Idle EXCEPT !.op = "create", !.id = i, !.req = k,
                                 !.pc = IF k = None THEN "sweepQuery" ELSE "index"])
  /\ UNCHANGED <<table, fresh, owing, aux>>

(* _get_idempotency_record found nothing: in create_investigation the query *)
(* by key follows; after a 409 the reservation "could not be recovered".    *)
NotFound(w) == IF loc[w].op = "create" THEN GoTo(w, "fallback") ELSE End(w)

ReadIndex(w) ==
  /\ At(w, "index")
  /\ LET j == index[loc[w].req]
     IN  IF j = None THEN NotFound(w)
         ELSE Becomes(w, [loc[w] EXCEPT !.pc = "get", !.tgt = j])
  /\ UNCHANGED <<table, fresh, owing, aux>>

(* get_investigation through the index: gone, expired, or a replay. *)
GetRecord(w) ==
  /\ At(w, "get")
  /\ LET j == loc[w].tgt
     IN  \/ /\ j \notin Present
            /\ GoTo(w, "unindex") /\ UNCHANGED fresh
         \/ /\ j \in Present /\ Expired(j)
            /\ GoTo(w, "expire") /\ Holds(w, {j}, {})
         \/ /\ j \in Present /\ ~Expired(j)
            /\ End(w) /\ UNCHANGED fresh
  /\ UNCHANGED <<table, owing, aux>>

(* A GET of an expired investigation; any other read changes nothing here. *)
StartRead(w, i) ==
  /\ w \in Requesters /\ At(w, "idle")
  /\ i \in Present /\ Expired(i)
  /\ Becomes(w, [Idle EXCEPT !.op = "read", !.pc = "expire", !.tgt = i])
  /\ Holds(w, {i}, {})
  /\ UNCHANGED <<table, owing, aux>>

(* "has expired" and "state changed" are ValueErrors: the index row is next. *)
ExpireEnds(w) == IF loc[w].op = "read" THEN End(w) ELSE GoTo(w, "unindex")

(* Mutant of ExpireRecord: the delete is unconditional. *)
UnconditionalExpire(w) ==
  /\ At(w, "expire")
  /\ state' = [state EXCEPT ![loc[w].tgt] = "gone"]
  /\ ExpireEnds(w) /\ Holds(w, {}, {loc[w].tgt})
  /\ UNCHANGED <<counter, age, retained, keyOf, index, owing, aux>>

(* get_investigation deletes the expired row if it is unchanged, and the     *)
(* counter keeps its slot.  A ResourceNotFoundError, where a delete of a row *)
(* that is gone raises it, leaves the index row alone; so does one that the  *)
(* delete itself meets, when it is sent again after a lost response.         *)
ExpireRecord(w) ==
  /\ At(w, "expire")
  /\ LET j == loc[w].tgt  held == j \in fresh[w] IN
       /\ state' = IF held THEN [state EXCEPT ![j] = "gone"] ELSE state
       /\ Holds(w, {}, IF held THEN {j} ELSE {})
       /\ \/ (SilentDeletes \/ state[j] # "gone") /\ ExpireEnds(w) /\ UNCHANGED faults
          \/ ~SilentDeletes /\ state[j] = "gone" /\ NotFound(w) /\ UNCHANGED faults
          \/ ~SilentDeletes /\ held /\ Fault /\ NotFound(w)
  /\ UNCHANGED <<counter, age, retained, keyOf, index, owing, notes, touches>>

(* delete_entity of the index row, without an ETag. *)
Unindex(w) ==
  /\ At(w, "unindex")
  /\ index' = [index EXCEPT ![loc[w].req] = None]
  /\ NotFound(w) /\ Holds(w, {}, {loc[w].req})
  /\ UNCHANGED <<counter, state, age, retained, keyOf, owing, aux>>

(* Mutant of FallbackQuery: find_by_idempotency_key trusts the index alone. *)
NoFallbackQuery(w) ==
  /\ At(w, "fallback") /\ GoTo(w, "sweepQuery")
  /\ UNCHANGED <<table, fresh, owing, aux>>

FallbackQuery(w) ==
  /\ At(w, "fallback")
  /\ IF \E i \in Present : keyOf[i] = loc[w].req /\ ~Expired(i)
     THEN End(w) ELSE GoTo(w, "sweepQuery")
  /\ UNCHANGED <<table, fresh, owing, aux>>

-----------------------------------------------------------------------------
(* cleanup_expired, alone or as the first step of reserve_investigation.     *)

StartSweep(w) ==
  /\ w \in Sweepers /\ At(w, "idle")
  /\ \E B \in Batches(ExpiredRows) \ {{}} :
       /\ Becomes(w, [Idle EXCEPT !.op = "sweep", !.pc = "sweepNext", !.batch = B,
                                  !.slots = B \cap Open])
       /\ Holds(w, B, {})
  /\ UNCHANGED <<table, owing, aux>>

SweepQuery(w) ==
  /\ At(w, "sweepQuery")
  /\ \E B \in Batches(ExpiredRows) :
       /\ Becomes(w, [loc[w] EXCEPT !.pc = "sweepNext", !.batch = B, !.slots = B \cap Open])
       /\ Holds(w, B, {})
  /\ UNCHANGED <<table, owing, aux>>

(* The row changed since the query, or its delete says that it has vanished. *)
SweepSkip(w) ==
  /\ At(w, "sweepNext")
  /\ \E r \in loc[w].batch \ fresh[w] :
       /\ SilentDeletes => r \in Keys \cup Present
       /\ Becomes(w, [loc[w] EXCEPT !.batch = @ \ {r}])
  /\ UNCHANGED <<table, fresh, owing, aux>>

SweepIndexRow(w) ==
  /\ At(w, "sweepNext")
  /\ \E k \in loc[w].batch \cap fresh[w] \cap Keys :
       /\ index' = [index EXCEPT ![k] = None]
       /\ Becomes(w, [loc[w] EXCEPT !.batch = @ \ {k}])
       /\ Holds(w, fresh[w] \ {k}, {k})
  /\ UNCHANGED <<counter, state, age, retained, keyOf, owing, aux>>

(* A delete of record i succeeded: its index row is next, then the slot that *)
(* it held when the query listed it.                                         *)
SweepDeleted(w, i) ==
  Becomes(w, [loc[w] EXCEPT !.batch = @ \ {i}, !.tgt = i, !.tries = 0,
                !.pc = IF keyOf[i] # None THEN "sweepIndex"
                       ELSE IF i \in loc[w].slots THEN "decRead" ELSE "sweepNext"])

(* Deletes an expired record.  If the response is lost and the delete, sent  *)
(* again, raises ResourceNotFoundError, its slot and index row are left.     *)
SweepRecord(w) ==
  /\ At(w, "sweepNext")
  /\ \E i \in loc[w].batch \cap fresh[w] \cap Inv :
       /\ state' = [state EXCEPT ![i] = "gone"]
       /\ Holds(w, fresh[w] \ {i}, {i})
       /\ \/ /\ SweepDeleted(w, i)
             /\ owing' = IF i \in loc[w].slots THEN owing \cup {w} ELSE owing
             /\ UNCHANGED faults
          \/ /\ ~SilentDeletes /\ Fault
             /\ Becomes(w, [loc[w] EXCEPT !.batch = @ \ {i}])
             /\ UNCHANGED owing
  /\ UNCHANGED <<counter, age, retained, keyOf, index, notes, touches>>

(* Mutant of SweepGone: ResourceNotFoundError is no reason to skip the slot. *)
CarelessSweepGone(w) ==
  /\ At(w, "sweepNext")
  /\ \E i \in loc[w].batch \cap Inv : i \notin Present /\ SweepDeleted(w, i)
  /\ UNCHANGED <<table, fresh, owing, aux>>

(* Somebody else deleted the record since the query, and deleting it again   *)
(* succeeds: the sweep goes on as if it had freed the slot.                  *)
SweepGone(w) ==
  /\ At(w, "sweepNext") /\ SilentDeletes
  /\ \E i \in loc[w].batch \cap Inv : i \notin Present /\ SweepDeleted(w, i)
  /\ UNCHANGED <<table, fresh, owing, aux>>

(* delete_entity of the record's index row, without an ETag. *)
SweepIndexOf(w) ==
  /\ At(w, "sweepIndex")
  /\ index' = [index EXCEPT ![keyOf[loc[w].tgt]] = None]
  /\ GoTo(w, IF loc[w].tgt \in loc[w].slots THEN "decRead" ELSE "sweepNext")
  /\ Holds(w, fresh[w] \ {keyOf[loc[w].tgt]}, {keyOf[loc[w].tgt]})
  /\ UNCHANGED <<counter, state, age, retained, keyOf, owing, aux>>

SweepDone(w) ==
  /\ At(w, "sweepNext") /\ loc[w].batch = {}
  /\ IF loc[w].op = "sweep" THEN End(w)
     ELSE Becomes(w, [loc[w] EXCEPT !.pc = "readCounter", !.tgt = None, !.tries = 0,
                                    !.slots = {}])
  /\ Holds(w, {}, {})
  /\ UNCHANGED <<table, owing, aux>>

-----------------------------------------------------------------------------
(* _decrement_quota_counter, after a deletion that freed a slot.             *)

DecrementRead(w) ==
  /\ At(w, "decRead")
  /\ Becomes(w, [loc[w] EXCEPT !.pc = "decWrite", !.cnt = counter])
  /\ Holds(w, fresh[w] \cup {Counter}, {})
  /\ UNCHANGED <<table, owing, aux>>

(* Another attempt, or the ValueError that ends the whole operation; the     *)
(* sweep keeps the ETags of its batch meanwhile.                             *)
DecrementAgain(w, written) ==
  /\ TryAgain(w, "decRead")
  /\ Holds(w, IF MayRetry(w) THEN fresh[w] \ {Counter} ELSE {}, written)

DecrementDone(w) ==
  /\ IF loc[w].op = "release" THEN End(w)
     ELSE Becomes(w, [loc[w] EXCEPT !.pc = "sweepNext", !.cnt = 0, !.tries = 0,
                             !.tgt = None])
  /\ Holds(w, IF loc[w].op = "release" THEN {} ELSE fresh[w] \ {Counter}, {Counter})

(* If the response is lost, the write sent again meets its own ETag: to the  *)
(* code that is a conflict, and it will decrement once more.                 *)
DecrementWrite(w) ==
  /\ At(w, "decWrite") /\ Counter \in fresh[w]
  /\ counter' = Less1(loc[w].cnt)
  /\ owing' = owing \ {w}
  /\ slips' = IF w \in owing THEN slips ELSE slips + 1
  /\ \/ DecrementDone(w) /\ UNCHANGED faults
     \/ Fault /\ DecrementAgain(w, {Counter})
  /\ UNCHANGED <<state, age, retained, keyOf, index, blind, doubtful, asked, touches>>

(* 412: three conflicts end the whole operation, and the slot stays counted. *)
DecrementConflict(w) ==
  /\ At(w, "decWrite") /\ Counter \notin fresh[w]
  /\ DecrementAgain(w, {})
  /\ owing' = IF MayRetry(w) THEN owing ELSE owing \ {w}
  /\ UNCHANGED <<table, aux>>

-----------------------------------------------------------------------------
(* reserve_investigation: counter, record and index row in one transaction.  *)

(* Mutant of ReadCounter: the quota is compared with > instead of >=. *)
LaxReadCounter(w) ==
  /\ At(w, "readCounter")
  /\ Becomes(w, [loc[w] EXCEPT !.cnt = counter,
                        !.pc = IF counter > Quota THEN "recount" ELSE "submit"])
  /\ Holds(w, {Counter}, {})
  /\ UNCHANGED <<table, owing, aux>>

ReadCounter(w) ==
  /\ At(w, "readCounter")
  /\ Becomes(w, [loc[w] EXCEPT !.cnt = counter,
                        !.pc = IF counter >= Quota THEN "recount" ELSE "submit"])
  /\ Holds(w, {Counter}, {})
  /\ UNCHANGED <<table, owing, aux>>

(* _reconcile_quota_counter counts every unexpired row that is reserved or   *)
(* active, or has no reservation_state at all: the index rows are counted.   *)
Counted == Cardinality(Live) + Cardinality(IndexRows \ StaleIndex)

(* The slots this count cannot see: open rows past their expiry, and rows    *)
(* deleted whose decrement is still to come.                                 *)
Hidden == Open # Live \/ owing # {}

(* The count agrees with the counter: the quota really is exhausted (429). *)
DenyQuota(w) ==
  /\ At(w, "recount") /\ Counted = loc[w].cnt
  /\ End(w) /\ Holds(w, {}, {})
  /\ UNCHANGED <<table, owing, aux>>

Recount(w) ==
  /\ At(w, "recount") /\ Counted # loc[w].cnt
  /\ Becomes(w, [loc[w] EXCEPT !.pc = "recountWrite", !.tally = Counted])
  /\ blind' = (blind \/ Hidden)
  /\ UNCHANGED <<table, fresh, owing, slips, doubtful, asked, faults, touches>>

(* Written, lost on a conflict, or written with its response lost: in every  *)
(* case the counter is read again.                                           *)
RecountWrite(w) ==
  /\ At(w, "recountWrite")
  /\ LET ok == Counter \in fresh[w] IN
       /\ counter' = IF ok THEN loc[w].tally ELSE counter
       /\ fresh' = [v \in Workers |-> IF v = w THEN {}
                                      ELSE IF ok THEN fresh[v] \ {Counter} ELSE fresh[v]]
       /\ IF loc[w].tries + 1 < MaxTries
          THEN Becomes(w, [loc[w] EXCEPT !.pc = "readCounter", !.tries = @ + 1,
                                         !.cnt = 0, !.tally = 0])
          ELSE End(w)
  /\ UNCHANGED <<state, age, retained, keyOf, index, owing, aux>>

(* Mutant of Reserve: the counter is updated without If-Match. *)
UnconditionalReserve(w) ==
  LET i == loc[w].id  k == loc[w].req IN
  /\ At(w, "submit")
  /\ k # None => index[k] = None
  /\ counter' = loc[w].cnt + 1
  /\ state' = [state EXCEPT ![i] = "reserved"]
  /\ keyOf' = [keyOf EXCEPT ![i] = k]
  /\ index' = IF k = None THEN index ELSE [index EXCEPT ![k] = i]
  /\ loc' = Remember([loc EXCEPT ![w] = [@ EXCEPT !.pc = "platform", !.cnt = 0, !.tries = 0]], i)
  /\ Holds(w, {}, {Counter, i, k})
  /\ UNCHANGED <<age, retained, owing, aux>>

(* Mutant of Reserve: the index row is written whether it exists or not. *)
CarelessReserve(w) ==
  LET i == loc[w].id  k == loc[w].req IN
  /\ At(w, "submit") /\ Counter \in fresh[w]
  /\ counter' = loc[w].cnt + 1
  /\ state' = [state EXCEPT ![i] = "reserved"]
  /\ keyOf' = [keyOf EXCEPT ![i] = k]
  /\ index' = IF k = None THEN index ELSE [index EXCEPT ![k] = i]
  /\ loc' = Remember([loc EXCEPT ![w] = [@ EXCEPT !.pc = "platform", !.cnt = 0, !.tries = 0]], i)
  /\ Holds(w, {}, {Counter, i, k})
  /\ UNCHANGED <<age, retained, owing, aux>>

(* The transaction commits.  A lost response is recovered by reading the     *)
(* record back; a failed read-back is the fault of Abandon.                  *)
Reserve(w) ==
  LET i == loc[w].id  k == loc[w].req IN
  /\ At(w, "submit") /\ Counter \in fresh[w]
  /\ k # None => index[k] = None
  /\ counter' = loc[w].cnt + 1
  /\ state' = [state EXCEPT ![i] = "reserved"]
  /\ keyOf' = [keyOf EXCEPT ![i] = k]
  /\ index' = IF k = None THEN index ELSE [index EXCEPT ![k] = i]
  /\ loc' = Remember([loc EXCEPT ![w] = [@ EXCEPT !.pc = "platform", !.cnt = 0, !.tries = 0]], i)
  /\ Holds(w, {}, {Counter, i, k})
  /\ UNCHANGED <<age, retained, owing, aux>>

(* 412 on the counter is reported before 409 on the index row. *)
ReserveConflict(w) ==
  /\ At(w, "submit") /\ Counter \notin fresh[w]
  /\ Retry(w, "readCounter")
  /\ UNCHANGED <<table, owing, aux>>

(* 409: another request reserved this key, and its record is the answer. *)
ReserveDuplicate(w) ==
  /\ At(w, "submit") /\ Counter \in fresh[w]
  /\ loc[w].req # None /\ index[loc[w].req] # None
  /\ Becomes(w, [loc[w] EXCEPT !.op = "recover", !.pc = "index", !.id = None,
                        !.cnt = 0, !.tries = 0])
  /\ Holds(w, {}, {})
  /\ UNCHANGED <<table, owing, aux>>

-----------------------------------------------------------------------------
(* create_investigation: the platform call, then finalize or release.        *)

(* No token: the POST was never sent, and the reservation is released. *)
TokenFails(w) ==
  /\ At(w, "platform")
  /\ Becomes(w, [loc[w] EXCEPT !.op = "release", !.pc = "relRead"])
  /\ UNCHANGED <<table, fresh, owing, aux>>

Post(w) ==
  /\ asked' = asked \cup {loc[w].id}
  /\ UNCHANGED <<table, fresh, owing, blind, slips, doubtful, faults, touches>>

(* Mutant of PostUncertain: a reservation is released after the POST. *)
PostReleases(w) ==
  /\ At(w, "platform")
  /\ Becomes(w, [loc[w] EXCEPT !.op = "release", !.pc = "relRead"])
  /\ Post(w)

(* The POST fails or its outcome is unknown: the reservation is retained. *)
PostUncertain(w) == At(w, "platform") /\ End(w) /\ Post(w)

PostSucceeds(w) == At(w, "platform") /\ GoTo(w, "finRead") /\ Post(w)

(* finalize_reservation: a missing row raises, whatever its state is kept. *)
FinalizeRead(w) ==
  /\ At(w, "finRead")
  /\ IF loc[w].id \in Present
     THEN GoTo(w, "finWrite") /\ Holds(w, {loc[w].id}, {})
     ELSE End(w) /\ UNCHANGED fresh
  /\ UNCHANGED <<table, owing, aux>>

(* If the response is lost, the write sent again meets its own ETag, and the *)
(* row is read again: whatever has become of it meanwhile, active it will be.*)
Finalize(w) ==
  LET i == loc[w].id IN
  /\ At(w, "finWrite") /\ i \in fresh[w]
  /\ state' = [state EXCEPT ![i] = "active"]
  /\ slips' = IF i \in Open THEN slips ELSE slips + 1
  /\ Holds(w, {}, {i})
  /\ \/ End(w) /\ UNCHANGED <<doubtful, faults>>
     \/ Fault /\ doubtful' = doubtful \cup {i} /\ TryAgain(w, "finRead")
  /\ UNCHANGED <<counter, age, retained, keyOf, index, owing, blind, asked, touches>>

FinalizeConflict(w) ==
  /\ At(w, "finWrite") /\ loc[w].id \notin fresh[w]
  /\ IF loc[w].id \in Present THEN Retry(w, "finRead") ELSE End(w) /\ Holds(w, {}, {})
  /\ UNCHANGED <<table, owing, aux>>

(* release_reservation *)
ReleaseRead(w) ==
  /\ At(w, "relRead")
  /\ IF state[loc[w].id] = "reserved"
     THEN GoTo(w, "relDelete") /\ Holds(w, {loc[w].id}, {})
     ELSE End(w) /\ UNCHANGED fresh
  /\ UNCHANGED <<table, owing, aux>>

ReleaseDelete(w) ==
  LET i == loc[w].id IN
  /\ At(w, "relDelete") /\ i \in fresh[w]
  /\ state' = [state EXCEPT ![i] = "gone"]
  /\ owing' = owing \cup {w}
  /\ Becomes(w, [loc[w] EXCEPT !.pc = "decRead", !.tries = 0])
  /\ Holds(w, {}, {i})
  /\ UNCHANGED <<counter, age, retained, keyOf, index, aux>>

(* 412, or the row is gone: only a slow operation meets the latter. *)
ReleaseConflict(w) ==
  /\ At(w, "relDelete") /\ loc[w].id \notin fresh[w]
  /\ IF loc[w].id \in Present THEN TryAgain(w, "relRead")
     ELSE IF SilentDeletes THEN Becomes(w, [loc[w] EXCEPT !.pc = "decRead", !.tries = 0])
     ELSE End(w)
  /\ Holds(w, {}, {})
  /\ UNCHANGED <<table, owing, aux>>

-----------------------------------------------------------------------------
(* complete_investigation, from a status or summary poll or the reconciler.  *)

(* The caller saw an unexpired record, and its platform thread has ended. *)
StartComplete(w, i) ==
  /\ w \in Requesters \cup Reconcilers /\ At(w, "idle")
  /\ state[i] = "active" /\ ~Expired(i)
  /\ Becomes(w, [Idle EXCEPT !.op = "complete", !.pc = "cmpRead", !.tgt = i])
  /\ UNCHANGED <<table, fresh, owing, aux>>

(* Mutant of CompleteRead: a record that is already terminal is completed again. *)
RepeatedCompleteRead(w) ==
  /\ At(w, "cmpRead")
  /\ IF loc[w].tgt \in Present
     THEN GoTo(w, "cmpCounter") /\ Holds(w, {loc[w].tgt}, {})
     ELSE End(w) /\ UNCHANGED fresh
  /\ UNCHANGED <<table, owing, aux>>

CompleteRead(w) ==
  /\ At(w, "cmpRead")
  /\ IF loc[w].tgt \in Open
     THEN GoTo(w, "cmpCounter") /\ Holds(w, {loc[w].tgt}, {})
     ELSE End(w) /\ UNCHANGED fresh
  /\ UNCHANGED <<table, owing, aux>>

CompleteCounter(w) ==
  /\ At(w, "cmpCounter")
  /\ Becomes(w, [loc[w] EXCEPT !.pc = "cmpSubmit", !.cnt = counter])
  /\ Holds(w, fresh[w] \cup {Counter}, {})
  /\ UNCHANGED <<table, owing, aux>>

(* expires_at becomes the later of what it was and a full final retention. *)
Prolong(i) ==
  /\ retained' = retained \cup {i}
  /\ age' = [age EXCEPT ![i] = IF @ = 3 THEN 2 ELSE @]

(* Mutant of CloseRecord: the record is merged without its ETag. *)
LooseCloseRecord(w, i) ==
  /\ Counter \in fresh[w]
  /\ counter' = Less1(loc[w].cnt)
  /\ state' = [state EXCEPT ![i] = "closed"]
  /\ Prolong(i)
  /\ UNCHANGED <<keyOf, index>>

(* Both ETags hold: the row becomes terminal and its slot is free, at once. *)
CloseRecord(w, i) ==
  /\ {i, Counter} \subseteq fresh[w]
  /\ counter' = Less1(loc[w].cnt)
  /\ state' = [state EXCEPT ![i] = "closed"]
  /\ Prolong(i)
  /\ UNCHANGED <<keyOf, index>>

Complete(w) ==
  /\ At(w, "cmpSubmit")
  /\ CloseRecord(w, loc[w].tgt)
  /\ End(w) /\ Holds(w, {}, {loc[w].tgt, Counter})
  /\ UNCHANGED <<owing, aux>>

CompleteConflict(w) ==
  /\ At(w, "cmpSubmit")
  /\ ~({loc[w].tgt, Counter} \subseteq fresh[w])
  /\ IF loc[w].tgt \in Present \/ Counter \notin fresh[w]
     THEN Retry(w, "cmpRead") ELSE End(w) /\ Holds(w, {}, {})
  /\ UNCHANGED <<table, owing, aux>>

-----------------------------------------------------------------------------
(* release_stale_uncertain_reservations, by the reconciler of any replica.   *)

(* Mutant of Uncertain: no grace period. *)
ImpatientUncertain == {i \in Inv : state[i] = "reserved"}

Uncertain == {i \in Inv : state[i] = "reserved" /\ age[i] >= 1}

StartReleaseStale(w) ==
  /\ w \in Reconcilers /\ At(w, "idle")
  /\ \E B \in Batches(Uncertain) \ {{}} :
       /\ Becomes(w, [Idle EXCEPT !.op = "stale", !.pc = "staleNext", !.batch = B])
       /\ Holds(w, B, {})
  /\ UNCHANGED <<table, owing, aux>>

(* Mutant of StaleNext: a row that conflicts is tried again at once. *)
StubbornStaleNext(w) ==
  /\ At(w, "staleNext")
  /\ \E i \in loc[w].batch :
       Becomes(w, [loc[w] EXCEPT !.pc = "staleSubmit", !.tgt = i, !.cnt = counter])
  /\ Holds(w, fresh[w] \cup {Counter}, {})
  /\ UNCHANGED <<table, owing, aux>>

StaleNext(w) ==
  /\ At(w, "staleNext")
  /\ \E i \in loc[w].batch :
       Becomes(w, [loc[w] EXCEPT !.pc = "staleSubmit", !.tgt = i, !.batch = @ \ {i},
                          !.cnt = counter])
  /\ Holds(w, fresh[w] \cup {Counter}, {})
  /\ UNCHANGED <<table, owing, aux>>

(* The next row of the batch, if there is one. *)
StaleContinue(w, written) ==
  IF loc[w].batch = {} THEN End(w) /\ Holds(w, {}, written)
  ELSE /\ Becomes(w, [loc[w] EXCEPT !.pc = "staleNext", !.tgt = None, !.cnt = 0])
       /\ Holds(w, fresh[w] \ {loc[w].tgt, Counter}, written)

ReleaseStale(w) ==
  /\ At(w, "staleSubmit")
  /\ CloseRecord(w, loc[w].tgt)
  /\ StaleContinue(w, {loc[w].tgt, Counter})
  /\ UNCHANGED <<owing, aux>>

(* 412: the row waits for another sweep.  A 404, on a row deleted since the  *)
(* query, ends this one; the counter's 412 is reported before it.            *)
StaleConflict(w) ==
  /\ At(w, "staleSubmit")
  /\ ~({loc[w].tgt, Counter} \subseteq fresh[w])
  /\ IF loc[w].tgt \in Present \/ Counter \notin fresh[w]
     THEN StaleContinue(w, {}) ELSE End(w) /\ Holds(w, {}, {})
  /\ UNCHANGED <<table, owing, aux>>

-----------------------------------------------------------------------------
(* The environment: time, writers not modelled here, faults.                 *)

(* A row outlives the grace of an uncertain reservation (1), the retention   *)
(* of active metadata (2) and that of final findings (3).  The shortest gap  *)
(* is the grace, 15 minutes from the creation of the row; unless             *)
(* SlowOperations, no operation sees a row both made and past a deadline, or *)
(* past two.                                                                 *)
Age(i) ==
  /\ state[i] # "free"
  /\ age[i] < IF i \in retained THEN 3 ELSE 2
  /\ ~SlowOperations => \A w \in Workers : i \notin loc[w].recent
  /\ age' = [age EXCEPT ![i] = @ + 1]
  /\ loc' = Remember(loc, i)
  /\ UNCHANGED <<counter, state, retained, keyOf, index, fresh, owing, aux>>

(* record_status_poll, record_summary_poll, record_findings_metadata and the *)
(* reconciler's lease write an unexpired row: its ETag changes.              *)
Touch(i) ==
  /\ touches < MaxTouches
  /\ i \in Present /\ ~Expired(i)
  /\ touches' = touches + 1
  /\ fresh' = [v \in Workers |-> fresh[v] \ {i}]
  /\ UNCHANGED <<table, loc, owing, notes, faults>>

(* The replica stops, the request is cancelled, or a call fails in a way the *)
(* code does not handle: the operation ends where it is.                     *)
Abandon(w) ==
  /\ ~At(w, "idle") /\ Fault
  /\ End(w) /\ Holds(w, {}, {})
  /\ owing' = owing \ {w}
  /\ UNCHANGED <<table, notes, touches>>

-----------------------------------------------------------------------------
FindStep(w)     == ReadIndex(w) \/ GetRecord(w) \/ ExpireRecord(w) \/ Unindex(w) \/ FallbackQuery(w)
SweepStep(w)    == \/ SweepQuery(w) \/ SweepSkip(w) \/ SweepIndexRow(w) \/ SweepRecord(w)
                   \/ SweepGone(w) \/ SweepIndexOf(w) \/ SweepDone(w)
DecStep(w)      == DecrementRead(w) \/ DecrementWrite(w) \/ DecrementConflict(w)
ReserveStep(w)  == \/ ReadCounter(w) \/ DenyQuota(w) \/ Recount(w) \/ RecountWrite(w)
                   \/ Reserve(w) \/ ReserveConflict(w) \/ ReserveDuplicate(w)
PlatformStep(w) == TokenFails(w) \/ PostUncertain(w) \/ PostSucceeds(w)
SettleStep(w)   == \/ FinalizeRead(w) \/ Finalize(w) \/ FinalizeConflict(w)
                   \/ ReleaseRead(w) \/ ReleaseDelete(w) \/ ReleaseConflict(w)
CompleteStep(w) == \/ CompleteRead(w) \/ CompleteCounter(w) \/ Complete(w) \/ CompleteConflict(w)
StaleStep(w)    == StaleNext(w) \/ ReleaseStale(w) \/ StaleConflict(w)

(* One more step of the operation w is in. *)
Step(w) == \/ FindStep(w) \/ SweepStep(w) \/ DecStep(w) \/ ReserveStep(w)
           \/ PlatformStep(w) \/ SettleStep(w) \/ CompleteStep(w) \/ StaleStep(w)

Next ==
  \/ \E w \in Workers :
       \/ Step(w) \/ StartSweep(w) \/ StartReleaseStale(w) \/ Abandon(w)
       \/ \E i \in Inv : StartRead(w, i) \/ StartComplete(w, i)
                         \/ \E k \in Keys \cup {None} : StartCreate(w, k, i)
  \/ \E i \in Inv : Age(i) \/ Touch(i)

Spec == Init /\ [][Next]_vars

(* Every operation that has begun is carried on, time passes, and both       *)
(* background loops of a running replica come round again and again.         *)
Fairness ==
  /\ \A w \in Workers : WF_vars(Step(w))
  /\ \A i \in Inv : WF_vars(Age(i))
  /\ \A w \in Sweepers : WF_vars(StartSweep(w))
  /\ \A w \in Reconcilers : WF_vars(StartReleaseStale(w))

FairSpec == Spec /\ Fairness

-----------------------------------------------------------------------------
(* Properties.                                                               *)

Pcs == {"idle", "index", "get", "expire", "unindex", "fallback", "sweepQuery", "sweepNext",
        "sweepIndex", "decRead", "decWrite", "readCounter", "recount", "recountWrite",
        "submit", "platform", "finRead", "finWrite", "relRead", "relDelete", "cmpRead",
        "cmpCounter", "cmpSubmit", "staleNext", "staleSubmit"}
Ops == {"none", "create", "recover", "release", "read", "sweep", "complete", "stale"}
Operation == [op : Ops, pc : Pcs, id : Inv \cup {None}, tgt : Inv \cup {None},
              req : Keys \cup {None}, cnt : Nat, tally : Nat, tries : 0..MaxTries,
              batch : SUBSET (Inv \cup Keys), slots : SUBSET Inv, recent : SUBSET Inv]

TypeOK ==
  /\ counter \in Nat
  /\ state \in [Inv -> {"free", "reserved", "active", "closed", "gone"}]
  /\ age \in [Inv -> 0..3]
  /\ retained \subseteq Inv
  /\ keyOf \in [Inv -> Keys \cup {None}]
  /\ index \in [Keys -> Inv \cup {None}]
  /\ loc \in [Workers -> Operation]
  /\ fresh \in [Workers -> SUBSET Row]
  /\ owing \subseteq Workers
  /\ blind \in BOOLEAN /\ slips \in Nat /\ doubtful \subseteq Inv /\ asked \subseteq Inv
  /\ faults \in 0..MaxFaults /\ touches \in 0..MaxTouches

(* The counter covers the slots that are held: one for every open row, one   *)
(* for every deleted row whose decrement is still to come.  Two things alone *)
(* lower it further: a recount that could not see every held slot, and a     *)
(* slip, each worth one slot: a decrement repeated after a lost response, a  *)
(* second one for a row that another sweep had deleted, a row reopened.      *)
CounterCovers == ~blind => counter + slips >= Cardinality(Open) + Cardinality(owing)

(* reserve_investigation's docstring, "Atomically reserve a Table slot and   *)
(* increment its per-caller quota counter": as long as no recount ran while  *)
(* it could not see every held slot, a caller has no more investigations     *)
(* open than its quota and one for every slip, however the replicas          *)
(* interleave.                                                               *)
QuotaHonoured == ~blind => Cardinality(Open) <= Quota + slips

(* w is about to give a slot back. *)
Decrements(w) ==
  \/ loc[w].pc \in {"decRead", "decWrite"}
  \/ loc[w].pc = "sweepIndex" /\ loc[w].tgt \in loc[w].slots

(* No operation outlasts a deadline, a delete of a row that is gone raises,  *)
(* and nothing crashed or was lost: then nothing slips.  A worker decrements *)
(* only for a slot it has freed itself.                                      *)
NothingSlips ==
  faults = 0 => slips = 0 /\ doubtful = {} /\ \A w \in Workers : Decrements(w) => w \in owing

(* The same without the condition, which the code does not meet. *)
QuotaNeverExceeded == Cardinality(Live) <= Quota

(* An idempotency index row leads to a record reserved with that key, so a   *)
(* replay is never answered with the record of another key.                  *)
IndexAgrees == \A k \in IndexRows : keyOf[index[k]] = k

(* A row is deleted only when its retention has passed, or by the release of *)
(* a reservation for which the platform was never asked: no sweep, read or   *)
(* late retry destroys a record that is still in use.                        *)
DeletedOnlyWhenDone ==
  [][\A i \in Inv : state[i] # "gone" /\ state'[i] = "gone"
       => Expired(i) \/ (state[i] = "reserved" /\ i \notin asked)]_vars

(* service-contract-v1.md:116: completed, failed and expired are terminal. *)
TerminalIsFinal ==
  [][\A i \in Inv : state[i] = "closed" => state'[i] \in {"closed", "gone"}]_vars

(* What holds of it when no operation outlasts the grace period: only the    *)
(* retry of a finalize whose response was lost reopens a closed row.         *)
ReopenedOnlyInDoubt ==
  [][\A i \in Inv : state[i] = "closed"
       => state'[i] \in {"closed", "gone"} \/ (i \in doubtful /\ state'[i] = "active")]_vars

(* One idempotency key, one unexpired investigation (operations.md:64-65). *)
NoDuplicate ==
  \A i, j \in Present : i # j /\ keyOf[i] = keyOf[j] /\ keyOf[i] # None => Expired(i) \/ Expired(j)

(* Some investigation of key k was deleted or has outlived its first         *)
(* retention: only then may the index row of k go.                           *)
Spent(k) == \E i \in Inv : keyOf[i] = k /\ (state[i] = "gone" \/ age[i] >= 2)

(* What holds of it for any number of overlapping requests, sweeps and       *)
(* crashes: until an investigation of the key is deleted or outlives its     *)
(* retention, there is one only, and the index row leads to it.              *)
KeyKeepsItsRecord == \A k \in Keys :
  ~Spent(k) => \A i \in Inv : keyOf[i] = k => index[k] = i

(* And when operations do not overlap: the repeat of a request creates       *)
(* nothing beside an unexpired investigation of the same key, whatever has   *)
(* become of the index row (find_by_idempotency_key).                        *)
RepeatIsReplay ==
  [][\A i \in Inv : keyOf[i] = None /\ keyOf'[i] # None
       => \A j \in Present : keyOf[j] = keyOf'[i] => Expired(j)]_vars

(* service-contract-v1.md:96: the quota counts non-terminal, non-expired     *)
(* investigations, so a request is denied only when that many exist.         *)
DeniedOnlyWhenFull == [][\A w \in Workers : DenyQuota(w) => Cardinality(Live) >= Quota]_vars

(* A reservation whose creation was left uncertain is settled in the end. *)
ReservationSettled == \A i \in Inv : state[i] = "reserved" ~> state[i] # "reserved"

(* Every investigation gives its place back, whether the thread ends or not. *)
SlotFreed == \A i \in Inv : i \in Open ~> i \notin Open

(* The registry implements the lifecycle, its quota and its retention. *)
Lapsed == {i \in Present : Expired(i)}
Lifecycle == INSTANCE InvestigationLifecycle WITH life <- state, lapsed <- Lapsed, miscounted <- blind,
  slips <- slips, unsure <- doubtful
ImplementsLifecycle == Lifecycle!Spec
=============================================================================
