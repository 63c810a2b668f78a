---------------------------- MODULE MemoryRegistry ----------------------------
(***************************************************************************)
(* InvestigationRegistry (investigation_registry.py), the registry of one  *)
(* process without Table storage, and the calls that InvestigationService  *)
(* makes of it from the threads of asyncio.to_thread.                      *)
(*                                                                         *)
(* One Lock guards the operations that reserve, settle and close.  The     *)
(* expiry cleanup, get_investigation and find_by_idempotency_key do        *)
(* without it, and reserve_investigation calls the first and the last of   *)
(* them with the lock in its hands.  A step is what a thread does before   *)
(* another may run between two of its loops or statements; an operation    *)
(* that only locks, looks a record up and writes it is one step.           *)
(*                                                                         *)
(* The records are those of one caller.  There is no clock: a record       *)
(* outlives expires_at at some step.                                       *)
(***************************************************************************)
EXTENDS Naturals, FiniteSets

CONSTANTS
  Threads,     \* the threads that run registry operations
  Sweeper,     \* the thread that runs the expiry cleanup
  Inv,         \* investigation ids (the uuid4 values)
  Keys,        \* idempotency keys
  None,        \* no key (""), no thread
  Quota,       \* maximum_concurrent_investigations of the caller's policy
  Limit        \* MAX_EXPIRY_CLEANUP_BATCH_SIZE

ASSUME NamesAssumption == Sweeper \in Threads /\ None \notin Inv \cup Keys \cup Threads
ASSUME FiniteAssumption == IsFiniteSet(Inv)
ASSUME NumbersAssumption == Quota \in Nat \ {0} /\ Limit \in Nat \ {0}

VARIABLES
  state,      \* reservation_state of each record ("free": never made, "gone": deleted)
  expired,    \* records that have outlived expires_at
  finalized,  \* records with findings_finalized_at
  keyOf,      \* idempotency_key of each record
  lock,       \* the thread that holds _lock
  loc         \* the operation of each thread and its local variables

vars == <<state, expired, finalized, keyOf, lock, loc>>

Idle == [op |-> "none", pc |-> "idle", id |-> None, key |-> None, batch |-> {}]

OpenStates == {"reserved", "active"}
Present == {i \in Inv : state[i] \notin {"free", "gone"}}
Open    == {i \in Inv : state[i] \in OpenStates}
Live    == Open \ expired
Lapsed  == Present \cap expired

At(t, p)      == loc[t].pc = p
Becomes(t, l) == loc' = [loc EXCEPT ![t] = l]
GoTo(t, p)    == Becomes(t, [loc[t] EXCEPT !.pc = p])
End(t)        == Becomes(t, Idle)

Delete(i) == state' = [state EXCEPT ![i] = "gone"]

(* with self._lock: taken when it is free, given back however the block ends. *)
Free      == lock = None
Unlock(t) == lock' = IF lock = t THEN None ELSE lock

Init ==
  /\ state = [i \in Inv |-> "free"]
  /\ expired = {} /\ finalized = {}
  /\ keyOf = [i \in Inv |-> None]
  /\ lock = None
  /\ loc = [t \in Threads |-> Idle]

-----------------------------------------------------------------------------
(* create_investigation                                                      *)

(* A bound: there are not more requests than ids. *)
Request(t)  == loc[t].op = "create" /\ loc[t].id = None
IdsLeft     == Cardinality({t \in Threads : Request(t)}) < Cardinality({i \in Inv : state[i] = "free"})

StartCreate(t, k) ==
  /\ t # Sweeper /\ At(t, "idle") /\ IdsLeft
  /\ Becomes(t, [Idle EXCEPT !.op = "create", !.key = k,
                             !.pc = IF k = None THEN "enter" ELSE "lookup"])
  /\ UNCHANGED <<state, expired, finalized, keyOf, lock>>

Replay(k) == k # None /\ \E i \in Present \ expired : keyOf[i] = k

(* find_by_idempotency_key, before the lock. *)
Lookup(t) ==
  /\ At(t, "lookup")
  /\ IF Replay(loc[t].key) THEN End(t) ELSE GoTo(t, "enter")
  /\ UNCHANGED <<state, expired, finalized, keyOf, lock>>

(* Mutant of Enter: reserve_investigation does without the lock. *)
UnlockedEnter(t) ==
  /\ At(t, "enter")
  /\ GoTo(t, "list")
  /\ UNCHANGED <<state, expired, finalized, keyOf, lock>>

Enter(t) ==
  /\ At(t, "enter") /\ Free
  /\ lock' = t /\ GoTo(t, "list")
  /\ UNCHANGED <<state, expired, finalized, keyOf>>

(* Mutant of Find: the lookup before the lock is trusted. *)
TrustingFind(t) ==
  /\ At(t, "find")
  /\ GoTo(t, "count") /\ UNCHANGED lock
  /\ UNCHANGED <<state, expired, finalized, keyOf>>

(* The key is looked up again: another request may have reserved it. *)
Find(t) ==
  /\ At(t, "find")
  /\ IF Replay(loc[t].key) THEN End(t) /\ Unlock(t) ELSE GoTo(t, "count") /\ UNCHANGED lock
  /\ UNCHANGED <<state, expired, finalized, keyOf>>

(* The quota: a ValueError (429), or a place for the new record. *)
Count(t) ==
  /\ At(t, "count")
  /\ IF Cardinality(Live) >= Quota THEN End(t) /\ Unlock(t) ELSE GoTo(t, "insert") /\ UNCHANGED lock
  /\ UNCHANGED <<state, expired, finalized, keyOf>>

Insert(t) ==
  /\ At(t, "insert")
  /\ \E i \in Inv :
       /\ state[i] = "free"
       /\ state' = [state EXCEPT ![i] = "reserved"]
       /\ keyOf' = [keyOf EXCEPT ![i] = loc[t].key]
       /\ Becomes(t, [Idle EXCEPT !.op = "create", !.pc = "platform", !.id = i])
  /\ Unlock(t)
  /\ UNCHANGED <<expired, finalized>>

(* The thread exists: finalize_reservation, of whatever the record has become. *)
Finalize(t) ==
  /\ At(t, "platform") /\ Free
  /\ IF loc[t].id \in Present THEN state' = [state EXCEPT ![loc[t].id] = "active"]
     ELSE UNCHANGED state
  /\ End(t)
  /\ UNCHANGED <<expired, finalized, keyOf, lock>>

(* The platform was never asked: release_reservation. *)
Release(t) ==
  /\ At(t, "platform") /\ Free
  /\ IF state[loc[t].id] = "reserved" THEN Delete(loc[t].id) ELSE UNCHANGED state
  /\ End(t)
  /\ UNCHANGED <<expired, finalized, keyOf, lock>>

(* The answer is lost or the request cancelled: the reservation is left. *)
Uncertain(t) ==
  /\ At(t, "platform") /\ End(t)
  /\ UNCHANGED <<state, expired, finalized, keyOf, lock>>

-----------------------------------------------------------------------------
(* cleanup_expired, alone or as the first thing reserve_investigation does.  *)

StartSweep(t) ==
  /\ t = Sweeper /\ At(t, "idle")
  /\ Lapsed # {}
  /\ Becomes(t, [Idle EXCEPT !.op = "sweep", !.pc = "list"])
  /\ UNCHANGED <<state, expired, finalized, keyOf, lock>>

(* The records of B are still to be deleted; with none left the operation is *)
(* over, or goes on to what reserve_investigation does next.                 *)
Deleting(t, B) ==
  IF B # {} THEN Becomes(t, [loc[t] EXCEPT !.pc = "del", !.batch = B])
  ELSE IF loc[t].op = "sweep" THEN End(t)
  ELSE Becomes(t, [loc[t] EXCEPT !.pc = "find", !.batch = {}])

(* Mutant of List: records are listed by their age, expired or not. *)
HastyList(t) ==
  /\ At(t, "list")
  /\ \E B \in SUBSET Present :
       /\ Cardinality(B) <= Limit /\ (B # Present => Cardinality(B) = Limit)
       /\ Deleting(t, B)
  /\ UNCHANGED <<state, expired, finalized, keyOf, lock>>

(* Mutant of List: all of the expired records. *)
UnlimitedList(t) ==
  /\ At(t, "list")
  /\ Deleting(t, Lapsed)
  /\ UNCHANGED <<state, expired, finalized, keyOf, lock>>

(* At most Limit of the expired records, in the order they were made. *)
List(t) ==
  /\ At(t, "list")
  /\ \E B \in SUBSET Lapsed :
       /\ Cardinality(B) <= Limit /\ (B # Lapsed => Cardinality(B) = Limit)
       /\ Deleting(t, B)
  /\ UNCHANGED <<state, expired, finalized, keyOf, lock>>

(* del self._registry[id], of a record that was expired when it was listed. *)
Remove(t) ==
  /\ At(t, "del")
  /\ \E i \in loc[t].batch \cap Present :
       Delete(i) /\ Deleting(t, loc[t].batch \ {i})
  /\ UNCHANGED <<expired, finalized, keyOf, lock>>

(* Another thread deleted it first: a KeyError ends the whole operation. *)
RemoveRaises(t) ==
  /\ At(t, "del")
  /\ loc[t].batch \ Present # {}
  /\ End(t) /\ Unlock(t)
  /\ UNCHANGED <<state, expired, finalized, keyOf>>

(* Threads about to add a record to the registry or to delete one. *)
Resizing(t) ==
  \/ At(t, "insert")
  \/ At(t, "del") /\ loc[t].batch \cap Present # {}
  \/ At(t, "drop") /\ loc[t].id \in Present

(* Mutant of ScanRaises: the lock is not given back by an exception. *)
LeakyScanRaises(t) ==
  /\ loc[t].pc \in {"lookup", "list", "find", "count"}
  /\ \E u \in Threads \ {t} : Resizing(u)
  /\ End(t)
  /\ UNCHANGED <<state, expired, finalized, keyOf, lock>>

(* "dictionary changed size during iteration": a thread without the lock     *)
(* adds or deletes a record in the middle of a loop over them all.           *)
ScanRaises(t) ==
  /\ loc[t].pc \in {"lookup", "list", "find", "count"}
  /\ \E u \in Threads \ {t} : Resizing(u)
  /\ End(t) /\ Unlock(t)
  /\ UNCHANGED <<state, expired, finalized, keyOf>>

-----------------------------------------------------------------------------
(* The other operations.                                                     *)

(* get_investigation of an expired record; of any other it changes nothing. *)
StartRead(t, i) ==
  /\ t # Sweeper /\ At(t, "idle")
  /\ i \in Lapsed
  /\ Becomes(t, [Idle EXCEPT !.op = "read", !.pc = "drop", !.id = i])
  /\ UNCHANGED <<state, expired, finalized, keyOf, lock>>

(* The record is deleted, or, deleted since, a KeyError. *)
Drop(t) ==
  /\ At(t, "drop")
  /\ IF loc[t].id \in Present THEN Delete(loc[t].id) ELSE UNCHANGED state
  /\ End(t)
  /\ UNCHANGED <<expired, finalized, keyOf, lock>>

(* An operation of one step by a thread that is not in the middle of another. *)
OneStep == Free /\ \E t \in Threads \ {Sweeper} : At(t, "idle")

(* complete_investigation, for a thread that ended: the retention of the     *)
(* findings starts.                                                          *)
Complete(i) ==
  /\ OneStep /\ state[i] = "active"
  /\ state' = [state EXCEPT ![i] = "closed"]
  /\ expired' = expired \ {i}
  /\ UNCHANGED <<finalized, keyOf, lock, loc>>

(* record_findings_metadata, the first time. *)
RecordFindings(i) ==
  /\ OneStep /\ state[i] = "closed" /\ i \notin finalized
  /\ finalized' = finalized \cup {i}
  /\ expired' = expired \ {i}
  /\ UNCHANGED <<state, keyOf, lock, loc>>

(* Time: the creation that a record belongs to is over before the record     *)
(* meets its first deadline, the grace of an uncertain reservation (15       *)
(* minutes by default); see SlowOperations in TableRegistry.                 *)
Settled(i) == \A t \in Threads : ~(At(t, "platform") /\ loc[t].id = i)

(* release_stale_uncertain_reservations, of a record older than the grace. *)
ReleaseStale(i) ==
  /\ OneStep /\ state[i] = "reserved" /\ Settled(i)
  /\ state' = [state EXCEPT ![i] = "closed"]
  /\ expired' = expired \ {i}
  /\ UNCHANGED <<finalized, keyOf, lock, loc>>

Expire(i) ==
  /\ i \in Present \ expired /\ Settled(i)
  /\ expired' = expired \cup {i}
  /\ UNCHANGED <<state, finalized, keyOf, lock, loc>>

-----------------------------------------------------------------------------
CreateStep(t)  == Lookup(t) \/ Enter(t) \/ Find(t) \/ Count(t) \/ Insert(t)
SettleStep(t)  == Finalize(t) \/ Release(t) \/ Uncertain(t)
CleanupStep(t) == List(t) \/ Remove(t) \/ RemoveRaises(t)

(* One more step of the operation t is in. *)
Step(t) == CreateStep(t) \/ SettleStep(t) \/ CleanupStep(t) \/ ScanRaises(t) \/ Drop(t)

Next ==
  \/ \E t \in Threads : \/ Step(t) \/ StartSweep(t)
                        \/ \E k \in Keys \cup {None} : StartCreate(t, k)
                        \/ \E i \in Inv : StartRead(t, i)
  \/ \E i \in Inv : Complete(i) \/ RecordFindings(i) \/ ReleaseStale(i) \/ Expire(i)

Spec == Init /\ [][Next]_vars

(* Threads run, and the cleanup loop survives its exceptions. *)
Fairness == \A t \in Threads : WF_vars(Step(t) \/ StartSweep(t))

FairSpec == Spec /\ Fairness

-----------------------------------------------------------------------------
(* Properties.                                                               *)

Pcs == {"idle", "lookup", "enter", "list", "del", "find", "count", "insert", "platform", "drop"}
Operation == [op : {"none", "create", "sweep", "read"}, pc : Pcs, id : Inv \cup {None},
              key : Keys \cup {None}, batch : {B \in SUBSET Inv : Cardinality(B) <= Limit}]

(* The variables of the model have the types of the code's, and no operation *)
(* deletes more than its share of the expired records.                       *)
TypeOK ==
  /\ state \in [Inv -> {"free", "reserved", "active", "closed", "gone"}]
  /\ expired \subseteq Inv /\ finalized \subseteq Inv
  /\ keyOf \in [Inv -> Keys \cup {None}]
  /\ lock \in Threads \cup {None}
  /\ loc \in [Threads -> Operation]

(* reserve_investigation's docstring, "Atomically reserve one caller quota   *)
(* slot": never more unexpired open investigations than the quota, although  *)
(* records are deleted and expire under the lock's holder.                   *)
QuotaHonoured == Cardinality(Live) <= Quota

(* Two requests with one key never hold two open investigations between them *)
(* (find_by_idempotency_key, before the lock and under it).                  *)
OneLivePerKey ==
  \A i, j \in Live : i # j /\ keyOf[i] = keyOf[j] => keyOf[i] = None

(* The cleanup deletes what it listed earlier, get_investigation what it     *)
(* looked at earlier; all the same, an open record that has not expired is   *)
(* deleted by nothing but its own release, before the platform was asked.    *)
OpenIsKept ==
  [][\A i \in Live : state'[i] = "gone" =>
       state[i] = "reserved" /\ \E t \in Threads : At(t, "platform") /\ loc[t].id = i]_vars

(* No exception keeps the lock or stops the cleanup: the lock is always given *)
(* back, and every expired record goes, if its retention does not start anew.  *)
NothingStuck ==
  /\ lock # None ~> lock = None
  /\ \A i \in Inv : i \in Lapsed ~> i \notin Lapsed
=============================================================================
