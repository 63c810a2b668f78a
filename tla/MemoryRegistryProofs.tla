------------------------- MODULE MemoryRegistryProofs -------------------------
(***************************************************************************)
(* The safety properties of MemoryRegistry, for any threads, records, keys,*)
(* quota and batch size.  They need to be strengthened by what the threads *)
(* know in the middle of their operations: MemoryInv.                      *)
(***************************************************************************)
EXTENDS MemoryRegistry, FiniteSetTheorems, TLAPS

USE NamesAssumption, FiniteAssumption, NumbersAssumption

(* Between Enter and its end reserve_investigation holds the lock. *)
Inside(t) == \/ loc[t].pc \in {"find", "count", "insert"}
             \/ loc[t].pc \in {"list", "del"} /\ loc[t].op # "sweep"
LockOK == \A t \in Threads : Inside(t) => lock = t

FreeOK == \A i \in expired : state[i] # "free"

(* What a thread is about to delete is not a live investigation any more. *)
Doomed(i) == state[i] # "free" /\ i \notin Live
DoomedOK == \A t \in Threads :
  /\ \A i \in loc[t].batch : Doomed(i)
  /\ At(t, "drop") => loc[t].id \in Inv /\ Doomed(loc[t].id)

(* A reservation belongs to one thread while the platform is asked. *)
PlatformOK ==
  /\ \A t \in Threads : At(t, "platform") =>
       loc[t].id \in Inv /\ state[loc[t].id] = "reserved" /\ loc[t].id \notin expired
  /\ \A t, u \in Threads :
       At(t, "platform") /\ At(u, "platform") /\ loc[t].id = loc[u].id => t = u

(* Whoever is past the second lookup, or past the count, is right. *)
KeyFree(k) == k # None => \A i \in Live : keyOf[i] # k
Room       == Cardinality(Live) < Quota
LookedOK == \A t \in Threads :
  /\ loc[t].pc \in {"count", "insert"} => KeyFree(loc[t].key)
  /\ At(t, "insert") => Room

MemoryInv == /\ TypeOK /\ LockOK /\ FreeOK /\ DoomedOK /\ PlatformOK /\ LookedOK
             /\ QuotaHonoured /\ OneLivePerKey

-----------------------------------------------------------------------------
LEMMA FiniteParts == \A S \in SUBSET Inv :
  /\ IsFiniteSet(S) /\ Cardinality(S) \in Nat
  /\ \A T \in SUBSET S : Cardinality(T) <= Cardinality(S)
BY FS_Subset, FS_CardinalityType

LEMMA IdleOK == Idle \in Operation /\ Idle.pc = "idle" /\ Idle.batch = {}
<1>1. Cardinality({}) <= Limit
  BY FS_EmptySet
<1> QED
  BY <1>1 DEF Idle, Operation, Pcs

LEMMA Initially == Init => MemoryInv
<1> SUFFICES ASSUME Init PROVE MemoryInv
  OBVIOUS
<1>1. TypeOK
  BY IdleOK DEF Init, TypeOK
<1>2. \A t \in Threads : loc[t].pc = "idle" /\ loc[t].batch = {}
  BY IdleOK DEF Init
<1>3. Live = {}
  BY DEF Init, Live, Open, OpenStates
<1>4. LockOK /\ DoomedOK /\ PlatformOK /\ LookedOK
  BY <1>2 DEF LockOK, Inside, DoomedOK, PlatformOK, LookedOK, At
<1>5. FreeOK
  BY DEF Init, FreeOK
<1>6. QuotaHonoured /\ OneLivePerKey
  BY <1>3, FS_EmptySet DEF QuotaHonoured, OneLivePerKey
<1> QED
  BY <1>1, <1>4, <1>5, <1>6 DEF MemoryInv

(* A step that adds no live record, takes no reservation from the thread it  *)
(* belongs to, and leaves the threads alone.                                 *)
LEMMA RecordsOnly ==
  ASSUME MemoryInv, TypeOK', UNCHANGED <<keyOf, lock, loc>>, Live' \subseteq Live,
         \A i \in Inv : state[i] # "free" => state'[i] # "free",
         \A i \in expired' : state'[i] # "free",
         \A t \in Threads : At(t, "platform") =>
           state'[loc[t].id] = "reserved" /\ loc[t].id \notin expired'
  PROVE  MemoryInv'
<1>1. Live \subseteq Inv /\ Cardinality(Live') <= Cardinality(Live)
      /\ Cardinality(Live) \in Nat /\ Cardinality(Live') \in Nat
  BY FiniteParts DEF Live, Open
<1>2. LockOK' /\ FreeOK'
  BY DEF MemoryInv, LockOK, Inside, FreeOK
<1>3. \A t \in Threads : loc[t].batch \subseteq Inv
  BY DEF MemoryInv, TypeOK, Operation
<1>4. DoomedOK'
  BY <1>3 DEF MemoryInv, DoomedOK, Doomed, At
<1>5. PlatformOK'
  BY DEF MemoryInv, PlatformOK, At
<1>6. LookedOK' /\ QuotaHonoured'
  BY <1>1 DEF MemoryInv, LookedOK, KeyFree, Room, QuotaHonoured, At
<1>7. OneLivePerKey'
  BY DEF MemoryInv, OneLivePerKey
<1> QED
  BY <1>2, <1>4, <1>5, <1>6, <1>7 DEF MemoryInv

(* A step of thread t that deletes at most one record, which is not another  *)
(* thread's reservation.                                                     *)
LEMMA ThreadOnly ==
  ASSUME MemoryInv, NEW t \in Threads, NEW r \in Operation,
         loc' = [loc EXCEPT ![t] = r], UNCHANGED <<expired, finalized, keyOf>>,
         \/ state' = state
         \/ \E i \in Inv : /\ state[i] # "free" /\ state' = [state EXCEPT ![i] = "gone"]
                           /\ \A u \in Threads \ {t} : ~(At(u, "platform") /\ loc[u].id = i),
         \/ lock' = lock
         \/ lock \in {t, None} /\ lock' \in {t, None},
         r.pc \in {"find", "count", "insert"} => lock' = t,
         r.pc \in {"list", "del"} /\ r.op # "sweep" => lock' = t,
         \A i \in r.batch : Doomed(i),
         r.pc = "drop" => r.id \in Inv /\ Doomed(r.id),
         r.pc # "platform",
         r.pc \in {"count", "insert"} => KeyFree(r.key),
         r.pc = "insert" => Room
  PROVE  MemoryInv'
<1>1. \A u \in Threads : loc'[u] = IF u = t THEN r ELSE loc[u]
  BY DEF MemoryInv, TypeOK
<1>2. state' \in [Inv -> {"free", "reserved", "active", "closed", "gone"}]
  BY DEF MemoryInv, TypeOK
<1>3. TypeOK'
  BY <1>2 DEF MemoryInv, TypeOK
<1>4. \A i \in Inv : state'[i] \in {state[i], "gone"} /\ (state[i] # "free" => state'[i] # "free")
  BY DEF MemoryInv, TypeOK
<1>5. Live' \subseteq Live
  BY <1>4 DEF Live, Open, OpenStates
<1>6. Live \subseteq Inv /\ Cardinality(Live') <= Cardinality(Live)
      /\ Cardinality(Live) \in Nat /\ Cardinality(Live') \in Nat
  BY <1>5, FiniteParts DEF Live, Open
<1>7. LockOK'
  BY <1>1 DEF MemoryInv, LockOK, Inside
<1>8. FreeOK'
  BY <1>4 DEF MemoryInv, TypeOK, FreeOK
<1>9. DoomedOK'
  <2>1. \A i \in Inv : Doomed(i) => Doomed(i)'
    BY <1>4, <1>5 DEF Doomed
  <2>2. \A u \in Threads : loc[u].batch \subseteq Inv
    BY DEF MemoryInv, TypeOK, Operation
  <2>3. r.batch \subseteq Inv
    BY DEF Operation
  <2> QED
    BY <1>1, <2>1, <2>2, <2>3 DEF MemoryInv, DoomedOK, At
<1>10. PlatformOK'
  <2>1. \A u \in Threads : (loc'[u].pc = "platform") => u # t /\ loc'[u] = loc[u] /\ At(u, "platform")
    BY <1>1 DEF At
  <2>2. \A u \in Threads \ {t} : At(u, "platform") => state'[loc[u].id] = state[loc[u].id]
    BY DEF MemoryInv, TypeOK, PlatformOK
  <2> QED
    BY <2>1, <2>2 DEF MemoryInv, PlatformOK, At
<1>11. LookedOK' /\ QuotaHonoured'
  <2>1. \A k : KeyFree(k) => KeyFree(k)'
    BY <1>5 DEF KeyFree
  <2>2. Room => Room'
    BY <1>6 DEF Room
  <2> QED
    BY <1>1, <1>6, <2>1, <2>2 DEF MemoryInv, LookedOK, QuotaHonoured, At
<1>12. OneLivePerKey'
  BY <1>5 DEF MemoryInv, OneLivePerKey
<1> QED
  BY <1>3, <1>7, <1>8, <1>9, <1>10, <1>11, <1>12 DEF MemoryInv

-----------------------------------------------------------------------------
(* The steps of reserve_investigation and of the cleanup.                    *)

LEMMA Local == ASSUME MemoryInv, NEW t \in Threads PROVE loc[t] \in Operation
BY DEF MemoryInv, TypeOK

(* An operation that ends, with the lock or without. *)
LEMMA Ending ==
  ASSUME MemoryInv, NEW t \in Threads, End(t), lock' = lock \/ Unlock(t),
         UNCHANGED <<state, expired, finalized, keyOf>>
  PROVE  MemoryInv'
<1>1. lock' = lock \/ (lock \in {t, None} /\ lock' \in {t, None})
  BY DEF Unlock
<1> QED
  BY <1>1, IdleOK, ThreadOnly DEF End, Becomes

(* A step that takes the operation to r without a change to the records. *)
LEMMA Moving ==
  ASSUME MemoryInv, NEW t \in Threads, NEW r \in Operation, Becomes(t, r),
         UNCHANGED <<state, expired, finalized, keyOf>>,
         lock' = lock \/ (lock = None /\ lock' = t),
         r.pc \in {"find", "count", "insert"} => lock' = t,
         r.pc \in {"list", "del"} /\ r.op # "sweep" => lock' = t,
         \A i \in r.batch : Doomed(i),
         r.pc = "drop" => r.id \in Inv /\ Doomed(r.id),
         r.pc # "platform",
         r.pc \in {"count", "insert"} => KeyFree(r.key),
         r.pc = "insert" => Room
  PROVE  MemoryInv'
<1>1. lock' = lock \/ (lock \in {t, None} /\ lock' \in {t, None})
  OBVIOUS
<1> QED
  BY <1>1, ThreadOnly DEF Becomes

LEMMA CreateSteps ==
  ASSUME MemoryInv, NEW t \in Threads,
         \/ \E k \in Keys \cup {None} : StartCreate(t, k)
         \/ Lookup(t) \/ Enter(t) \/ Find(t) \/ Count(t)
  PROVE  MemoryInv'
<1>1. loc[t] \in Operation /\ \A i \in loc[t].batch : Doomed(i)
  BY Local DEF MemoryInv, DoomedOK
<1> DEFINE Moved(p) == [loc[t] EXCEPT !.pc = p]
<1>2. \A p \in Pcs : /\ Moved(p) \in Operation /\ Moved(p).pc = p /\ Moved(p).op = loc[t].op
                      /\ Moved(p).batch = loc[t].batch /\ Moved(p).key = loc[t].key
  BY <1>1 DEF Operation
<1>3. CASE \E k \in Keys \cup {None} : StartCreate(t, k)
  <2>1. PICK k \in Keys \cup {None} : StartCreate(t, k)
    BY <1>3
  <2> DEFINE r == [Idle EXCEPT !.op = "create", !.key = k,
                               !.pc = IF k = None THEN "enter" ELSE "lookup"]
  <2>2. r \in Operation /\ r.pc \in {"enter", "lookup"} /\ r.batch = {}
    BY IdleOK DEF Operation, Pcs, Idle
  <2> HIDE DEF r
  <2>3. Becomes(t, r) /\ UNCHANGED <<state, expired, finalized, keyOf, lock>>
    BY <2>1 DEF StartCreate, r
  <2> QED
    BY <2>2, <2>3, Moving
<1>4. CASE Lookup(t)
  <2>1. CASE End(t)
    BY <1>4, <2>1, Ending DEF Lookup
  <2>2. CASE Becomes(t, Moved("enter"))
    BY <1>1, <1>2, <1>4, <2>2, Moving DEF Lookup, Pcs
  <2> QED
    BY <1>4, <2>1, <2>2 DEF Lookup, GoTo
<1>5. CASE Enter(t)
  <2>1. Becomes(t, Moved("list")) /\ lock = None /\ lock' = t
    BY <1>5 DEF Enter, GoTo, Free
  <2> QED
    BY <1>1, <1>2, <1>5, <2>1, Moving DEF Enter, Pcs
<1>6. CASE Find(t)
  <2>1. lock = t
    BY <1>6 DEF MemoryInv, LockOK, Inside, Find, At
  <2>2. CASE Replay(loc[t].key)
    BY <1>6, <2>2, Ending DEF Find
  <2>3. CASE ~Replay(loc[t].key)
    <3>1. KeyFree(loc[t].key)
      BY <2>3 DEF Replay, KeyFree, Live, Open, OpenStates, Present
    <3>2. Becomes(t, Moved("count")) /\ UNCHANGED <<state, expired, finalized, keyOf, lock>>
      BY <1>6, <2>3 DEF Find, GoTo
    <3> QED
      BY <1>1, <1>2, <2>1, <3>1, <3>2, Moving DEF Pcs
  <2> QED
    BY <2>2, <2>3
<1>7. CASE Count(t)
  <2>1. lock = t /\ KeyFree(loc[t].key)
    BY <1>7 DEF MemoryInv, LockOK, LookedOK, Inside, Count, At
  <2>2. CASE Cardinality(Live) >= Quota
    BY <1>7, <2>2, Ending DEF Count
  <2>3. CASE ~(Cardinality(Live) >= Quota)
    <3>1. Room
      BY <2>3, FiniteParts DEF Room, Live, Open
    <3>2. Becomes(t, Moved("insert")) /\ UNCHANGED <<state, expired, finalized, keyOf, lock>>
      BY <1>7, <2>3 DEF Count, GoTo
    <3> QED
      BY <1>1, <1>2, <2>1, <3>1, <3>2, Moving DEF Pcs
  <2> QED
    BY <2>2, <2>3
<1> QED
  BY <1>3, <1>4, <1>5, <1>6, <1>7

LEMMA InsertStep ==
  ASSUME MemoryInv, NEW t \in Threads, Insert(t)
  PROVE  MemoryInv'
<1>1. PICK i \in Inv :
        /\ state[i] = "free"
        /\ state' = [state EXCEPT ![i] = "reserved"]
        /\ keyOf' = [keyOf EXCEPT ![i] = loc[t].key]
        /\ Becomes(t, [Idle EXCEPT !.op = "create", !.pc = "platform", !.id = i])
  BY DEF Insert
<1> DEFINE r == [Idle EXCEPT !.op = "create", !.pc = "platform", !.id = i]
<1>2. r \in Operation /\ r.pc = "platform" /\ r.id = i /\ r.batch = {}
  BY IdleOK DEF Operation, Pcs, Idle
<1> HIDE DEF r
<1>3. loc[t] \in Operation /\ At(t, "insert") /\ lock = t /\ lock' = None
  BY Local DEF MemoryInv, LockOK, Inside, Insert, Unlock, At
<1>4. UNCHANGED <<expired, finalized>> /\ i \notin expired
  BY <1>1 DEF MemoryInv, FreeOK, Insert
<1>5. \A u \in Threads : loc'[u] = IF u = t THEN r ELSE loc[u]
  BY <1>1 DEF MemoryInv, TypeOK, Becomes, r
<1>6. TypeOK'
  BY <1>1, <1>2, <1>3, <1>4 DEF MemoryInv, TypeOK, Becomes, r, Operation
<1>7. \A j \in Inv : /\ state'[j] = (IF j = i THEN "reserved" ELSE state[j])
                     /\ keyOf'[j] = IF j = i THEN loc[t].key ELSE keyOf[j]
  <2>1. state \in [Inv -> {"free", "reserved", "active", "closed", "gone"}]
        /\ keyOf \in [Inv -> Keys \cup {None}]
    BY DEF MemoryInv, TypeOK
  <2>2. state' = [state EXCEPT ![i] = "reserved"] /\ keyOf' = [keyOf EXCEPT ![i] = loc[t].key]
    BY <1>1
  <2> QED
    BY <2>1, <2>2
<1>8. Live' = Live \cup {i} /\ i \notin Live
  BY <1>1, <1>4, <1>7 DEF Live, Open, OpenStates
<1>9. Cardinality(Live') = Cardinality(Live) + 1
  BY <1>8, FiniteParts, FS_AddElement DEF Live, Open
<1>10. LockOK'
  BY <1>2, <1>3, <1>5 DEF MemoryInv, LockOK, Inside
<1>11. FreeOK'
  <2>1. expired \subseteq Inv /\ \A j \in expired : state[j] # "free"
    BY DEF MemoryInv, TypeOK, FreeOK
  <2>2. \A j \in expired : state'[j] # "free"
    BY <1>7, <2>1
  <2> QED
    BY <1>4, <2>2 DEF FreeOK
<1>12. DoomedOK'
  <2>1. \A j \in Inv : Doomed(j) => Doomed(j)'
    BY <1>1, <1>7, <1>8 DEF Doomed
  <2>2. \A u \in Threads : loc[u].batch \subseteq Inv
    BY DEF MemoryInv, TypeOK, Operation
  <2> QED
    BY <1>2, <1>5, <2>1, <2>2 DEF MemoryInv, DoomedOK, At
<1>13. PlatformOK'
  <2>1. \A u \in Threads \ {t} : At(u, "platform")' => At(u, "platform") /\ loc'[u] = loc[u]
    BY <1>5 DEF At
  <2>2. \A u \in Threads : At(u, "platform") =>
          loc[u].id \in Inv \ {i} /\ state[loc[u].id] = "reserved" /\ loc[u].id \notin expired
    BY <1>1 DEF MemoryInv, PlatformOK
  <2>3. loc'[t].id = i
    BY <1>2, <1>5
  <2>4. \A u \in Threads : At(u, "platform")' =>
          loc'[u].id \in Inv /\ state'[loc'[u].id] = "reserved" /\ loc'[u].id \notin expired'
    BY <1>4, <1>7, <2>1, <2>2, <2>3
  <2>5. \A u, v \in Threads :
          At(u, "platform")' /\ At(v, "platform")' /\ loc'[u].id = loc'[v].id => u = v
    <3> SUFFICES ASSUME NEW u \in Threads, NEW v \in Threads, u # v,
                        At(u, "platform")', At(v, "platform")', loc'[u].id = loc'[v].id
                 PROVE  FALSE
      OBVIOUS
    <3>1. CASE u # t /\ v # t
      BY <2>1, <3>1 DEF MemoryInv, PlatformOK
    <3>2. CASE u = t \/ v = t
      BY <2>1, <2>2, <2>3, <3>2
    <3> QED
      BY <3>1, <3>2
  <2> QED
    BY <2>4, <2>5 DEF PlatformOK, At
<1>14. LookedOK'
  <2>1. \A u \in Threads : loc'[u].pc \notin {"count", "insert"}
    BY <1>2, <1>3, <1>5 DEF MemoryInv, LockOK, Inside
  <2> QED
    BY <2>1 DEF LookedOK, At
<1>15. QuotaHonoured'
  BY <1>3, <1>9, FiniteParts DEF MemoryInv, LookedOK, Room, QuotaHonoured, Live, Open
<1>16. OneLivePerKey'
  <2>1. KeyFree(loc[t].key)
    BY <1>3 DEF MemoryInv, LookedOK, At
  <2>2. \A j \in Live : j \in Inv /\ keyOf'[j] = keyOf[j]
    BY <1>7, <1>8 DEF Live, Open
  <2>3. keyOf'[i] = loc[t].key
    BY <1>7
  <2>4. \A j \in Live : keyOf'[j] = keyOf'[i] => keyOf'[j] = None
    BY <2>1, <2>2, <2>3 DEF KeyFree
  <2>5. \A j, k \in Live : j # k /\ keyOf'[j] = keyOf'[k] => keyOf'[j] = None
    BY <2>2 DEF MemoryInv, OneLivePerKey
  <2>6. \A j, k \in Live \cup {i} : j # k /\ keyOf'[j] = keyOf'[k] => keyOf'[j] = None
    BY <2>4, <2>5
  <2> QED
    BY <1>8, <2>6 DEF OneLivePerKey
<1> QED
  BY <1>6, <1>10, <1>11, <1>12, <1>13, <1>14, <1>15, <1>16 DEF MemoryInv

LEMMA SettleSteps ==
  ASSUME MemoryInv, NEW t \in Threads, Finalize(t) \/ Release(t) \/ Uncertain(t)
  PROVE  MemoryInv'
<1>1. At(t, "platform") /\ End(t) /\ UNCHANGED <<expired, finalized, keyOf, lock>>
  BY DEF Finalize, Release, Uncertain
<1>2. /\ loc[t].id \in Inv /\ state[loc[t].id] = "reserved"
      /\ \A u \in Threads \ {t} : ~(At(u, "platform") /\ loc[u].id = loc[t].id)
  BY <1>1 DEF MemoryInv, PlatformOK
<1>3. CASE Finalize(t)
  <2>1. state' = [state EXCEPT ![loc[t].id] = "active"]
    BY <1>2, <1>3 DEF Finalize, Present
  <2>2. \A u \in Threads : loc'[u] = IF u = t THEN Idle ELSE loc[u]
    BY <1>1 DEF MemoryInv, TypeOK, End, Becomes
  <2>3. \A j \in Inv : state'[j] = IF j = loc[t].id THEN "active" ELSE state[j]
    BY <2>1 DEF MemoryInv, TypeOK
  <2>4. TypeOK'
    BY <1>1, <2>1, IdleOK DEF MemoryInv, TypeOK, End, Becomes
  <2>5. Live' = Live
    BY <1>1, <1>2, <2>3 DEF Live, Open, OpenStates
  <2>6. LockOK' /\ LookedOK'
    BY <1>1, <2>2, <2>5, IdleOK
    DEF MemoryInv, LockOK, Inside, LookedOK, KeyFree, Room, At
  <2>7. FreeOK'
    BY <1>1, <2>3 DEF MemoryInv, TypeOK, FreeOK
  <2>8. DoomedOK'
    <3>1. \A j \in Inv : Doomed(j) => Doomed(j)'
      BY <2>3, <2>5 DEF Doomed
    <3>2. \A u \in Threads : loc[u].batch \subseteq Inv
      BY DEF MemoryInv, TypeOK, Operation
    <3> QED
      BY <2>2, <3>1, <3>2, IdleOK DEF MemoryInv, DoomedOK, At
  <2>9. PlatformOK'
    BY <1>1, <1>2, <2>2, <2>3, IdleOK DEF MemoryInv, PlatformOK, At
  <2>10. QuotaHonoured' /\ OneLivePerKey'
    BY <1>1, <2>5 DEF MemoryInv, QuotaHonoured, OneLivePerKey
  <2> QED
    BY <2>4, <2>6, <2>7, <2>8, <2>9, <2>10 DEF MemoryInv
<1>4. CASE Release(t)
  <2>1. state' = [state EXCEPT ![loc[t].id] = "gone"]
    BY <1>2, <1>4 DEF Release, Delete
  <2> QED
    BY <1>1, <1>2, <2>1, IdleOK, ThreadOnly DEF End, Becomes
<1>5. CASE Uncertain(t)
  BY <1>1, <1>5, Ending DEF Uncertain
<1> QED
  BY <1>3, <1>4, <1>5

(* The batch of t becomes B, with or without the deletion of one record. *)
LEMMA DeletingOK ==
  ASSUME MemoryInv, NEW t \in Threads, At(t, "list") \/ At(t, "del"),
         NEW B \in SUBSET Inv, Cardinality(B) <= Limit, \A i \in B : Doomed(i),
         Deleting(t, B), UNCHANGED <<expired, finalized, keyOf, lock>>,
         \/ state' = state
         \/ \E i \in Inv : /\ state[i] # "free" /\ state' = [state EXCEPT ![i] = "gone"]
                           /\ \A u \in Threads \ {t} : ~(At(u, "platform") /\ loc[u].id = i)
  PROVE  MemoryInv'
<1>1. loc[t] \in Operation /\ (loc[t].op # "sweep" => lock = t)
  BY Local DEF MemoryInv, LockOK, Inside, At
<1>2. CASE B # {}
  <2> DEFINE r == [loc[t] EXCEPT !.pc = "del", !.batch = B]
  <2>1. r \in Operation /\ r.pc = "del" /\ r.batch = B /\ r.op = loc[t].op
    BY <1>1 DEF Operation, Pcs
  <2>2. loc' = [loc EXCEPT ![t] = r]
    BY <1>2 DEF Deleting, Becomes
  <2> HIDE DEF r
  <2> QED
    BY <1>1, <2>1, <2>2, ThreadOnly
<1>3. CASE B = {} /\ loc[t].op = "sweep"
  BY <1>3, IdleOK, ThreadOnly DEF Deleting, End, Becomes
<1>4. CASE B = {} /\ loc[t].op # "sweep"
  <2> DEFINE r == [loc[t] EXCEPT !.pc = "find", !.batch = {}]
  <2>1. r \in Operation /\ r.pc = "find" /\ r.batch = {}
    BY <1>1, IdleOK, FS_EmptySet DEF Operation, Pcs
  <2>2. loc' = [loc EXCEPT ![t] = r]
    BY <1>4 DEF Deleting, Becomes
  <2> HIDE DEF r
  <2> QED
    BY <1>1, <1>4, <2>1, <2>2, ThreadOnly
<1> QED
  BY <1>2, <1>3, <1>4

LEMMA LapsedDoomed == MemoryInv => Lapsed \subseteq Inv /\ \A i \in Lapsed : Doomed(i)
BY DEF Lapsed, Present, Doomed, Live

LEMMA NotReserved ==
  ASSUME MemoryInv, NEW i \in Inv, Doomed(i)
  PROVE  \A u \in Threads : ~(At(u, "platform") /\ loc[u].id = i)
BY DEF MemoryInv, PlatformOK, Doomed, Live, Open, OpenStates

LEMMA CleanupSteps ==
  ASSUME MemoryInv, NEW t \in Threads,
         \/ StartSweep(t) \/ List(t) \/ Remove(t) \/ RemoveRaises(t) \/ ScanRaises(t)
         \/ Drop(t) \/ \E i \in Inv : StartRead(t, i)
  PROVE  MemoryInv'
<1>1. CASE StartSweep(t)
  <2> DEFINE r == [Idle EXCEPT !.op = "sweep", !.pc = "list"]
  <2>1. r \in Operation /\ r.pc = "list" /\ r.op = "sweep" /\ r.batch = {}
    BY IdleOK DEF Operation, Pcs, Idle
  <2> HIDE DEF r
  <2>2. Becomes(t, r) /\ UNCHANGED <<state, expired, finalized, keyOf, lock>>
    BY <1>1 DEF StartSweep, r
  <2> QED
    BY <2>1, <2>2, Moving
<1>2. CASE List(t)
  BY <1>2, DeletingOK, LapsedDoomed DEF List
<1>3. CASE Remove(t)
  <2>1. PICK i \in loc[t].batch \cap Present : Delete(i) /\ Deleting(t, loc[t].batch \ {i})
    BY <1>3 DEF Remove
  <2>2. /\ loc[t].batch \in SUBSET Inv /\ Cardinality(loc[t].batch) <= Limit
        /\ \A j \in loc[t].batch : Doomed(j)
    BY Local DEF MemoryInv, DoomedOK, Operation
  <2> DEFINE B == loc[t].batch \ {i}
  <2>3. B \in SUBSET Inv /\ \A j \in B : Doomed(j)
    BY <2>2
  <2>4. Cardinality(B) <= Limit
    <3>1. Cardinality(B) <= Cardinality(loc[t].batch)
          /\ Cardinality(B) \in Nat /\ Cardinality(loc[t].batch) \in Nat
      BY <2>2, FiniteParts
    <3> QED
      BY <2>2, <3>1
  <2>5. i \in Inv /\ state[i] # "free" /\ state' = [state EXCEPT ![i] = "gone"]
    BY <2>1, <2>2 DEF Delete, Doomed
  <2>6. \A u \in Threads \ {t} : ~(At(u, "platform") /\ loc[u].id = i)
    BY <2>2, <2>5, NotReserved
  <2>7. Deleting(t, B)
    BY <2>1
  <2> HIDE DEF B
  <2> QED
    BY <1>3, <2>3, <2>4, <2>5, <2>6, <2>7, DeletingOK DEF Remove
<1>4. CASE RemoveRaises(t) \/ ScanRaises(t)
  BY <1>4, Ending DEF RemoveRaises, ScanRaises
<1>5. CASE Drop(t)
  <2>1. loc[t].id \in Inv /\ Doomed(loc[t].id)
    BY <1>5 DEF MemoryInv, DoomedOK, Drop
  <2>2. \A u \in Threads \ {t} : ~(At(u, "platform") /\ loc[u].id = loc[t].id)
    BY <2>1, NotReserved
  <2>3. state' = state \/ state' = [state EXCEPT ![loc[t].id] = "gone"]
    BY <1>5 DEF Drop, Delete
  <2>4. loc' = [loc EXCEPT ![t] = Idle] /\ UNCHANGED <<expired, finalized, keyOf, lock>>
    BY <1>5 DEF Drop, End, Becomes
  <2> QED
    BY <2>1, <2>2, <2>3, <2>4, IdleOK, ThreadOnly DEF Doomed
<1>6. CASE \E i \in Inv : StartRead(t, i)
  <2>1. PICK i \in Inv : StartRead(t, i)
    BY <1>6
  <2> DEFINE r == [Idle EXCEPT !.op = "read", !.pc = "drop", !.id = i]
  <2>2. r \in Operation /\ r.pc = "drop" /\ r.id = i /\ r.batch = {}
    BY IdleOK DEF Operation, Pcs, Idle
  <2> HIDE DEF r
  <2>3. Becomes(t, r) /\ UNCHANGED <<state, expired, finalized, keyOf, lock>> /\ Doomed(i)
    BY <2>1, LapsedDoomed DEF StartRead, r
  <2> QED
    BY <2>2, <2>3, Moving
<1> QED
  BY <1>1, <1>2, <1>3, <1>4, <1>5, <1>6

LEMMA RecordSteps ==
  ASSUME MemoryInv, NEW i \in Inv,
         Complete(i) \/ RecordFindings(i) \/ ReleaseStale(i) \/ Expire(i)
  PROVE  MemoryInv'
<1>1. /\ state' \in [Inv -> {"free", "reserved", "active", "closed", "gone"}]
      /\ expired' \subseteq Inv /\ finalized' \subseteq Inv
      /\ UNCHANGED <<keyOf, lock, loc>>
  BY DEF MemoryInv, TypeOK, Complete, RecordFindings, ReleaseStale, Expire
<1>2. TypeOK'
  BY <1>1 DEF MemoryInv, TypeOK
<1>3. \A j \in Inv : state'[j] \in {state[j], "closed"} /\ (j # i => state'[j] = state[j])
  BY DEF MemoryInv, TypeOK, Complete, RecordFindings, ReleaseStale, Expire
<1>4. Live' \subseteq Live
  BY <1>1, <1>3 DEF MemoryInv, TypeOK, Live, Open, OpenStates, Complete, RecordFindings,
                    ReleaseStale, Expire
<1>5. \A j \in Inv : state[j] # "free" => state'[j] # "free"
  BY <1>3
<1>6. state[i] # "free" /\ expired' \subseteq expired \cup {i}
  BY DEF Complete, RecordFindings, ReleaseStale, Expire, Present
<1>7. \A j \in expired' : state'[j] # "free"
  BY <1>1, <1>5, <1>6 DEF MemoryInv, FreeOK
<1>8. \A t \in Threads : At(t, "platform") => loc[t].id # i \/ (state' = state /\ expired' \subseteq expired)
  BY DEF MemoryInv, PlatformOK, Complete, RecordFindings, ReleaseStale, Expire, Settled
<1>9. \A t \in Threads : At(t, "platform") =>
        state'[loc[t].id] = "reserved" /\ loc[t].id \notin expired'
  BY <1>3, <1>6, <1>8 DEF MemoryInv, PlatformOK
<1> QED
  BY <1>1, <1>2, <1>4, <1>5, <1>7, <1>9, RecordsOnly

LEMMA Inductive == MemoryInv /\ [Next]_vars => MemoryInv'
<1> SUFFICES ASSUME MemoryInv, [Next]_vars PROVE MemoryInv'
  OBVIOUS
<1>1. CASE \E t \in Threads : \/ Step(t) \/ StartSweep(t)
                             \/ \E k \in Keys \cup {None} : StartCreate(t, k)
                             \/ \E i \in Inv : StartRead(t, i)
  BY <1>1, CreateSteps, InsertStep, SettleSteps, CleanupSteps
  DEF Step, CreateStep, SettleStep, CleanupStep
<1>2. CASE \E i \in Inv : Complete(i) \/ RecordFindings(i) \/ ReleaseStale(i) \/ Expire(i)
  BY <1>2, RecordSteps
<1>3. CASE UNCHANGED vars
  BY <1>3 DEF vars, MemoryInv, TypeOK, LockOK, Inside, FreeOK, DoomedOK, Doomed, PlatformOK,
              LookedOK, KeyFree, Room, QuotaHonoured, OneLivePerKey, At, Live, Open
<1> QED
  BY <1>1, <1>2, <1>3 DEF Next

(* MemoryInv holds in every state of InvestigationRegistry. *)
THEOREM MemoryInvariant == Spec => []MemoryInv
<1>1. Init => MemoryInv
  BY Initially
<1>2. MemoryInv /\ [Next]_vars => MemoryInv'
  BY Inductive
<1> QED
  BY <1>1, <1>2, PTL DEF Spec

(* The variables keep their types, and no batch of the cleanup is larger     *)
(* than MAX_EXPIRY_CLEANUP_BATCH_SIZE.                                       *)
THEOREM TypeCorrect == Spec => []TypeOK
<1>1. MemoryInv => TypeOK
  BY DEF MemoryInv
<1> QED
  BY <1>1, MemoryInvariant, PTL

(* However many threads ask, a caller never has more unexpired open          *)
(* investigations than its quota (reserve_investigation).                    *)
THEOREM QuotaTheorem == Spec => []QuotaHonoured
<1>1. MemoryInv => QuotaHonoured
  BY DEF MemoryInv
<1> QED
  BY <1>1, MemoryInvariant, PTL

(* No idempotency key ever has two unexpired open investigations             *)
(* (find_by_idempotency_key, before the lock and under it).                  *)
THEOREM OneLiveTheorem == Spec => []OneLivePerKey
<1>1. MemoryInv => OneLivePerKey
  BY DEF MemoryInv
<1> QED
  BY <1>1, MemoryInvariant, PTL

(* Neither the cleanup nor get_investigation ever deletes an open            *)
(* investigation that has not expired, however late they act.                *)
THEOREM OpenKeptTheorem == Spec => OpenIsKept
<1> DEFINE Kept == \A i \in Live : state'[i] = "gone" =>
             state[i] = "reserved" /\ \E t \in Threads : At(t, "platform") /\ loc[t].id = i
<1>1. MemoryInv /\ [Next]_vars => [Kept]_vars
  <2> SUFFICES ASSUME MemoryInv, Next, NEW i \in Live, state'[i] = "gone"
               PROVE  state[i] = "reserved" /\ \E t \in Threads : At(t, "platform") /\ loc[t].id = i
    OBVIOUS
  <2>1. i \in Inv /\ state[i] \in OpenStates
    BY DEF Live, Open
  <2>2. CASE \E t \in Threads : Release(t)
    <3>1. PICK t \in Threads : Release(t)
      BY <2>2
    <3>2. At(t, "platform")
      BY <3>1 DEF Release
    <3>3. state' \in {state, [state EXCEPT ![loc[t].id] = "gone"]} /\ state[i] # "gone"
      BY <2>1, <3>1 DEF Release, Delete, OpenStates
    <3>4. i = loc[t].id
      BY <2>1, <3>3 DEF MemoryInv, TypeOK
    <3>5. state[i] = "reserved"
      BY <3>2, <3>4 DEF MemoryInv, PlatformOK
    <3> QED
      BY <3>2, <3>4, <3>5
  <2>3. CASE \E t \in Threads : Remove(t) \/ Drop(t)
    <3>1. PICK t \in Threads : Remove(t) \/ Drop(t)
      BY <2>3
    <3>2. PICK j \in Inv : Doomed(j) /\ state' \in {state, [state EXCEPT ![j] = "gone"]}
      <4>1. loc[t].batch \subseteq Inv
        BY Local DEF Operation
      <4> QED
        BY <3>1, <4>1 DEF MemoryInv, DoomedOK, Remove, Drop, Delete
    <3>3. i # j
      BY <3>2 DEF Doomed
    <3>4. state'[i] = state[i]
      BY <2>1, <3>2, <3>3 DEF MemoryInv, TypeOK
    <3> QED
      BY <2>1, <3>4 DEF OpenStates
  <2>4. CASE ~(\E t \in Threads : Release(t) \/ Remove(t) \/ Drop(t))
    <3>1. state'[i] # "gone"
      <4>1. CASE \E t \in Threads : Insert(t) \/ Finalize(t)
        BY <2>1, <4>1 DEF MemoryInv, TypeOK, Insert, Finalize, OpenStates
      <4>2. CASE \E j \in Inv : Complete(j) \/ ReleaseStale(j)
        BY <2>1, <4>2 DEF MemoryInv, TypeOK, Complete, ReleaseStale, OpenStates
      <4>3. CASE state' = state
        BY <2>1, <4>3 DEF OpenStates
      <4> QED
        BY <2>4, <4>1, <4>2, <4>3
        DEF Next, Step, CreateStep, SettleStep, CleanupStep, StartCreate, Lookup, Enter, Find,
            Count, Uncertain, StartSweep, List, RemoveRaises, ScanRaises, StartRead,
            RecordFindings, Expire
    <3> QED
      BY <3>1
  <2> QED
    BY <2>2, <2>3, <2>4
<1> QED
  BY <1>1, MemoryInvariant, PTL DEF Spec, OpenIsKept

=============================================================================
