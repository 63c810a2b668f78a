-------------------------- MODULE TableRegistryProofs --------------------------
(***************************************************************************)
(* The safety theorems of TableRegistry, for every number of workers,      *)
(* investigations and keys, every quota and every number of attempts.      *)
(***************************************************************************)
EXTENDS TableRegistryRows

(* Sets of investigations and of workers are finite.                         *)
LEMMA SizesOf ==
  ASSUME NEW S \in SUBSET Inv, NEW W \in SUBSET Workers
  PROVE  /\ IsFiniteSet(S) /\ Cardinality(S) \in Nat
         /\ IsFiniteSet(W) /\ Cardinality(W) \in Nat
<1>1. IsFiniteSet(S) /\ IsFiniteSet(W)
  BY FiniteAssumption, FS_Subset
<1> QED
  BY <1>1, FS_CardinalityType

(* Open rows and owed decrements are finitely many.                          *)
LEMMA Sizes ==
  ASSUME TypeOK
  PROVE  /\ IsFiniteSet(Open) /\ Cardinality(Open) \in Nat
         /\ IsFiniteSet(owing) /\ Cardinality(owing) \in Nat
  BY SizesOf DEF TypeOK, Open

(* The same after the step.                                                  *)
LEMMA NextSizes ==
  ASSUME TypeOK'
  PROVE  Cardinality(Open') \in Nat /\ Cardinality(owing') \in Nat
<1>1. Open' \in SUBSET Inv /\ owing' \in SUBSET Workers
  BY DEF TypeOK, Open
<1> QED
  BY <1>1, SizesOf

(* A worker owes one decrement at most.                                      *)
LEMMA OneMore ==
  ASSUME TypeOK, NEW w \in Workers
  PROVE  Cardinality(owing \cup {w}) <= Cardinality(owing) + 1
<1>1. IsFiniteSet(owing) /\ Cardinality(owing) \in Nat
  BY Sizes
<1>2. Cardinality(owing \cup {w}) = IF w \in owing THEN Cardinality(owing) ELSE Cardinality(owing) + 1
  BY <1>1, FS_AddElement
<1> QED
  BY <1>1, <1>2

(* A row that is no longer open gives its slot back.                         *)
LEMMA OpenLess ==
  ASSUME TypeOK, NEW i \in Inv, NEW new \in {"closed", "gone"}, state' = [state EXCEPT ![i] = new]
  PROVE  /\ Cardinality(Open') = IF i \in Open THEN Cardinality(Open) - 1 ELSE Cardinality(Open)
         /\ Cardinality(Open') \in Nat
<1>1. Open' = Open \ {i}
  BY DEF TypeOK, Open, OpenStates
<1>2. IsFiniteSet(Open) /\ IsFiniteSet(Open \ {i})
  BY Sizes, FS_Subset
<1> QED
  BY <1>1, <1>2, FS_RemoveElement, FS_CardinalityType

(* A decrement that a held slot stands behind.                               *)
LEMMA LessOne ==
  ASSUME NEW n \in Nat, NEW m \in Nat, n >= m + 1
  PROVE  Less1(n) \in Nat /\ Less1(n) >= m
  BY DEF Less1

-----------------------------------------------------------------------------
(* The steps that write a record or the counter, or that the history notes.  *)

Acts(w) ==
  \/ ExpireRecord(w) \/ SweepRecord(w) \/ DecrementWrite(w) \/ DecrementConflict(w)
  \/ Recount(w) \/ RecountWrite(w) \/ Reserve(w) \/ PostUncertain(w) \/ PostSucceeds(w)
  \/ Finalize(w) \/ ReleaseDelete(w) \/ Complete(w) \/ ReleaseStale(w) \/ Abandon(w)

Rest == UNCHANGED <<counter, state, age, retained, owing, notes, faults>>

(* All other steps leave them alone. *)
LEMMA ActsStep ==
  ASSUME [Next]_vars
  PROVE  Rest \/ (\E w \in Workers : Acts(w)) \/ (\E i \in Inv : Age(i))
<1>1. ASSUME NEW w \in Workers, FindStep(w) PROVE Rest \/ Acts(w)
  BY <1>1 DEF FindStep, ReadIndex, GetRecord, Unindex, FallbackQuery, Rest, Acts, table, aux
<1>2. ASSUME NEW w \in Workers, SweepStep(w) PROVE Rest \/ Acts(w)
  BY <1>2 DEF SweepStep, SweepQuery, SweepSkip, SweepIndexRow, SweepGone, SweepIndexOf, SweepDone,
      Rest, Acts, table, aux
<1>3. ASSUME NEW w \in Workers, DecStep(w) \/ ReserveStep(w) PROVE Rest \/ Acts(w)
  BY <1>3 DEF DecStep, DecrementRead, ReserveStep, ReadCounter, DenyQuota, ReserveConflict,
      ReserveDuplicate, Rest, Acts, table, aux
<1>4. ASSUME NEW w \in Workers, PlatformStep(w) \/ SettleStep(w) PROVE Rest \/ Acts(w)
  BY <1>4 DEF PlatformStep, TokenFails, SettleStep, FinalizeRead, FinalizeConflict, ReleaseRead,
      ReleaseConflict, Rest, Acts, table, aux
<1>5. ASSUME NEW w \in Workers, CompleteStep(w) \/ StaleStep(w) PROVE Rest \/ Acts(w)
  BY <1>5 DEF CompleteStep, CompleteRead, CompleteCounter, CompleteConflict, StaleStep, StaleNext,
      StaleConflict, Rest, Acts, table, aux
<1>6. ASSUME NEW w \in Workers, StartSweep(w) \/ StartReleaseStale(w) \/ Abandon(w)
      PROVE  Rest \/ Acts(w)
  BY <1>6 DEF StartSweep, StartReleaseStale, Rest, Acts, table, aux
<1>7. ASSUME NEW w \in Workers, NEW i \in Inv,
             \/ StartRead(w, i) \/ StartComplete(w, i)
             \/ \E k \in Keys \cup {None} : StartCreate(w, k, i)
      PROVE  Rest
  BY <1>7 DEF StartRead, StartComplete, StartCreate, Rest, table, aux
<1>8. ASSUME NEW i \in Inv, Touch(i) PROVE Rest
  BY <1>8 DEF Touch, Rest, table
<1>9. ASSUME UNCHANGED vars PROVE Rest
  BY <1>9 DEF vars, Rest, notes
<1> QED
  BY <1>1, <1>2, <1>3, <1>4, <1>5, <1>6, <1>7, <1>8, <1>9 DEF Next, Step

(* The ways to begin a decrement.                                            *)
Deletes(v) == SweepRecord(v) \/ SweepGone(v) \/ ReleaseDelete(v) \/ ReleaseConflict(v)

(* A recount to be written was counted by Recount, and a worker decrements   *)
(* because it deleted a record.                                              *)
Carries == \A v \in Workers :
  /\ loc'[v].pc = "recountWrite"
       => Recount(v) \/ (loc[v].pc = "recountWrite" /\ loc'[v].tally = loc[v].tally)
  /\ Decrements(v)' => Decrements(v) \/ Deletes(v)

NewPcs == {"recountWrite", "sweepIndex", "decRead", "decWrite"}

(* A step to another place carries nothing.                                  *)
LEMMA CarriesLeave ==
  ASSUME NEW w \in Workers, \A v \in Workers \ {w} : loc'[v] = loc[v], loc'[w].pc \notin NewPcs
  PROVE  Carries
  BY DEF Carries, Decrements, NewPcs

LEMMA CarriesBecome ==
  ASSUME LocOK, NEW w \in Workers, NEW l, Becomes(w, l), l.pc \notin NewPcs
  PROVE  Carries
  BY CarriesLeave DEF LocOK, Becomes

LEMMA CarriesEnd == ASSUME LocOK, NEW w \in Workers, End(w) PROVE Carries
  BY CarriesBecome DEF End, Idle, NewPcs

(* Another attempt to decrement is one of the same worker.                   *)
LEMMA CarriesAgain ==
  ASSUME LocOK, NEW w \in Workers, NEW p, TryAgain(w, p) \/ End(w),
         p \in NewPcs => p = "decRead" /\ Decrements(w)
  PROVE  Carries
<1>1. CASE End(w)
  BY <1>1, CarriesEnd
<1>2. CASE ~End(w)
  BY <1>2, Again DEF Carries, Decrements, NewPcs
<1> QED
  BY <1>1, <1>2

(* Every step carries recounts and decrements on.                            *)
LEMMA CarriesStep ==
  ASSUME LocOK, [Next]_vars
  PROVE  Carries
<1>1. ASSUME NEW w \in Workers, ReadIndex(w) PROVE Carries
  <2> DEFINE l == [loc[w] EXCEPT !.pc = "get", !.tgt = index[loc[w].req]]
             m == [loc[w] EXCEPT !.pc = "fallback"]
  <2>1. Becomes(w, l) \/ Becomes(w, m) \/ End(w)
    BY <1>1 DEF ReadIndex, NotFound, GoTo
  <2>2. l.pc \notin NewPcs /\ m.pc \notin NewPcs
    BY FieldTypes DEF Operation, NewPcs
  <2> QED
    BY <2>1, <2>2, CarriesBecome, CarriesEnd
<1>2. ASSUME NEW w \in Workers, GetRecord(w) PROVE Carries
  BY <1>2, CarriesLeave DEF LocOK, Operation, GetRecord, GoTo, End, Becomes, Idle, NewPcs
<1>3. ASSUME NEW w \in Workers, ExpireRecord(w) PROVE Carries
  BY <1>3, CarriesLeave DEF LocOK, Operation, ExpireRecord, ExpireEnds, NotFound, GoTo,
      End, Becomes, Idle, NewPcs
<1>4. ASSUME NEW w \in Workers, Unindex(w) PROVE Carries
  BY <1>4, CarriesLeave DEF LocOK, Operation, Unindex, NotFound, GoTo, End, Becomes, Idle,
      NewPcs
<1>5. ASSUME NEW w \in Workers, FallbackQuery(w) PROVE Carries
  BY <1>5, CarriesLeave DEF LocOK, Operation, FallbackQuery, GoTo, End, Becomes, Idle,
      NewPcs
<1>6. ASSUME NEW w \in Workers, SweepQuery(w) PROVE Carries
  BY <1>6, CarriesLeave DEF LocOK, Operation, SweepQuery, Becomes, Idle, NewPcs
<1>7. ASSUME NEW w \in Workers, SweepSkip(w) PROVE Carries
  BY <1>7, CarriesLeave DEF LocOK, Operation, SweepSkip, At, Becomes, Idle, NewPcs
<1>8. ASSUME NEW w \in Workers, SweepIndexRow(w) PROVE Carries
  BY <1>8, CarriesLeave DEF LocOK, Operation, SweepIndexRow, At, Becomes, Idle, NewPcs
<1>9. ASSUME NEW w \in Workers, SweepRecord(w) PROVE Carries
  <2>1. PICK i \in Inv : SweepDeleted(w, i) \/ Becomes(w, [loc[w] EXCEPT !.batch = @ \ {i}])
    BY <1>9 DEF SweepRecord
  <2>2. \A v \in Workers \ {w} : loc'[v] = loc[v]
    BY <2>1, Deleted DEF LocOK, Becomes
  <2>3. loc'[w].pc # "recountWrite"
    BY <1>9, <2>1, Deleted DEF LocOK, Operation, SweepRecord, At, Becomes
  <2> QED
    BY <1>9, <2>2, <2>3 DEF Carries, Decrements, Deletes
<1>9a. ASSUME NEW w \in Workers, SweepGone(w) PROVE Carries
  <2>1. loc'[w].pc # "recountWrite" /\ \A v \in Workers \ {w} : loc'[v] = loc[v]
    BY <1>9a, Deleted DEF SweepGone
  <2> QED
    BY <1>9a, <2>1 DEF Carries, Decrements, Deletes
<1>10. ASSUME NEW w \in Workers, SweepIndexOf(w) PROVE Carries
  BY <1>10 DEF LocOK, Operation, Carries, Decrements, SweepIndexOf, GoTo, At, Becomes
<1>11. ASSUME NEW w \in Workers, SweepDone(w) PROVE Carries
  <2> DEFINE l == [loc[w] EXCEPT !.pc = "readCounter", !.tgt = None, !.tries = 0, !.slots = {}]
  <2>1. Becomes(w, l) \/ End(w)
    BY <1>11 DEF SweepDone
  <2>2. l.pc \notin NewPcs
    BY FieldTypes DEF Operation, NewPcs
  <2> QED
    BY <2>1, <2>2, CarriesBecome, CarriesEnd
<1>12. ASSUME NEW w \in Workers, DecrementRead(w) PROVE Carries
  BY <1>12 DEF LocOK, Operation, Carries, Decrements, DecrementRead, At, Becomes
<1>13. ASSUME NEW w \in Workers, DecrementWrite(w) PROVE Carries
  <2>1. CASE DecrementDone(w)
    <3> DEFINE l == [loc[w] EXCEPT !.pc = "sweepNext", !.cnt = 0, !.tries = 0, !.tgt = None]
    <3>1. l.pc = "sweepNext"
      BY FieldTypes DEF Operation
    <3>2. Becomes(w, l) \/ End(w)
      BY <2>1 DEF DecrementDone
    <3> QED
      BY <3>1, <3>2, CarriesBecome, CarriesEnd DEF NewPcs
  <2>2. CASE DecrementAgain(w, {Counter})
    BY <1>13, <2>2, CarriesAgain DEF DecrementWrite, At, DecrementAgain, Decrements, NewPcs
  <2> QED
    BY <1>13, <2>1, <2>2 DEF DecrementWrite
<1>14. ASSUME NEW w \in Workers, DecrementConflict(w) PROVE Carries
  BY <1>14, CarriesAgain DEF DecrementConflict, At, DecrementAgain, Decrements, NewPcs
<1>15. ASSUME NEW w \in Workers, ReadCounter(w) PROVE Carries
  BY <1>15, CarriesLeave DEF LocOK, Operation, ReadCounter, Becomes, Idle, NewPcs
<1>16. ASSUME NEW w \in Workers, DenyQuota(w) PROVE Carries
  BY <1>16, CarriesLeave DEF LocOK, Operation, DenyQuota, End, Becomes, Idle, NewPcs
<1>17. ASSUME NEW w \in Workers, Recount(w) PROVE Carries
  BY <1>17 DEF LocOK, Operation, Carries, Decrements, Recount, Becomes
<1>18. ASSUME NEW w \in Workers, RecountWrite(w) PROVE Carries
  <2> DEFINE l == [loc[w] EXCEPT !.pc = "readCounter", !.tries = @ + 1, !.cnt = 0, !.tally = 0]
  <2>1. Becomes(w, l) \/ End(w)
    BY <1>18 DEF RecountWrite
  <2>2. l.pc \notin NewPcs
    BY FieldTypes DEF Operation, NewPcs
  <2> QED
    BY <2>1, <2>2, CarriesBecome, CarriesEnd
<1>19. ASSUME NEW w \in Workers, Reserve(w) PROVE Carries
  BY <1>19 DEF LocOK, Operation, Carries, Decrements, Reserve, Remember
<1>20. ASSUME NEW w \in Workers, ReserveConflict(w) PROVE Carries
  BY <1>20, CarriesAgain DEF ReserveConflict, At, Retry, NewPcs
<1>21. ASSUME NEW w \in Workers, ReserveDuplicate(w) PROVE Carries
  BY <1>21, CarriesLeave DEF LocOK, Operation, ReserveDuplicate, Becomes, Idle, NewPcs
<1>22. ASSUME NEW w \in Workers, TokenFails(w) PROVE Carries
  BY <1>22, CarriesLeave DEF LocOK, Operation, TokenFails, Becomes, NewPcs
<1>23. ASSUME NEW w \in Workers, PostUncertain(w) PROVE Carries
  BY <1>23, CarriesLeave DEF LocOK, Operation, PostUncertain, End, Becomes, Idle, NewPcs
<1>24. ASSUME NEW w \in Workers, PostSucceeds(w) PROVE Carries
  BY <1>24, CarriesLeave DEF LocOK, Operation, PostSucceeds, GoTo, Becomes, Idle, NewPcs
<1>25. ASSUME NEW w \in Workers, FinalizeRead(w) PROVE Carries
  BY <1>25, CarriesLeave DEF LocOK, Operation, FinalizeRead, GoTo, End, Becomes, Idle, NewPcs
<1>26. ASSUME NEW w \in Workers, Finalize(w) PROVE Carries
  BY <1>26, CarriesAgain DEF Finalize, At, NewPcs
<1>27. ASSUME NEW w \in Workers, FinalizeConflict(w) PROVE Carries
  BY <1>27, CarriesAgain DEF FinalizeConflict, At, Retry, NewPcs
<1>28. ASSUME NEW w \in Workers, ReleaseRead(w) PROVE Carries
  BY <1>28, CarriesLeave DEF LocOK, Operation, ReleaseRead, GoTo, End, Becomes, Idle, NewPcs
<1>29. ASSUME NEW w \in Workers, ReleaseDelete(w) PROVE Carries
  BY <1>29 DEF LocOK, Operation, Carries, Decrements, Deletes, ReleaseDelete, Becomes
<1>30. ASSUME NEW w \in Workers, ReleaseConflict(w) PROVE Carries
  <2>1. CASE TryAgain(w, "relRead") \/ End(w)
    BY <2>1, CarriesAgain DEF NewPcs
  <2>2. CASE Becomes(w, [loc[w] EXCEPT !.pc = "decRead", !.tries = 0])
    BY <1>30, <2>2 DEF LocOK, Operation, Becomes, Carries, Decrements, Deletes
  <2> QED
    BY <1>30, <2>1, <2>2 DEF ReleaseConflict
<1>31. ASSUME NEW w \in Workers, CompleteRead(w) PROVE Carries
  BY <1>31, CarriesLeave DEF LocOK, Operation, CompleteRead, GoTo, End, Becomes, Idle,
      NewPcs
<1>32. ASSUME NEW w \in Workers, CompleteCounter(w) PROVE Carries
  BY <1>32, CarriesLeave DEF LocOK, Operation, CompleteCounter, Becomes, Idle, NewPcs
<1>33. ASSUME NEW w \in Workers, Complete(w) PROVE Carries
  BY <1>33, CarriesLeave DEF LocOK, Operation, Complete, End, Becomes, Idle, NewPcs
<1>34. ASSUME NEW w \in Workers, CompleteConflict(w) PROVE Carries
  BY <1>34, CarriesAgain DEF CompleteConflict, At, Retry, NewPcs
<1>35. ASSUME NEW w \in Workers, StaleNext(w) PROVE Carries
  BY <1>35, CarriesLeave DEF LocOK, Operation, StaleNext, Becomes, Idle, NewPcs
<1>36. ASSUME NEW w \in Workers, ReleaseStale(w) PROVE Carries
  <2> DEFINE l == [loc[w] EXCEPT !.pc = "staleNext", !.tgt = None, !.cnt = 0]
  <2>1. Becomes(w, l) \/ End(w)
    BY <1>36 DEF ReleaseStale, StaleContinue
  <2>2. l.pc \notin NewPcs
    BY FieldTypes DEF Operation, NewPcs
  <2> QED
    BY <2>1, <2>2, CarriesBecome, CarriesEnd
<1>37. ASSUME NEW w \in Workers, StaleConflict(w) PROVE Carries
  <2> DEFINE l == [loc[w] EXCEPT !.pc = "staleNext", !.tgt = None, !.cnt = 0]
  <2>1. Becomes(w, l) \/ End(w)
    BY <1>37 DEF StaleConflict, StaleContinue
  <2>2. l.pc \notin NewPcs
    BY FieldTypes DEF Operation, NewPcs
  <2> QED
    BY <2>1, <2>2, CarriesBecome, CarriesEnd
<1>38. ASSUME NEW w \in Workers, StartSweep(w) PROVE Carries
  BY <1>38, CarriesLeave DEF LocOK, Operation, StartSweep, Becomes, Idle, NewPcs
<1>39. ASSUME NEW w \in Workers, StartReleaseStale(w) PROVE Carries
  BY <1>39, CarriesLeave DEF LocOK, Operation, StartReleaseStale, Becomes, Idle, NewPcs
<1>40. ASSUME NEW w \in Workers, Abandon(w) PROVE Carries
  BY <1>40, CarriesLeave DEF LocOK, Operation, Abandon, End, Becomes, Idle, NewPcs
<1>41. ASSUME NEW w \in Workers, NEW i \in Inv, StartRead(w, i) PROVE Carries
  BY <1>41, CarriesLeave DEF LocOK, Operation, StartRead, Becomes, Idle, NewPcs
<1>42. ASSUME NEW w \in Workers, NEW i \in Inv, StartComplete(w, i) PROVE Carries
  BY <1>42, CarriesLeave DEF LocOK, Operation, StartComplete, Becomes, Idle, NewPcs
<1>43. ASSUME NEW w \in Workers, NEW i \in Inv, NEW k \in Keys \cup {None}, StartCreate(w, k, i) PROVE Carries
  BY <1>43, CarriesLeave DEF LocOK, Operation, StartCreate, Becomes, Idle, NewPcs
<1>44. ASSUME NEW i \in Inv, Age(i) PROVE Carries
  BY <1>44 DEF LocOK, Operation, Carries, Decrements, Age, Remember
<1>45. ASSUME NEW i \in Inv, Touch(i) PROVE Carries
  BY <1>45 DEF Carries, Decrements, Touch
<1>46. ASSUME UNCHANGED vars PROVE Carries
  BY <1>46 DEF Carries, Decrements, vars
<1> QED
  BY <1>1, <1>2, <1>3, <1>4, <1>5, <1>6, <1>7, <1>8, <1>9, <1>9a, <1>10, <1>11,
      <1>12, <1>13, <1>14, <1>15, <1>16, <1>17, <1>18, <1>19, <1>20, <1>21, <1>22, <1>23,
      <1>24, <1>25, <1>26, <1>27, <1>28, <1>29, <1>30, <1>31, <1>32, <1>33, <1>34,
      <1>35, <1>36, <1>37, <1>38, <1>39, <1>40, <1>41, <1>42, <1>43, <1>44, <1>45,
      <1>46
  DEF Next, Step, FindStep, SweepStep, DecStep, ReserveStep, PlatformStep, SettleStep,
      CompleteStep, StaleStep


(* Nobody who has a recount to write reads the counter's ETag again.         *)
Watches == \A v \in Workers :
  loc[v].pc = "recountWrite" /\ Counter \in fresh'[v] => Counter \in fresh[v]

LEMMA WatchesStep ==
  ASSUME TypeOK, Control, [Next]_vars
  PROVE  Watches
<1>1. Counter \notin Inv /\ Counter \notin Keys
  BY RowsAssumption
<1>2. ASSUME NEW w \in Workers, FindStep(w) PROVE Watches
  BY <1>1, <1>2 DEF TypeOK, FindStep, ReadIndex, GetRecord, ExpireRecord, Unindex, FallbackQuery, At,
      Holds, Watches
<1>3. ASSUME NEW w \in Workers, SweepStep(w) PROVE Watches
  <2>1. CASE SweepQuery(w) \/ SweepSkip(w) \/ SweepGone(w) \/ SweepDone(w)
    BY <2>1 DEF TypeOK, SweepQuery, SweepSkip, SweepGone, SweepDone, At, Holds, Watches
  <2>2. CASE SweepIndexRow(w)
    BY <2>2 DEF TypeOK, SweepIndexRow, At, Holds, Watches
  <2>3. CASE SweepRecord(w)
    BY <2>3 DEF TypeOK, SweepRecord, At, Holds, Watches
  <2>4. CASE SweepIndexOf(w)
    BY <2>4 DEF TypeOK, SweepIndexOf, At, Holds, Watches
  <2> QED
    BY <1>3, <2>1, <2>2, <2>3, <2>4 DEF SweepStep
<1>4. ASSUME NEW w \in Workers, DecStep(w) PROVE Watches
  BY <1>4 DEF TypeOK, DecStep, DecrementRead, DecrementWrite, DecrementDone, DecrementAgain,
      DecrementConflict, At, Holds, Watches
<1>5. ASSUME NEW w \in Workers, ReserveStep(w) PROVE Watches
  BY <1>5 DEF TypeOK, ReserveStep, ReadCounter, DenyQuota, Recount, RecountWrite, Reserve,
      ReserveConflict, Retry, ReserveDuplicate, At, Holds, Watches
<1>6. ASSUME NEW w \in Workers, PlatformStep(w) \/ SettleStep(w) PROVE Watches
  BY <1>6 DEF TypeOK, PlatformStep, TokenFails, PostUncertain, PostSucceeds, Post, SettleStep,
      FinalizeRead, Finalize, FinalizeConflict, Retry, ReleaseRead, ReleaseDelete, ReleaseConflict,
      At, Holds, Watches
<1>7. ASSUME NEW w \in Workers, CompleteStep(w) \/ StaleStep(w) PROVE Watches
  <2>1. CASE CompleteRead(w) \/ CompleteCounter(w) \/ Complete(w) \/ CompleteConflict(w)
    BY <2>1 DEF TypeOK, CompleteRead, CompleteCounter, Complete, CompleteConflict, Retry, At, Holds,
        Watches
  <2>2. CASE StaleNext(w)
    BY <2>2 DEF TypeOK, StaleNext, At, Holds, Watches
  <2>3. CASE ReleaseStale(w) \/ StaleConflict(w)
    BY <2>3 DEF TypeOK, ReleaseStale, StaleConflict, StaleContinue, At, Holds, Watches
  <2> QED
    BY <1>7, <2>1, <2>2, <2>3 DEF CompleteStep, StaleStep
<1>8. ASSUME NEW w \in Workers, StartSweep(w) \/ StartReleaseStale(w) \/ Abandon(w) PROVE Watches
  BY <1>8 DEF TypeOK, StartSweep, StartReleaseStale, Abandon, At, Holds, Watches
<1>9. ASSUME NEW w \in Workers, NEW i \in Inv,
             \/ StartRead(w, i) \/ StartComplete(w, i)
             \/ \E k \in Keys \cup {None} : StartCreate(w, k, i)
      PROVE  Watches
  BY <1>9 DEF TypeOK, StartRead, StartComplete, StartCreate, At, Holds, Watches
<1>10. ASSUME NEW i \in Inv, Age(i) \/ Touch(i) PROVE Watches
  BY <1>10 DEF TypeOK, Age, Touch, Watches
<1>11. ASSUME UNCHANGED vars PROVE Watches
  BY <1>11 DEF vars, Watches
<1> QED
  BY <1>2, <1>3, <1>4, <1>5, <1>6, <1>7, <1>8, <1>9, <1>10, <1>11 DEF Next, Step

-----------------------------------------------------------------------------
(* A step that leaves the counter alone keeps the counts, if every slot that *)
(* it makes held is a slip.                                                  *)
LEMMA CountsSame ==
  ASSUME TypeOK, TypeOK', Counts, Carries, Watches, \A w \in Workers : ~Recount(w),
         UNCHANGED <<counter, blind>>, NEW d \in Nat, slips' = slips + d,
         Cardinality(Open') + Cardinality(owing') <= Cardinality(Open) + Cardinality(owing) + d,
         Cardinality(Open') <= Cardinality(Open) + d
  PROVE  Counts'
<1>1. /\ Cardinality(Open) \in Nat /\ Cardinality(owing) \in Nat
      /\ Cardinality(Open') \in Nat /\ Cardinality(owing') \in Nat
      /\ counter \in Nat /\ Quota \in Nat /\ slips \in Nat
  BY Sizes, NextSizes, NumbersAssumption DEF TypeOK
<1>2. CounterCovers' /\ QuotaHonoured'
  BY <1>1 DEF Counts, CounterCovers, QuotaHonoured
<1>3. \A v \in Workers : loc[v].tally \in Nat
  BY DEF TypeOK, Operation
<1>4. Tallies'
  <2> SUFFICES ASSUME NEW v \in Workers, ~blind', loc'[v].pc = "recountWrite", Counter \in fresh'[v]
               PROVE  loc'[v].tally + slips' >= Cardinality(Open') + Cardinality(owing')
    BY DEF Tallies
  <2>1. loc[v].pc = "recountWrite" /\ loc'[v].tally = loc[v].tally /\ Counter \in fresh[v] /\ ~blind
    BY DEF Carries, Watches
  <2>2. loc[v].tally + slips >= Cardinality(Open) + Cardinality(owing)
    BY <2>1 DEF Counts, Tallies
  <2> QED
    BY <1>1, <1>3, <2>1, <2>2
<1> QED
  BY <1>2, <1>4 DEF Counts

(* A step that writes the counter, and so takes its ETag from everybody,     *)
(* keeps the counts if the new value covers the held slots.                  *)
LEMMA CountsWrite ==
  ASSUME \A v \in Workers : Counter \notin fresh'[v],
         ~blind' => /\ counter' + slips' >= Cardinality(Open') + Cardinality(owing')
                    /\ Cardinality(Open') <= Quota + slips'
  PROVE  Counts'
  BY DEF Counts, CounterCovers, Tallies, QuotaHonoured

(* One decrement for one slot given back.                                    *)
LEMMA CountsLess ==
  ASSUME TypeOK, TypeOK', Counts, \A v \in Workers : Counter \notin fresh'[v],
         counter' = Less1(counter), UNCHANGED blind, NEW d \in Nat, slips' = slips + d,
         Cardinality(Open') + Cardinality(owing') + 1 <= Cardinality(Open) + Cardinality(owing) + d,
         Cardinality(Open') <= Cardinality(Open)
  PROVE  Counts'
<1>1. /\ Cardinality(Open) \in Nat /\ Cardinality(owing) \in Nat
      /\ Cardinality(Open') \in Nat /\ Cardinality(owing') \in Nat
      /\ counter \in Nat /\ Quota \in Nat /\ slips \in Nat
  BY Sizes, NextSizes, NumbersAssumption DEF TypeOK
<1>2. counter' \in Nat /\ counter' + 1 >= counter
  BY <1>1 DEF Less1
<1> QED
  BY <1>1, <1>2, CountsWrite DEF Counts, CounterCovers, QuotaHonoured

(* The transaction that closes a record finds it open.                       *)
LEMMA ClosesOpen ==
  ASSUME Control, Held, NEW w \in Workers, Complete(w) \/ ReleaseStale(w)
  PROVE  loc[w].tgt \in Open
<1>1. CASE Complete(w)
  BY <1>1 DEF Complete, CloseRecord, At, Held, HeldBy
<1>2. CASE ReleaseStale(w)
  <2>1. loc[w].op = "stale" /\ loc[w].tgt \in Inv /\ loc[w].tgt \in fresh[w]
    BY <1>2 DEF Control, ControlOf, StalePcs, TgtPcs, ReleaseStale, CloseRecord, At
  <2> QED
    BY <2>1 DEF Held, HeldBy, Uncertain, Open, OpenStates
<1> QED
  BY <1>1, <1>2

(* The counter goes on covering the held slots, and the quota is honoured,   *)
(* but for the slips.                                                        *)
LEMMA CountsStep ==
  ASSUME TypeOK, TypeOK', LocOK, Control, Copies, Unborn, Held, Counts, [Next]_vars
  PROVE  Counts'
<1> DEFINE o == Cardinality(Open)  n == Cardinality(owing)
<1>1. o \in Nat /\ n \in Nat /\ slips \in Nat /\ IsFiniteSet(Open) /\ IsFiniteSet(owing)
  BY Sizes DEF TypeOK
<1>2. Carries /\ Watches
  BY CarriesStep, WatchesStep
<1>3. ASSUME NEW w \in Workers, Recount(w) PROVE Counts'
  <2>1. Open' = Open /\ UNCHANGED <<owing, counter, slips, fresh>> /\ (blind' = (blind \/ Hidden))
    BY <1>3 DEF Recount, table, Open
  <2>2. \A v \in Workers \ {w} : loc'[v] = loc[v]
    BY <1>3 DEF LocOK, Recount, Becomes
  <2>3. loc'[w].tally = Counted
    BY <1>3 DEF LocOK, Operation, Recount, Becomes
  <2>4. ~blind' => Counted + slips >= o + n
    <3>1. ~blind' => Live = Open /\ n = 0
      BY <2>1, FS_EmptySet DEF Hidden
    <3>2. Cardinality(IndexRows \ StaleIndex) \in Nat
      BY FiniteAssumption, FS_Subset, FS_CardinalityType DEF IndexRows
    <3> QED
      BY <1>1, <3>1, <3>2 DEF Counted
  <2>5. CounterCovers' /\ QuotaHonoured'
    BY <2>1 DEF Counts, CounterCovers, QuotaHonoured
  <2>6. Tallies'
    BY <2>1, <2>2, <2>3, <2>4 DEF Counts, Tallies
  <2> QED
    BY <2>5, <2>6 DEF Counts
<1>4. CASE Rest /\ \A w \in Workers : ~Recount(w)
  BY <1>1, <1>2, <1>4, CountsSame DEF Rest, notes, Open
<1>5. ASSUME NEW w \in Workers, ExpireRecord(w), \A v \in Workers : ~Recount(v) PROVE Counts'
  <2>1. loc[w].tgt \in Inv /\ UNCHANGED <<counter, blind, slips, owing>>
    BY <1>5 DEF Control, ControlOf, TgtPcs, ExpireRecord, At, notes
  <2>2. Open' = Open \/ Cardinality(Open') <= o
    <3>1. state' = state \/ state' = [state EXCEPT ![loc[w].tgt] = "gone"]
      BY <1>5 DEF ExpireRecord
    <3>2. CASE state' = [state EXCEPT ![loc[w].tgt] = "gone"]
      <4>1. Cardinality(Open') = IF loc[w].tgt \in Open THEN o - 1 ELSE o
        BY <2>1, <3>2, OpenLess
      <4> QED
        BY <1>1, <4>1
    <3> QED
      BY <3>1, <3>2 DEF Open
  <2> QED
    BY <1>1, <1>2, <1>5, <2>1, <2>2, NextSizes, CountsSame
<1>6. ASSUME NEW w \in Workers, SweepRecord(w), \A v \in Workers : ~Recount(v) PROVE Counts'
  <2>1. PICK i \in loc[w].batch \cap fresh[w] \cap Inv :
          /\ state' = [state EXCEPT ![i] = "gone"]
          /\ owing' = owing \/ (i \in loc[w].slots /\ owing' = owing \cup {w})
    BY <1>6 DEF SweepRecord
  <2>2. i \in loc[w].slots => i \in Open
    BY <1>6, <2>1 DEF SweepRecord, At, Control, ControlOf, Held, HeldBy
  <2>3. Cardinality(Open') \in Nat /\ Cardinality(Open') = IF i \in Open THEN o - 1 ELSE o
    BY <2>1, OpenLess
  <2>4. Cardinality(owing \cup {w}) <= n + 1 /\ Cardinality(owing') \in Nat
    BY OneMore, NextSizes
  <2>5. UNCHANGED <<counter, blind, slips>>
    BY <1>6 DEF SweepRecord, notes
  <2>6. Cardinality(Open') <= o /\ Cardinality(Open') + Cardinality(owing') <= o + n
    <3>1. CASE owing' = owing
      BY <1>1, <2>3, <3>1
    <3>2. CASE i \in Open /\ owing' = owing \cup {w}
      BY <1>1, <2>3, <2>4, <3>2
    <3> QED
      BY <2>1, <2>2, <3>1, <3>2
  <2> QED
    BY <1>1, <1>2, <1>6, <2>5, <2>6, <2>3, <2>4, CountsSame
<1>7. ASSUME NEW w \in Workers, DecrementWrite(w) PROVE Counts'
  <2>1. \A v \in Workers : Counter \notin fresh'[v]
    BY <1>7 DEF TypeOK, DecrementWrite, DecrementDone, DecrementAgain, Holds
  <2>2. counter' = Less1(counter) /\ Open' = Open /\ UNCHANGED blind /\ owing' = owing \ {w}
    BY <1>7 DEF DecrementWrite, Copies, Open
  <2>3. CASE w \in owing
    <3>1. Cardinality(owing') = n - 1
      BY <1>1, <2>2, <2>3, FS_RemoveElement
    <3>2. slips' = slips + 0
      BY <1>1, <1>7, <2>3 DEF DecrementWrite
    <3>3. Cardinality(Open') + Cardinality(owing') + 1 <= o + n + 0 /\ Cardinality(Open') <= o
      BY <1>1, <2>2, <3>1
    <3> QED
      BY <2>1, <2>2, <3>2, <3>3, CountsLess
  <2>4. CASE w \notin owing
    <3>1. owing' = owing /\ slips' = slips + 1
      BY <1>7, <2>2, <2>4 DEF DecrementWrite
    <3>2. Cardinality(Open') + Cardinality(owing') + 1 <= o + n + 1 /\ Cardinality(Open') <= o
      BY <1>1, <2>2, <3>1
    <3> QED
      BY <2>1, <2>2, <3>1, <3>2, CountsLess
  <2> QED
    BY <2>3, <2>4
<1>8. ASSUME NEW w \in Workers, DecrementConflict(w) \/ Abandon(w), \A v \in Workers : ~Recount(v)
      PROVE  Counts'
  <2>1. UNCHANGED <<counter, blind, slips>> /\ Open' = Open /\ owing' \subseteq owing
    BY <1>8 DEF DecrementConflict, Abandon, table, aux, notes, Open
  <2>2. Cardinality(owing') <= n /\ Cardinality(owing') \in Nat
    BY <1>1, <2>1, FS_Subset, FS_CardinalityType
  <2> QED
    BY <1>1, <1>2, <1>8, <2>1, <2>2, CountsSame
<1>9. ASSUME NEW w \in Workers, RecountWrite(w), \A v \in Workers : ~Recount(v) PROVE Counts'
  <2>1. Open' = Open /\ UNCHANGED <<owing, blind, slips>>
    BY <1>9 DEF RecountWrite, Open, aux, notes
  <2>2. CASE Counter \in fresh[w]
    <3>1. counter' = loc[w].tally /\ \A v \in Workers : Counter \notin fresh'[v]
      BY <2>2, <1>9 DEF TypeOK, RecountWrite
    <3>2. ~blind => loc[w].tally + slips >= o + n
      BY <2>2, <1>9 DEF RecountWrite, At, Counts, Tallies
    <3> QED
      BY <2>1, <3>1, <3>2, CountsWrite DEF Counts, QuotaHonoured
  <2>3. CASE Counter \notin fresh[w]
    <3>1. counter' = counter
      BY <2>3, <1>9 DEF RecountWrite
    <3> QED
      BY <1>1, <1>2, <1>9, <2>1, <3>1, CountsSame
  <2> QED
    BY <2>2, <2>3
<1>10. ASSUME NEW w \in Workers, Reserve(w) PROVE Counts'
  <2>1. \A v \in Workers : Counter \notin fresh'[v]
    BY <1>10 DEF TypeOK, Reserve, Holds
  <2>2. counter' = counter + 1 /\ UNCHANGED <<owing, blind, slips>> /\ counter < Quota
    BY <1>10 DEF Reserve, At, Copies, Control, ControlOf, aux, notes
  <2>3. loc[w].id \in Inv \ Open
    BY <1>10 DEF Control, ControlOf, Unborn, Reserve, At, CreateOnlyPcs, CreatePcs, Open, OpenStates
  <2>4. Open' = Open \cup {loc[w].id}
    BY <1>10, <2>3 DEF TypeOK, Reserve, Open, OpenStates
  <2>5. Cardinality(Open') = o + 1
    BY <1>1, <2>3, <2>4, FS_AddElement
  <2>6. ~blind' => /\ counter' + slips' >= Cardinality(Open') + Cardinality(owing')
                   /\ Cardinality(Open') <= Quota + slips'
    BY <1>1, <2>2, <2>5, NumbersAssumption DEF TypeOK, Counts, CounterCovers
  <2> QED
    BY <2>1, <2>6, CountsWrite
<1>11. ASSUME NEW w \in Workers, PostUncertain(w) \/ PostSucceeds(w), \A v \in Workers : ~Recount(v)
       PROVE  Counts'
  BY <1>1, <1>2, <1>11, CountsSame DEF PostUncertain, PostSucceeds, Post, table, Open
<1>12. ASSUME NEW w \in Workers, Finalize(w), \A v \in Workers : ~Recount(v) PROVE Counts'
  <2> DEFINE i == loc[w].id
  <2>1. i \in Inv /\ UNCHANGED <<counter, blind, owing>>
    BY <1>12 DEF Control, ControlOf, CreatePcs, Finalize, At
  <2>2. Open' = Open \cup {i}
    BY <1>12, <2>1 DEF TypeOK, Finalize, Open, OpenStates
  <2>3. CASE i \in Open
    <3>1. Open' = Open /\ slips' = slips
      BY <1>12, <2>2, <2>3 DEF Finalize
    <3> QED
      BY <1>1, <1>2, <1>12, <2>1, <3>1, CountsSame
  <2>4. CASE i \notin Open
    <3>1. Cardinality(Open') = o + 1 /\ slips' = slips + 1
      BY <1>1, <1>12, <2>2, <2>4, FS_AddElement DEF Finalize
    <3> QED
      BY <1>1, <1>2, <1>12, <2>1, <3>1, CountsSame
  <2> QED
    BY <2>3, <2>4
<1>13. ASSUME NEW w \in Workers, ReleaseDelete(w), \A v \in Workers : ~Recount(v) PROVE Counts'
  <2>1. loc[w].id \in Open
    BY <1>13 DEF Control, ControlOf, CreatePcs, ReleaseDelete, At, Held, HeldBy, Open, OpenStates
  <2>2. Cardinality(Open') \in Nat /\ Cardinality(Open') = o - 1
    BY <1>13, <2>1, OpenLess DEF ReleaseDelete, Open
  <2>3. Cardinality(owing') <= n + 1 /\ Cardinality(owing') \in Nat
    BY <1>13, OneMore, NextSizes DEF ReleaseDelete
  <2>4. UNCHANGED <<counter, blind, slips>>
    BY <1>13 DEF ReleaseDelete, aux, notes
  <2> QED
    BY <1>1, <1>2, <1>13, <2>2, <2>3, <2>4, CountsSame
<1>14. ASSUME NEW w \in Workers, Complete(w) \/ ReleaseStale(w) PROVE Counts'
  <2>1. \A v \in Workers : Counter \notin fresh'[v]
    BY <1>14 DEF TypeOK, Complete, ReleaseStale, StaleContinue, Holds
  <2>2. counter' = Less1(counter) /\ UNCHANGED <<owing, blind, slips>>
    BY <1>14 DEF Complete, ReleaseStale, CloseRecord, Copies, aux, notes
  <2>3. loc[w].tgt \in Open
    BY <1>14, ClosesOpen
  <2>4. Cardinality(Open') = o - 1 /\ Cardinality(Open') \in Nat
    BY <1>14, <2>3, OpenLess DEF Complete, ReleaseStale, CloseRecord, Open
  <2> QED
    BY <1>1, <2>1, <2>2, <2>4, CountsLess
<1>15. ASSUME NEW i \in Inv, Age(i), \A v \in Workers : ~Recount(v) PROVE Counts'
  BY <1>1, <1>2, <1>15, CountsSame DEF Age, aux, notes, Open
<1> QED
  BY <1>3, <1>4, <1>5, <1>6, <1>7, <1>8, <1>9, <1>10, <1>11, <1>12, <1>13, <1>14, <1>15, ActsStep
  DEF Acts

(* How one investigation can move in one step. *)
Moves(i) ==
  \/ state'[i] = state[i]
  \/ state[i] = "free" /\ state'[i] = "reserved"
  \/ state'[i] = "active" /\ (~SlowOperations => state[i] = "reserved" \/ i \in doubtful)
  \/ state[i] \in OpenStates /\ state'[i] = "closed"
  \/ state'[i] = "gone" /\ (Lapsing(i) \/ (state[i] = "reserved" /\ i \notin asked))

(* The moves of an investigation, and what each of them presupposes.         *)
LEMMA MovesStep ==
  ASSUME TypeOK, Control, Unborn, Held, Unasked, ~SlowOperations => Settling, [Next]_vars
  PROVE  \A x \in Inv : Moves(x)
<1>1. CASE Rest
  BY <1>1 DEF Rest, Moves
<1>2. ASSUME NEW w \in Workers, ExpireRecord(w) PROVE \A x \in Inv : Moves(x)
  <2>1. loc[w].tgt \in fresh[w] => Lapsing(loc[w].tgt)
    BY <1>2 DEF ExpireRecord, At, Held, HeldBy
  <2> QED
    BY <1>2, <2>1 DEF TypeOK, ExpireRecord, Moves
<1>3. ASSUME NEW w \in Workers, SweepRecord(w) PROVE \A x \in Inv : Moves(x)
  <2>1. PICK i \in loc[w].batch \cap fresh[w] \cap Inv : state' = [state EXCEPT ![i] = "gone"]
    BY <1>3 DEF SweepRecord
  <2>2. Lapsing(i)
    BY <1>3 DEF Control, ControlOf, SweepRecord, At, Held, HeldBy
  <2> QED
    BY <2>1, <2>2 DEF TypeOK, Moves
<1>4. ASSUME NEW w \in Workers, Reserve(w) PROVE \A x \in Inv : Moves(x)
  <2>1. state[loc[w].id] = "free"
    BY <1>4 DEF Control, ControlOf, Unborn, Reserve, At, CreateOnlyPcs, CreatePcs
  <2> QED
    BY <1>4, <2>1 DEF TypeOK, Reserve, Moves
<1>5. ASSUME NEW w \in Workers, Finalize(w) PROVE \A x \in Inv : Moves(x)
  <2>1. ~SlowOperations => state[loc[w].id] = "reserved" \/ loc[w].id \in doubtful
    BY <1>5 DEF Settling, Finalize, At, CreatePcs
  <2> QED
    BY <1>5, <2>1 DEF TypeOK, Finalize, Moves
<1>6. ASSUME NEW w \in Workers, ReleaseDelete(w) PROVE \A x \in Inv : Moves(x)
  <2>1. state[loc[w].id] = "reserved" /\ loc[w].id \notin asked
    BY <1>6 DEF Held, HeldBy, Unasked, ReleaseDelete, At
  <2> QED
    BY <1>6, <2>1 DEF TypeOK, ReleaseDelete, Moves
<1>7. ASSUME NEW w \in Workers, Complete(w) \/ ReleaseStale(w) PROVE \A x \in Inv : Moves(x)
  <2>1. state[loc[w].tgt] \in OpenStates
    BY <1>7, ClosesOpen DEF Open
  <2> QED
    BY <1>7, <2>1 DEF TypeOK, Complete, ReleaseStale, CloseRecord, Moves
<1>8. ASSUME NEW w \in Workers,
             \/ DecrementWrite(w) \/ DecrementConflict(w) \/ Recount(w) \/ RecountWrite(w)
             \/ PostUncertain(w) \/ PostSucceeds(w) \/ Abandon(w)
      PROVE  \A x \in Inv : Moves(x)
  BY <1>8 DEF DecrementWrite, DecrementConflict, Recount, RecountWrite, PostUncertain, PostSucceeds,
      Post, Abandon, table, Moves
<1>9. ASSUME NEW i \in Inv, Age(i) PROVE \A x \in Inv : Moves(x)
  BY <1>9 DEF Age, Moves
<1> QED
  BY <1>1, <1>2, <1>3, <1>4, <1>5, <1>6, <1>7, <1>8, <1>9, ActsStep DEF Acts

(* A worker that owes a decrement pays it, gives it up or dies.              *)
LEMMA OwingStep ==
  ASSUME [Next]_vars, NEW v \in owing, v \notin owing'
  PROVE  \E w \in Workers : DecrementWrite(w) \/ DecrementConflict(w) \/ Abandon(w)
<1>1. ~Rest
  BY DEF Rest
<1>2. ASSUME NEW w \in Workers, Acts(w)
      PROVE  DecrementWrite(w) \/ DecrementConflict(w) \/ Abandon(w)
  <2>1. ~ExpireRecord(w) /\ ~SweepRecord(w) /\ ~ReleaseDelete(w) /\ ~Finalize(w) /\ ~Reserve(w)
    BY DEF ExpireRecord, SweepRecord, ReleaseDelete, Finalize, Reserve
  <2>2. ~Recount(w) /\ ~RecountWrite(w) /\ ~PostUncertain(w) /\ ~PostSucceeds(w)
    BY DEF Recount, RecountWrite, PostUncertain, PostSucceeds, Post
  <2>3. ~Complete(w) /\ ~ReleaseStale(w)
    BY DEF Complete, ReleaseStale
  <2> QED
    BY <1>2, <2>1, <2>2, <2>3 DEF Acts
<1>3. \A i \in Inv : ~Age(i)
  BY DEF Age
<1> QED
  BY <1>1, <1>2, <1>3, ActsStep

(* A slot is given back twice, or a row reopened, by a decrement that no     *)
(* slot stands behind and by a finalize of a row that is not open.           *)
LEMMA SlipStep ==
  ASSUME TypeOK, [Next]_vars, faults' = 0
  PROVE  /\ faults = 0 /\ doubtful' = doubtful
         /\ \/ slips' = slips
            \/ \E w \in Workers : DecrementWrite(w) /\ w \notin owing
            \/ \E w \in Workers : Finalize(w) /\ loc[w].id \notin Open
<1>1. CASE Rest
  BY <1>1 DEF Rest, notes
<1>2. \A f \in Nat : f + 1 # 0
  OBVIOUS
<1>3. faults \in Nat
  BY NumbersAssumption DEF TypeOK
<1>4. ~Fault
  BY <1>2, <1>3 DEF Fault
<1>5. ASSUME NEW w \in Workers, DecrementWrite(w) \/ Finalize(w)
      PROVE  /\ faults = 0 /\ doubtful' = doubtful
             /\ slips' = slips \/ (DecrementWrite(w) /\ w \notin owing)
                  \/ (Finalize(w) /\ loc[w].id \notin Open)
  BY <1>4, <1>5 DEF DecrementWrite, Finalize
<1>6. ASSUME NEW w \in Workers, Acts(w), ~DecrementWrite(w), ~Finalize(w)
      PROVE  faults = 0 /\ UNCHANGED <<doubtful, slips>>
  <2>1. CASE ExpireRecord(w) \/ SweepRecord(w) \/ Abandon(w)
    BY <1>4, <2>1 DEF ExpireRecord, SweepRecord, Abandon, notes
  <2>2. CASE DecrementConflict(w) \/ Recount(w) \/ RecountWrite(w) \/ Reserve(w)
    BY <2>2 DEF DecrementConflict, Recount, RecountWrite, Reserve, aux, notes
  <2>3. CASE PostUncertain(w) \/ PostSucceeds(w) \/ ReleaseDelete(w)
    BY <2>3 DEF PostUncertain, PostSucceeds, Post, ReleaseDelete, aux, notes
  <2>4. CASE Complete(w) \/ ReleaseStale(w)
    BY <2>4 DEF Complete, ReleaseStale, aux, notes
  <2> QED
    BY <1>6, <2>1, <2>2, <2>3, <2>4 DEF Acts
<1>7. ASSUME NEW i \in Inv, Age(i) PROVE faults = 0 /\ UNCHANGED <<doubtful, slips>>
  BY <1>7 DEF Age, aux, notes
<1> QED
  BY <1>1, <1>5, <1>6, <1>7, ActsStep

(* Without a fault nothing slips.                                            *)
LEMMA NothingSlipsStep ==
  ASSUME TypeOK, LocOK, Control, Settling, NothingSlips, ~SilentDeletes, [Next]_vars
  PROVE  NothingSlips'
<1> SUFFICES ASSUME faults' = 0
             PROVE  /\ slips' = 0 /\ doubtful' = {}
                    /\ \A v \in Workers : Decrements(v)' => v \in owing'
  BY DEF NothingSlips
<1>1. faults = 0 /\ slips = 0 /\ doubtful = {} /\ \A v \in Workers : Decrements(v) => v \in owing
  BY SlipStep DEF NothingSlips
<1>2. \A w \in Workers : DecrementWrite(w) => w \in owing
  BY <1>1 DEF DecrementWrite, At, Decrements
<1>3. \A w \in Workers : Finalize(w) => loc[w].id \in Open
  BY <1>1 DEF Finalize, At, Settling, Control, ControlOf, CreatePcs, Open, OpenStates
<1>4. slips' = 0 /\ doubtful' = {}
  BY <1>1, <1>2, <1>3, SlipStep
<1>5. \A f \in Nat : f + 1 # 0
  OBVIOUS
<1>6. ~Fault
  BY <1>1, <1>5 DEF Fault
<1>7. ASSUME NEW v \in Workers, Decrements(v)' PROVE v \in owing'
  <2>1. CASE SweepRecord(v)
    <3>1. PICK i \in Inv : /\ SweepDeleted(v, i)
                           /\ owing' = IF i \in loc[v].slots THEN owing \cup {v} ELSE owing
      BY <1>6, <2>1 DEF SweepRecord
    <3>2. i \in loc[v].slots
      BY <1>7, <3>1, Deleted DEF Decrements
    <3> QED
      BY <3>1, <3>2
  <2>2. CASE ReleaseDelete(v)
    BY <2>2 DEF ReleaseDelete
  <2>3. ~SweepGone(v)
    BY DEF SweepGone
  <2>4. ~ReleaseConflict(v)
    <3>1. CASE End(v)
      BY <1>7, <3>1 DEF LocOK, End, Becomes, Idle, Decrements
    <3>2. CASE TryAgain(v, "relRead") /\ ~End(v)
      BY <1>7, <3>2, Again DEF Decrements
    <3> QED
      BY <3>1, <3>2 DEF ReleaseConflict
  <2>5. CASE Decrements(v)
    <3>1. v \in owing
      BY <1>1, <2>5
    <3>2. ASSUME v \notin owing' PROVE FALSE
      <4>1. PICK w \in Workers : DecrementWrite(w) \/ DecrementConflict(w) \/ Abandon(w)
        BY <3>1, <3>2, OwingStep
      <4>2. w = v
        BY <1>6, <3>1, <3>2, <4>1 DEF DecrementWrite, DecrementConflict, Abandon
      <4>3. CASE DecrementWrite(v)
        <5>1. DecrementDone(v)
          BY <1>6, <4>3 DEF DecrementWrite
        <5> DEFINE l == [loc[v] EXCEPT !.pc = "sweepNext", !.cnt = 0, !.tries = 0, !.tgt = None]
        <5>2. l.pc = "sweepNext" /\ Idle.pc = "idle"
          BY FieldTypes DEF Operation, Idle
        <5>3. loc'[v] = Idle \/ loc'[v] = l
          BY <5>1 DEF LocOK, DecrementDone, End, Becomes
        <5> QED
          BY <1>7, <5>2, <5>3 DEF Decrements
      <4>4. CASE DecrementConflict(v)
        <5>1. ~MayRetry(v)
          BY <3>1, <3>2, <4>4 DEF DecrementConflict
        <5>2. loc'[v] = Idle
          BY <4>4, <5>1 DEF LocOK, DecrementConflict, DecrementAgain, TryAgain, End, Becomes
        <5> QED
          BY <1>7, <5>2 DEF Decrements, Idle
      <4>5. ~Abandon(v)
        BY <1>6 DEF Abandon
      <4> QED
        BY <4>1, <4>2, <4>3, <4>4, <4>5
    <3> QED
      BY <3>2
  <2> QED
    BY <1>7, <2>1, <2>2, <2>3, <2>4, <2>5, CarriesStep DEF Carries, Deletes
<1> QED
  BY <1>4, <1>7

(* No slot is held at first. *)
LEMMA CountsInit == Init => Counts /\ NothingSlips
<1> SUFFICES ASSUME Init PROVE Counts /\ NothingSlips
  OBVIOUS
<1>1. Open = {} /\ owing = {} /\ counter = 0 /\ slips = 0 /\ doubtful = {}
  BY DEF Init, Open, OpenStates
<1>2. \A w \in Workers : loc[w].pc = "idle"
  BY DEF Init, Idle
<1>3. Counts
  BY <1>1, <1>2, FS_EmptySet, NumbersAssumption DEF Counts, CounterCovers, Tallies, QuotaHonoured
<1>4. NothingSlips
  BY <1>1, <1>2 DEF NothingSlips, Decrements
<1> QED
  BY <1>3, <1>4

-----------------------------------------------------------------------------
(* The invariant of TableRegistryInvariants is inductive. *)
LEMMA Inductive ==
  ASSUME IndInv, [Next]_vars
  PROVE  IndInv'
<1>1. /\ TypeOK /\ LocOK /\ Control /\ Copies /\ FreeRows /\ DistinctIds /\ Unborn /\ Held
      /\ FreeKeys /\ Known /\ IndexAgrees /\ Keyed /\ Unasked /\ Counts
  BY DEF IndInv, Structure, Rows, Keyed, TypeOK, LocOK
<1>2. Structure' /\ Rows'
  BY StructureStep, RowsStep DEF IndInv
<1>3. TypeOK' /\ Control'
  BY <1>2 DEF Structure
<1>4. IndexAgrees' /\ Keyed'
  BY <1>1, <1>3, IndexAgreesStep, KeyedStep
<1>5. Unasked'
  BY <1>1, RowsMoveStep, UnaskedStep
<1>6. Counts'
  BY <1>1, <1>3, CountsStep
<1>7. ASSUME ~SlowOperations PROVE Settling' /\ (~SilentDeletes => NothingSlips')
  <2>1. Settling /\ (~SilentDeletes => NothingSlips)
    BY <1>7 DEF IndInv
  <2> QED
    BY <1>1, <1>7, <2>1, SettlingStep, NothingSlipsStep
<1> QED
  BY <1>2, <1>4, <1>5, <1>6, <1>7 DEF IndInv

(* Every reachable state satisfies the inductive invariant, whatever the     *)
(* number of replicas, investigations and keys, with responses lost, deletes *)
(* that do not say that a row was gone, and operations slower than any       *)
(* deadline; two of its parts need that no operation is that slow.           *)
THEOREM Invariance == Spec => []IndInv
<1>1. Init => IndInv
  BY StructureInit, RowsInit, KeyedInit, CountsInit DEF IndInv
<1>2. IndInv /\ [Next]_vars => IndInv'
  BY Inductive
<1> QED
  BY <1>1, <1>2, PTL DEF Spec

(* Type correctness of the registry. *)
THEOREM TypeCorrect == Spec => []TypeOK
<1>1. IndInv => TypeOK
  BY DEF IndInv, Structure
<1> QED
  BY <1>1, Invariance, PTL

(* _get_idempotency_record never answers a replay with the record of another *)
(* key, however long an operation takes.                                     *)
THEOREM ReplayIsRight == Spec => []IndexAgrees
<1>1. IndInv => IndexAgrees
  BY DEF IndInv
<1> QED
  BY <1>1, Invariance, PTL

(* Until a recount runs that could not see every held slot, the quota        *)
(* counter is below the slots that are held by the slips at most: decrements *)
(* repeated after a lost response or for a row deleted twice, and reopened   *)
(* rows.  However slow an operation is, nothing else lowers it.              *)
THEOREM CounterIsSafe == Spec => []CounterCovers
<1>1. IndInv => CounterCovers
  BY DEF IndInv, Counts
<1> QED
  BY <1>1, Invariance, PTL

(* "Atomically reserve a Table slot": no interleaving of any number of       *)
(* replicas admits more open investigations than the quota and one for every *)
(* slip, until a recount runs that could not see every held slot.            *)
THEOREM QuotaIsSafe == Spec => []QuotaHonoured
<1>1. IndInv => QuotaHonoured
  BY DEF IndInv, Counts
<1> QED
  BY <1>1, Invariance, PTL

(* The code slips only where a call died or a response was lost, if deletes  *)
(* of a row that is gone raise and no operation outlasts a deadline.         *)
THEOREM SlipsNeedFaults ==
  ASSUME ~SlowOperations, ~SilentDeletes
  PROVE  Spec => []NothingSlips
<1>1. IndInv => NothingSlips
  BY DEF IndInv
<1> QED
  BY <1>1, Invariance, PTL

(* What every step of the registry does to every investigation. *)
LEMMA EveryMove ==
  ASSUME IndInv, [Next]_vars
  PROVE  \A i \in Inv : Moves(i)
<1>1. TypeOK /\ Control /\ Unborn /\ Held /\ Unasked /\ (~SlowOperations => Settling)
  BY DEF IndInv, Structure, Rows
<1> QED
  BY <1>1, MovesStep

(* No sweep, read or retry of any replica, however late, destroys a record   *)
(* that is still in use, and no release one that the platform was asked for. *)
THEOREM NothingIsLost == Spec => DeletedOnlyWhenDone
<1>1. IndInv /\ [Next]_vars =>
        [\A i \in Inv : state[i] # "gone" /\ state'[i] = "gone"
           => Expired(i) \/ (state[i] = "reserved" /\ i \notin asked)]_vars
  BY EveryMove DEF Moves, Lapsing
<1> QED
  BY <1>1, Invariance, PTL DEF Spec, DeletedOnlyWhenDone

(* service-contract-v1.md:116: an investigation that is over stays over,     *)
(* unless the response to its own finalize was lost, as long as no operation *)
(* outlasts the gap between two deadlines of a row.                          *)
THEOREM OverIsOver == ASSUME ~SlowOperations PROVE Spec => ReopenedOnlyInDoubt
<1>1. IndInv /\ [Next]_vars =>
        [\A i \in Inv : state[i] = "closed"
           => state'[i] \in {"closed", "gone"} \/ (i \in doubtful /\ state'[i] = "active")]_vars
  BY EveryMove DEF Moves, OpenStates
<1> QED
  BY <1>1, Invariance, PTL DEF Spec, ReopenedOnlyInDoubt

-----------------------------------------------------------------------------
(* The refinement: what each step of the registry does to the lifecycle.     *)

Admitted(i) ==
  /\ blind \/ Cardinality(Open) < Quota + slips
  /\ state[i] = "free" /\ state' = [state EXCEPT ![i] = "reserved"]
  /\ UNCHANGED <<age, retained, slips, doubtful>>

Activated(i) ==
  /\ state[i] = "reserved" /\ state' = [state EXCEPT ![i] = "active"]
  /\ doubtful' \in {doubtful, doubtful \cup {i}}
  /\ UNCHANGED <<age, retained, slips>>

Reopened(i) ==
  /\ i \in doubtful
  /\ state[i] = "closed" /\ state' = [state EXCEPT ![i] = "active"]
  /\ slips' = slips + 1
  /\ UNCHANGED <<age, retained, doubtful>>

Terminated(i) ==
  /\ i \in Open /\ state' = [state EXCEPT ![i] = "closed"]
  /\ Prolong(i)
  /\ UNCHANGED <<slips, doubtful>>

Withdrawn(i) ==
  /\ state[i] = "reserved" /\ state' = [state EXCEPT ![i] = "gone"]
  /\ UNCHANGED <<age, retained, slips, doubtful>>

Removed(i) ==
  /\ Lapsing(i) /\ state' = [state EXCEPT ![i] = "gone"]
  /\ UNCHANGED <<age, retained, slips, doubtful>>

Aged(i) ==
  /\ state[i] # "free" /\ age[i] < (IF i \in retained THEN 3 ELSE 2)
  /\ age' = [age EXCEPT ![i] = @ + 1]
  /\ UNCHANGED <<state, retained, slips, doubtful>>

LifeMove ==
  \/ /\ UNCHANGED <<state, age, retained, doubtful>>
     /\ \/ blind' \in {blind, TRUE} /\ UNCHANGED slips
        \/ slips' = slips + 1 /\ UNCHANGED blind
  \/ /\ UNCHANGED blind
     /\ \E i \in Inv : \/ Admitted(i) \/ Activated(i) \/ Reopened(i) \/ Terminated(i)
                       \/ Withdrawn(i) \/ Removed(i) \/ Aged(i)

LEMMA LifeMoves ==
  ASSUME TypeOK, Control, Copies, Unborn, Held, Known, Settling, CounterCovers, [Next]_vars
  PROVE  LifeMove
<1>1. CASE Rest
  BY <1>1 DEF Rest, LifeMove, notes
<1>2. ASSUME NEW w \in Workers, ExpireRecord(w) PROVE LifeMove
  <2>1. loc[w].tgt \in Inv /\ UNCHANGED <<age, retained, blind, slips, doubtful>>
    BY <1>2 DEF ExpireRecord, notes, At, Control, ControlOf, TgtPcs
  <2>2. CASE loc[w].tgt \in fresh[w]
    <3>1. Lapsing(loc[w].tgt) /\ state' = [state EXCEPT ![loc[w].tgt] = "gone"]
      BY <1>2, <2>2 DEF ExpireRecord, At, Held, HeldBy
    <3> QED
      BY <2>1, <3>1 DEF LifeMove, Removed
  <2>3. CASE loc[w].tgt \notin fresh[w]
    BY <1>2, <2>1, <2>3 DEF ExpireRecord, LifeMove
  <2> QED
    BY <2>2, <2>3
<1>3. ASSUME NEW w \in Workers, SweepRecord(w) PROVE LifeMove
  <2>1. PICK i \in loc[w].batch \cap fresh[w] \cap Inv : state' = [state EXCEPT ![i] = "gone"]
    BY <1>3 DEF SweepRecord
  <2>2. Lapsing(i)
    BY <1>3 DEF Control, ControlOf, SweepRecord, At, Held, HeldBy
  <2>3. UNCHANGED <<age, retained, blind, slips, doubtful>>
    BY <1>3 DEF SweepRecord, notes
  <2> QED
    BY <2>1, <2>2, <2>3 DEF LifeMove, Removed
<1>4. ASSUME NEW w \in Workers, DecrementWrite(w) PROVE LifeMove
  BY <1>4 DEF DecrementWrite, LifeMove
<1>5. ASSUME NEW w \in Workers,
             \/ DecrementConflict(w) \/ RecountWrite(w) \/ PostUncertain(w) \/ PostSucceeds(w)
             \/ Abandon(w)
      PROVE  LifeMove
  BY <1>5 DEF DecrementConflict, RecountWrite, PostUncertain, PostSucceeds, Post, Abandon, LifeMove,
      table, aux, notes
<1>6. ASSUME NEW w \in Workers, Recount(w) PROVE LifeMove
  BY <1>6 DEF Recount, table, Hidden, LifeMove, TypeOK
<1>7. ASSUME NEW w \in Workers, Reserve(w) PROVE LifeMove
  <2>1. loc[w].id \in Inv /\ state[loc[w].id] = "free"
    BY <1>7 DEF Control, ControlOf, Unborn, Reserve, At, CreateOnlyPcs, CreatePcs
  <2>2. loc[w].cnt = counter /\ loc[w].cnt < Quota
    BY <1>7 DEF Reserve, At, Control, ControlOf, Copies
  <2>3. blind \/ Cardinality(Open) < Quota + slips
    BY <2>2, Sizes, NumbersAssumption DEF CounterCovers, TypeOK
  <2>4. /\ state' = [state EXCEPT ![loc[w].id] = "reserved"]
        /\ UNCHANGED <<age, retained, blind, slips, doubtful>>
    BY <1>7 DEF Reserve, aux, notes
  <2> QED
    BY <2>1, <2>3, <2>4 DEF LifeMove, Admitted
<1>8. ASSUME NEW w \in Workers, Finalize(w) PROVE LifeMove
  <2> DEFINE i == loc[w].id
  <2>1. i \in Inv /\ i \in Present /\ (state[i] # "reserved" => i \in doubtful)
    BY <1>8 DEF Settling, Known, KnownBy, Finalize, At, CreatePcs, Control, ControlOf
  <2>2. /\ state' = [state EXCEPT ![i] = "active"] /\ UNCHANGED <<age, retained, blind>>
        /\ slips' = (IF i \in Open THEN slips ELSE slips + 1)
        /\ doubtful' \in {doubtful, doubtful \cup {i}}
    BY <1>8 DEF Finalize
  <2>3. state[i] \in {"reserved", "active", "closed"}
    BY <2>1 DEF Present, TypeOK
  <2>4. CASE state[i] = "reserved"
    <3>1. slips' = slips
      BY <2>1, <2>2, <2>4 DEF Open, OpenStates
    <3> QED
      BY <2>1, <2>2, <2>4, <3>1 DEF LifeMove, Activated
  <2>5. CASE state[i] = "active"
    <3>1. slips' = slips /\ state' = state /\ doubtful' = doubtful
      BY <2>1, <2>2, <2>5 DEF Open, OpenStates, TypeOK
    <3> QED
      BY <2>2, <3>1 DEF LifeMove
  <2>6. CASE state[i] = "closed"
    <3>1. slips' = slips + 1 /\ doubtful' = doubtful
      BY <2>1, <2>2, <2>6 DEF Open, OpenStates
    <3> QED
      BY <2>1, <2>2, <2>6, <3>1 DEF LifeMove, Reopened
  <2> QED
    BY <2>3, <2>4, <2>5, <2>6
<1>9. ASSUME NEW w \in Workers, ReleaseDelete(w) PROVE LifeMove
  <2>1. loc[w].id \in Inv /\ state[loc[w].id] = "reserved"
    BY <1>9 DEF Held, HeldBy, ReleaseDelete, At, CreatePcs, Control, ControlOf
  <2>2. /\ state' = [state EXCEPT ![loc[w].id] = "gone"]
        /\ UNCHANGED <<age, retained, blind, slips, doubtful>>
    BY <1>9 DEF ReleaseDelete, aux, notes
  <2> QED
    BY <2>1, <2>2 DEF LifeMove, Withdrawn
<1>10. ASSUME NEW w \in Workers, Complete(w) \/ ReleaseStale(w) PROVE LifeMove
  <2>1. loc[w].tgt \in Open
    BY <1>10, ClosesOpen
  <2>2. /\ state' = [state EXCEPT ![loc[w].tgt] = "closed"] /\ Prolong(loc[w].tgt)
        /\ UNCHANGED <<blind, slips, doubtful>>
    BY <1>10 DEF Complete, ReleaseStale, CloseRecord, aux, notes
  <2> QED
    BY <2>1, <2>2 DEF LifeMove, Terminated, Open
<1>11. ASSUME NEW i \in Inv, Age(i) PROVE LifeMove
  BY <1>11 DEF Age, LifeMove, Aged, aux, notes
<1> QED
  BY <1>1, <1>2, <1>3, <1>4, <1>5, <1>6, <1>7, <1>8, <1>9, <1>10, <1>11, ActsStep DEF Acts

(* Every step of the registry is one of the lifecycle, or none. *)
LEMMA LifecycleStep ==
  ASSUME TypeOK, FreeRows, LifeMove
  PROVE  [Lifecycle!Next]_(Lifecycle!vars)
<1>1. CASE UNCHANGED <<state, age, retained, doubtful>>
  <2>1. Lapsed' = Lapsed
    BY <1>1 DEF Lapsed, Present, Expired
  <2>2. CASE blind' \in {blind, TRUE} /\ UNCHANGED slips
    BY <1>1, <2>1, <2>2 DEF Lifecycle!Next, Lifecycle!Miscount, Lifecycle!Certain, Lifecycle!vars
  <2>3. CASE slips' = slips + 1 /\ UNCHANGED blind
    BY <1>1, <2>1, <2>3 DEF Lifecycle!Next, Lifecycle!Slip
  <2>4. ASSUME NEW i \in Inv,
               \/ Admitted(i) \/ Activated(i) \/ Reopened(i) \/ Terminated(i)
               \/ Withdrawn(i) \/ Removed(i)
        PROVE  FALSE
    BY <1>1, <2>4 DEF Admitted, Activated, Reopened, Terminated, Withdrawn, Removed, Open, OpenStates,
        Lapsing, Present, TypeOK
  <2>5. ASSUME NEW i \in Inv, Aged(i) PROVE FALSE
    BY <1>1, <2>5 DEF Aged, TypeOK
  <2> QED
    BY <2>2, <2>3, <2>4, <2>5 DEF LifeMove
<1>2. ASSUME NEW i \in Inv, Admitted(i), UNCHANGED blind PROVE Lifecycle!Next
  <2>1. Lapsed' = Lapsed
    BY <1>2 DEF Admitted, Lapsed, Present, Expired, FreeRows, TypeOK
  <2>2. Lifecycle!Move(i, {"free"}, "reserved") /\ Lifecycle!Certain
    BY <1>2 DEF Admitted, Lifecycle!Move, Lifecycle!Certain
  <2>3. Open = Lifecycle!OpenLives
    BY DEF Open, OpenStates, Lifecycle!OpenLives
  <2>4. Lifecycle!Admit(i)
    <3>1. Lifecycle!Cardinality(Open) = Cardinality(Open)
      BY DEF Cardinality, Lifecycle!Cardinality
    <3>2. blind \/ Lifecycle!Cardinality(Lifecycle!OpenLives) < Quota + slips
      BY <1>2, <2>3, <3>1 DEF Admitted
    <3> QED
      BY <2>1, <2>2, <3>2 DEF Lifecycle!Admit
  <2> QED
    BY <2>4 DEF Lifecycle!Next
<1>3. ASSUME NEW i \in Inv, Activated(i), UNCHANGED blind PROVE Lifecycle!Next
  <2>1. Lapsed' = Lapsed
    BY <1>3 DEF Activated, Lapsed, Present, Expired, TypeOK
  <2>2. Lifecycle!Activate(i)
    BY <1>3, <2>1 DEF Activated, Lifecycle!Activate, Lifecycle!Move
  <2> QED
    BY <2>2 DEF Lifecycle!Next
<1>4. ASSUME NEW i \in Inv, Reopened(i), UNCHANGED blind PROVE Lifecycle!Next
  <2>1. Lapsed' = Lapsed
    BY <1>4 DEF Reopened, Lapsed, Present, Expired, TypeOK
  <2>2. Lifecycle!Reopen(i)
    BY <1>4, <2>1 DEF Reopened, Lifecycle!Reopen, Lifecycle!Move
  <2> QED
    BY <2>2 DEF Lifecycle!Next
<1>5. ASSUME NEW i \in Inv, Terminated(i), UNCHANGED blind PROVE Lifecycle!Next
  <2>1. Lapsed' = Lapsed \ {i}
    BY <1>5 DEF Terminated, Prolong, Lapsed, Present, Expired, Open, OpenStates, TypeOK
  <2>2. Lifecycle!Terminate(i)
    BY <1>5, <2>1 DEF Terminated, Open, OpenStates, Lifecycle!Terminate, Lifecycle!Move,
        Lifecycle!Certain
  <2> QED
    BY <2>2 DEF Lifecycle!Next
<1>6. ASSUME NEW i \in Inv, Withdrawn(i), UNCHANGED blind PROVE Lifecycle!Next
  <2>1. Lapsed' = Lapsed \ {i}
    BY <1>6 DEF Withdrawn, Lapsed, Present, Expired, TypeOK
  <2>2. Lifecycle!Withdraw(i)
    BY <1>6, <2>1 DEF Withdrawn, Lifecycle!Withdraw, Lifecycle!Move, Lifecycle!Certain
  <2> QED
    BY <2>2 DEF Lifecycle!Next
<1>7. ASSUME NEW i \in Inv, Removed(i), UNCHANGED blind PROVE Lifecycle!Next
  <2>1. Lapsed' = Lapsed \ {i}
    BY <1>7 DEF Removed, Lapsed, Present, Expired, TypeOK
  <2>2. i \in Lapsed /\ state[i] \in {"reserved", "active", "closed"}
    BY <1>7 DEF Removed, Lapsing, Lapsed, Present, TypeOK
  <2>3. Lifecycle!Remove(i)
    BY <1>7, <2>1, <2>2 DEF Removed, Lifecycle!Remove, Lifecycle!Move, Lifecycle!Certain
  <2> QED
    BY <2>3 DEF Lifecycle!Next
<1>8. ASSUME NEW i \in Inv, Aged(i), UNCHANGED blind PROVE [Lifecycle!Next]_(Lifecycle!vars)
  <2>1. \A j \in Inv \ {i} : j \in Lapsed' <=> j \in Lapsed
    BY <1>8 DEF Aged, Lapsed, Present, Expired, TypeOK
  <2>2. CASE Lapsed' = Lapsed
    BY <1>8, <2>2 DEF Aged, Lifecycle!vars
  <2>3. CASE Lapsed' # Lapsed
    <3>1. (i \in Lapsed) => (i \in Lapsed')
      BY <1>8 DEF Aged, Lapsed, Present, Expired, TypeOK
    <3>2. Lapsed \subseteq Inv /\ Lapsed' \subseteq Inv
      BY DEF Lapsed, Present
    <3>3. Lapsed' = Lapsed \cup {i} /\ i \notin Lapsed
      BY <2>1, <2>3, <3>1, <3>2
    <3>4. state[i] \in {"reserved", "active", "closed"}
      BY <1>8, <3>3 DEF Aged, Lapsed, Present, TypeOK
    <3>5. Lifecycle!Lapse(i)
      BY <1>8, <3>3, <3>4 DEF Aged, Lifecycle!Lapse, Lifecycle!Certain
    <3> QED
      BY <3>5 DEF Lifecycle!Next
  <2> QED
    BY <2>2, <2>3
<1> QED
  BY <1>1, <1>2, <1>3, <1>4, <1>5, <1>6, <1>7, <1>8 DEF LifeMove

(* The registry implements the lifecycle of service-contract-v1.md, its      *)
(* quota at admission and its retention, but for the slips and the           *)
(* reopenings that the lifecycle names, whatever the number of replicas,     *)
(* investigations and keys, as long as no operation outlasts the gap between *)
(* two deadlines of a row.                                                   *)
THEOREM LifecycleIsImplemented == ASSUME ~SlowOperations PROVE Spec => ImplementsLifecycle
<1>1. IndInv => /\ TypeOK /\ FreeRows /\ Control /\ Copies /\ Unborn /\ Held /\ Known
                /\ Settling /\ CounterCovers
  BY DEF IndInv, Structure, Rows, Keyed, Counts
<1>2. Init => Lifecycle!Init
  BY DEF Init, Lifecycle!Init, Lapsed, Present
<1>3. IndInv /\ [Next]_vars => [Lifecycle!Next]_(Lifecycle!vars)
  BY <1>1, LifeMoves, LifecycleStep
<1> QED
  BY <1>2, <1>3, Invariance, PTL DEF Spec, ImplementsLifecycle, Lifecycle!Spec

-----------------------------------------------------------------------------
(* reserve_investigation answers 429 only when a recount found as many       *)
(* unexpired rows as the quota allows: the open investigations, and the      *)
(* index rows that are counted with them.                                    *)
LEMMA DeniedWhenCounted ==
  ASSUME IndInv, NEW w \in Workers, DenyQuota(w)
  PROVE  Cardinality(Live) + Cardinality(IndexRows \ StaleIndex) >= Quota
<1>1. loc[w].cnt >= Quota
  BY DEF IndInv, Structure, Control, ControlOf, DenyQuota, At
<1> QED
  BY <1>1 DEF DenyQuota, Counted

(* Keyed or not, nobody is denied while the rows that count, index rows      *)
(* included, are fewer than the quota.                                       *)
THEOREM DenialIsCounted ==
  Spec => [][\A w \in Workers : DenyQuota(w)
               => Cardinality(Live) + Cardinality(IndexRows \ StaleIndex) >= Quota]_vars
<1>1. IndInv /\ [Next]_vars =>
        [\A w \in Workers : DenyQuota(w)
           => Cardinality(Live) + Cardinality(IndexRows \ StaleIndex) >= Quota]_vars
  BY DeniedWhenCounted
<1> QED
  BY <1>1, Invariance, PTL DEF Spec

(* service-contract-v1.md:96 for callers that use no idempotency keys: the   *)
(* quota denies only what the open, unexpired investigations fill, however   *)
(* the counter got out of step (_reconcile_quota_counter).                   *)
THEOREM DenialIsDue == ASSUME Keys = {} PROVE Spec => DeniedOnlyWhenFull
<1>1. IndInv /\ [Next]_vars =>
        [\A w \in Workers : DenyQuota(w) => Cardinality(Live) >= Quota]_vars
  <2>1. Cardinality(IndexRows \ StaleIndex) = 0
    BY FS_EmptySet DEF IndexRows
  <2>2. TypeOK => Cardinality(Live) \in Nat
    <3>1. IsFiniteSet(Live)
      BY FiniteAssumption, FS_Subset DEF Live, Open
    <3> QED
      BY <3>1, FS_CardinalityType
  <2> QED
    BY <2>1, <2>2, DeniedWhenCounted DEF IndInv, Structure
<1> QED
  BY <1>1, Invariance, PTL DEF Spec, DeniedOnlyWhenFull
-----------------------------------------------------------------------------
(* Until an investigation of a key is deleted or outlives its retention, it  *)
(* is the only one and the index row leads to it: however requests, sweeps   *)
(* and crashes overlap, and however slow an operation is                     *)
(* (reserve_investigation, cleanup_expired, get_investigation).              *)
THEOREM KeyTheorem == Spec => []KeyKeepsItsRecord
<1>1. IndInv => KeyKeepsItsRecord
  BY DEF IndInv, Keyed
<1> QED
  BY <1>1, Invariance, PTL

(* The places of create_investigation after find_by_idempotency_key and      *)
(* before the transaction.                                                   *)
CheckedPcs == {"sweepQuery", "sweepNext", "sweepIndex", "decRead", "decWrite", "readCounter",
               "recount", "recountWrite", "submit"}

(* There, a request with a key knows that no unexpired record has the key.   *)
Checked(w) == loc[w].op = "create" /\ loc[w].req # None /\ loc[w].pc \in CheckedPcs =>
  \A i \in Present : keyOf[i] = loc[w].req => Expired(i)

(* The records that are left keep their keys, and none becomes unexpired.    *)
Shrinks == \A i \in Present' : i \in Present /\ keyOf'[i] = keyOf[i] /\ (Expired(i) => Expired(i)')

(* A step keeps what the request knows if it takes it elsewhere, or adds no  *)
(* record and revives none.                                                  *)
LEMMA CheckedKept ==
  ASSUME NEW w \in Workers, Checked(w),
         \/ loc'[w].pc \notin CheckedPcs
         \/ loc'[w].op # "create"
         \/ /\ loc[w].pc \in CheckedPcs /\ Shrinks
            /\ loc'[w].op = loc[w].op /\ loc'[w].req = loc[w].req
  PROVE  Checked(w)'
  BY DEF Checked, Shrinks

(* A step that leaves the records alone adds and revives none.               *)
LEMMA ShrinksStill == ASSUME UNCHANGED <<state, age, retained, keyOf>> PROVE Shrinks
  BY DEF Shrinks, Present, Expired

(* Where another attempt leads, its worker's request is as it was.           *)
LEMMA TriesAgain ==
  ASSUME LocOK, NEW w \in Workers, NEW p, TryAgain(w, p)
  PROVE  \/ loc'[w].pc = "idle"
         \/ loc'[w].pc = p /\ loc'[w].op = loc[w].op /\ loc'[w].req = loc[w].req
  BY Again DEF SameTask, End, Becomes, Idle, LocOK

(* One worker alone keeps what its request has checked.                      *)
LEMMA CheckedStep ==
  ASSUME TypeOK, LocOK, Control, NEW w \in Workers, Workers = {w}, Checked(w), [Next]_vars
  PROVE  Checked(w)'

<1>1. ASSUME NEW u \in Workers, ReadIndex(u) PROVE Checked(w)'
  <2> DEFINE l == [loc[w] EXCEPT !.pc = "fallback"]
             m == [loc[w] EXCEPT !.pc = "get", !.tgt = index[loc[w].req]]
  <2>1. loc'[w] = Idle \/ loc'[w] = l \/ loc'[w] = m
    BY <1>1 DEF LocOK, ReadIndex, NotFound, GoTo, End, Becomes
  <2>2. Idle.pc = "idle" /\ l.pc = "fallback" /\ m.pc = "get"
    BY FieldTypes DEF Operation, Idle
  <2>3. loc'[w].pc \in {"idle", "fallback", "get"}
    BY <2>1, <2>2
  <2> QED
    BY <2>3, CheckedKept DEF CheckedPcs
<1>2. ASSUME NEW u \in Workers, GetRecord(u) PROVE Checked(w)'
  <2>1. loc'[w].pc \in {"idle", "unindex", "expire"}
    BY <1>2 DEF LocOK, Operation, GetRecord, GoTo, End, Becomes, Idle
  <2> QED
    BY <2>1, CheckedKept DEF CheckedPcs
<1>3. ASSUME NEW u \in Workers, ExpireRecord(u) PROVE Checked(w)'
  <2>1. loc'[w].pc \in {"idle", "fallback", "unindex"}
    BY <1>3 DEF LocOK, Operation, ExpireRecord, ExpireEnds, Fault, notes, NotFound, GoTo, End,
        Becomes, Idle
  <2> QED
    BY <2>1, CheckedKept DEF CheckedPcs
<1>4. ASSUME NEW u \in Workers, Unindex(u) PROVE Checked(w)'
  <2>1. loc'[w].pc \in {"idle", "fallback"}
    BY <1>4 DEF LocOK, Operation, Unindex, NotFound, GoTo, End, Becomes, Idle
  <2> QED
    BY <2>1, CheckedKept DEF CheckedPcs
<1>5. ASSUME NEW u \in Workers, FallbackQuery(u) PROVE Checked(w)'
  <2>1. CASE loc'[w].pc \notin CheckedPcs
    BY <2>1, CheckedKept
  <2>2. CASE loc'[w].pc \in CheckedPcs
    <3>1. loc'[w] # Idle
      BY <2>2 DEF Idle, CheckedPcs
    <3>2. GoTo(u, "sweepQuery") /\ ~\E i \in Present : keyOf[i] = loc[u].req /\ ~Expired(i)
      BY <1>5, <3>1 DEF LocOK, FallbackQuery, End, Becomes
    <3>3. loc'[w].req = loc[w].req
      BY <3>2 DEF LocOK, Operation, GoTo, Becomes
    <3>4. \A i \in Present : keyOf[i] = loc[w].req => Expired(i)
      BY <3>2
    <3> QED
      BY <1>5, <3>3, <3>4 DEF FallbackQuery, table, Checked, Present, Expired
  <2> QED
    BY <2>1, <2>2
<1>6. ASSUME NEW u \in Workers, SweepQuery(u) PROVE Checked(w)'
  <2>1. loc[w].pc \in CheckedPcs /\ loc'[w].op = loc[w].op /\ loc'[w].req = loc[w].req
    BY <1>6 DEF LocOK, Operation, SweepQuery, At, Becomes, CheckedPcs
  <2>2. Shrinks
    BY <1>6, ShrinksStill DEF SweepQuery, table
  <2> QED
    BY <2>1, <2>2, CheckedKept
<1>7. ASSUME NEW u \in Workers, SweepSkip(u) PROVE Checked(w)'
  <2>1. loc[w].pc \in CheckedPcs /\ loc'[w].op = loc[w].op /\ loc'[w].req = loc[w].req
    BY <1>7 DEF LocOK, Operation, SweepSkip, At, Becomes, CheckedPcs
  <2>2. Shrinks
    BY <1>7, ShrinksStill DEF SweepSkip, table
  <2> QED
    BY <2>1, <2>2, CheckedKept
<1>8. ASSUME NEW u \in Workers, SweepIndexRow(u) PROVE Checked(w)'
  <2>1. loc[w].pc \in CheckedPcs /\ loc'[w].op = loc[w].op /\ loc'[w].req = loc[w].req
    BY <1>8 DEF LocOK, Operation, SweepIndexRow, At, Becomes, CheckedPcs
  <2>2. Shrinks
    BY <1>8, ShrinksStill DEF SweepIndexRow
  <2> QED
    BY <2>1, <2>2, CheckedKept
<1>9. ASSUME NEW u \in Workers, SweepRecord(u) PROVE Checked(w)'
  <2>1. PICK i \in loc[u].batch \cap fresh[u] \cap Inv :
          /\ state' = [state EXCEPT ![i] = "gone"]
          /\ SweepDeleted(u, i) \/ Becomes(u, [loc[u] EXCEPT !.batch = @ \ {i}])
    BY <1>9 DEF SweepRecord
  <2>2. loc'[w].op = loc[w].op /\ loc'[w].req = loc[w].req
    <3>1. u = w
      OBVIOUS
    <3>2. CASE SweepDeleted(u, i)
      BY <3>1, <3>2, Deleted
    <3>3. CASE Becomes(u, [loc[u] EXCEPT !.batch = @ \ {i}])
      BY <3>1, <3>3 DEF LocOK, Operation, Becomes
    <3> QED
      BY <2>1, <3>2, <3>3
  <2>3. loc[w].pc \in CheckedPcs
    BY <1>9 DEF SweepRecord, At, CheckedPcs
  <2>4. Shrinks
    BY <1>9, <2>1 DEF TypeOK, SweepRecord, notes, Shrinks, Present, Expired
  <2> QED
    BY <2>2, <2>3, <2>4, CheckedKept
<1>9a. ASSUME NEW u \in Workers, SweepGone(u) PROVE Checked(w)'
  <2>1. PICK i \in loc[u].batch \cap Inv : SweepDeleted(u, i)
    BY <1>9a DEF SweepGone
  <2>2. u = w
    OBVIOUS
  <2>3. loc'[w].op = loc[w].op /\ loc'[w].req = loc[w].req
    BY <2>1, <2>2, Deleted
  <2>4. loc[w].pc \in CheckedPcs
    BY <1>9a DEF SweepGone, At, CheckedPcs
  <2>5. Shrinks
    BY <1>9a, ShrinksStill DEF SweepGone, table
  <2> QED
    BY <2>3, <2>4, <2>5, CheckedKept
<1>10. ASSUME NEW u \in Workers, SweepIndexOf(u) PROVE Checked(w)'
  <2>1. loc[w].pc \in CheckedPcs /\ loc'[w].op = loc[w].op /\ loc'[w].req = loc[w].req
    BY <1>10 DEF LocOK, Operation, SweepIndexOf, At, Becomes, GoTo, CheckedPcs
  <2>2. Shrinks
    BY <1>10, ShrinksStill DEF SweepIndexOf
  <2> QED
    BY <2>1, <2>2, CheckedKept
<1>11. ASSUME NEW u \in Workers, SweepDone(u) PROVE Checked(w)'
  <2> DEFINE l == [loc[w] EXCEPT !.pc = "readCounter", !.tgt = None, !.tries = 0, !.slots = {}]
  <2>1. loc'[w] = Idle \/ loc'[w] = l
    BY <1>11 DEF LocOK, SweepDone, Becomes, End
  <2>2. Idle.pc = "idle" /\ l.op = loc[w].op /\ l.req = loc[w].req
    BY FieldTypes DEF Operation, Idle
  <2>3. loc[w].pc \in CheckedPcs /\ Shrinks
    BY <1>11, ShrinksStill DEF SweepDone, At, CheckedPcs, table
  <2> QED
    BY <2>1, <2>2, <2>3, CheckedKept DEF CheckedPcs
<1>12. ASSUME NEW u \in Workers, DecrementRead(u) PROVE Checked(w)'
  <2>1. loc[w].pc \in CheckedPcs /\ loc'[w].op = loc[w].op /\ loc'[w].req = loc[w].req
    BY <1>12 DEF LocOK, Operation, DecrementRead, At, Becomes, CheckedPcs
  <2>2. Shrinks
    BY <1>12, ShrinksStill DEF DecrementRead, table
  <2> QED
    BY <2>1, <2>2, CheckedKept
<1>13. ASSUME NEW u \in Workers, DecrementWrite(u) PROVE Checked(w)'
  <2>1. u = w
    OBVIOUS
  <2>2. loc[w].pc \in CheckedPcs /\ Shrinks
    BY <1>13, ShrinksStill DEF DecrementWrite, At, CheckedPcs
  <2>3. CASE DecrementDone(w)
    <3> DEFINE l == [loc[w] EXCEPT !.pc = "sweepNext", !.cnt = 0, !.tries = 0, !.tgt = None]
    <3>1. loc'[w] = Idle \/ loc'[w] = l
      BY <2>3 DEF LocOK, DecrementDone, Becomes, End
    <3>2. Idle.pc = "idle" /\ l.op = loc[w].op /\ l.req = loc[w].req
      BY FieldTypes DEF Operation, Idle
    <3> QED
      BY <2>2, <3>1, <3>2, CheckedKept DEF CheckedPcs
  <2>4. CASE DecrementAgain(w, {Counter})
    BY <2>2, <2>4, TriesAgain, CheckedKept DEF DecrementAgain, CheckedPcs
  <2> QED
    BY <1>13, <2>1, <2>3, <2>4 DEF DecrementWrite
<1>14. ASSUME NEW u \in Workers, DecrementConflict(u) PROVE Checked(w)'
  <2>1. TryAgain(w, "decRead")
    BY <1>14 DEF DecrementConflict, DecrementAgain
  <2>2. loc[w].pc \in CheckedPcs /\ Shrinks
    BY <1>14, ShrinksStill DEF DecrementConflict, At, CheckedPcs, table
  <2> QED
    BY <2>1, <2>2, TriesAgain, CheckedKept DEF CheckedPcs
<1>15. ASSUME NEW u \in Workers, ReadCounter(u) PROVE Checked(w)'
  <2>1. loc[w].pc \in CheckedPcs /\ loc'[w].op = loc[w].op /\ loc'[w].req = loc[w].req
    BY <1>15 DEF LocOK, Operation, ReadCounter, At, Becomes, CheckedPcs
  <2>2. Shrinks
    BY <1>15, ShrinksStill DEF ReadCounter, table
  <2> QED
    BY <2>1, <2>2, CheckedKept
<1>16. ASSUME NEW u \in Workers, DenyQuota(u) PROVE Checked(w)'
  <2>1. loc'[w].pc \in {"idle"}
    BY <1>16 DEF LocOK, Operation, DenyQuota, End, Becomes, Idle
  <2> QED
    BY <2>1, CheckedKept DEF CheckedPcs
<1>17. ASSUME NEW u \in Workers, Recount(u) PROVE Checked(w)'
  <2>1. loc[w].pc \in CheckedPcs /\ loc'[w].op = loc[w].op /\ loc'[w].req = loc[w].req
    BY <1>17 DEF LocOK, Operation, Recount, At, Becomes, CheckedPcs
  <2>2. Shrinks
    BY <1>17, ShrinksStill DEF Recount, table
  <2> QED
    BY <2>1, <2>2, CheckedKept
<1>18. ASSUME NEW u \in Workers, RecountWrite(u) PROVE Checked(w)'
  <2> DEFINE l == [loc[w] EXCEPT !.pc = "readCounter", !.tries = @ + 1, !.cnt = 0, !.tally = 0]
  <2>1. loc'[w] = Idle \/ loc'[w] = l
    BY <1>18 DEF LocOK, RecountWrite, Becomes, End
  <2>2. Idle.pc = "idle" /\ l.op = loc[w].op /\ l.req = loc[w].req
    BY FieldTypes DEF Operation, Idle
  <2>3. loc[w].pc \in CheckedPcs /\ Shrinks
    BY <1>18, ShrinksStill DEF RecountWrite, At, CheckedPcs
  <2> QED
    BY <2>1, <2>2, <2>3, CheckedKept DEF CheckedPcs
<1>19. ASSUME NEW u \in Workers, Reserve(u) PROVE Checked(w)'
  <2>1. loc'[w].pc \in {"platform"}
    BY <1>19 DEF LocOK, Operation, Reserve, Remember
  <2> QED
    BY <2>1, CheckedKept DEF CheckedPcs
<1>20. ASSUME NEW u \in Workers, ReserveConflict(u) PROVE Checked(w)'
  <2>1. TryAgain(w, "readCounter")
    BY <1>20 DEF ReserveConflict, Retry
  <2>2. loc[w].pc \in CheckedPcs /\ Shrinks
    BY <1>20, ShrinksStill DEF ReserveConflict, At, CheckedPcs, table
  <2> QED
    BY <2>1, <2>2, TriesAgain, CheckedKept DEF CheckedPcs
<1>21. ASSUME NEW u \in Workers, ReserveDuplicate(u) PROVE Checked(w)'
  <2>1. loc'[w].pc \in {"index"}
    BY <1>21 DEF LocOK, Operation, ReserveDuplicate, Becomes
  <2> QED
    BY <2>1, CheckedKept DEF CheckedPcs
<1>22. ASSUME NEW u \in Workers, TokenFails(u) PROVE Checked(w)'
  <2>1. loc'[w].pc \in {"relRead"}
    BY <1>22 DEF LocOK, Operation, TokenFails, Becomes
  <2> QED
    BY <2>1, CheckedKept DEF CheckedPcs
<1>23. ASSUME NEW u \in Workers, PostUncertain(u) PROVE Checked(w)'
  <2>1. loc'[w].pc \in {"idle"}
    BY <1>23 DEF LocOK, Operation, PostUncertain, Post, End, Becomes, Idle
  <2> QED
    BY <2>1, CheckedKept DEF CheckedPcs
<1>24. ASSUME NEW u \in Workers, PostSucceeds(u) PROVE Checked(w)'
  <2>1. loc'[w].pc \in {"finRead"}
    BY <1>24 DEF LocOK, Operation, PostSucceeds, Post, GoTo, Becomes
  <2> QED
    BY <2>1, CheckedKept DEF CheckedPcs
<1>25. ASSUME NEW u \in Workers, FinalizeRead(u) PROVE Checked(w)'
  <2>1. loc'[w].pc \in {"idle", "finWrite"}
    BY <1>25 DEF LocOK, Operation, FinalizeRead, GoTo, End, Becomes, Idle
  <2> QED
    BY <2>1, CheckedKept DEF CheckedPcs
<1>26. ASSUME NEW u \in Workers, Finalize(u) PROVE Checked(w)'
  <2>1. loc'[w].pc = "idle" \/ TryAgain(w, "finRead")
    BY <1>26 DEF LocOK, Finalize, End, Becomes, Idle
  <2> QED
    BY <2>1, TriesAgain, CheckedKept DEF CheckedPcs
<1>27. ASSUME NEW u \in Workers, FinalizeConflict(u) PROVE Checked(w)'
  <2>1. loc'[w].pc = "idle" \/ TryAgain(w, "finRead")
    BY <1>27 DEF LocOK, FinalizeConflict, Retry, End, Becomes, Idle
  <2> QED
    BY <2>1, TriesAgain, CheckedKept DEF CheckedPcs
<1>28. ASSUME NEW u \in Workers, ReleaseRead(u) PROVE Checked(w)'
  <2>1. loc'[w].pc \in {"idle", "relDelete"}
    BY <1>28 DEF LocOK, Operation, ReleaseRead, GoTo, End, Becomes, Idle
  <2> QED
    BY <2>1, CheckedKept DEF CheckedPcs
<1>29. ASSUME NEW u \in Workers, ReleaseDelete(u) PROVE Checked(w)'
  <2>1. loc'[w].op # "create"
    BY <1>29 DEF LocOK, Operation, ReleaseDelete, At, Control, ControlOf, Becomes
  <2> QED
    BY <2>1, CheckedKept
<1>30. ASSUME NEW u \in Workers, ReleaseConflict(u) PROVE Checked(w)'
  <2>1. loc'[w].op # "create" \/ loc'[w].pc = "idle" \/ TryAgain(w, "relRead")
    <3> DEFINE l == [loc[w] EXCEPT !.pc = "decRead", !.tries = 0]
    <3>1. loc'[w] = Idle \/ loc'[w] = l \/ TryAgain(w, "relRead")
      BY <1>30 DEF LocOK, ReleaseConflict, End, Becomes
    <3>2. loc[w].op = "release"
      BY <1>30 DEF ReleaseConflict, At, Control, ControlOf
    <3>3. Idle.pc = "idle" /\ l.op = loc[w].op
      BY FieldTypes DEF Operation, Idle
    <3> QED
      BY <3>1, <3>2, <3>3
  <2> QED
    BY <2>1, TriesAgain, CheckedKept DEF CheckedPcs
<1>31. ASSUME NEW u \in Workers, CompleteRead(u) PROVE Checked(w)'
  <2>1. loc'[w].pc \in {"idle", "cmpCounter"}
    BY <1>31 DEF LocOK, Operation, CompleteRead, GoTo, End, Becomes, Idle
  <2> QED
    BY <2>1, CheckedKept DEF CheckedPcs
<1>32. ASSUME NEW u \in Workers, CompleteCounter(u) PROVE Checked(w)'
  <2>1. loc'[w].pc \in {"cmpSubmit"}
    BY <1>32 DEF LocOK, Operation, CompleteCounter, Becomes
  <2> QED
    BY <2>1, CheckedKept DEF CheckedPcs
<1>33. ASSUME NEW u \in Workers, Complete(u) PROVE Checked(w)'
  <2>1. loc'[w].pc \in {"idle"}
    BY <1>33 DEF LocOK, Operation, Complete, End, Becomes, Idle
  <2> QED
    BY <2>1, CheckedKept DEF CheckedPcs
<1>34. ASSUME NEW u \in Workers, CompleteConflict(u) PROVE Checked(w)'
  <2>1. loc'[w].pc = "idle" \/ TryAgain(w, "cmpRead")
    BY <1>34 DEF LocOK, CompleteConflict, Retry, End, Becomes, Idle
  <2> QED
    BY <2>1, TriesAgain, CheckedKept DEF CheckedPcs
<1>35. ASSUME NEW u \in Workers, StaleNext(u) PROVE Checked(w)'
  <2>1. loc'[w].pc \in {"staleSubmit"}
    BY <1>35 DEF LocOK, Operation, StaleNext, Becomes
  <2> QED
    BY <2>1, CheckedKept DEF CheckedPcs
<1>36. ASSUME NEW u \in Workers, ReleaseStale(u) PROVE Checked(w)'
  <2>1. loc'[w].pc \in {"idle", "staleNext"}
    <3> DEFINE l == [loc[w] EXCEPT !.pc = "staleNext", !.tgt = None, !.cnt = 0]
    <3>1. loc'[w] = Idle \/ loc'[w] = l
      BY <1>36 DEF LocOK, ReleaseStale, StaleContinue, End, Becomes
    <3>2. Idle.pc = "idle" /\ l.pc = "staleNext"
      BY FieldTypes DEF Operation, Idle
    <3> QED
      BY <3>1, <3>2
  <2> QED
    BY <2>1, CheckedKept DEF CheckedPcs
<1>37. ASSUME NEW u \in Workers, StaleConflict(u) PROVE Checked(w)'
  <2>1. loc'[w].pc \in {"idle", "staleNext"}
    <3> DEFINE l == [loc[w] EXCEPT !.pc = "staleNext", !.tgt = None, !.cnt = 0]
    <3>1. loc'[w] = Idle \/ loc'[w] = l
      BY <1>37 DEF LocOK, StaleConflict, StaleContinue, End, Becomes
    <3>2. Idle.pc = "idle" /\ l.pc = "staleNext"
      BY FieldTypes DEF Operation, Idle
    <3> QED
      BY <3>1, <3>2
  <2> QED
    BY <2>1, CheckedKept DEF CheckedPcs
<1>38. ASSUME NEW u \in Workers, StartSweep(u) PROVE Checked(w)'
  <2>1. loc'[w].op # "create"
    BY <1>38 DEF LocOK, StartSweep, Becomes, Idle
  <2> QED
    BY <2>1, CheckedKept
<1>39. ASSUME NEW u \in Workers, StartReleaseStale(u) PROVE Checked(w)'
  <2>1. loc'[w].pc \in {"staleNext"}
    BY <1>39 DEF LocOK, Operation, StartReleaseStale, Becomes, Idle
  <2> QED
    BY <2>1, CheckedKept DEF CheckedPcs
<1>40. ASSUME NEW u \in Workers, Abandon(u) PROVE Checked(w)'
  <2>1. loc'[w].pc \in {"idle"}
    BY <1>40 DEF LocOK, Operation, Abandon, Fault, notes, End, Becomes, Idle
  <2> QED
    BY <2>1, CheckedKept DEF CheckedPcs
<1>41. ASSUME NEW u \in Workers, NEW i \in Inv, StartRead(u, i) PROVE Checked(w)'
  <2>1. loc'[w].pc \in {"expire"}
    BY <1>41 DEF LocOK, Operation, StartRead, Becomes, Idle
  <2> QED
    BY <2>1, CheckedKept DEF CheckedPcs
<1>42. ASSUME NEW u \in Workers, NEW i \in Inv, StartComplete(u, i) PROVE Checked(w)'
  <2>1. loc'[w].pc \in {"cmpRead"}
    BY <1>42 DEF LocOK, Operation, StartComplete, Becomes, Idle
  <2> QED
    BY <2>1, CheckedKept DEF CheckedPcs
<1>43. ASSUME NEW u \in Workers, NEW i \in Inv, NEW k \in Keys \cup {None}, StartCreate(u, k, i) PROVE Checked(w)'
  <2>1. CASE k = None
    <3>1. loc'[w].req = None
      BY <1>43, <2>1 DEF LocOK, StartCreate, Becomes, Idle
    <3> QED
      BY <3>1 DEF Checked
  <2>2. CASE k # None
    <3>1. loc'[w].pc = "index"
      BY <1>43, <2>2 DEF LocOK, StartCreate, Becomes, Idle
    <3> QED
      BY <3>1, CheckedKept DEF CheckedPcs
  <2> QED
    BY <2>1, <2>2
<1>44. ASSUME NEW i \in Inv, Age(i) PROVE Checked(w)'
  <2>1. loc'[w].op = loc[w].op /\ loc'[w].req = loc[w].req /\ loc'[w].pc = loc[w].pc
    BY <1>44 DEF LocOK, Operation, Age, Remember
  <2>2. Shrinks
    <3> SUFFICES ASSUME NEW j \in Present'
                 PROVE  j \in Present /\ keyOf'[j] = keyOf[j] /\ (Expired(j) => Expired(j)')
      BY DEF Shrinks
    <3>1. j \in Present /\ keyOf'[j] = keyOf[j] /\ retained' = retained
      BY <1>44 DEF Age, Present
    <3>2. Expired(j) => j # i
      BY <1>44 DEF Age, Expired, TypeOK
    <3>3. j # i => age'[j] = age[j]
      BY <1>44 DEF Age, TypeOK
    <3> QED
      BY <3>1, <3>2, <3>3 DEF Expired
  <2> QED
    BY <2>1, <2>2, CheckedKept
<1>45. ASSUME NEW i \in Inv, Touch(i) PROVE Checked(w)'
  BY <1>45, ShrinksStill DEF Touch, notes, table, Checked, Present, Expired
<1>46. ASSUME UNCHANGED vars PROVE Checked(w)'
  BY <1>46 DEF vars, Checked, Present, Expired
<1> QED
  BY <1>1, <1>2, <1>3, <1>4, <1>5, <1>6, <1>7, <1>8, <1>9, <1>9a, <1>10, <1>11, <1>12,
      <1>13, <1>14, <1>15, <1>16, <1>17, <1>18, <1>19, <1>20, <1>21, <1>22, <1>23, <1>24, <1>25,
      <1>26, <1>27, <1>28, <1>29, <1>30, <1>31, <1>32, <1>33, <1>34, <1>35, <1>36, <1>37,
      <1>38, <1>39, <1>40, <1>41, <1>42, <1>43, <1>44, <1>45, <1>46 DEF Next, Step,
      FindStep, SweepStep, DecStep, ReserveStep, PlatformStep, SettleStep, CompleteStep,
      StaleStep

(* Only the transaction gives a record its key.                              *)
LEMMA KeyOnlyByReserve ==
  ASSUME [Next]_vars, keyOf' # keyOf
  PROVE  \E w \in Workers : Reserve(w)
<1>1. \A w \in Workers : ~FindStep(w)
  BY DEF FindStep, ReadIndex, GetRecord, ExpireRecord, ExpireEnds, Fault, notes, Unindex,
      FallbackQuery, table
<1>2. \A w \in Workers : ~SweepStep(w)
  BY DEF SweepStep, SweepQuery, SweepSkip, SweepIndexRow, SweepRecord, SweepGone, SweepIndexOf, SweepDone, table
<1>3. \A w \in Workers : ~DecStep(w) /\ ~PlatformStep(w)
  BY DEF DecStep, DecrementRead, DecrementWrite, DecrementDone, DecrementAgain, TryAgain,
      MayRetry, Fault, DecrementConflict, PlatformStep, TokenFails, PostUncertain, Post,
      PostSucceeds, table
<1>4. \A w \in Workers : ReserveStep(w) => Reserve(w)
  BY DEF ReserveStep, ReadCounter, DenyQuota, Recount, RecountWrite, ReserveConflict,
      ReserveDuplicate, table
<1>5. \A w \in Workers : ~SettleStep(w)
  BY DEF SettleStep, FinalizeRead, Finalize, TryAgain, MayRetry, Fault, FinalizeConflict,
      ReleaseRead, ReleaseDelete, ReleaseConflict, table
<1>6. \A w \in Workers : ~CompleteStep(w) /\ ~StaleStep(w)
  BY DEF CompleteStep, CompleteRead, CompleteCounter, Complete, CompleteConflict, CloseRecord,
      Prolong, StaleStep, StaleNext, ReleaseStale, StaleConflict, table
<1>7. \A w \in Workers : ~StartSweep(w) /\ ~StartReleaseStale(w) /\ ~Abandon(w)
  BY DEF StartSweep, StartReleaseStale, Abandon, Fault, notes, table
<1>8. \A w \in Workers, i \in Inv : /\ ~StartRead(w, i) /\ ~StartComplete(w, i)
                                    /\ \A k \in Keys \cup {None} : ~StartCreate(w, k, i)
  BY DEF StartRead, StartComplete, StartCreate, table
<1>9. \A i \in Inv : ~Age(i) /\ ~Touch(i)
  BY DEF Age, Touch, notes, table
<1>10. PICK w \in Workers : Step(w)
  BY <1>7, <1>8, <1>9 DEF Next, vars
<1> QED
  BY <1>1, <1>2, <1>3, <1>4, <1>5, <1>6, <1>10 DEF Step

(* operations.md:64-65: when operations do not overlap, a repeated request   *)
(* creates nothing beside an unexpired investigation of the same key, even   *)
(* after a sweep or a crash has taken the index row (create_investigation,   *)
(* find_by_idempotency_key).                                                 *)
THEOREM ReplayTheorem == ASSUME NEW w \in Workers, Workers = {w} PROVE Spec => RepeatIsReplay
<1>1. Init => Checked(w)
  BY DEF Init, Checked, Idle, CheckedPcs
<1>2. IndInv /\ Checked(w) /\ [Next]_vars => Checked(w)'
  BY CheckedStep DEF IndInv, Structure, TypeOK, LocOK
<1>3. IndInv /\ Checked(w) /\ [Next]_vars =>
        [\A i \in Inv : keyOf[i] = None /\ keyOf'[i] # None
           => \A j \in Present : keyOf[j] = keyOf'[i] => Expired(j)]_vars
  <2> SUFFICES ASSUME IndInv, Checked(w), [Next]_vars, NEW i \in Inv,
                      keyOf[i] = None, keyOf'[i] # None,
                      NEW j \in Present, keyOf[j] = keyOf'[i]
               PROVE  Expired(j)
    OBVIOUS
  <2>1. Reserve(w)
    BY KeyOnlyByReserve
  <2>2. keyOf' = [keyOf EXCEPT ![loc[w].id] = loc[w].req] /\ loc[w].pc = "submit"
    BY <2>1 DEF Reserve, At
  <2>3. loc[w].op = "create"
    BY <2>2 DEF IndInv, Structure, Control, ControlOf, CreateOnlyPcs
  <2>4. keyOf'[i] = loc[w].req
    BY <2>2 DEF IndInv, Structure, TypeOK
  <2> QED
    BY <2>2, <2>3, <2>4 DEF Checked, CheckedPcs
<1> QED
  BY <1>1, <1>2, <1>3, Invariance, PTL DEF Spec, RepeatIsReplay
================================================================================
