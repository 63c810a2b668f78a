--------------------------- MODULE TableRegistryRows ---------------------------
(***************************************************************************)
(* Every step of the registry keeps what its operations know of the rows   *)
(* they have in hand, and of the idempotency keys (Rows, IndexAgrees,      *)
(* Settling and Keyed of TableRegistryInvariants).                         *)
(***************************************************************************)
EXTENDS TableRegistryStructure

(* After a conflict an operation begins its next attempt with the rows it    *)
(* has in hand, or is over.                                                  *)
SameTask(w) ==
  /\ loc'[w].op = loc[w].op /\ loc'[w].id = loc[w].id /\ loc'[w].tgt = loc[w].tgt
  /\ loc'[w].req = loc[w].req /\ loc'[w].batch = loc[w].batch
  /\ loc'[w].slots = loc[w].slots /\ loc'[w].recent = loc[w].recent

LEMMA Again ==
  ASSUME LocOK, NEW w \in Workers, NEW p, TryAgain(w, p)
  PROVE  /\ \A v \in Workers \ {w} : loc'[v] = loc[v]
         /\ End(w) \/ (MayRetry(w) /\ loc'[w].pc = p /\ SameTask(w))
<1>1. \A v \in Workers \ {w} : loc'[v] = loc[v]
  BY DEF LocOK, TryAgain, End, Becomes
<1>2. CASE MayRetry(w)
  <2> DEFINE l == [loc[w] EXCEPT !.pc = p, !.tries = @ + 1, !.cnt = 0]
  <2>1. loc'[w] = l
    BY <1>2 DEF LocOK, TryAgain, Becomes
  <2>2. /\ l.pc = p /\ l.op = loc[w].op /\ l.id = loc[w].id /\ l.tgt = loc[w].tgt
        /\ l.req = loc[w].req /\ l.batch = loc[w].batch /\ l.slots = loc[w].slots
        /\ l.recent = loc[w].recent
    BY FieldTypes DEF Operation
  <2> QED
    BY <1>1, <1>2, <2>1, <2>2 DEF SameTask
<1>3. CASE ~MayRetry(w)
  BY <1>1, <1>3 DEF TryAgain
<1> QED
  BY <1>2, <1>3

(* A sweep that has deleted a record goes on with the rest of its batch.     *)
LEMMA Deleted ==
  ASSUME LocOK, NEW w \in Workers, NEW i, SweepDeleted(w, i)
  PROVE  /\ \A v \in Workers \ {w} : loc'[v] = loc[v]
         /\ loc'[w].op = loc[w].op /\ loc'[w].id = loc[w].id /\ loc'[w].tgt = i
         /\ loc'[w].req = loc[w].req /\ loc'[w].batch = loc[w].batch \ {i}
         /\ loc'[w].slots = loc[w].slots /\ loc'[w].recent = loc[w].recent
         /\ \/ loc'[w].pc = "sweepIndex" /\ keyOf[i] # None
            \/ loc'[w].pc = "decRead" /\ i \in loc[w].slots
            \/ loc'[w].pc = "sweepNext" /\ i \notin loc[w].slots
<1> DEFINE p == IF keyOf[i] # None THEN "sweepIndex"
                ELSE IF i \in loc[w].slots THEN "decRead" ELSE "sweepNext"
<1>1. \/ p = "sweepIndex" /\ keyOf[i] # None
      \/ p = "decRead" /\ i \in loc[w].slots
      \/ p = "sweepNext" /\ i \notin loc[w].slots
  OBVIOUS
<1>2. Becomes(w, [loc[w] EXCEPT !.batch = @ \ {i}, !.tgt = i, !.tries = 0, !.pc = p])
  BY DEF SweepDeleted
<1> HIDE DEF p
<1> QED
  BY <1>1, <1>2 DEF LocOK, Operation, Becomes

(* A worker that keeps its id or drops it takes none that another worker     *)
(* has.                                                                      *)
LEMMA IdsUpdate ==
  ASSUME LocOK, DistinctIds, NEW w \in Workers, NEW l, Becomes(w, l), l.id \in {loc[w].id, None}
  PROVE  DistinctIds'
  BY DEF LocOK, DistinctIds, Becomes

(* Ending an operation drops its id.                                         *)
LEMMA IdsEnd ==
  ASSUME LocOK, DistinctIds, NEW w \in Workers, End(w)
  PROVE  DistinctIds'
  BY IdsUpdate DEF End, Idle

(* So does another attempt.                                                  *)
LEMMA IdsAgain ==
  ASSUME LocOK, DistinctIds, NEW w \in Workers, NEW p, TryAgain(w, p)
  PROVE  DistinctIds'
<1>1. [loc[w] EXCEPT !.pc = p, !.tries = @ + 1, !.cnt = 0].id = loc[w].id
  BY DEF LocOK, Operation
<1> QED
  BY <1>1, IdsUpdate, IdsEnd DEF TryAgain

(* No two operations in progress have the id of the same new investigation.  *)
LEMMA DistinctIdsStep ==
  ASSUME TypeOK, LocOK, Control, DistinctIds, [Next]_vars
  PROVE  DistinctIds'
<1>1. ASSUME NEW w \in Workers, ReadIndex(w) PROVE DistinctIds'
  <2>1. [loc[w] EXCEPT !.pc = "fallback"].id = loc[w].id
    BY DEF LocOK, Operation
  <2>2. [loc[w] EXCEPT !.pc = "get", !.tgt = index[loc[w].req]].id = loc[w].id
    BY DEF LocOK, Operation
  <2> QED
    BY <1>1, <2>1, <2>2, IdsUpdate, IdsEnd DEF ReadIndex, NotFound, GoTo
<1>2. ASSUME NEW w \in Workers, GetRecord(w) PROVE DistinctIds'
  <2>1. [loc[w] EXCEPT !.pc = "unindex"].id = loc[w].id
    BY DEF LocOK, Operation
  <2>2. [loc[w] EXCEPT !.pc = "expire"].id = loc[w].id
    BY DEF LocOK, Operation
  <2> QED
    BY <1>2, <2>1, <2>2, IdsUpdate, IdsEnd DEF GetRecord, GoTo
<1>3. ASSUME NEW w \in Workers, ExpireRecord(w) PROVE DistinctIds'
  <2>1. [loc[w] EXCEPT !.pc = "fallback"].id = loc[w].id
    BY DEF LocOK, Operation
  <2>2. [loc[w] EXCEPT !.pc = "unindex"].id = loc[w].id
    BY DEF LocOK, Operation
  <2> QED
    BY <1>3, <2>1, <2>2, IdsUpdate, IdsEnd DEF ExpireRecord, ExpireEnds, Fault, notes,
        NotFound,
        GoTo
<1>4. ASSUME NEW w \in Workers, Unindex(w) PROVE DistinctIds'
  <2>1. [loc[w] EXCEPT !.pc = "fallback"].id = loc[w].id
    BY DEF LocOK, Operation
  <2> QED
    BY <1>4, <2>1, IdsUpdate, IdsEnd DEF Unindex, NotFound, GoTo
<1>5. ASSUME NEW w \in Workers, FallbackQuery(w) PROVE DistinctIds'
  <2>1. [loc[w] EXCEPT !.pc = "sweepQuery"].id = loc[w].id
    BY DEF LocOK, Operation
  <2> QED
    BY <1>5, <2>1, IdsUpdate, IdsEnd DEF FallbackQuery, GoTo
<1>6. ASSUME NEW w \in Workers, SweepQuery(w) PROVE DistinctIds'
  BY <1>6, FieldTypes DEF LocOK, Operation, DistinctIds, SweepQuery, Becomes
<1>7. ASSUME NEW w \in Workers, SweepSkip(w) PROVE DistinctIds'
  BY <1>7, FieldTypes DEF LocOK, Operation, DistinctIds, SweepSkip, Becomes
<1>8. ASSUME NEW w \in Workers, SweepIndexRow(w) PROVE DistinctIds'
  BY <1>8, FieldTypes DEF LocOK, Operation, DistinctIds, SweepIndexRow, Becomes
<1>9. ASSUME NEW w \in Workers, SweepRecord(w) PROVE DistinctIds'
  <2>1. PICK i \in loc[w].batch : SweepDeleted(w, i) \/ Becomes(w, [loc[w] EXCEPT !.batch = @ \ {i}])
    BY <1>9 DEF SweepRecord
  <2>2. [loc[w] EXCEPT !.batch = @ \ {i}].id = loc[w].id
    BY DEF LocOK, Operation
  <2>3. CASE SweepDeleted(w, i)
    BY <2>3, Deleted DEF DistinctIds
  <2> QED
    BY <2>1, <2>2, <2>3, IdsUpdate
<1>9a. ASSUME NEW w \in Workers, SweepGone(w) PROVE DistinctIds'
  BY <1>9a, Deleted DEF SweepGone, DistinctIds
<1>10. ASSUME NEW w \in Workers, SweepIndexOf(w) PROVE DistinctIds'
  <2>1. [loc[w] EXCEPT !.pc = "decRead"].id = loc[w].id
    BY DEF LocOK, Operation
  <2>2. [loc[w] EXCEPT !.pc = "sweepNext"].id = loc[w].id
    BY DEF LocOK, Operation
  <2> QED
    BY <1>10, <2>1, <2>2, IdsUpdate DEF SweepIndexOf, GoTo
<1>11. ASSUME NEW w \in Workers, SweepDone(w) PROVE DistinctIds'
  <2>1. [loc[w] EXCEPT !.pc = "readCounter", !.tgt = None, !.tries = 0, !.slots = {}].id = loc[w].id
    BY DEF LocOK, Operation
  <2> QED
    BY <1>11, <2>1, IdsUpdate, IdsEnd DEF SweepDone
<1>12. ASSUME NEW w \in Workers, DecrementRead(w) PROVE DistinctIds'
  <2>1. [loc[w] EXCEPT !.pc = "decWrite", !.cnt = counter].id = loc[w].id
    BY DEF LocOK, Operation
  <2> QED
    BY <1>12, <2>1, IdsUpdate DEF DecrementRead
<1>13. ASSUME NEW w \in Workers, DecrementWrite(w) PROVE DistinctIds'
  <2>1. [loc[w] EXCEPT !.pc = "sweepNext", !.cnt = 0, !.tries = 0, !.tgt = None].id = loc[w].id
    BY DEF LocOK, Operation
  <2> QED
    BY <1>13, <2>1, IdsUpdate, IdsEnd, IdsAgain DEF DecrementWrite, DecrementDone,
        DecrementAgain
<1>14. ASSUME NEW w \in Workers, DecrementConflict(w) PROVE DistinctIds'
  BY <1>14, IdsAgain DEF DecrementConflict, DecrementAgain
<1>15. ASSUME NEW w \in Workers, ReadCounter(w) PROVE DistinctIds'
  <2>1. [loc[w] EXCEPT !.cnt = counter, !.pc = "recount"].id = loc[w].id
    BY DEF LocOK, Operation
  <2>2. [loc[w] EXCEPT !.cnt = counter, !.pc = "submit"].id = loc[w].id
    BY DEF LocOK, Operation
  <2> QED
    BY <1>15, <2>1, <2>2, IdsUpdate DEF ReadCounter
<1>16. ASSUME NEW w \in Workers, DenyQuota(w) PROVE DistinctIds'
  BY <1>16, IdsEnd DEF DenyQuota
<1>17. ASSUME NEW w \in Workers, Recount(w) PROVE DistinctIds'
  <2>1. [loc[w] EXCEPT !.pc = "recountWrite", !.tally = Counted].id = loc[w].id
    BY DEF LocOK, Operation
  <2> QED
    BY <1>17, <2>1, IdsUpdate DEF Recount
<1>18. ASSUME NEW w \in Workers, RecountWrite(w) PROVE DistinctIds'
  <2>1. [loc[w] EXCEPT !.pc = "readCounter", !.tries = @ + 1, !.cnt = 0, !.tally = 0].id = loc[w].id
    BY DEF LocOK, Operation
  <2> QED
    BY <1>18, <2>1, IdsUpdate, IdsEnd DEF RecountWrite
<1>19. ASSUME NEW w \in Workers, Reserve(w) PROVE DistinctIds'
  BY <1>19, FieldTypes DEF LocOK, Operation, DistinctIds, Reserve, Remember
<1>20. ASSUME NEW w \in Workers, ReserveConflict(w) PROVE DistinctIds'
  BY <1>20, IdsAgain DEF ReserveConflict, Retry
<1>21. ASSUME NEW w \in Workers, ReserveDuplicate(w) PROVE DistinctIds'
  <2>1. [loc[w] EXCEPT !.op = "recover", !.pc = "index", !.id = None, !.cnt = 0, !.tries = 0].id = None
    BY DEF LocOK, Operation
  <2> QED
    BY <1>21, <2>1, IdsUpdate DEF ReserveDuplicate
<1>22. ASSUME NEW w \in Workers, TokenFails(w) PROVE DistinctIds'
  <2>1. [loc[w] EXCEPT !.op = "release", !.pc = "relRead"].id = loc[w].id
    BY DEF LocOK, Operation
  <2> QED
    BY <1>22, <2>1, IdsUpdate DEF TokenFails
<1>23. ASSUME NEW w \in Workers, PostUncertain(w) PROVE DistinctIds'
  BY <1>23, IdsEnd DEF PostUncertain, Post
<1>24. ASSUME NEW w \in Workers, PostSucceeds(w) PROVE DistinctIds'
  <2>1. [loc[w] EXCEPT !.pc = "finRead"].id = loc[w].id
    BY DEF LocOK, Operation
  <2> QED
    BY <1>24, <2>1, IdsUpdate DEF PostSucceeds, Post, GoTo
<1>25. ASSUME NEW w \in Workers, FinalizeRead(w) PROVE DistinctIds'
  <2>1. [loc[w] EXCEPT !.pc = "finWrite"].id = loc[w].id
    BY DEF LocOK, Operation
  <2> QED
    BY <1>25, <2>1, IdsUpdate, IdsEnd DEF FinalizeRead, GoTo
<1>26. ASSUME NEW w \in Workers, Finalize(w) PROVE DistinctIds'
  BY <1>26, IdsEnd, IdsAgain DEF Finalize
<1>27. ASSUME NEW w \in Workers, FinalizeConflict(w) PROVE DistinctIds'
  BY <1>27, IdsEnd, IdsAgain DEF FinalizeConflict, Retry
<1>28. ASSUME NEW w \in Workers, ReleaseRead(w) PROVE DistinctIds'
  <2>1. [loc[w] EXCEPT !.pc = "relDelete"].id = loc[w].id
    BY DEF LocOK, Operation
  <2> QED
    BY <1>28, <2>1, IdsUpdate, IdsEnd DEF ReleaseRead, GoTo
<1>29. ASSUME NEW w \in Workers, ReleaseDelete(w) PROVE DistinctIds'
  <2>1. [loc[w] EXCEPT !.pc = "decRead", !.tries = 0].id = loc[w].id
    BY DEF LocOK, Operation
  <2> QED
    BY <1>29, <2>1, IdsUpdate DEF ReleaseDelete
<1>30. ASSUME NEW w \in Workers, ReleaseConflict(w) PROVE DistinctIds'
  <2>1. [loc[w] EXCEPT !.pc = "decRead", !.tries = 0].id = loc[w].id
    BY DEF LocOK, Operation
  <2> QED
    BY <1>30, <2>1, IdsUpdate, IdsEnd, IdsAgain DEF ReleaseConflict
<1>31. ASSUME NEW w \in Workers, CompleteRead(w) PROVE DistinctIds'
  <2>1. [loc[w] EXCEPT !.pc = "cmpCounter"].id = loc[w].id
    BY DEF LocOK, Operation
  <2> QED
    BY <1>31, <2>1, IdsUpdate, IdsEnd DEF CompleteRead, GoTo
<1>32. ASSUME NEW w \in Workers, CompleteCounter(w) PROVE DistinctIds'
  <2>1. [loc[w] EXCEPT !.pc = "cmpSubmit", !.cnt = counter].id = loc[w].id
    BY DEF LocOK, Operation
  <2> QED
    BY <1>32, <2>1, IdsUpdate DEF CompleteCounter
<1>33. ASSUME NEW w \in Workers, Complete(w) PROVE DistinctIds'
  BY <1>33, IdsEnd DEF Complete
<1>34. ASSUME NEW w \in Workers, CompleteConflict(w) PROVE DistinctIds'
  BY <1>34, IdsEnd, IdsAgain DEF CompleteConflict, Retry
<1>35. ASSUME NEW w \in Workers, StaleNext(w) PROVE DistinctIds'
  BY <1>35, FieldTypes DEF LocOK, Operation, DistinctIds, StaleNext, Becomes
<1>36. ASSUME NEW w \in Workers, ReleaseStale(w) PROVE DistinctIds'
  <2>1. [loc[w] EXCEPT !.pc = "staleNext", !.tgt = None, !.cnt = 0].id = loc[w].id
    BY DEF LocOK, Operation
  <2> QED
    BY <1>36, <2>1, IdsUpdate, IdsEnd DEF ReleaseStale, StaleContinue
<1>37. ASSUME NEW w \in Workers, StaleConflict(w) PROVE DistinctIds'
  <2>1. [loc[w] EXCEPT !.pc = "staleNext", !.tgt = None, !.cnt = 0].id = loc[w].id
    BY DEF LocOK, Operation
  <2> QED
    BY <1>37, <2>1, IdsUpdate, IdsEnd DEF StaleConflict, StaleContinue
<1>38. ASSUME NEW w \in Workers, StartSweep(w) PROVE DistinctIds'
  BY <1>38, FieldTypes DEF LocOK, Operation, DistinctIds, StartSweep, Becomes, Idle
<1>39. ASSUME NEW w \in Workers, StartReleaseStale(w) PROVE DistinctIds'
  BY <1>39, FieldTypes DEF LocOK, Operation, DistinctIds, StartReleaseStale, Becomes, Idle
<1>40. ASSUME NEW w \in Workers, Abandon(w) PROVE DistinctIds'
  BY <1>40, IdsEnd DEF Abandon, Fault, notes
<1>41. ASSUME NEW w \in Workers, NEW i \in Inv, StartRead(w, i) PROVE DistinctIds'
  BY <1>41, FieldTypes DEF LocOK, Operation, DistinctIds, StartRead, Becomes, Idle
<1>42. ASSUME NEW w \in Workers, NEW i \in Inv, StartComplete(w, i) PROVE DistinctIds'
  BY <1>42, FieldTypes DEF LocOK, Operation, DistinctIds, StartComplete, Becomes, Idle
<1>43. ASSUME NEW w \in Workers, NEW i \in Inv, NEW k \in Keys \cup {None}, StartCreate(w, k, i) PROVE DistinctIds'
  BY <1>43, FieldTypes DEF LocOK, Operation, DistinctIds, StartCreate, Becomes, Idle
<1>44. ASSUME NEW i \in Inv, Age(i) PROVE DistinctIds'
  BY <1>44, FieldTypes DEF LocOK, Operation, DistinctIds, Age, Remember
<1>45. ASSUME NEW i \in Inv, Touch(i) PROVE DistinctIds'
  BY <1>45 DEF Touch, notes, DistinctIds
<1>46. ASSUME UNCHANGED vars PROVE DistinctIds'
  BY <1>46 DEF vars, DistinctIds
<1> QED
  BY <1>1, <1>2, <1>3, <1>4, <1>5, <1>6, <1>7, <1>8, <1>9, <1>9a, <1>10, <1>11, <1>12,
      <1>13, <1>14, <1>15, <1>16, <1>17, <1>18, <1>19, <1>20, <1>21, <1>22, <1>23, <1>24, <1>25,
      <1>26, <1>27, <1>28, <1>29, <1>30, <1>31, <1>32, <1>33, <1>34, <1>35, <1>36, <1>37,
      <1>38, <1>39, <1>40, <1>41, <1>42, <1>43, <1>44, <1>45, <1>46 DEF Next, Step,
      FindStep, SweepStep, DecStep, ReserveStep, PlatformStep, SettleStep, CompleteStep,
      StaleStep

(* A row that was never created has no age, no retention and no index row.   *)
LEMMA FreeRowsStep ==
  ASSUME TypeOK, LocOK, Control, FreeRows, [Next]_vars
  PROVE  FreeRows'
<1>1. ASSUME NEW w \in Workers, ReadIndex(w) PROVE FreeRows'
  BY <1>1 DEF TypeOK, FreeRows, ReadIndex, table, aux, notes
<1>2. ASSUME NEW w \in Workers, GetRecord(w) PROVE FreeRows'
  BY <1>2 DEF TypeOK, FreeRows, GetRecord, Present, table, aux, notes
<1>3. ASSUME NEW w \in Workers, ExpireRecord(w) PROVE FreeRows'
  BY <1>3 DEF TypeOK, FreeRows, ExpireRecord, ExpireEnds, Fault, notes, aux
<1>4. ASSUME NEW w \in Workers, Unindex(w) PROVE FreeRows'
  BY <1>4, RowsAssumption DEF TypeOK, FreeRows, Unindex, aux, notes
<1>5. ASSUME NEW w \in Workers, FallbackQuery(w) PROVE FreeRows'
  BY <1>5 DEF TypeOK, FreeRows, FallbackQuery, Present, table, aux, notes
<1>6. ASSUME NEW w \in Workers, SweepQuery(w) PROVE FreeRows'
  BY <1>6 DEF TypeOK, FreeRows, SweepQuery, table, aux, notes, Present
<1>7. ASSUME NEW w \in Workers, SweepSkip(w) PROVE FreeRows'
  BY <1>7 DEF TypeOK, FreeRows, SweepSkip, table, aux, notes
<1>8. ASSUME NEW w \in Workers, SweepIndexRow(w) PROVE FreeRows'
  BY <1>8, RowsAssumption DEF TypeOK, FreeRows, SweepIndexRow, aux, notes
<1>9. ASSUME NEW w \in Workers, SweepRecord(w) PROVE FreeRows'
  BY <1>9 DEF TypeOK, FreeRows, SweepRecord, SweepDeleted, Fault, notes, aux
<1>9a. ASSUME NEW w \in Workers, SweepGone(w) PROVE FreeRows'
  BY <1>9a DEF TypeOK, FreeRows, SweepGone, table
<1>10. ASSUME NEW w \in Workers, SweepIndexOf(w) PROVE FreeRows'
  BY <1>10, RowsAssumption DEF TypeOK, FreeRows, SweepIndexOf, aux, notes
<1>11. ASSUME NEW w \in Workers, SweepDone(w) PROVE FreeRows'
  BY <1>11 DEF TypeOK, FreeRows, SweepDone, table, aux, notes
<1>12. ASSUME NEW w \in Workers, DecrementRead(w) PROVE FreeRows'
  BY <1>12 DEF TypeOK, FreeRows, DecrementRead, table, aux, notes
<1>13. ASSUME NEW w \in Workers, DecrementWrite(w) PROVE FreeRows'
  BY <1>13 DEF TypeOK, FreeRows, DecrementWrite, DecrementDone, DecrementAgain, TryAgain,
      MayRetry, Fault, aux, notes
<1>14. ASSUME NEW w \in Workers, DecrementConflict(w) PROVE FreeRows'
  BY <1>14 DEF TypeOK, FreeRows, DecrementConflict, DecrementAgain, TryAgain, MayRetry, table,
      aux, notes
<1>15. ASSUME NEW w \in Workers, ReadCounter(w) PROVE FreeRows'
  BY <1>15 DEF TypeOK, FreeRows, ReadCounter, table, aux, notes
<1>16. ASSUME NEW w \in Workers, DenyQuota(w) PROVE FreeRows'
  BY <1>16 DEF TypeOK, FreeRows, DenyQuota, table, aux, notes
<1>17. ASSUME NEW w \in Workers, Recount(w) PROVE FreeRows'
  BY <1>17 DEF TypeOK, FreeRows, Recount, table
<1>18. ASSUME NEW w \in Workers, RecountWrite(w) PROVE FreeRows'
  BY <1>18 DEF TypeOK, FreeRows, RecountWrite, aux, notes
<1>19. ASSUME NEW w \in Workers, Reserve(w) PROVE FreeRows'
  BY <1>19, RowsAssumption DEF TypeOK, FreeRows, Reserve, aux, notes, Control, ControlOf,
      CreateOnlyPcs, At
<1>20. ASSUME NEW w \in Workers, ReserveConflict(w) PROVE FreeRows'
  BY <1>20 DEF TypeOK, FreeRows, ReserveConflict, table, aux, notes
<1>21. ASSUME NEW w \in Workers, ReserveDuplicate(w) PROVE FreeRows'
  BY <1>21 DEF TypeOK, FreeRows, ReserveDuplicate, table, aux, notes
<1>22. ASSUME NEW w \in Workers, TokenFails(w) PROVE FreeRows'
  BY <1>22 DEF TypeOK, FreeRows, TokenFails, table, aux, notes
<1>23. ASSUME NEW w \in Workers, PostUncertain(w) PROVE FreeRows'
  BY <1>23 DEF TypeOK, FreeRows, PostUncertain, Post, table, aux, notes
<1>24. ASSUME NEW w \in Workers, PostSucceeds(w) PROVE FreeRows'
  BY <1>24 DEF TypeOK, FreeRows, PostSucceeds, Post, table, aux, notes
<1>25. ASSUME NEW w \in Workers, FinalizeRead(w) PROVE FreeRows'
  BY <1>25 DEF TypeOK, FreeRows, FinalizeRead, Present, table, aux, notes
<1>26. ASSUME NEW w \in Workers, Finalize(w) PROVE FreeRows'
  BY <1>26 DEF TypeOK, FreeRows, Finalize, TryAgain, MayRetry, Fault, aux, notes
<1>27. ASSUME NEW w \in Workers, FinalizeConflict(w) PROVE FreeRows'
  BY <1>27 DEF TypeOK, FreeRows, FinalizeConflict, Present, table, aux, notes
<1>28. ASSUME NEW w \in Workers, ReleaseRead(w) PROVE FreeRows'
  BY <1>28 DEF TypeOK, FreeRows, ReleaseRead, table, aux, notes
<1>29. ASSUME NEW w \in Workers, ReleaseDelete(w) PROVE FreeRows'
  BY <1>29 DEF TypeOK, FreeRows, ReleaseDelete, aux, notes
<1>30. ASSUME NEW w \in Workers, ReleaseConflict(w) PROVE FreeRows'
  BY <1>30 DEF TypeOK, FreeRows, ReleaseConflict, TryAgain, MayRetry, Present, table, aux,
      notes
<1>31. ASSUME NEW w \in Workers, CompleteRead(w) PROVE FreeRows'
  BY <1>31 DEF TypeOK, FreeRows, CompleteRead, table, aux, notes
<1>32. ASSUME NEW w \in Workers, CompleteCounter(w) PROVE FreeRows'
  BY <1>32 DEF TypeOK, FreeRows, CompleteCounter, table, aux, notes
<1>33. ASSUME NEW w \in Workers, Complete(w) PROVE FreeRows'
  BY <1>33 DEF TypeOK, FreeRows, Complete, CloseRecord, Prolong, aux, notes
<1>34. ASSUME NEW w \in Workers, CompleteConflict(w) PROVE FreeRows'
  BY <1>34 DEF TypeOK, FreeRows, CompleteConflict, Present, table, aux, notes
<1>35. ASSUME NEW w \in Workers, StaleNext(w) PROVE FreeRows'
  BY <1>35 DEF TypeOK, FreeRows, StaleNext, table, aux, notes
<1>36. ASSUME NEW w \in Workers, ReleaseStale(w) PROVE FreeRows'
  BY <1>36 DEF TypeOK, FreeRows, ReleaseStale, CloseRecord, Prolong, aux, notes
<1>37. ASSUME NEW w \in Workers, StaleConflict(w) PROVE FreeRows'
  BY <1>37 DEF TypeOK, FreeRows, StaleConflict, Present, table, aux, notes
<1>38. ASSUME NEW w \in Workers, StartSweep(w) PROVE FreeRows'
  BY <1>38 DEF TypeOK, FreeRows, StartSweep, table, aux, notes, Present
<1>39. ASSUME NEW w \in Workers, StartReleaseStale(w) PROVE FreeRows'
  BY <1>39 DEF TypeOK, FreeRows, StartReleaseStale, table, aux, notes
<1>40. ASSUME NEW w \in Workers, Abandon(w) PROVE FreeRows'
  BY <1>40 DEF TypeOK, FreeRows, Abandon, Fault, notes, table
<1>41. ASSUME NEW w \in Workers, NEW i \in Inv, StartRead(w, i) PROVE FreeRows'
  BY <1>41 DEF TypeOK, FreeRows, StartRead, Present, table, aux, notes
<1>42. ASSUME NEW w \in Workers, NEW i \in Inv, StartComplete(w, i) PROVE FreeRows'
  BY <1>42 DEF TypeOK, FreeRows, StartComplete, table, aux, notes
<1>43. ASSUME NEW w \in Workers, NEW i \in Inv, NEW k \in Keys \cup {None}, StartCreate(w, k, i) PROVE FreeRows'
  BY <1>43 DEF TypeOK, FreeRows, StartCreate, table, aux, notes
<1>44. ASSUME NEW i \in Inv, Age(i) PROVE FreeRows'
  BY <1>44 DEF TypeOK, FreeRows, Age, aux, notes
<1>45. ASSUME NEW i \in Inv, Touch(i) PROVE FreeRows'
  BY <1>45 DEF TypeOK, FreeRows, Touch, notes, Present, table
<1>46. ASSUME UNCHANGED vars PROVE FreeRows'
  BY <1>46 DEF vars, FreeRows
<1> QED
  BY <1>1, <1>2, <1>3, <1>4, <1>5, <1>6, <1>7, <1>8, <1>9, <1>9a, <1>10, <1>11, <1>12,
      <1>13, <1>14, <1>15, <1>16, <1>17, <1>18, <1>19, <1>20, <1>21, <1>22, <1>23, <1>24, <1>25,
      <1>26, <1>27, <1>28, <1>29, <1>30, <1>31, <1>32, <1>33, <1>34, <1>35, <1>36, <1>37,
      <1>38, <1>39, <1>40, <1>41, <1>42, <1>43, <1>44, <1>45, <1>46 DEF Next, Step,
      FindStep, SweepStep, DecStep, ReserveStep, PlatformStep, SettleStep, CompleteStep,
      StaleStep

(* The step leaves the local variables of v that Held speaks of. *)
SameHand(v) ==
  /\ loc'[v].op = loc[v].op /\ loc'[v].pc = loc[v].pc /\ loc'[v].id = loc[v].id
  /\ loc'[v].tgt = loc[v].tgt /\ loc'[v].batch = loc[v].batch /\ loc'[v].slots = loc[v].slots

(* The same of a step that also lets the others remember a row.              *)
LEMMA HeldKept ==
  ASSUME Held, NEW w \in Workers,
         \A v \in Workers \ {w} : SameHand(v) /\ fresh'[v] \subseteq fresh[v],
         \A v \in Workers \ {w} : \A i \in fresh'[v] \cap Inv :
           state'[i] = state[i] /\ age'[i] = age[i] /\ (i \in retained' <=> i \in retained),
         \A i \in Inv : state[i] \notin {"free", "reserved"}
                         => state'[i] \notin {"free", "reserved"},
         LocOK, Control, HeldBy(w)'
  PROVE  Held'
<1> SUFFICES ASSUME NEW v \in Workers, v # w PROVE HeldBy(v)'
  BY DEF Held
<1>1. /\ HeldBy(v) /\ ControlOf(loc[v]) /\ fresh'[v] \subseteq fresh[v]
      /\ loc'[v].op = loc[v].op /\ loc'[v].pc = loc[v].pc /\ loc'[v].id = loc[v].id
      /\ loc'[v].tgt = loc[v].tgt /\ loc'[v].batch = loc[v].batch
      /\ loc'[v].slots = loc[v].slots
  BY DEF Held, Control, SameHand
<1>2. \A i \in fresh'[v] \cap Inv : (Lapsing(i) => Lapsing(i)') /\ (i \in Uncertain => i \in Uncertain')
                                     /\ (i \in Open => i \in Open')
                                     /\ (state[i] = "reserved" => state'[i] = "reserved")
  BY DEF Lapsing, Expired, Present, Uncertain, Open
<1>3. loc[v].pc \in CompletePcs \/ loc[v].pc = "expire" => loc[v].tgt \in Inv
  BY <1>1 DEF ControlOf, TgtPcs, CompletePcs
<1>4. loc[v].pc = "relDelete" => loc[v].id \in Inv
  BY <1>1 DEF ControlOf, CreatePcs
<1>5. /\ (loc[v].op \in SweepOps => \A i \in loc[v].batch \cap fresh[v] \cap Inv :
                                   Lapsing(i) /\ (i \in loc[v].slots => i \in Open))'
      /\ (loc[v].pc = "expire" /\ loc[v].tgt \in fresh[v] => Lapsing(loc[v].tgt))'
  BY <1>1, <1>2, <1>3 DEF HeldBy
<1>6. (loc[v].op = "stale" =>
        \A i \in (loc[v].batch \cup {loc[v].tgt}) \cap fresh[v] : i \in Inv => i \in Uncertain)'
  BY <1>1, <1>2 DEF HeldBy
<1>7. (loc[v].pc \in CompletePcs => state[loc[v].tgt] \notin {"free", "reserved"})'
  BY <1>1, <1>3 DEF HeldBy
<1>8. /\ (loc[v].pc \in {"cmpCounter", "cmpSubmit"} /\ loc[v].tgt \in fresh[v] => loc[v].tgt \in Open)'
      /\ (loc[v].pc = "relDelete" /\ loc[v].id \in fresh[v] => state[loc[v].id] = "reserved")'
  BY <1>1, <1>2, <1>3, <1>4 DEF HeldBy, CompletePcs
<1> QED
  BY <1>5, <1>6, <1>7, <1>8 DEF HeldBy

(* A step that takes the ETags of the records it writes from the others, and *)
(* returns no record to free or reserved, keeps what they know.              *)
LEMMA HeldSteady ==
  ASSUME Held, NEW w \in Workers,
         \A v \in Workers \ {w} : loc'[v] = loc[v] /\ fresh'[v] \subseteq fresh[v],
         \A v \in Workers \ {w} : \A i \in fresh'[v] \cap Inv :
           state'[i] = state[i] /\ age'[i] = age[i] /\ (i \in retained' <=> i \in retained),
         \A i \in Inv : state[i] \notin {"free", "reserved"}
                         => state'[i] \notin {"free", "reserved"},
         LocOK, Control, HeldBy(w)'
  PROVE  Held'
<1>1. \A v \in Workers \ {w} : SameHand(v)
  BY DEF SameHand
<1> QED
  BY <1>1, HeldKept

(* A step that writes no record keeps what the other operations know.        *)
LEMMA HeldQuiet ==
  ASSUME Held, NEW w \in Workers, UNCHANGED <<state, age, retained>>,
         \A v \in Workers \ {w} : loc'[v] = loc[v] /\ fresh'[v] \subseteq fresh[v],
         LocOK, Control, HeldBy(w)'
  PROVE  Held'
  BY HeldSteady

(* An idle worker has nothing in hand.                                       *)
LEMMA HeldIdle ==
  ASSUME LocOK, NEW w \in Workers, End(w)
  PROVE  HeldBy(w)'
  BY DEF LocOK, End, Becomes, Idle, HeldBy, SweepOps, CompletePcs

(* At most places an operation relies on no row.                             *)
LEMMA HeldClear ==
  ASSUME Control', NEW w \in Workers,
         loc'[w].pc \notin BatchPcs \cup StalePcs \cup CompletePcs \cup {"expire", "relDelete"}
  PROVE  HeldBy(w)'
<1>1. loc'[w].batch = {} /\ loc'[w].op # "stale"
  BY DEF Control, ControlOf
<1> QED
  BY <1>1 DEF HeldBy, CompletePcs

(* A sweep relies on the expiry of the rows left in its batch.               *)
LEMMA HeldSweep ==
  ASSUME Control', NEW w \in Workers, loc'[w].pc \in BatchPcs,
         loc'[w].op \in SweepOps =>
           \A i \in loc'[w].batch \cap fresh'[w] \cap Inv :
             Lapsing(i)' /\ (i \in loc'[w].slots => (i \in Open)')
  PROVE  HeldBy(w)'
<1>1. loc'[w].op # "stale"
  BY DEF Control, ControlOf, BatchPcs, StalePcs
<1> QED
  BY <1>1 DEF HeldBy, BatchPcs, CompletePcs

(* What it relied on lasts while it goes on with rows of that batch and      *)
(* changes none of them.                                                     *)
LEMMA HeldSweepKept ==
  ASSUME Held, Control', NEW w \in Workers, loc'[w].pc \in BatchPcs, loc'[w].op = loc[w].op,
         loc'[w].batch \subseteq loc[w].batch, loc'[w].slots = loc[w].slots,
         fresh'[w] \cap Inv \subseteq fresh[w],
         \A i \in loc'[w].batch \cap fresh'[w] \cap Inv :
           state'[i] = state[i] /\ age'[i] = age[i] /\ (i \in retained' <=> i \in retained)
  PROVE  HeldBy(w)'
<1> SUFFICES ASSUME loc'[w].op \in SweepOps, NEW i \in loc'[w].batch \cap fresh'[w] \cap Inv
             PROVE  Lapsing(i)' /\ (i \in loc'[w].slots => (i \in Open)')
  BY HeldSweep
<1>1. Lapsing(i) /\ (i \in loc[w].slots => i \in Open)
  BY DEF Held, HeldBy
<1> QED
  BY <1>1 DEF Lapsing, Present, Expired, Open

(* A read relies on the expiry of the row it is about to delete.             *)
LEMMA HeldExpire ==
  ASSUME Control', NEW w \in Workers, loc'[w].pc = "expire",
         loc'[w].tgt \in fresh'[w] => Lapsing(loc[w].tgt)'
  PROVE  HeldBy(w)'
<1>1. loc'[w].op # "stale" /\ loc'[w].batch = {}
  BY DEF Control, ControlOf, BatchPcs, StalePcs
<1> QED
  BY <1>1 DEF HeldBy, CompletePcs

(* A completion relies on the row being active or already over.              *)
LEMMA HeldComplete ==
  ASSUME Control', NEW w \in Workers, loc'[w].pc \in CompletePcs,
         state'[loc'[w].tgt] \notin {"free", "reserved"},
         loc'[w].pc # "cmpRead" /\ loc'[w].tgt \in fresh'[w] => (loc[w].tgt \in Open)'
  PROVE  HeldBy(w)'
<1>1. loc'[w].op # "stale" /\ loc'[w].batch = {}
  BY DEF Control, ControlOf, BatchPcs, StalePcs, CompletePcs
<1> QED
  BY <1>1 DEF HeldBy, CompletePcs

(* A release of stale reservations relies on the rows of its batch.          *)
LEMMA HeldStale ==
  ASSUME Control', NEW w \in Workers, loc'[w].op = "stale",
         \A i \in (loc'[w].batch \cup {loc'[w].tgt}) \cap fresh'[w] : i \in Inv => (i \in Uncertain)'
  PROVE  HeldBy(w)'
<1>1. loc'[w].pc \in StalePcs
  BY DEF Control, ControlOf
<1> QED
  BY <1>1 DEF HeldBy, SweepOps, StalePcs, CompletePcs

(* Another attempt at the decrement leaves the batch and its ETags alone.    *)
LEMMA HeldDecrement ==
  ASSUME TypeOK, LocOK, Control, Control', Held, UNCHANGED <<state, age, retained>>,
         NEW w \in Workers, NEW written, DecrementAgain(w, written)
  PROVE  Held'
<1>1. \A v \in Workers \ {w} : loc'[v] = loc[v] /\ fresh'[v] \subseteq fresh[v]
  BY Again DEF TypeOK, DecrementAgain, Holds
<1>2. CASE End(w)
  BY <1>1, <1>2, HeldIdle, HeldQuiet
<1>3. CASE ~End(w)
  <2>1. MayRetry(w) /\ loc'[w].pc = "decRead" /\ SameTask(w)
    BY <1>3, Again DEF DecrementAgain
  <2>2. fresh'[w] \subseteq fresh[w]
    BY <2>1 DEF TypeOK, DecrementAgain, Holds
  <2>3. HeldBy(w)'
    BY <2>1, <2>2, HeldSweepKept DEF BatchPcs, SameTask
  <2> QED
    BY <1>1, <2>3, HeldQuiet
<1> QED
  BY <1>2, <1>3

(* What an operation learned from a row stays true while the ETag is         *)
(* current.                                                                  *)
LEMMA HeldStep ==
  ASSUME Structure, LocOK, TypeOK, Control, Control', Unborn, Held, [Next]_vars
  PROVE  Held'
<1>1. ASSUME NEW w \in Workers, ReadIndex(w) PROVE Held'
  <2>1. \A v \in Workers \ {w} : loc'[v] = loc[v] /\ fresh'[v] \subseteq fresh[v]
    BY <1>1 DEF TypeOK, LocOK, ReadIndex, NotFound, Becomes, table, GoTo, End, Idle
  <2>2. HeldBy(w)'
    <3>1. loc'[w] = Idle \/ loc'[w] = [loc[w] EXCEPT !.pc = "fallback"]
          \/ loc'[w] = [loc[w] EXCEPT !.pc = "get", !.tgt = index[loc[w].req]]
      BY <1>1 DEF LocOK, ReadIndex, NotFound, Becomes, GoTo, End
    <3>2. /\ Idle.pc = "idle" /\ [loc[w] EXCEPT !.pc = "fallback"].pc = "fallback"
          /\ [loc[w] EXCEPT !.pc = "get", !.tgt = index[loc[w].req]].pc = "get"
      BY FieldTypes DEF Operation, Idle
    <3> QED
      BY <3>1, <3>2, HeldClear DEF BatchPcs, StalePcs, CompletePcs
  <2> QED
    BY <1>1, <2>1, <2>2, HeldQuiet DEF ReadIndex, table
<1>2. ASSUME NEW w \in Workers, GetRecord(w) PROVE Held'
  <2>1. \A v \in Workers \ {w} : loc'[v] = loc[v] /\ fresh'[v] \subseteq fresh[v]
    BY <1>2 DEF TypeOK, LocOK, GetRecord, GoTo, Holds, End, table, Becomes, Idle
  <2>2. HeldBy(w)'
    <3>1. CASE loc'[w].pc \in {"idle", "unindex"}
      BY <3>1, HeldClear DEF BatchPcs, StalePcs, CompletePcs
    <3>2. CASE loc'[w].pc \notin {"idle", "unindex"}
      <4>1. GoTo(w, "expire") /\ loc[w].tgt \in Present /\ Expired(loc[w].tgt)
        BY <3>2, <1>2 DEF LocOK, Operation, GetRecord, GoTo, Becomes, End, Idle
      <4>2. loc'[w].pc = "expire" /\ loc'[w].tgt = loc[w].tgt
        BY <4>1 DEF LocOK, Operation, GoTo, Becomes
      <4>3. Lapsing(loc[w].tgt)'
        BY <4>1, <4>2, <1>2 DEF GetRecord, table, Lapsing, Present, Expired
      <4> QED
        BY <4>2, <4>3, HeldExpire
    <3> QED
      BY <3>1, <3>2
  <2> QED
    BY <1>2, <2>1, <2>2, HeldQuiet DEF GetRecord, table
<1>3. ASSUME NEW w \in Workers, ExpireRecord(w) PROVE Held'
  <2>1. \A v \in Workers \ {w} : loc'[v] = loc[v] /\ fresh'[v] \subseteq fresh[v]
    BY <1>3 DEF TypeOK, LocOK, ExpireRecord, ExpireEnds, Fault, notes, NotFound, Holds,
        End, GoTo,
        Becomes, Idle
  <2>2. HeldBy(w)'
    <3>1. loc'[w].pc \in {"idle", "fallback", "unindex"}
      BY <1>3 DEF LocOK, Operation, ExpireRecord, ExpireEnds, Fault, notes, NotFound, End,
          GoTo,
          Becomes, Idle
    <3> QED
      BY <3>1, HeldClear DEF BatchPcs, StalePcs, CompletePcs
  <2>3. \A v \in Workers \ {w} : \A i \in fresh'[v] \cap Inv :
          state'[i] = state[i] /\ age'[i] = age[i] /\ (i \in retained' <=> i \in retained)
    BY <1>3 DEF TypeOK, LocOK, ExpireRecord, ExpireEnds, Fault, notes, NotFound, Holds,
        End, GoTo,
        Becomes, Idle
  <2>4. \A i \in Inv : state[i] \notin {"free", "reserved"}
                       => state'[i] \notin {"free", "reserved"}
    BY <1>3 DEF TypeOK, ExpireRecord, ExpireEnds, Fault, notes
  <2> QED
    BY <2>1, <2>2, <2>3, <2>4, HeldSteady
<1>4. ASSUME NEW w \in Workers, Unindex(w) PROVE Held'
  <2>1. \A v \in Workers \ {w} : loc'[v] = loc[v] /\ fresh'[v] \subseteq fresh[v]
    BY <1>4 DEF TypeOK, LocOK, Unindex, NotFound, Holds, GoTo, End, Becomes, Idle
  <2>2. HeldBy(w)'
    <3>1. loc'[w].pc \in {"idle", "fallback"}
      BY <1>4 DEF LocOK, Operation, Unindex, NotFound, GoTo, End, Becomes, Idle
    <3> QED
      BY <3>1, HeldClear DEF BatchPcs, StalePcs, CompletePcs
  <2> QED
    BY <1>4, <2>1, <2>2, HeldQuiet DEF Unindex
<1>5. ASSUME NEW w \in Workers, FallbackQuery(w) PROVE Held'
  <2>1. \A v \in Workers \ {w} : loc'[v] = loc[v] /\ fresh'[v] \subseteq fresh[v]
    BY <1>5 DEF TypeOK, LocOK, FallbackQuery, End, GoTo, table, Becomes, Idle
  <2>2. HeldBy(w)'
    <3>1. loc'[w].pc \in {"idle", "sweepQuery"}
      BY <1>5 DEF LocOK, Operation, FallbackQuery, End, GoTo, Becomes, Idle
    <3> QED
      BY <3>1, HeldClear DEF BatchPcs, StalePcs, CompletePcs
  <2> QED
    BY <1>5, <2>1, <2>2, HeldQuiet DEF FallbackQuery, table
<1>6. ASSUME NEW w \in Workers, SweepQuery(w) PROVE Held'
  <2>1. \A v \in Workers \ {w} : loc'[v] = loc[v] /\ fresh'[v] \subseteq fresh[v]
    BY <1>6 DEF TypeOK, LocOK, SweepQuery, Becomes, Holds, table
  <2>2. HeldBy(w)'
    <3>1. PICK B \in Batches(ExpiredRows) :
                /\ loc'[w].batch = B /\ loc'[w].slots = B \cap Open
                /\ loc'[w].pc = "sweepNext" /\ fresh'[w] = B
      BY <1>6 DEF LocOK, TypeOK, Operation, Holds, SweepQuery, Becomes
    <3>2. \A i \in B \cap Inv : Lapsing(i)
      BY RowsAssumption DEF Batches, ExpiredRows, StaleIndex, IndexRows, Lapsing, Present
    <3>3. \A i \in B \cap Inv : Lapsing(i)' /\ (i \in Open => (i \in Open)')
      BY <3>2, <1>6 DEF SweepQuery, table, Lapsing, Present, Expired, Open
    <3> QED
      BY <3>1, <3>3, HeldSweep DEF BatchPcs
  <2> QED
    BY <1>6, <2>1, <2>2, HeldQuiet DEF SweepQuery, table
<1>7. ASSUME NEW w \in Workers, SweepSkip(w) PROVE Held'
  <2>1. \A v \in Workers \ {w} : loc'[v] = loc[v] /\ fresh'[v] \subseteq fresh[v]
    BY <1>7 DEF TypeOK, LocOK, SweepSkip, Becomes, table
  <2>2. HeldBy(w)'
    <3>1. /\ loc'[w].pc \in BatchPcs /\ loc'[w].op = loc[w].op
          /\ loc'[w].batch \subseteq loc[w].batch /\ loc'[w].slots = loc[w].slots
      BY <1>7 DEF LocOK, Operation, BatchPcs, At, SweepSkip, Becomes
    <3>2. fresh'[w] \cap Inv \subseteq fresh[w]
      BY <1>7, RowsAssumption DEF TypeOK, SweepSkip
    <3> QED
      BY <1>7, <3>1, <3>2, HeldSweepKept DEF SweepSkip, table
  <2> QED
    BY <1>7, <2>1, <2>2, HeldQuiet DEF SweepSkip, table
<1>8. ASSUME NEW w \in Workers, SweepIndexRow(w) PROVE Held'
  <2>1. \A v \in Workers \ {w} : loc'[v] = loc[v] /\ fresh'[v] \subseteq fresh[v]
    BY <1>8 DEF TypeOK, LocOK, SweepIndexRow, Becomes, Holds
  <2>2. HeldBy(w)'
    <3>1. /\ loc'[w].pc \in BatchPcs /\ loc'[w].op = loc[w].op
          /\ loc'[w].batch \subseteq loc[w].batch /\ loc'[w].slots = loc[w].slots
      BY <1>8 DEF LocOK, Operation, BatchPcs, At, SweepIndexRow, Becomes
    <3>2. fresh'[w] \cap Inv \subseteq fresh[w]
      BY <1>8, RowsAssumption DEF TypeOK, SweepIndexRow, Holds
    <3> QED
      BY <1>8, <3>1, <3>2, HeldSweepKept DEF SweepIndexRow
  <2> QED
    BY <1>8, <2>1, <2>2, HeldQuiet DEF SweepIndexRow
<1>9. ASSUME NEW w \in Workers, SweepRecord(w) PROVE Held'
  <2>0. PICK i \in loc[w].batch \cap fresh[w] \cap Inv :
          /\ state' = [state EXCEPT ![i] = "gone"] /\ UNCHANGED <<age, retained>>
          /\ Holds(w, fresh[w] \ {i}, {i})
          /\ SweepDeleted(w, i) \/ Becomes(w, [loc[w] EXCEPT !.batch = @ \ {i}])
    BY <1>9 DEF SweepRecord
  <2>1. \A v \in Workers \ {w} : loc'[v] = loc[v] /\ fresh'[v] = fresh[v] \ {i}
    BY <2>0, Deleted DEF TypeOK, LocOK, Becomes, Holds
  <2>2. HeldBy(w)'
    <3>1. /\ loc'[w].pc \in BatchPcs /\ loc'[w].op = loc[w].op
          /\ loc'[w].batch \subseteq loc[w].batch /\ loc'[w].slots = loc[w].slots
      <4>1. CASE SweepDeleted(w, i)
        BY <4>1, Deleted DEF BatchPcs
      <4>2. CASE Becomes(w, [loc[w] EXCEPT !.batch = @ \ {i}])
        BY <4>2, <1>9 DEF LocOK, Operation, BatchPcs, At, SweepRecord, Becomes
      <4> QED
        BY <2>0, <4>1, <4>2
    <3>2. fresh'[w] = fresh[w] \ {i}
      BY <2>0 DEF TypeOK, Holds
    <3> QED
      BY <2>0, <3>1, <3>2, HeldSweepKept DEF TypeOK
  <2>3. \A v \in Workers \ {w} : \A j \in fresh'[v] \cap Inv :
          state'[j] = state[j] /\ age'[j] = age[j] /\ (j \in retained' <=> j \in retained)
    BY <2>0, <2>1 DEF TypeOK
  <2>4. \A j \in Inv : state[j] \notin {"free", "reserved"}
                       => state'[j] \notin {"free", "reserved"}
    BY <2>0 DEF TypeOK
  <2> QED
    BY <2>1, <2>2, <2>3, <2>4, HeldSteady
<1>9a. ASSUME NEW w \in Workers, SweepGone(w) PROVE Held'
  <2>1. PICK i \in loc[w].batch : SweepDeleted(w, i)
    BY <1>9a DEF SweepGone
  <2>2. UNCHANGED <<state, age, retained, fresh>>
    BY <1>9a DEF SweepGone, table
  <2>3. HeldBy(w)'
    BY <2>1, <2>2, Deleted, HeldSweepKept DEF BatchPcs
  <2> QED
    BY <2>1, <2>2, <2>3, Deleted, HeldQuiet
<1>10. ASSUME NEW w \in Workers, SweepIndexOf(w) PROVE Held'
  <2>1. \A v \in Workers \ {w} : loc'[v] = loc[v] /\ fresh'[v] \subseteq fresh[v]
    BY <1>10 DEF TypeOK, LocOK, SweepIndexOf, GoTo, Holds, Becomes
  <2>2. HeldBy(w)'
    <3>1. /\ loc'[w].pc \in BatchPcs /\ loc'[w].op = loc[w].op
          /\ loc'[w].batch \subseteq loc[w].batch /\ loc'[w].slots = loc[w].slots
      BY <1>10 DEF LocOK, Operation, BatchPcs, At, SweepIndexOf, GoTo, Becomes
    <3>2. fresh'[w] \cap Inv \subseteq fresh[w]
      BY <1>10, RowsAssumption DEF TypeOK, SweepIndexOf, Holds
    <3> QED
      BY <1>10, <3>1, <3>2, HeldSweepKept DEF SweepIndexOf
  <2> QED
    BY <1>10, <2>1, <2>2, HeldQuiet DEF SweepIndexOf
<1>11. ASSUME NEW w \in Workers, SweepDone(w) PROVE Held'
  <2>1. \A v \in Workers \ {w} : loc'[v] = loc[v] /\ fresh'[v] \subseteq fresh[v]
    BY <1>11 DEF TypeOK, LocOK, SweepDone, End, Becomes, Holds, table, Idle
  <2>2. HeldBy(w)'
    <3>1. CASE End(w)
      BY <3>1, HeldIdle
    <3>2. CASE ~End(w)
      <4>1. loc'[w] = [loc[w] EXCEPT !.pc = "readCounter", !.tgt = None, !.tries = 0, !.slots = {}]
        BY <3>2, <1>11 DEF LocOK, SweepDone, Becomes
      <4>2. loc'[w].pc = "readCounter"
        BY <4>1 DEF LocOK, Operation
      <4> QED
        BY <4>2, HeldClear DEF BatchPcs, StalePcs, CompletePcs
    <3> QED
      BY <3>1, <3>2
  <2> QED
    BY <1>11, <2>1, <2>2, HeldQuiet DEF SweepDone, table
<1>12. ASSUME NEW w \in Workers, DecrementRead(w) PROVE Held'
  <2>1. \A v \in Workers \ {w} : loc'[v] = loc[v] /\ fresh'[v] \subseteq fresh[v]
    BY <1>12 DEF TypeOK, LocOK, DecrementRead, Becomes, Holds, table
  <2>2. HeldBy(w)'
    <3>1. /\ loc'[w].pc \in BatchPcs /\ loc'[w].op = loc[w].op
          /\ loc'[w].batch \subseteq loc[w].batch /\ loc'[w].slots = loc[w].slots
      BY <1>12 DEF LocOK, Operation, BatchPcs, At, DecrementRead, Becomes
    <3>2. fresh'[w] \cap Inv \subseteq fresh[w]
      BY <1>12, RowsAssumption DEF TypeOK, DecrementRead, Holds
    <3> QED
      BY <1>12, <3>1, <3>2, HeldSweepKept DEF DecrementRead, table
  <2> QED
    BY <1>12, <2>1, <2>2, HeldQuiet DEF DecrementRead, table
<1>13. ASSUME NEW w \in Workers, DecrementWrite(w) PROVE Held'
  <2>1. UNCHANGED <<state, age, retained>>
    BY <1>13 DEF DecrementWrite
  <2>2. CASE DecrementDone(w)
    <3>1. \A v \in Workers \ {w} : loc'[v] = loc[v] /\ fresh'[v] \subseteq fresh[v]
      BY <2>2 DEF TypeOK, LocOK, DecrementDone, End, Becomes, Holds, Idle
    <3>2. CASE loc[w].op = "release"
      BY <2>1, <2>2, <3>1, <3>2, HeldIdle, HeldQuiet DEF DecrementDone
    <3>3. CASE loc[w].op # "release"
      <4>1. /\ loc'[w].pc = "sweepNext" /\ loc'[w].op = loc[w].op
            /\ loc'[w].batch = loc[w].batch /\ loc'[w].slots = loc[w].slots
        <5> DEFINE l == [loc[w] EXCEPT !.pc = "sweepNext", !.cnt = 0, !.tries = 0, !.tgt = None]
        <5>1. loc'[w] = l
          BY <2>2, <3>3 DEF LocOK, DecrementDone, Becomes
        <5>2. l.pc = "sweepNext" /\ l.op = loc[w].op /\ l.batch = loc[w].batch /\ l.slots = loc[w].slots
          BY FieldTypes DEF Operation
        <5> QED
          BY <5>1, <5>2
      <4>2. fresh'[w] \subseteq fresh[w]
        BY <2>2, <3>3 DEF TypeOK, DecrementDone, Holds
      <4>3. HeldBy(w)'
        BY <2>1, <4>1, <4>2, HeldSweepKept DEF BatchPcs
      <4> QED
        BY <2>1, <3>1, <4>3, HeldQuiet
    <3> QED
      BY <3>2, <3>3
  <2>3. CASE DecrementAgain(w, {Counter})
    BY <2>1, <2>3, HeldDecrement
  <2> QED
    BY <1>13, <2>2, <2>3 DEF DecrementWrite
<1>14. ASSUME NEW w \in Workers, DecrementConflict(w) PROVE Held'
  <2>1. UNCHANGED <<state, age, retained>>
    BY <1>14 DEF DecrementConflict, table
  <2> QED
    BY <1>14, <2>1, HeldDecrement DEF DecrementConflict
<1>15. ASSUME NEW w \in Workers, ReadCounter(w) PROVE Held'
  <2>1. \A v \in Workers \ {w} : loc'[v] = loc[v] /\ fresh'[v] \subseteq fresh[v]
    BY <1>15 DEF TypeOK, LocOK, ReadCounter, Becomes, Holds, table
  <2>2. HeldBy(w)'
    <3>1. loc'[w].pc \in {"recount", "submit"}
      BY <1>15 DEF LocOK, Operation, ReadCounter, Becomes
    <3> QED
      BY <3>1, HeldClear DEF BatchPcs, StalePcs, CompletePcs
  <2> QED
    BY <1>15, <2>1, <2>2, HeldQuiet DEF ReadCounter, table
<1>16. ASSUME NEW w \in Workers, DenyQuota(w) PROVE Held'
  <2>1. \A v \in Workers \ {w} : loc'[v] = loc[v] /\ fresh'[v] \subseteq fresh[v]
    BY <1>16 DEF TypeOK, LocOK, DenyQuota, End, Holds, table, Becomes, Idle
  <2>2. HeldBy(w)'
    <3>1. loc'[w].pc \in {"idle"}
      BY <1>16 DEF LocOK, Operation, DenyQuota, End, Becomes, Idle
    <3> QED
      BY <3>1, HeldClear DEF BatchPcs, StalePcs, CompletePcs
  <2> QED
    BY <1>16, <2>1, <2>2, HeldQuiet DEF DenyQuota, table
<1>17. ASSUME NEW w \in Workers, Recount(w) PROVE Held'
  <2>1. \A v \in Workers \ {w} : loc'[v] = loc[v] /\ fresh'[v] \subseteq fresh[v]
    BY <1>17 DEF TypeOK, LocOK, Recount, Becomes, table
  <2>2. HeldBy(w)'
    <3>1. loc'[w].pc \in {"recountWrite"}
      BY <1>17 DEF LocOK, Operation, Recount, Becomes
    <3> QED
      BY <3>1, HeldClear DEF BatchPcs, StalePcs, CompletePcs
  <2> QED
    BY <1>17, <2>1, <2>2, HeldQuiet DEF Recount, table
<1>18. ASSUME NEW w \in Workers, RecountWrite(w) PROVE Held'
  <2>1. \A v \in Workers \ {w} : loc'[v] = loc[v] /\ fresh'[v] \subseteq fresh[v]
    BY <1>18 DEF TypeOK, LocOK, RecountWrite, Becomes, End, Idle
  <2>2. HeldBy(w)'
    <3>1. CASE End(w)
      BY <3>1, HeldIdle
    <3>2. CASE ~End(w)
      <4>1. loc'[w] = [loc[w] EXCEPT !.pc = "readCounter", !.tries = @ + 1, !.cnt = 0, !.tally = 0]
        BY <3>2, <1>18 DEF LocOK, RecountWrite, Becomes
      <4>2. loc'[w].pc = "readCounter"
        BY <4>1 DEF LocOK, Operation
      <4> QED
        BY <4>2, HeldClear DEF BatchPcs, StalePcs, CompletePcs
    <3> QED
      BY <3>1, <3>2
  <2> QED
    BY <1>18, <2>1, <2>2, HeldQuiet DEF RecountWrite
<1>19. ASSUME NEW w \in Workers, Reserve(w) PROVE Held'
  <2> DEFINE i == loc[w].id
  <2>1. i \in Inv /\ state[i] = "free"
    BY <1>19 DEF Control, ControlOf, Unborn, Reserve, At, CreateOnlyPcs, CreatePcs
  <2>2. state' = [state EXCEPT ![i] = "reserved"] /\ UNCHANGED <<age, retained>>
    BY <1>19 DEF Reserve
  <2>3. \A v \in Workers \ {w} : SameHand(v)
    BY <1>19 DEF LocOK, Operation, Reserve, Remember, SameHand
  <2>4. \A v \in Workers \ {w} : fresh'[v] \subseteq fresh[v] /\ i \notin fresh'[v]
    BY <1>19 DEF TypeOK, Reserve, Holds
  <2>5. HeldBy(w)'
    <3>1. loc'[w].pc = "platform"
      BY <1>19 DEF LocOK, Operation, Reserve, Remember
    <3> QED
      BY <3>1, HeldClear DEF BatchPcs, StalePcs, CompletePcs
  <2>6. \A v \in Workers \ {w} : \A j \in fresh'[v] \cap Inv :
          state'[j] = state[j] /\ age'[j] = age[j] /\ (j \in retained' <=> j \in retained)
    BY <2>2, <2>4 DEF TypeOK
  <2>7. \A j \in Inv : state[j] \notin {"free", "reserved"} => state'[j] \notin {"free", "reserved"}
    BY <2>1, <2>2 DEF TypeOK
  <2> QED
    BY <2>3, <2>4, <2>5, <2>6, <2>7, HeldKept
<1>20. ASSUME NEW w \in Workers, ReserveConflict(w) PROVE Held'
  <2>1. End(w) \/ TryAgain(w, "readCounter")
    BY <1>20 DEF ReserveConflict, Retry
  <2>2. \A v \in Workers \ {w} : loc'[v] = loc[v] /\ fresh'[v] \subseteq fresh[v]
    BY <1>20, <2>1, Again DEF TypeOK, LocOK, ReserveConflict, Retry, Holds, End, Becomes
  <2>3. End(w) \/ loc'[w].pc = "readCounter"
    BY <2>1, Again
  <2>4. HeldBy(w)'
    BY <2>3, HeldIdle, HeldClear DEF BatchPcs, StalePcs, CompletePcs
  <2> QED
    BY <1>20, <2>2, <2>4, HeldQuiet DEF ReserveConflict, table
<1>21. ASSUME NEW w \in Workers, ReserveDuplicate(w) PROVE Held'
  <2>1. \A v \in Workers \ {w} : loc'[v] = loc[v] /\ fresh'[v] \subseteq fresh[v]
    BY <1>21 DEF TypeOK, LocOK, ReserveDuplicate, Becomes, Holds, table
  <2>2. HeldBy(w)'
    <3>1. loc'[w].pc \in {"index"}
      BY <1>21 DEF LocOK, Operation, ReserveDuplicate, Becomes
    <3> QED
      BY <3>1, HeldClear DEF BatchPcs, StalePcs, CompletePcs
  <2> QED
    BY <1>21, <2>1, <2>2, HeldQuiet DEF ReserveDuplicate, table
<1>22. ASSUME NEW w \in Workers, TokenFails(w) PROVE Held'
  <2>1. \A v \in Workers \ {w} : loc'[v] = loc[v] /\ fresh'[v] \subseteq fresh[v]
    BY <1>22 DEF TypeOK, LocOK, TokenFails, Becomes, table
  <2>2. HeldBy(w)'
    <3>1. loc'[w].pc \in {"relRead"}
      BY <1>22 DEF LocOK, Operation, TokenFails, Becomes
    <3> QED
      BY <3>1, HeldClear DEF BatchPcs, StalePcs, CompletePcs
  <2> QED
    BY <1>22, <2>1, <2>2, HeldQuiet DEF TokenFails, table
<1>23. ASSUME NEW w \in Workers, PostUncertain(w) PROVE Held'
  <2>1. \A v \in Workers \ {w} : loc'[v] = loc[v] /\ fresh'[v] \subseteq fresh[v]
    BY <1>23 DEF TypeOK, LocOK, PostUncertain, Post, End, table, Becomes, Idle
  <2>2. HeldBy(w)'
    <3>1. loc'[w].pc \in {"idle"}
      BY <1>23 DEF LocOK, Operation, PostUncertain, Post, End, Becomes, Idle
    <3> QED
      BY <3>1, HeldClear DEF BatchPcs, StalePcs, CompletePcs
  <2> QED
    BY <1>23, <2>1, <2>2, HeldQuiet DEF PostUncertain, Post, table
<1>24. ASSUME NEW w \in Workers, PostSucceeds(w) PROVE Held'
  <2>1. \A v \in Workers \ {w} : loc'[v] = loc[v] /\ fresh'[v] \subseteq fresh[v]
    BY <1>24 DEF TypeOK, LocOK, PostSucceeds, Post, GoTo, table, Becomes
  <2>2. HeldBy(w)'
    <3>1. loc'[w].pc \in {"finRead"}
      BY <1>24 DEF LocOK, Operation, PostSucceeds, Post, GoTo, Becomes
    <3> QED
      BY <3>1, HeldClear DEF BatchPcs, StalePcs, CompletePcs
  <2> QED
    BY <1>24, <2>1, <2>2, HeldQuiet DEF PostSucceeds, Post, table
<1>25. ASSUME NEW w \in Workers, FinalizeRead(w) PROVE Held'
  <2>1. \A v \in Workers \ {w} : loc'[v] = loc[v] /\ fresh'[v] \subseteq fresh[v]
    BY <1>25 DEF TypeOK, LocOK, FinalizeRead, GoTo, Holds, End, table, Becomes, Idle
  <2>2. HeldBy(w)'
    <3>1. loc'[w].pc \in {"idle", "finWrite"}
      BY <1>25 DEF LocOK, Operation, FinalizeRead, GoTo, End, Becomes, Idle
    <3> QED
      BY <3>1, HeldClear DEF BatchPcs, StalePcs, CompletePcs
  <2> QED
    BY <1>25, <2>1, <2>2, HeldQuiet DEF FinalizeRead, table
<1>26. ASSUME NEW w \in Workers, Finalize(w) PROVE Held'
  <2>1. /\ End(w) \/ TryAgain(w, "finRead")
        /\ state' = [state EXCEPT ![loc[w].id] = "active"] /\ UNCHANGED <<age, retained>>
        /\ Holds(w, {}, {loc[w].id})
    BY <1>26 DEF Finalize
  <2>2. /\ \A v \in Workers \ {w} : loc'[v] = loc[v]
        /\ End(w) \/ loc'[w].pc = "finRead"
    BY <2>1, Again DEF LocOK, End, Becomes
  <2>3. \A v \in Workers \ {w} : fresh'[v] = fresh[v] \ {loc[w].id}
    BY <2>1 DEF TypeOK, Holds
  <2>4. HeldBy(w)'
    BY <2>2, HeldIdle, HeldClear DEF BatchPcs, StalePcs, CompletePcs
  <2>5. \A v \in Workers \ {w} : \A i \in fresh'[v] \cap Inv :
          state'[i] = state[i] /\ age'[i] = age[i] /\ (i \in retained' <=> i \in retained)
    BY <2>1, <2>3 DEF TypeOK
  <2>6. \A i \in Inv : state[i] \notin {"free", "reserved"}
                       => state'[i] \notin {"free", "reserved"}
    BY <2>1 DEF TypeOK
  <2> QED
    BY <2>2, <2>3, <2>4, <2>5, <2>6, HeldSteady
<1>27. ASSUME NEW w \in Workers, FinalizeConflict(w) PROVE Held'
  <2>1. End(w) \/ TryAgain(w, "finRead")
    BY <1>27 DEF FinalizeConflict, Retry
  <2>2. \A v \in Workers \ {w} : loc'[v] = loc[v] /\ fresh'[v] \subseteq fresh[v]
    BY <1>27, <2>1, Again DEF TypeOK, LocOK, FinalizeConflict, Retry, Holds, End, Becomes
  <2>3. End(w) \/ loc'[w].pc = "finRead"
    BY <2>1, Again
  <2>4. HeldBy(w)'
    BY <2>3, HeldIdle, HeldClear DEF BatchPcs, StalePcs, CompletePcs
  <2> QED
    BY <1>27, <2>2, <2>4, HeldQuiet DEF FinalizeConflict, table
<1>28. ASSUME NEW w \in Workers, ReleaseRead(w) PROVE Held'
  <2>1. \A v \in Workers \ {w} : loc'[v] = loc[v] /\ fresh'[v] \subseteq fresh[v]
    BY <1>28 DEF TypeOK, LocOK, ReleaseRead, GoTo, Holds, End, table, Becomes, Idle
  <2>2. HeldBy(w)'
    <3>1. CASE End(w)
      BY <3>1, HeldIdle
    <3>2. CASE ~End(w)
      <4>1. GoTo(w, "relDelete") /\ state[loc[w].id] = "reserved" /\ UNCHANGED state
        BY <3>2, <1>28 DEF ReleaseRead, table
      <4>2. loc'[w].pc = "relDelete" /\ loc'[w].id = loc[w].id
        BY <4>1 DEF LocOK, Operation, GoTo, Becomes
      <4>3. loc'[w].op # "stale" /\ loc'[w].batch = {}
        BY <4>2 DEF Control, ControlOf, BatchPcs, StalePcs
      <4> QED
        BY <4>1, <4>2, <4>3 DEF HeldBy, CompletePcs
    <3> QED
      BY <3>1, <3>2
  <2> QED
    BY <1>28, <2>1, <2>2, HeldQuiet DEF ReleaseRead, table
<1>29. ASSUME NEW w \in Workers, ReleaseDelete(w) PROVE Held'
  <2>1. \A v \in Workers \ {w} : loc'[v] = loc[v] /\ fresh'[v] \subseteq fresh[v]
    BY <1>29 DEF TypeOK, LocOK, ReleaseDelete, Becomes, Holds
  <2>2. HeldBy(w)'
    <3>1. loc'[w].pc = "decRead" /\ loc'[w].op = loc[w].op
      BY <1>29 DEF LocOK, Operation, ReleaseDelete, Becomes
    <3>2. loc'[w].op \notin SweepOps
      BY <3>1, <1>29 DEF Control, ControlOf, ReleaseDelete, At, SweepOps
    <3> QED
      BY <3>1, <3>2, HeldSweep DEF BatchPcs
  <2>3. \A v \in Workers \ {w} : \A i \in fresh'[v] \cap Inv :
          state'[i] = state[i] /\ age'[i] = age[i] /\ (i \in retained' <=> i \in retained)
    BY <1>29 DEF TypeOK, LocOK, ReleaseDelete, Becomes, Holds
  <2>4. \A i \in Inv : state[i] \notin {"free", "reserved"}
                       => state'[i] \notin {"free", "reserved"}
    BY <1>29 DEF TypeOK, ReleaseDelete
  <2> QED
    BY <2>1, <2>2, <2>3, <2>4, HeldSteady
<1>30. ASSUME NEW w \in Workers, ReleaseConflict(w) PROVE Held'
  <2>1. \/ End(w) \/ TryAgain(w, "relRead")
        \/ Becomes(w, [loc[w] EXCEPT !.pc = "decRead", !.tries = 0])
    BY <1>30 DEF ReleaseConflict
  <2>2. \A v \in Workers \ {w} : loc'[v] = loc[v] /\ fresh'[v] \subseteq fresh[v]
    BY <1>30, <2>1, Again DEF TypeOK, LocOK, ReleaseConflict, Holds, End, Becomes
  <2>3. \/ End(w) \/ loc'[w].pc = "relRead"
        \/ loc'[w].pc = "decRead" /\ loc'[w].op = loc[w].op
    BY <2>1, Again DEF LocOK, Operation, Becomes
  <2>4. loc[w].op \notin SweepOps
    BY <1>30 DEF Control, ControlOf, ReleaseConflict, At, SweepOps
  <2>5. HeldBy(w)'
    BY <2>3, <2>4, HeldIdle, HeldClear, HeldSweep DEF BatchPcs, StalePcs, CompletePcs
  <2> QED
    BY <1>30, <2>2, <2>5, HeldQuiet DEF ReleaseConflict, table
<1>31. ASSUME NEW w \in Workers, CompleteRead(w) PROVE Held'
  <2>1. \A v \in Workers \ {w} : loc'[v] = loc[v] /\ fresh'[v] \subseteq fresh[v]
    BY <1>31 DEF TypeOK, LocOK, CompleteRead, GoTo, Holds, End, table, Becomes, Idle
  <2>2. HeldBy(w)'
    <3>1. CASE End(w)
      BY <3>1, HeldIdle
    <3>2. CASE ~End(w)
      <4>1. loc'[w].pc = "cmpCounter" /\ loc'[w].tgt = loc[w].tgt
        BY <3>2, <1>31 DEF LocOK, Operation, CompleteRead, GoTo, Becomes
      <4>2. state'[loc'[w].tgt] \notin {"free", "reserved"}
        BY <4>1, <1>31 DEF Held, HeldBy, CompletePcs, CompleteRead, At, table
      <4>3. loc'[w].pc # "cmpRead" /\ loc'[w].tgt \in fresh'[w] => (loc[w].tgt \in Open)'
        BY <3>2, <4>1, <1>31, RowsAssumption DEF Held, HeldBy, TypeOK, CompleteRead, At,
            table, Holds, Open, Control,
           ControlOf, TgtPcs
      <4> QED
        BY <4>1, <4>2, <4>3, HeldComplete DEF CompletePcs
    <3> QED
      BY <3>1, <3>2
  <2> QED
    BY <1>31, <2>1, <2>2, HeldQuiet DEF CompleteRead, table
<1>32. ASSUME NEW w \in Workers, CompleteCounter(w) PROVE Held'
  <2>1. \A v \in Workers \ {w} : loc'[v] = loc[v] /\ fresh'[v] \subseteq fresh[v]
    BY <1>32 DEF TypeOK, LocOK, CompleteCounter, Becomes, Holds, table
  <2>2. HeldBy(w)'
    <3>1. CASE End(w)
      BY <3>1, HeldIdle
    <3>2. CASE ~End(w)
      <4>1. loc'[w].pc = "cmpSubmit" /\ loc'[w].tgt = loc[w].tgt
        BY <3>2, <1>32 DEF LocOK, Operation, CompleteCounter, Becomes
      <4>2. state'[loc'[w].tgt] \notin {"free", "reserved"}
        BY <4>1, <1>32 DEF Held, HeldBy, CompletePcs, CompleteCounter, At, table
      <4>3. loc'[w].pc # "cmpRead" /\ loc'[w].tgt \in fresh'[w] => (loc[w].tgt \in Open)'
        BY <3>2, <4>1, <1>32, RowsAssumption DEF Held, HeldBy, TypeOK, CompleteCounter, At,
            table, Holds, Open, Control,
           ControlOf, TgtPcs
      <4> QED
        BY <4>1, <4>2, <4>3, HeldComplete DEF CompletePcs
    <3> QED
      BY <3>1, <3>2
  <2> QED
    BY <1>32, <2>1, <2>2, HeldQuiet DEF CompleteCounter, table
<1>33. ASSUME NEW w \in Workers, Complete(w) PROVE Held'
  <2>1. \A v \in Workers \ {w} : loc'[v] = loc[v] /\ fresh'[v] \subseteq fresh[v]
    BY <1>33 DEF TypeOK, LocOK, Complete, CloseRecord, Prolong, End, Holds, Becomes, Idle
  <2>2. HeldBy(w)'
    <3>1. loc'[w].pc \in {"idle"}
      BY <1>33 DEF LocOK, Operation, Complete, End, Becomes, Idle
    <3> QED
      BY <3>1, HeldClear DEF BatchPcs, StalePcs, CompletePcs
  <2>3. \A v \in Workers \ {w} : \A i \in fresh'[v] \cap Inv :
          state'[i] = state[i] /\ age'[i] = age[i] /\ (i \in retained' <=> i \in retained)
    BY <1>33 DEF TypeOK, LocOK, Complete, CloseRecord, Prolong, End, Holds, Becomes, Idle
  <2>4. \A i \in Inv : state[i] \notin {"free", "reserved"}
                       => state'[i] \notin {"free", "reserved"}
    BY <1>33 DEF TypeOK, Complete, CloseRecord, Prolong
  <2> QED
    BY <2>1, <2>2, <2>3, <2>4, HeldSteady
<1>34. ASSUME NEW w \in Workers, CompleteConflict(w) PROVE Held'
  <2>1. \A v \in Workers \ {w} : loc'[v] = loc[v] /\ fresh'[v] \subseteq fresh[v]
    BY <1>34 DEF TypeOK, LocOK, CompleteConflict, Retry, TryAgain, MayRetry, End, Holds, table,
        Becomes, Idle
  <2>2. HeldBy(w)'
    <3>1. CASE End(w)
      BY <3>1, HeldIdle
    <3>2. CASE ~End(w)
      <4>0. Becomes(w, [loc[w] EXCEPT !.pc = "cmpRead", !.tries = @ + 1, !.cnt = 0])
        BY <3>2, <1>34 DEF CompleteConflict, Retry, TryAgain, MayRetry
      <4>1. loc'[w].pc = "cmpRead" /\ loc'[w].tgt = loc[w].tgt
        BY <4>0 DEF LocOK, Operation, Becomes
      <4>2. state'[loc'[w].tgt] \notin {"free", "reserved"}
        BY <4>1, <1>34 DEF Held, HeldBy, CompletePcs, CompleteConflict, At, table
      <4>3. loc'[w].pc # "cmpRead" /\ loc'[w].tgt \in fresh'[w] => (loc[w].tgt \in Open)'
        BY <3>2, <4>1, <1>34, RowsAssumption DEF Held, HeldBy, TypeOK, CompleteConflict,
            At, table, Holds, Open, Control,
           ControlOf, TgtPcs
      <4> QED
        BY <4>1, <4>2, <4>3, HeldComplete DEF CompletePcs
    <3> QED
      BY <3>1, <3>2
  <2> QED
    BY <1>34, <2>1, <2>2, HeldQuiet DEF CompleteConflict, table
<1>35. ASSUME NEW w \in Workers, StaleNext(w) PROVE Held'
  <2>1. \A v \in Workers \ {w} : loc'[v] = loc[v] /\ fresh'[v] \subseteq fresh[v]
    BY <1>35 DEF TypeOK, LocOK, StaleNext, Becomes, Holds, table
  <2>2. HeldBy(w)'
    <3>1. /\ loc'[w].op = "stale" /\ loc'[w].batch \cup {loc'[w].tgt} \subseteq loc[w].batch
          /\ loc[w].op = "stale"
      BY <1>35 DEF LocOK, Operation, StaleNext, Becomes, At, Control, ControlOf, StalePcs
    <3>2. fresh'[w] \cap Inv \subseteq fresh[w]
      BY <1>35, RowsAssumption DEF TypeOK, StaleNext, Holds
    <3>3. \A i \in Inv : i \in Uncertain => (i \in Uncertain)'
      BY <1>35 DEF StaleNext, table, Uncertain
    <3>4. \A i \in loc[w].batch \cap fresh[w] : i \in Inv => i \in Uncertain
      BY <3>1 DEF Held, HeldBy
    <3> QED
      BY <3>1, <3>2, <3>3, <3>4, HeldStale
  <2> QED
    BY <1>35, <2>1, <2>2, HeldQuiet DEF StaleNext, table
<1>36. ASSUME NEW w \in Workers, ReleaseStale(w) PROVE Held'
  <2>1. \A v \in Workers \ {w} : loc'[v] = loc[v] /\ fresh'[v] \subseteq fresh[v]
    BY <1>36 DEF TypeOK, LocOK, ReleaseStale, CloseRecord, Prolong, StaleContinue, End, Holds,
        Becomes, Idle
  <2>2. HeldBy(w)'
    <3>1. CASE End(w)
      BY <3>1, HeldIdle
    <3>2. CASE ~End(w)
      <4>1. loc[w].op = "stale"
        BY <1>36 DEF ReleaseStale, At, Control, ControlOf, StalePcs
      <4>5. loc'[w] = [loc[w] EXCEPT !.pc = "staleNext", !.tgt = None, !.cnt = 0]
        BY <3>2, <1>36 DEF LocOK, ReleaseStale, StaleContinue, Becomes
      <4>6. loc'[w].op = "stale" /\ loc'[w].batch = loc[w].batch /\ loc'[w].tgt = None
        BY <4>1, <4>5 DEF LocOK, Operation
      <4>2. fresh'[w] \subseteq fresh[w] \ {loc[w].tgt}
        BY <3>2, <1>36 DEF TypeOK, ReleaseStale, StaleContinue, Holds
      <4>3. \A i \in Inv \ {loc[w].tgt} : i \in Uncertain => (i \in Uncertain)'
        BY <1>36 DEF ReleaseStale, CloseRecord, Prolong, TypeOK, Uncertain
      <4>4. \A i \in loc[w].batch \cap fresh[w] : i \in Inv => i \in Uncertain
        BY <4>1 DEF Held, HeldBy
      <4> QED
        BY <4>1, <4>2, <4>3, <4>4, <4>6, RowsAssumption, HeldStale
    <3> QED
      BY <3>1, <3>2
  <2>3. \A v \in Workers \ {w} : \A i \in fresh'[v] \cap Inv :
          state'[i] = state[i] /\ age'[i] = age[i] /\ (i \in retained' <=> i \in retained)
    BY <1>36 DEF TypeOK, LocOK, ReleaseStale, CloseRecord, Prolong, StaleContinue, End, Holds,
        Becomes, Idle
  <2>4. \A i \in Inv : state[i] \notin {"free", "reserved"}
                       => state'[i] \notin {"free", "reserved"}
    BY <1>36 DEF TypeOK, ReleaseStale, CloseRecord, Prolong
  <2> QED
    BY <2>1, <2>2, <2>3, <2>4, HeldSteady
<1>37. ASSUME NEW w \in Workers, StaleConflict(w) PROVE Held'
  <2>1. \A v \in Workers \ {w} : loc'[v] = loc[v] /\ fresh'[v] \subseteq fresh[v]
    BY <1>37 DEF TypeOK, LocOK, StaleConflict, StaleContinue, End, Holds, table,
        Becomes, Idle
  <2>2. HeldBy(w)'
    <3>1. CASE End(w)
      BY <3>1, HeldIdle
    <3>2. CASE ~End(w)
      <4>1. loc[w].op = "stale"
        BY <1>37 DEF StaleConflict, At, Control, ControlOf, StalePcs
      <4>5. loc'[w] = [loc[w] EXCEPT !.pc = "staleNext", !.tgt = None, !.cnt = 0]
        BY <3>2, <1>37 DEF LocOK, StaleConflict, StaleContinue, Becomes
      <4>6. loc'[w].op = "stale" /\ loc'[w].batch = loc[w].batch /\ loc'[w].tgt = None
        BY <4>1, <4>5 DEF LocOK, Operation
      <4>2. fresh'[w] \subseteq fresh[w] \ {loc[w].tgt}
        BY <3>2, <1>37 DEF TypeOK, StaleConflict, StaleContinue, Holds
      <4>3. \A i \in Inv \ {loc[w].tgt} : i \in Uncertain => (i \in Uncertain)'
        BY <1>37 DEF StaleConflict, table, Uncertain
      <4>4. \A i \in loc[w].batch \cap fresh[w] : i \in Inv => i \in Uncertain
        BY <4>1 DEF Held, HeldBy
      <4> QED
        BY <4>1, <4>2, <4>3, <4>4, <4>6, RowsAssumption, HeldStale
    <3> QED
      BY <3>1, <3>2
  <2> QED
    BY <1>37, <2>1, <2>2, HeldQuiet DEF StaleConflict, table
<1>38. ASSUME NEW w \in Workers, StartSweep(w) PROVE Held'
  <2>1. \A v \in Workers \ {w} : loc'[v] = loc[v] /\ fresh'[v] \subseteq fresh[v]
    BY <1>38 DEF TypeOK, LocOK, StartSweep, Becomes, Idle, Holds, table
  <2>2. HeldBy(w)'
    <3>1. PICK B \in Batches(ExpiredRows) :
                /\ loc'[w].batch = B /\ loc'[w].slots = B \cap Open
                /\ loc'[w].pc = "sweepNext" /\ fresh'[w] = B
      BY <1>38 DEF LocOK, TypeOK, Operation, Holds, StartSweep, Becomes, Idle
    <3>2. \A i \in B \cap Inv : Lapsing(i)
      BY RowsAssumption DEF Batches, ExpiredRows, StaleIndex, IndexRows, Lapsing, Present
    <3>3. \A i \in B \cap Inv : Lapsing(i)' /\ (i \in Open => (i \in Open)')
      BY <3>2, <1>38 DEF StartSweep, table, Lapsing, Present, Expired, Open
    <3> QED
      BY <3>1, <3>3, HeldSweep DEF BatchPcs
  <2> QED
    BY <1>38, <2>1, <2>2, HeldQuiet DEF StartSweep, table
<1>39. ASSUME NEW w \in Workers, StartReleaseStale(w) PROVE Held'
  <2>1. \A v \in Workers \ {w} : loc'[v] = loc[v] /\ fresh'[v] \subseteq fresh[v]
    BY <1>39 DEF TypeOK, LocOK, StartReleaseStale, Becomes, Idle, Holds, table
  <2>2. HeldBy(w)'
    <3>1. PICK B \in Batches(Uncertain) : loc'[w].batch = B /\ loc'[w].op = "stale"
                                         /\ loc'[w].tgt = None /\ fresh'[w] = B
      BY <1>39 DEF LocOK, TypeOK, Operation, Holds, StartReleaseStale, Becomes, Idle
    <3>2. \A i \in B : (i \in Uncertain)'
      BY <1>39 DEF StartReleaseStale, table, Uncertain, Batches
    <3> QED
      BY <3>1, <3>2, RowsAssumption, HeldStale
  <2> QED
    BY <1>39, <2>1, <2>2, HeldQuiet DEF StartReleaseStale, table
<1>40. ASSUME NEW w \in Workers, Abandon(w) PROVE Held'
  <2>1. \A v \in Workers \ {w} : loc'[v] = loc[v] /\ fresh'[v] \subseteq fresh[v]
    BY <1>40 DEF TypeOK, LocOK, Abandon, Fault, notes, End, Holds, table, Becomes, Idle
  <2>2. HeldBy(w)'
    <3>1. loc'[w].pc \in {"idle"}
      BY <1>40 DEF LocOK, Operation, Abandon, Fault, notes, End, Becomes, Idle
    <3> QED
      BY <3>1, HeldClear DEF BatchPcs, StalePcs, CompletePcs
  <2> QED
    BY <1>40, <2>1, <2>2, HeldQuiet DEF Abandon, Fault, notes, table
<1>41. ASSUME NEW w \in Workers, NEW i \in Inv, StartRead(w, i) PROVE Held'
  <2>1. \A v \in Workers \ {w} : loc'[v] = loc[v] /\ fresh'[v] \subseteq fresh[v]
    BY <1>41 DEF TypeOK, LocOK, StartRead, Becomes, Idle, Holds, table
  <2>2. HeldBy(w)'
    <3>1. loc'[w].pc = "expire" /\ loc'[w].tgt = i
      BY <1>41 DEF LocOK, Operation, StartRead, Becomes, Idle
    <3>2. Lapsing(loc[w].tgt)'
      BY <3>1, <1>41 DEF StartRead, table, Lapsing, Present, Expired
    <3> QED
      BY <3>1, <3>2, HeldExpire
  <2> QED
    BY <1>41, <2>1, <2>2, HeldQuiet DEF StartRead, table
<1>42. ASSUME NEW w \in Workers, NEW i \in Inv, StartComplete(w, i) PROVE Held'
  <2>1. \A v \in Workers \ {w} : loc'[v] = loc[v] /\ fresh'[v] \subseteq fresh[v]
    BY <1>42 DEF TypeOK, LocOK, StartComplete, Becomes, Idle, table
  <2>2. HeldBy(w)'
    <3>1. loc'[w].pc = "cmpRead" /\ loc'[w].tgt = i
      BY <1>42 DEF LocOK, Operation, StartComplete, Becomes, Idle
    <3> QED
      BY <3>1, <1>42, HeldComplete DEF StartComplete, table, CompletePcs
  <2> QED
    BY <1>42, <2>1, <2>2, HeldQuiet DEF StartComplete, table
<1>43. ASSUME NEW w \in Workers, NEW i \in Inv, NEW k \in Keys \cup {None}, StartCreate(w, k, i) PROVE Held'
  <2>1. \A v \in Workers \ {w} : loc'[v] = loc[v] /\ fresh'[v] \subseteq fresh[v]
    BY <1>43 DEF TypeOK, LocOK, StartCreate, Becomes, Idle, table
  <2>2. HeldBy(w)'
    <3>1. loc'[w].pc \in {"sweepQuery", "index"}
      BY <1>43 DEF LocOK, Operation, StartCreate, Becomes, Idle
    <3> QED
      BY <3>1, HeldClear DEF BatchPcs, StalePcs, CompletePcs
  <2> QED
    BY <1>43, <2>1, <2>2, HeldQuiet DEF StartCreate, table
<1>44. ASSUME NEW i \in Inv, Age(i) PROVE Held'
  <2>1. \A v \in Workers : SameHand(v)
    BY <1>44 DEF LocOK, Operation, Age, Remember, SameHand
  <2>2. \A j \in Inv : /\ Lapsing(j) => Lapsing(j)'
                       /\ j \in Uncertain => (j \in Uncertain)'
                       /\ j \in Open => (j \in Open)'
    BY <1>44 DEF TypeOK, Age, Lapsing, Expired, Present, Uncertain, Open
  <2>3. UNCHANGED <<state, fresh>>
    BY <1>44 DEF Age
  <2>4. \A v \in Workers : ControlOf(loc[v])
    BY DEF Control
  <2>5. SUFFICES ASSUME NEW v \in Workers PROVE HeldBy(v)'
    BY DEF Held
  <2>6. HeldBy(v) /\ SameHand(v) /\ ControlOf(loc[v])
    BY <2>1, <2>4 DEF Held
  <2>7. loc[v].pc \in CompletePcs \/ loc[v].pc = "expire" => loc[v].tgt \in Inv
    BY <2>6 DEF ControlOf, TgtPcs, CompletePcs
  <2> QED
    BY <2>2, <2>3, <2>6, <2>7 DEF HeldBy, SameHand, CompletePcs
<1>45. ASSUME NEW i \in Inv, Touch(i) PROVE Held'
  BY <1>45 DEF Touch, notes, table, TypeOK, Held, HeldBy, Lapsing, Expired, Present, Uncertain,
      Open
<1>46. ASSUME UNCHANGED vars PROVE Held'
  BY <1>46 DEF vars, Held, HeldBy, Lapsing, Expired, Present, Uncertain, Open
<1> QED
  BY <1>1, <1>2, <1>3, <1>4, <1>5, <1>6, <1>7, <1>8, <1>9, <1>9a, <1>10, <1>11, <1>12,
      <1>13, <1>14, <1>15, <1>16, <1>17, <1>18, <1>19, <1>20, <1>21, <1>22, <1>23, <1>24, <1>25,
      <1>26, <1>27, <1>28, <1>29, <1>30, <1>31, <1>32, <1>33, <1>34, <1>35, <1>36, <1>37,
      <1>38, <1>39, <1>40, <1>41, <1>42, <1>43, <1>44, <1>45, <1>46 DEF Next, Step,
      FindStep, SweepStep, DecStep, ReserveStep, PlatformStep, SettleStep, CompleteStep,
      StaleStep

(* One worker's move keeps Unborn if no other operation's new record is      *)
(* created by it.                                                            *)
LEMMA UnbornUpdate ==
  ASSUME LocOK, Unborn, NEW w \in Workers, NEW l, Becomes(w, l),
         l.op = "create" /\ l.pc \notin CreatePcs
           => loc[w].op = "create" /\ loc[w].pc \notin CreatePcs /\ l.id = loc[w].id,
         \A v \in Workers : loc[v].op = "create" /\ loc[v].pc \notin CreatePcs
           => state'[loc[v].id] = state[loc[v].id]
  PROVE  Unborn'
  BY DEF LocOK, Unborn, Becomes

(* Ending an operation keeps Unborn.                                         *)
LEMMA UnbornEnd ==
  ASSUME LocOK, Unborn, NEW w \in Workers, End(w),
         \A v \in Workers : loc[v].op = "create" /\ loc[v].pc \notin CreatePcs
           => state'[loc[v].id] = state[loc[v].id]
  PROVE  Unborn'
  BY UnbornUpdate DEF End, Idle

(* So does another attempt, at a place before or after the commit as the     *)
(* last.                                                                     *)
LEMMA UnbornAgain ==
  ASSUME LocOK, Unborn, NEW w \in Workers, NEW p, TryAgain(w, p),
         p \notin CreatePcs => loc[w].pc \notin CreatePcs,
         \A v \in Workers : loc[v].op = "create" /\ loc[v].pc \notin CreatePcs
           => state'[loc[v].id] = state[loc[v].id]
  PROVE  Unborn'
<1>1. CASE End(w)
  BY <1>1, UnbornEnd
<1>2. CASE ~End(w)
  BY <1>2, Again DEF Unborn, SameTask
<1> QED
  BY <1>1, <1>2

(* A record that is not free is not the new record of any operation.         *)
LEMMA UnbornUsed ==
  ASSUME TypeOK, Control, Unborn, NEW i \in Inv, state[i] # "free", NEW new,
         state' = [state EXCEPT ![i] = new]
  PROVE  \A v \in Workers : loc[v].op = "create" /\ loc[v].pc \notin CreatePcs
           => state'[loc[v].id] = state[loc[v].id]
  BY DEF TypeOK, Control, ControlOf, Unborn

(* Nobody creates or touches the record of an investigation before the       *)
(* transaction of its own operation commits.                                 *)
LEMMA UnbornStep ==
  ASSUME TypeOK, LocOK, Control, DistinctIds, Held, Unborn, [Next]_vars
  PROVE  Unborn'
<1>1. ASSUME NEW w \in Workers, ReadIndex(w) PROVE Unborn'
  <2>1. \A v \in Workers : loc[v].op = "create" /\ loc[v].pc \notin CreatePcs
          => state'[loc[v].id] = state[loc[v].id]
    BY <1>1 DEF ReadIndex, table
  <2>2. [loc[w] EXCEPT !.pc = "fallback"].op = "create" /\ [loc[w] EXCEPT !.pc = "fallback"].pc \notin CreatePcs
          => loc[w].op = "create" /\ loc[w].pc \notin CreatePcs /\ [loc[w] EXCEPT !.pc = "fallback"].id = loc[w].id
    BY <1>1 DEF LocOK, Operation, CreatePcs, At, ReadIndex
  <2>3. [loc[w] EXCEPT !.pc = "get", !.tgt = index[loc[w].req]].op = "create" /\ [loc[w] EXCEPT !.pc = "get", !.tgt = index[loc[w].req]].pc \notin CreatePcs
          => loc[w].op = "create" /\ loc[w].pc \notin CreatePcs /\ [loc[w] EXCEPT !.pc = "get", !.tgt = index[loc[w].req]].id = loc[w].id
    BY <1>1 DEF LocOK, Operation, CreatePcs, At, ReadIndex
  <2> QED
    BY <1>1, <2>1, <2>2, <2>3, UnbornUpdate, UnbornEnd DEF ReadIndex, NotFound, GoTo
<1>2. ASSUME NEW w \in Workers, GetRecord(w) PROVE Unborn'
  <2>1. \A v \in Workers : loc[v].op = "create" /\ loc[v].pc \notin CreatePcs
          => state'[loc[v].id] = state[loc[v].id]
    BY <1>2 DEF GetRecord, table
  <2>2. [loc[w] EXCEPT !.pc = "unindex"].op = "create" /\ [loc[w] EXCEPT !.pc = "unindex"].pc \notin CreatePcs
          => loc[w].op = "create" /\ loc[w].pc \notin CreatePcs /\ [loc[w] EXCEPT !.pc = "unindex"].id = loc[w].id
    BY <1>2 DEF LocOK, Operation, CreatePcs, At, GetRecord
  <2>3. [loc[w] EXCEPT !.pc = "expire"].op = "create" /\ [loc[w] EXCEPT !.pc = "expire"].pc \notin CreatePcs
          => loc[w].op = "create" /\ loc[w].pc \notin CreatePcs /\ [loc[w] EXCEPT !.pc = "expire"].id = loc[w].id
    BY <1>2 DEF LocOK, Operation, CreatePcs, At, GetRecord
  <2> QED
    BY <1>2, <2>1, <2>2, <2>3, UnbornUpdate, UnbornEnd DEF GetRecord, GoTo
<1>3. ASSUME NEW w \in Workers, ExpireRecord(w) PROVE Unborn'
  <2>1. \A v \in Workers : loc[v].op = "create" /\ loc[v].pc \notin CreatePcs
          => state'[loc[v].id] = state[loc[v].id]
    <3>1. loc[w].tgt \in Inv
      BY <1>3 DEF Control, ControlOf, TgtPcs, ExpireRecord, ExpireEnds, Fault, notes, At
    <3>2. CASE loc[w].tgt \in fresh[w]
      <4>1. state[loc[w].tgt] # "free"
        BY <3>2, <1>3 DEF Held, HeldBy, Lapsing, Present, ExpireRecord, ExpireEnds, Fault,
            notes,
            At
      <4>2. state' = [state EXCEPT ![loc[w].tgt] = "gone"] \/ state' = state
        BY <3>2, <1>3 DEF ExpireRecord, ExpireEnds, Fault, notes
      <4> QED
        BY <3>1, <4>1, <4>2, UnbornUsed
    <3>3. CASE loc[w].tgt \notin fresh[w]
      BY <3>3, <1>3 DEF ExpireRecord, ExpireEnds, Fault, notes
    <3> QED
      BY <3>2, <3>3
  <2>2. [loc[w] EXCEPT !.pc = "fallback"].op = "create" /\ [loc[w] EXCEPT !.pc = "fallback"].pc \notin CreatePcs
          => loc[w].op = "create" /\ loc[w].pc \notin CreatePcs /\ [loc[w] EXCEPT !.pc = "fallback"].id = loc[w].id
    BY <1>3 DEF LocOK, Operation, CreatePcs, At, ExpireRecord, ExpireEnds, Fault, notes
  <2>3. [loc[w] EXCEPT !.pc = "unindex"].op = "create" /\ [loc[w] EXCEPT !.pc = "unindex"].pc \notin CreatePcs
          => loc[w].op = "create" /\ loc[w].pc \notin CreatePcs /\ [loc[w] EXCEPT !.pc = "unindex"].id = loc[w].id
    BY <1>3 DEF LocOK, Operation, CreatePcs, At, ExpireRecord, ExpireEnds, Fault, notes
  <2> QED
    BY <1>3, <2>1, <2>2, <2>3, UnbornUpdate, UnbornEnd DEF ExpireRecord, ExpireEnds, Fault,
        notes,
        NotFound, GoTo
<1>4. ASSUME NEW w \in Workers, Unindex(w) PROVE Unborn'
  <2>1. \A v \in Workers : loc[v].op = "create" /\ loc[v].pc \notin CreatePcs
          => state'[loc[v].id] = state[loc[v].id]
    BY <1>4 DEF Unindex
  <2>2. [loc[w] EXCEPT !.pc = "fallback"].op = "create" /\ [loc[w] EXCEPT !.pc = "fallback"].pc \notin CreatePcs
          => loc[w].op = "create" /\ loc[w].pc \notin CreatePcs /\ [loc[w] EXCEPT !.pc = "fallback"].id = loc[w].id
    BY <1>4 DEF LocOK, Operation, CreatePcs, At, Unindex
  <2> QED
    BY <1>4, <2>1, <2>2, UnbornUpdate, UnbornEnd DEF Unindex, NotFound, GoTo
<1>5. ASSUME NEW w \in Workers, FallbackQuery(w) PROVE Unborn'
  <2>1. \A v \in Workers : loc[v].op = "create" /\ loc[v].pc \notin CreatePcs
          => state'[loc[v].id] = state[loc[v].id]
    BY <1>5 DEF FallbackQuery, table
  <2>2. [loc[w] EXCEPT !.pc = "sweepQuery"].op = "create" /\ [loc[w] EXCEPT !.pc = "sweepQuery"].pc \notin CreatePcs
          => loc[w].op = "create" /\ loc[w].pc \notin CreatePcs /\ [loc[w] EXCEPT !.pc = "sweepQuery"].id = loc[w].id
    BY <1>5 DEF LocOK, Operation, CreatePcs, At, FallbackQuery
  <2> QED
    BY <1>5, <2>1, <2>2, UnbornUpdate, UnbornEnd DEF FallbackQuery, GoTo
<1>6. ASSUME NEW w \in Workers, SweepQuery(w) PROVE Unborn'
  <2>1. \A v \in Workers : loc[v].op = "create" /\ loc[v].pc \notin CreatePcs
          => state'[loc[v].id] = state[loc[v].id]
    BY <1>6 DEF SweepQuery, table
  <2>2. /\ loc'[w].op = loc[w].op /\ loc'[w].id = loc[w].id /\ loc[w].pc \notin CreatePcs
        /\ \A v \in Workers \ {w} : loc'[v] = loc[v]
    BY <1>6 DEF LocOK, Operation, SweepQuery, Becomes, At, CreatePcs
  <2> QED
    BY <2>1, <2>2 DEF Unborn
<1>7. ASSUME NEW w \in Workers, SweepSkip(w) PROVE Unborn'
  <2>1. \A v \in Workers : loc[v].op = "create" /\ loc[v].pc \notin CreatePcs
          => state'[loc[v].id] = state[loc[v].id]
    BY <1>7 DEF SweepSkip, table
  <2>2. /\ loc'[w].op = loc[w].op /\ loc'[w].id = loc[w].id /\ loc[w].pc \notin CreatePcs
        /\ \A v \in Workers \ {w} : loc'[v] = loc[v]
    BY <1>7 DEF LocOK, Operation, SweepSkip, Becomes, At, CreatePcs
  <2> QED
    BY <2>1, <2>2 DEF Unborn
<1>8. ASSUME NEW w \in Workers, SweepIndexRow(w) PROVE Unborn'
  <2>1. \A v \in Workers : loc[v].op = "create" /\ loc[v].pc \notin CreatePcs
          => state'[loc[v].id] = state[loc[v].id]
    BY <1>8 DEF SweepIndexRow
  <2>2. /\ loc'[w].op = loc[w].op /\ loc'[w].id = loc[w].id /\ loc[w].pc \notin CreatePcs
        /\ \A v \in Workers \ {w} : loc'[v] = loc[v]
    BY <1>8 DEF LocOK, Operation, SweepIndexRow, Becomes, At, CreatePcs
  <2> QED
    BY <2>1, <2>2 DEF Unborn
<1>9. ASSUME NEW w \in Workers, SweepRecord(w) PROVE Unborn'
  <2>0. PICK i \in loc[w].batch \cap fresh[w] \cap Inv :
          /\ state' = [state EXCEPT ![i] = "gone"]
          /\ SweepDeleted(w, i) \/ Becomes(w, [loc[w] EXCEPT !.batch = @ \ {i}])
    BY <1>9 DEF SweepRecord
  <2>1. \A v \in Workers : loc[v].op = "create" /\ loc[v].pc \notin CreatePcs
          => state'[loc[v].id] = state[loc[v].id]
    <3>1. Lapsing(i)
      BY <1>9 DEF Control, ControlOf, SweepRecord, At, Held, HeldBy
    <3> QED
      BY <2>0, <3>1, UnbornUsed DEF Lapsing, Present
  <2>2. /\ loc'[w].op = loc[w].op /\ loc'[w].id = loc[w].id
        /\ \A v \in Workers \ {w} : loc'[v] = loc[v]
    BY <2>0, Deleted DEF LocOK, Operation, Becomes
  <2>3. loc[w].pc \notin CreatePcs
    BY <1>9 DEF SweepRecord, At, CreatePcs
  <2> QED
    BY <2>1, <2>2, <2>3 DEF Unborn
<1>9a. ASSUME NEW w \in Workers, SweepGone(w) PROVE Unborn'
  <2>1. /\ loc'[w].op = loc[w].op /\ loc'[w].id = loc[w].id
        /\ \A v \in Workers \ {w} : loc'[v] = loc[v]
    BY <1>9a, Deleted DEF SweepGone
  <2>2. loc[w].pc \notin CreatePcs /\ UNCHANGED state
    BY <1>9a DEF SweepGone, At, CreatePcs, table
  <2> QED
    BY <2>1, <2>2 DEF Unborn
<1>10. ASSUME NEW w \in Workers, SweepIndexOf(w) PROVE Unborn'
  <2>1. \A v \in Workers : loc[v].op = "create" /\ loc[v].pc \notin CreatePcs
          => state'[loc[v].id] = state[loc[v].id]
    BY <1>10 DEF SweepIndexOf
  <2>2. [loc[w] EXCEPT !.pc = "decRead"].op = "create" /\ [loc[w] EXCEPT !.pc = "decRead"].pc \notin CreatePcs
          => loc[w].op = "create" /\ loc[w].pc \notin CreatePcs /\ [loc[w] EXCEPT !.pc = "decRead"].id = loc[w].id
    BY <1>10 DEF LocOK, Operation, CreatePcs, At, SweepIndexOf
  <2>3. [loc[w] EXCEPT !.pc = "sweepNext"].op = "create" /\ [loc[w] EXCEPT !.pc = "sweepNext"].pc \notin CreatePcs
          => loc[w].op = "create" /\ loc[w].pc \notin CreatePcs /\ [loc[w] EXCEPT !.pc = "sweepNext"].id = loc[w].id
    BY <1>10 DEF LocOK, Operation, CreatePcs, At, SweepIndexOf
  <2> QED
    BY <1>10, <2>1, <2>2, <2>3, UnbornUpdate DEF SweepIndexOf, GoTo
<1>11. ASSUME NEW w \in Workers, SweepDone(w) PROVE Unborn'
  <2>1. \A v \in Workers : loc[v].op = "create" /\ loc[v].pc \notin CreatePcs
          => state'[loc[v].id] = state[loc[v].id]
    BY <1>11 DEF SweepDone, table
  <2>2. [loc[w] EXCEPT !.pc = "readCounter", !.tgt = None, !.tries = 0, !.slots = {}].op = "create" /\ [loc[w] EXCEPT !.pc = "readCounter", !.tgt = None, !.tries = 0, !.slots = {}].pc \notin CreatePcs
          => loc[w].op = "create" /\ loc[w].pc \notin CreatePcs /\ [loc[w] EXCEPT !.pc = "readCounter", !.tgt = None, !.tries = 0, !.slots = {}].id = loc[w].id
    BY <1>11 DEF LocOK, Operation, CreatePcs, At, SweepDone
  <2> QED
    BY <1>11, <2>1, <2>2, UnbornUpdate, UnbornEnd DEF SweepDone
<1>12. ASSUME NEW w \in Workers, DecrementRead(w) PROVE Unborn'
  <2>1. \A v \in Workers : loc[v].op = "create" /\ loc[v].pc \notin CreatePcs
          => state'[loc[v].id] = state[loc[v].id]
    BY <1>12 DEF DecrementRead, table
  <2>2. [loc[w] EXCEPT !.pc = "decWrite", !.cnt = counter].op = "create" /\ [loc[w] EXCEPT !.pc = "decWrite", !.cnt = counter].pc \notin CreatePcs
          => loc[w].op = "create" /\ loc[w].pc \notin CreatePcs /\ [loc[w] EXCEPT !.pc = "decWrite", !.cnt = counter].id = loc[w].id
    BY <1>12 DEF LocOK, Operation, CreatePcs, At, DecrementRead
  <2> QED
    BY <1>12, <2>1, <2>2, UnbornUpdate DEF DecrementRead
<1>13. ASSUME NEW w \in Workers, DecrementWrite(w) PROVE Unborn'
  <2>1. UNCHANGED state /\ loc[w].pc \notin CreatePcs
    BY <1>13 DEF DecrementWrite, At, CreatePcs
  <2>2. CASE DecrementDone(w)
    <3>1. \/ End(w)
          \/ /\ loc'[w].op = loc[w].op /\ loc'[w].id = loc[w].id
             /\ \A v \in Workers \ {w} : loc'[v] = loc[v]
      BY <2>2 DEF LocOK, Operation, DecrementDone, Becomes
    <3> QED
      BY <2>1, <3>1, UnbornEnd DEF Unborn
  <2>3. CASE DecrementAgain(w, {Counter})
    BY <2>1, <2>3, UnbornAgain DEF DecrementAgain
  <2> QED
    BY <1>13, <2>2, <2>3 DEF DecrementWrite
<1>14. ASSUME NEW w \in Workers, DecrementConflict(w) PROVE Unborn'
  <2>1. UNCHANGED state /\ loc[w].pc \notin CreatePcs
    BY <1>14 DEF DecrementConflict, table, At, CreatePcs
  <2> QED
    BY <1>14, <2>1, UnbornAgain DEF DecrementConflict, DecrementAgain
<1>15. ASSUME NEW w \in Workers, ReadCounter(w) PROVE Unborn'
  <2>1. \A v \in Workers : loc[v].op = "create" /\ loc[v].pc \notin CreatePcs
          => state'[loc[v].id] = state[loc[v].id]
    BY <1>15 DEF ReadCounter, table
  <2>2. [loc[w] EXCEPT !.cnt = counter, !.pc = "recount"].op = "create" /\ [loc[w] EXCEPT !.cnt = counter, !.pc = "recount"].pc \notin CreatePcs
          => loc[w].op = "create" /\ loc[w].pc \notin CreatePcs /\ [loc[w] EXCEPT !.cnt = counter, !.pc = "recount"].id = loc[w].id
    BY <1>15 DEF LocOK, Operation, CreatePcs, At, ReadCounter
  <2>3. [loc[w] EXCEPT !.cnt = counter, !.pc = "submit"].op = "create" /\ [loc[w] EXCEPT !.cnt = counter, !.pc = "submit"].pc \notin CreatePcs
          => loc[w].op = "create" /\ loc[w].pc \notin CreatePcs /\ [loc[w] EXCEPT !.cnt = counter, !.pc = "submit"].id = loc[w].id
    BY <1>15 DEF LocOK, Operation, CreatePcs, At, ReadCounter
  <2> QED
    BY <1>15, <2>1, <2>2, <2>3, UnbornUpdate DEF ReadCounter
<1>16. ASSUME NEW w \in Workers, DenyQuota(w) PROVE Unborn'
  <2>1. \A v \in Workers : loc[v].op = "create" /\ loc[v].pc \notin CreatePcs
          => state'[loc[v].id] = state[loc[v].id]
    BY <1>16 DEF DenyQuota, table
  <2> QED
    BY <1>16, <2>1, UnbornEnd DEF DenyQuota
<1>17. ASSUME NEW w \in Workers, Recount(w) PROVE Unborn'
  <2>1. \A v \in Workers : loc[v].op = "create" /\ loc[v].pc \notin CreatePcs
          => state'[loc[v].id] = state[loc[v].id]
    BY <1>17 DEF Recount, table
  <2>2. [loc[w] EXCEPT !.pc = "recountWrite", !.tally = Counted].op = "create" /\ [loc[w] EXCEPT !.pc = "recountWrite", !.tally = Counted].pc \notin CreatePcs
          => loc[w].op = "create" /\ loc[w].pc \notin CreatePcs /\ [loc[w] EXCEPT !.pc = "recountWrite", !.tally = Counted].id = loc[w].id
    BY <1>17 DEF LocOK, Operation, CreatePcs, At, Recount
  <2> QED
    BY <1>17, <2>1, <2>2, UnbornUpdate DEF Recount
<1>18. ASSUME NEW w \in Workers, RecountWrite(w) PROVE Unborn'
  <2>1. \A v \in Workers : loc[v].op = "create" /\ loc[v].pc \notin CreatePcs
          => state'[loc[v].id] = state[loc[v].id]
    BY <1>18 DEF RecountWrite
  <2>2. [loc[w] EXCEPT !.pc = "readCounter", !.tries = @ + 1, !.cnt = 0, !.tally = 0].op = "create" /\ [loc[w] EXCEPT !.pc = "readCounter", !.tries = @ + 1, !.cnt = 0, !.tally = 0].pc \notin CreatePcs
          => loc[w].op = "create" /\ loc[w].pc \notin CreatePcs /\ [loc[w] EXCEPT !.pc = "readCounter", !.tries = @ + 1, !.cnt = 0, !.tally = 0].id = loc[w].id
    BY <1>18 DEF LocOK, Operation, CreatePcs, At, RecountWrite
  <2> QED
    BY <1>18, <2>1, <2>2, UnbornUpdate, UnbornEnd DEF RecountWrite
<1>19. ASSUME NEW w \in Workers, Reserve(w) PROVE Unborn'
  <2>1. loc[w].id \in Inv
    BY <1>19 DEF Control, ControlOf, Reserve, At, CreateOnlyPcs
  <2>2. \A v \in Workers : loc'[v].op = loc[v].op /\ loc'[v].id = loc[v].id
                         /\ loc'[v].pc = (IF v = w THEN "platform" ELSE loc[v].pc)
    BY <1>19 DEF LocOK, Operation, Reserve, Remember
  <2>3. \A v \in Workers \ {w} : loc[v].id # loc[w].id
    BY <2>1, RowsAssumption DEF DistinctIds
  <2>4. \A v \in Workers : loc[v].op = "create" => loc[v].id \in Inv
    BY DEF Control, ControlOf
  <2>5. \A v \in Workers \ {w} : loc[v].op = "create" => state'[loc[v].id] = state[loc[v].id]
    BY <2>1, <2>3, <2>4, <1>19 DEF TypeOK, Reserve
  <2> QED
    BY <2>2, <2>5 DEF Unborn, CreatePcs
<1>20. ASSUME NEW w \in Workers, ReserveConflict(w) PROVE Unborn'
  <2>1. UNCHANGED state /\ loc[w].pc \notin CreatePcs
    BY <1>20 DEF ReserveConflict, table, At, CreatePcs
  <2> QED
    BY <1>20, <2>1, UnbornAgain DEF ReserveConflict, Retry
<1>21. ASSUME NEW w \in Workers, ReserveDuplicate(w) PROVE Unborn'
  <2>1. \A v \in Workers : loc[v].op = "create" /\ loc[v].pc \notin CreatePcs
          => state'[loc[v].id] = state[loc[v].id]
    BY <1>21 DEF ReserveDuplicate, table
  <2>2. [loc[w] EXCEPT !.op = "recover", !.pc = "index", !.id = None, !.cnt = 0, !.tries = 0].op = "create" /\ [loc[w] EXCEPT !.op = "recover", !.pc = "index", !.id = None, !.cnt = 0, !.tries = 0].pc \notin CreatePcs
          => loc[w].op = "create" /\ loc[w].pc \notin CreatePcs /\ [loc[w] EXCEPT !.op = "recover", !.pc = "index", !.id = None, !.cnt = 0, !.tries = 0].id = loc[w].id
    BY <1>21 DEF LocOK, Operation, CreatePcs, At, ReserveDuplicate
  <2> QED
    BY <1>21, <2>1, <2>2, UnbornUpdate DEF ReserveDuplicate
<1>22. ASSUME NEW w \in Workers, TokenFails(w) PROVE Unborn'
  <2>1. \A v \in Workers : loc[v].op = "create" /\ loc[v].pc \notin CreatePcs
          => state'[loc[v].id] = state[loc[v].id]
    BY <1>22 DEF TokenFails, table
  <2>2. [loc[w] EXCEPT !.op = "release", !.pc = "relRead"].op = "create" /\ [loc[w] EXCEPT !.op = "release", !.pc = "relRead"].pc \notin CreatePcs
          => loc[w].op = "create" /\ loc[w].pc \notin CreatePcs /\ [loc[w] EXCEPT !.op = "release", !.pc = "relRead"].id = loc[w].id
    BY <1>22 DEF LocOK, Operation, CreatePcs, At, TokenFails
  <2> QED
    BY <1>22, <2>1, <2>2, UnbornUpdate DEF TokenFails
<1>23. ASSUME NEW w \in Workers, PostUncertain(w) PROVE Unborn'
  <2>1. \A v \in Workers : loc[v].op = "create" /\ loc[v].pc \notin CreatePcs
          => state'[loc[v].id] = state[loc[v].id]
    BY <1>23 DEF PostUncertain, Post, table
  <2> QED
    BY <1>23, <2>1, UnbornEnd DEF PostUncertain, Post
<1>24. ASSUME NEW w \in Workers, PostSucceeds(w) PROVE Unborn'
  <2>1. \A v \in Workers : loc[v].op = "create" /\ loc[v].pc \notin CreatePcs
          => state'[loc[v].id] = state[loc[v].id]
    BY <1>24 DEF PostSucceeds, Post, table
  <2>2. [loc[w] EXCEPT !.pc = "finRead"].op = "create" /\ [loc[w] EXCEPT !.pc = "finRead"].pc \notin CreatePcs
          => loc[w].op = "create" /\ loc[w].pc \notin CreatePcs /\ [loc[w] EXCEPT !.pc = "finRead"].id = loc[w].id
    BY <1>24 DEF LocOK, Operation, CreatePcs, At, PostSucceeds, Post
  <2> QED
    BY <1>24, <2>1, <2>2, UnbornUpdate DEF PostSucceeds, Post, GoTo
<1>25. ASSUME NEW w \in Workers, FinalizeRead(w) PROVE Unborn'
  <2>1. \A v \in Workers : loc[v].op = "create" /\ loc[v].pc \notin CreatePcs
          => state'[loc[v].id] = state[loc[v].id]
    BY <1>25 DEF FinalizeRead, table
  <2>2. [loc[w] EXCEPT !.pc = "finWrite"].op = "create" /\ [loc[w] EXCEPT !.pc = "finWrite"].pc \notin CreatePcs
          => loc[w].op = "create" /\ loc[w].pc \notin CreatePcs /\ [loc[w] EXCEPT !.pc = "finWrite"].id = loc[w].id
    BY <1>25 DEF LocOK, Operation, CreatePcs, At, FinalizeRead
  <2> QED
    BY <1>25, <2>1, <2>2, UnbornUpdate, UnbornEnd DEF FinalizeRead, GoTo
<1>26. ASSUME NEW w \in Workers, Finalize(w) PROVE Unborn'
  <2>1. \A v \in Workers : loc[v].op = "create" /\ loc[v].pc \notin CreatePcs
          => state'[loc[v].id] = state[loc[v].id]
    <3>1. loc[w].id \in Inv /\ loc[w].pc \in CreatePcs
      BY <1>26 DEF Control, ControlOf, CreatePcs, Finalize, At
    <3>2. \A v \in Workers : loc[v].op = "create" /\ loc[v].pc \notin CreatePcs => loc[v].id # loc[w].id
      BY <3>1, RowsAssumption DEF DistinctIds
    <3>3. \A v \in Workers : loc[v].op = "create" => loc[v].id \in Inv
      BY DEF Control, ControlOf
    <3> QED
      BY <3>1, <3>2, <3>3, <1>26 DEF TypeOK, Finalize
  <2> QED
    BY <1>26, <2>1, UnbornEnd, UnbornAgain DEF Finalize, CreatePcs
<1>27. ASSUME NEW w \in Workers, FinalizeConflict(w) PROVE Unborn'
  <2>1. UNCHANGED state
    BY <1>27 DEF FinalizeConflict, table
  <2> QED
    BY <1>27, <2>1, UnbornEnd, UnbornAgain DEF FinalizeConflict, Retry, CreatePcs
<1>28. ASSUME NEW w \in Workers, ReleaseRead(w) PROVE Unborn'
  <2>1. \A v \in Workers : loc[v].op = "create" /\ loc[v].pc \notin CreatePcs
          => state'[loc[v].id] = state[loc[v].id]
    BY <1>28 DEF ReleaseRead, table
  <2>2. [loc[w] EXCEPT !.pc = "relDelete"].op = "create" /\ [loc[w] EXCEPT !.pc = "relDelete"].pc \notin CreatePcs
          => loc[w].op = "create" /\ loc[w].pc \notin CreatePcs /\ [loc[w] EXCEPT !.pc = "relDelete"].id = loc[w].id
    BY <1>28 DEF LocOK, Operation, CreatePcs, At, ReleaseRead
  <2> QED
    BY <1>28, <2>1, <2>2, UnbornUpdate, UnbornEnd DEF ReleaseRead, GoTo
<1>29. ASSUME NEW w \in Workers, ReleaseDelete(w) PROVE Unborn'
  <2>1. \A v \in Workers : loc[v].op = "create" /\ loc[v].pc \notin CreatePcs
          => state'[loc[v].id] = state[loc[v].id]
    <3>1. loc[w].id \in Inv /\ state[loc[w].id] # "free"
      BY <1>29 DEF Control, ControlOf, CreatePcs, ReleaseDelete, At, Held, HeldBy
    <3> QED
      BY <3>1, <1>29, UnbornUsed DEF ReleaseDelete
  <2>2. [loc[w] EXCEPT !.pc = "decRead", !.tries = 0].op = "create" /\ [loc[w] EXCEPT !.pc = "decRead", !.tries = 0].pc \notin CreatePcs
          => loc[w].op = "create" /\ loc[w].pc \notin CreatePcs /\ [loc[w] EXCEPT !.pc = "decRead", !.tries = 0].id = loc[w].id
    BY <1>29 DEF LocOK, Operation, CreatePcs, At, Control, ControlOf, ReleaseDelete
  <2> QED
    BY <1>29, <2>1, <2>2, UnbornUpdate DEF ReleaseDelete
<1>30. ASSUME NEW w \in Workers, ReleaseConflict(w) PROVE Unborn'
  <2>1. UNCHANGED state /\ loc[w].op # "create"
    BY <1>30 DEF Control, ControlOf, ReleaseConflict, At, table
  <2>2. [loc[w] EXCEPT !.pc = "decRead", !.tries = 0].op # "create"
    BY <2>1 DEF LocOK, Operation
  <2> QED
    BY <1>30, <2>1, <2>2, UnbornEnd, UnbornUpdate, UnbornAgain DEF ReleaseConflict, CreatePcs
<1>31. ASSUME NEW w \in Workers, CompleteRead(w) PROVE Unborn'
  <2>1. \A v \in Workers : loc[v].op = "create" /\ loc[v].pc \notin CreatePcs
          => state'[loc[v].id] = state[loc[v].id]
    BY <1>31 DEF CompleteRead, table
  <2>2. [loc[w] EXCEPT !.pc = "cmpCounter"].op = "create" /\ [loc[w] EXCEPT !.pc = "cmpCounter"].pc \notin CreatePcs
          => loc[w].op = "create" /\ loc[w].pc \notin CreatePcs /\ [loc[w] EXCEPT !.pc = "cmpCounter"].id = loc[w].id
    BY <1>31 DEF LocOK, Operation, CreatePcs, At, CompleteRead
  <2> QED
    BY <1>31, <2>1, <2>2, UnbornUpdate, UnbornEnd DEF CompleteRead, GoTo
<1>32. ASSUME NEW w \in Workers, CompleteCounter(w) PROVE Unborn'
  <2>1. \A v \in Workers : loc[v].op = "create" /\ loc[v].pc \notin CreatePcs
          => state'[loc[v].id] = state[loc[v].id]
    BY <1>32 DEF CompleteCounter, table
  <2>2. [loc[w] EXCEPT !.pc = "cmpSubmit", !.cnt = counter].op = "create" /\ [loc[w] EXCEPT !.pc = "cmpSubmit", !.cnt = counter].pc \notin CreatePcs
          => loc[w].op = "create" /\ loc[w].pc \notin CreatePcs /\ [loc[w] EXCEPT !.pc = "cmpSubmit", !.cnt = counter].id = loc[w].id
    BY <1>32 DEF LocOK, Operation, CreatePcs, At, CompleteCounter
  <2> QED
    BY <1>32, <2>1, <2>2, UnbornUpdate DEF CompleteCounter
<1>33. ASSUME NEW w \in Workers, Complete(w) PROVE Unborn'
  <2>1. \A v \in Workers : loc[v].op = "create" /\ loc[v].pc \notin CreatePcs
          => state'[loc[v].id] = state[loc[v].id]
    <3>1. loc[w].tgt \in Inv /\ state[loc[w].tgt] # "free"
      BY <1>33 DEF Control, ControlOf, TgtPcs, CompletePcs, Complete, At, Held, HeldBy
    <3> QED
      BY <3>1, <1>33, UnbornUsed DEF Complete, CloseRecord, Prolong
  <2> QED
    BY <1>33, <2>1, UnbornEnd DEF Complete
<1>34. ASSUME NEW w \in Workers, CompleteConflict(w) PROVE Unborn'
  <2>1. UNCHANGED state /\ loc[w].pc \notin CreatePcs
    BY <1>34 DEF CompleteConflict, table, At, CreatePcs
  <2> QED
    BY <1>34, <2>1, UnbornEnd, UnbornAgain DEF CompleteConflict, Retry
<1>35. ASSUME NEW w \in Workers, StaleNext(w) PROVE Unborn'
  <2>1. \A v \in Workers : loc[v].op = "create" /\ loc[v].pc \notin CreatePcs
          => state'[loc[v].id] = state[loc[v].id]
    BY <1>35 DEF StaleNext, table
  <2>2. /\ loc'[w].op = loc[w].op /\ loc'[w].id = loc[w].id /\ loc[w].pc \notin CreatePcs
        /\ \A v \in Workers \ {w} : loc'[v] = loc[v]
    BY <1>35 DEF LocOK, Operation, StaleNext, Becomes, At, CreatePcs
  <2> QED
    BY <2>1, <2>2 DEF Unborn
<1>36. ASSUME NEW w \in Workers, ReleaseStale(w) PROVE Unborn'
  <2>1. \A v \in Workers : loc[v].op = "create" /\ loc[v].pc \notin CreatePcs
          => state'[loc[v].id] = state[loc[v].id]
    <3>1. loc[w].tgt \in Inv /\ loc[w].tgt \in fresh[w] /\ loc[w].op = "stale"
      BY <1>36 DEF Control, ControlOf, TgtPcs, StalePcs, ReleaseStale, CloseRecord, Prolong, At
    <3>2. state[loc[w].tgt] # "free"
      BY <3>1 DEF Held, HeldBy, Uncertain
    <3> QED
      BY <3>1, <3>2, <1>36, UnbornUsed DEF ReleaseStale, CloseRecord, Prolong
  <2>2. [loc[w] EXCEPT !.pc = "staleNext", !.tgt = None, !.cnt = 0].op = "create" /\ [loc[w] EXCEPT !.pc = "staleNext", !.tgt = None, !.cnt = 0].pc \notin CreatePcs
          => loc[w].op = "create" /\ loc[w].pc \notin CreatePcs /\ [loc[w] EXCEPT !.pc = "staleNext", !.tgt = None, !.cnt = 0].id = loc[w].id
    BY <1>36 DEF LocOK, Operation, CreatePcs, At, ReleaseStale
  <2> QED
    BY <1>36, <2>1, <2>2, UnbornUpdate, UnbornEnd DEF ReleaseStale, StaleContinue
<1>37. ASSUME NEW w \in Workers, StaleConflict(w) PROVE Unborn'
  <2>1. \A v \in Workers : loc[v].op = "create" /\ loc[v].pc \notin CreatePcs
          => state'[loc[v].id] = state[loc[v].id]
    BY <1>37 DEF StaleConflict, table
  <2>2. [loc[w] EXCEPT !.pc = "staleNext", !.tgt = None, !.cnt = 0].op = "create" /\ [loc[w] EXCEPT !.pc = "staleNext", !.tgt = None, !.cnt = 0].pc \notin CreatePcs
          => loc[w].op = "create" /\ loc[w].pc \notin CreatePcs /\ [loc[w] EXCEPT !.pc = "staleNext", !.tgt = None, !.cnt = 0].id = loc[w].id
    BY <1>37 DEF LocOK, Operation, CreatePcs, At, StaleConflict
  <2> QED
    BY <1>37, <2>1, <2>2, UnbornUpdate, UnbornEnd DEF StaleConflict, StaleContinue
<1>38. ASSUME NEW w \in Workers, StartSweep(w) PROVE Unborn'
  <2>1. \A v \in Workers : loc[v].op = "create" /\ loc[v].pc \notin CreatePcs
          => state'[loc[v].id] = state[loc[v].id]
    BY <1>38 DEF StartSweep, table
  <2>2. loc'[w].op # "create" /\ \A v \in Workers \ {w} : loc'[v] = loc[v]
    BY <1>38 DEF LocOK, StartSweep, Becomes, Idle
  <2> QED
    BY <2>1, <2>2 DEF Unborn
<1>39. ASSUME NEW w \in Workers, StartReleaseStale(w) PROVE Unborn'
  <2>1. \A v \in Workers : loc[v].op = "create" /\ loc[v].pc \notin CreatePcs
          => state'[loc[v].id] = state[loc[v].id]
    BY <1>39 DEF StartReleaseStale, table
  <2>2. loc'[w].op # "create" /\ \A v \in Workers \ {w} : loc'[v] = loc[v]
    BY <1>39 DEF LocOK, StartReleaseStale, Becomes, Idle
  <2> QED
    BY <2>1, <2>2 DEF Unborn
<1>40. ASSUME NEW w \in Workers, Abandon(w) PROVE Unborn'
  <2>1. \A v \in Workers : loc[v].op = "create" /\ loc[v].pc \notin CreatePcs
          => state'[loc[v].id] = state[loc[v].id]
    BY <1>40 DEF Abandon, Fault, notes, table
  <2> QED
    BY <1>40, <2>1, UnbornEnd DEF Abandon, Fault, notes
<1>41. ASSUME NEW w \in Workers, NEW i \in Inv, StartRead(w, i) PROVE Unborn'
  <2>1. \A v \in Workers : loc[v].op = "create" /\ loc[v].pc \notin CreatePcs
          => state'[loc[v].id] = state[loc[v].id]
    BY <1>41 DEF StartRead, table
  <2>2. loc'[w].op # "create" /\ \A v \in Workers \ {w} : loc'[v] = loc[v]
    BY <1>41 DEF LocOK, StartRead, Becomes, Idle
  <2> QED
    BY <2>1, <2>2 DEF Unborn
<1>42. ASSUME NEW w \in Workers, NEW i \in Inv, StartComplete(w, i) PROVE Unborn'
  <2>1. \A v \in Workers : loc[v].op = "create" /\ loc[v].pc \notin CreatePcs
          => state'[loc[v].id] = state[loc[v].id]
    BY <1>42 DEF StartComplete, table
  <2>2. loc'[w].op # "create" /\ \A v \in Workers \ {w} : loc'[v] = loc[v]
    BY <1>42 DEF LocOK, StartComplete, Becomes, Idle
  <2> QED
    BY <2>1, <2>2 DEF Unborn
<1>43. ASSUME NEW w \in Workers, NEW i \in Inv, NEW k \in Keys \cup {None}, StartCreate(w, k, i) PROVE Unborn'
  <2>1. loc'[w].id = i /\ \A v \in Workers \ {w} : loc'[v] = loc[v]
    BY <1>43 DEF LocOK, StartCreate, Becomes, Idle
  <2> QED
    BY <1>43, <2>1 DEF StartCreate, table, Unborn
<1>44. ASSUME NEW i \in Inv, Age(i) PROVE Unborn'
  <2>1. \A v \in Workers : loc'[v].op = loc[v].op /\ loc'[v].pc = loc[v].pc /\ loc'[v].id = loc[v].id
    BY <1>44 DEF LocOK, Operation, Age, Remember
  <2> QED
    BY <1>44, <2>1 DEF Age, Unborn
<1>45. ASSUME NEW i \in Inv, Touch(i) PROVE Unborn'
  BY <1>45 DEF Touch, notes, table, Unborn
<1>46. ASSUME UNCHANGED vars PROVE Unborn'
  BY <1>46 DEF vars, Unborn
<1> QED
  BY <1>1, <1>2, <1>3, <1>4, <1>5, <1>6, <1>7, <1>8, <1>9, <1>9a, <1>10, <1>11, <1>12,
      <1>13, <1>14, <1>15, <1>16, <1>17, <1>18, <1>19, <1>20, <1>21, <1>22, <1>23, <1>24, <1>25,
      <1>26, <1>27, <1>28, <1>29, <1>30, <1>31, <1>32, <1>33, <1>34, <1>35, <1>36, <1>37,
      <1>38, <1>39, <1>40, <1>41, <1>42, <1>43, <1>44, <1>45, <1>46 DEF Next, Step,
      FindStep, SweepStep, DecStep, ReserveStep, PlatformStep, SettleStep, CompleteStep,
      StaleStep

(* Only the transaction that creates a record points an index row at it, and *)
(* no older index row can lead to the new record.                            *)
LEMMA IndexAgreesStep ==
  ASSUME TypeOK, LocOK, Control, FreeRows, Unborn, IndexAgrees, [Next]_vars
  PROVE  IndexAgrees'
<1>1. ASSUME NEW w \in Workers, ReadIndex(w) PROVE IndexAgrees'
  BY <1>1 DEF TypeOK, IndexAgrees, IndexRows, ReadIndex, table
<1>2. ASSUME NEW w \in Workers, GetRecord(w) PROVE IndexAgrees'
  BY <1>2 DEF TypeOK, IndexAgrees, IndexRows, GetRecord, table
<1>3. ASSUME NEW w \in Workers, ExpireRecord(w) PROVE IndexAgrees'
  BY <1>3 DEF TypeOK, IndexAgrees, IndexRows, ExpireRecord, ExpireEnds, Fault, notes
<1>4. ASSUME NEW w \in Workers, Unindex(w) PROVE IndexAgrees'
  BY <1>4 DEF TypeOK, IndexAgrees, IndexRows, Unindex
<1>5. ASSUME NEW w \in Workers, FallbackQuery(w) PROVE IndexAgrees'
  BY <1>5 DEF TypeOK, IndexAgrees, IndexRows, FallbackQuery, table
<1>6. ASSUME NEW w \in Workers, SweepQuery(w) PROVE IndexAgrees'
  BY <1>6 DEF TypeOK, IndexAgrees, IndexRows, SweepQuery, table
<1>7. ASSUME NEW w \in Workers, SweepSkip(w) PROVE IndexAgrees'
  BY <1>7 DEF TypeOK, IndexAgrees, IndexRows, SweepSkip, table
<1>8. ASSUME NEW w \in Workers, SweepIndexRow(w) PROVE IndexAgrees'
  BY <1>8 DEF TypeOK, IndexAgrees, IndexRows, SweepIndexRow
<1>9. ASSUME NEW w \in Workers, SweepRecord(w) PROVE IndexAgrees'
  BY <1>9 DEF TypeOK, IndexAgrees, IndexRows, SweepRecord, SweepDeleted, Fault, notes
<1>9a. ASSUME NEW w \in Workers, SweepGone(w) PROVE IndexAgrees'
  BY <1>9a DEF TypeOK, IndexAgrees, IndexRows, SweepGone, table
<1>10. ASSUME NEW w \in Workers, SweepIndexOf(w) PROVE IndexAgrees'
  BY <1>10 DEF TypeOK, IndexAgrees, IndexRows, SweepIndexOf
<1>11. ASSUME NEW w \in Workers, SweepDone(w) PROVE IndexAgrees'
  BY <1>11 DEF TypeOK, IndexAgrees, IndexRows, SweepDone, table
<1>12. ASSUME NEW w \in Workers, DecrementRead(w) PROVE IndexAgrees'
  BY <1>12 DEF TypeOK, IndexAgrees, IndexRows, DecrementRead, table
<1>13. ASSUME NEW w \in Workers, DecrementWrite(w) PROVE IndexAgrees'
  BY <1>13 DEF TypeOK, IndexAgrees, IndexRows, DecrementWrite, DecrementDone, DecrementAgain,
      TryAgain, MayRetry, Fault
<1>14. ASSUME NEW w \in Workers, DecrementConflict(w) PROVE IndexAgrees'
  BY <1>14 DEF TypeOK, IndexAgrees, IndexRows, DecrementConflict, DecrementAgain, TryAgain,
      MayRetry, table
<1>15. ASSUME NEW w \in Workers, ReadCounter(w) PROVE IndexAgrees'
  BY <1>15 DEF TypeOK, IndexAgrees, IndexRows, ReadCounter, table
<1>16. ASSUME NEW w \in Workers, DenyQuota(w) PROVE IndexAgrees'
  BY <1>16 DEF TypeOK, IndexAgrees, IndexRows, DenyQuota, table
<1>17. ASSUME NEW w \in Workers, Recount(w) PROVE IndexAgrees'
  BY <1>17 DEF TypeOK, IndexAgrees, IndexRows, Recount, table
<1>18. ASSUME NEW w \in Workers, RecountWrite(w) PROVE IndexAgrees'
  BY <1>18 DEF TypeOK, IndexAgrees, IndexRows, RecountWrite
<1>19. ASSUME NEW w \in Workers, Reserve(w) PROVE IndexAgrees'
  <2> DEFINE i == loc[w].id  k == loc[w].req
  <2>1. i \in Inv /\ k \in Keys \cup {None} /\ state[i] = "free"
    BY <1>19, FieldTypes DEF Control, ControlOf, Unborn, Reserve, At, CreateOnlyPcs, CreatePcs
  <2>2. keyOf' = [keyOf EXCEPT ![i] = k] /\ index' = IF k = None THEN index ELSE [index EXCEPT ![k] = i]
    BY <1>19 DEF Reserve
  <2>3. \A m \in Keys : index[m] # i
    BY <2>1 DEF FreeRows
  <2> QED
    BY <2>1, <2>2, <2>3 DEF TypeOK, IndexAgrees, IndexRows
<1>20. ASSUME NEW w \in Workers, ReserveConflict(w) PROVE IndexAgrees'
  BY <1>20 DEF TypeOK, IndexAgrees, IndexRows, ReserveConflict, table
<1>21. ASSUME NEW w \in Workers, ReserveDuplicate(w) PROVE IndexAgrees'
  BY <1>21 DEF TypeOK, IndexAgrees, IndexRows, ReserveDuplicate, table
<1>22. ASSUME NEW w \in Workers, TokenFails(w) PROVE IndexAgrees'
  BY <1>22 DEF TypeOK, IndexAgrees, IndexRows, TokenFails, table
<1>23. ASSUME NEW w \in Workers, PostUncertain(w) PROVE IndexAgrees'
  BY <1>23 DEF TypeOK, IndexAgrees, IndexRows, PostUncertain, Post, table
<1>24. ASSUME NEW w \in Workers, PostSucceeds(w) PROVE IndexAgrees'
  BY <1>24 DEF TypeOK, IndexAgrees, IndexRows, PostSucceeds, Post, table
<1>25. ASSUME NEW w \in Workers, FinalizeRead(w) PROVE IndexAgrees'
  BY <1>25 DEF TypeOK, IndexAgrees, IndexRows, FinalizeRead, table
<1>26. ASSUME NEW w \in Workers, Finalize(w) PROVE IndexAgrees'
  BY <1>26 DEF TypeOK, IndexAgrees, IndexRows, Finalize, TryAgain, MayRetry, Fault
<1>27. ASSUME NEW w \in Workers, FinalizeConflict(w) PROVE IndexAgrees'
  BY <1>27 DEF TypeOK, IndexAgrees, IndexRows, FinalizeConflict, table
<1>28. ASSUME NEW w \in Workers, ReleaseRead(w) PROVE IndexAgrees'
  BY <1>28 DEF TypeOK, IndexAgrees, IndexRows, ReleaseRead, table
<1>29. ASSUME NEW w \in Workers, ReleaseDelete(w) PROVE IndexAgrees'
  BY <1>29 DEF TypeOK, IndexAgrees, IndexRows, ReleaseDelete
<1>30. ASSUME NEW w \in Workers, ReleaseConflict(w) PROVE IndexAgrees'
  BY <1>30 DEF TypeOK, IndexAgrees, IndexRows, ReleaseConflict, TryAgain, MayRetry, table
<1>31. ASSUME NEW w \in Workers, CompleteRead(w) PROVE IndexAgrees'
  BY <1>31 DEF TypeOK, IndexAgrees, IndexRows, CompleteRead, table
<1>32. ASSUME NEW w \in Workers, CompleteCounter(w) PROVE IndexAgrees'
  BY <1>32 DEF TypeOK, IndexAgrees, IndexRows, CompleteCounter, table
<1>33. ASSUME NEW w \in Workers, Complete(w) PROVE IndexAgrees'
  BY <1>33 DEF TypeOK, IndexAgrees, IndexRows, Complete, CloseRecord, Prolong
<1>34. ASSUME NEW w \in Workers, CompleteConflict(w) PROVE IndexAgrees'
  BY <1>34 DEF TypeOK, IndexAgrees, IndexRows, CompleteConflict, table
<1>35. ASSUME NEW w \in Workers, StaleNext(w) PROVE IndexAgrees'
  BY <1>35 DEF TypeOK, IndexAgrees, IndexRows, StaleNext, table
<1>36. ASSUME NEW w \in Workers, ReleaseStale(w) PROVE IndexAgrees'
  BY <1>36 DEF TypeOK, IndexAgrees, IndexRows, ReleaseStale, CloseRecord, Prolong
<1>37. ASSUME NEW w \in Workers, StaleConflict(w) PROVE IndexAgrees'
  BY <1>37 DEF TypeOK, IndexAgrees, IndexRows, StaleConflict, table
<1>38. ASSUME NEW w \in Workers, StartSweep(w) PROVE IndexAgrees'
  BY <1>38 DEF TypeOK, IndexAgrees, IndexRows, StartSweep, table
<1>39. ASSUME NEW w \in Workers, StartReleaseStale(w) PROVE IndexAgrees'
  BY <1>39 DEF TypeOK, IndexAgrees, IndexRows, StartReleaseStale, table
<1>40. ASSUME NEW w \in Workers, Abandon(w) PROVE IndexAgrees'
  BY <1>40 DEF TypeOK, IndexAgrees, IndexRows, Abandon, Fault, notes, table
<1>41. ASSUME NEW w \in Workers, NEW i \in Inv, StartRead(w, i) PROVE IndexAgrees'
  BY <1>41 DEF TypeOK, IndexAgrees, IndexRows, StartRead, table
<1>42. ASSUME NEW w \in Workers, NEW i \in Inv, StartComplete(w, i) PROVE IndexAgrees'
  BY <1>42 DEF TypeOK, IndexAgrees, IndexRows, StartComplete, table
<1>43. ASSUME NEW w \in Workers, NEW i \in Inv, NEW k \in Keys \cup {None}, StartCreate(w, k, i) PROVE IndexAgrees'
  BY <1>43 DEF TypeOK, IndexAgrees, IndexRows, StartCreate, table
<1>44. ASSUME NEW i \in Inv, Age(i) PROVE IndexAgrees'
  BY <1>44 DEF TypeOK, IndexAgrees, IndexRows, Age
<1>45. ASSUME NEW i \in Inv, Touch(i) PROVE IndexAgrees'
  BY <1>45 DEF TypeOK, IndexAgrees, IndexRows, Touch, notes, table
<1>46. ASSUME UNCHANGED vars PROVE IndexAgrees'
  BY <1>46 DEF vars, IndexAgrees, IndexRows
<1> QED
  BY <1>1, <1>2, <1>3, <1>4, <1>5, <1>6, <1>7, <1>8, <1>9, <1>9a, <1>10, <1>11, <1>12,
      <1>13, <1>14, <1>15, <1>16, <1>17, <1>18, <1>19, <1>20, <1>21, <1>22, <1>23, <1>24, <1>25,
      <1>26, <1>27, <1>28, <1>29, <1>30, <1>31, <1>32, <1>33, <1>34, <1>35, <1>36, <1>37,
      <1>38, <1>39, <1>40, <1>41, <1>42, <1>43, <1>44, <1>45, <1>46 DEF Next, Step,
      FindStep, SweepStep, DecStep, ReserveStep, PlatformStep, SettleStep, CompleteStep,
      StaleStep

-----------------------------------------------------------------------------
(* The creation of a record, from its reservation to its settlement.         *)

(* v is further on with the creation of the record that it was at; once it   *)
(* is finalizing it does not turn back.                                      *)
Continues(v) ==
  /\ loc[v].pc \in CreatePcs /\ loc'[v].id = loc[v].id /\ loc[v].recent \subseteq loc'[v].recent
  /\ loc[v].pc \in {"finRead", "finWrite"} => loc'[v].pc \in {"finRead", "finWrite"}
Places == \A v \in Workers : loc'[v].pc \in CreatePcs => Continues(v)

(* The steps that change a record, or ask the platform for it.               *)
Rewrites ==
  \/ \E w \in Workers : \/ ExpireRecord(w) \/ SweepRecord(w) \/ Finalize(w)
                         \/ ReleaseDelete(w) \/ Complete(w) \/ ReleaseStale(w)
  \/ \E i \in Inv : Age(i)
Asks == \E w \in Workers : PostUncertain(w) \/ PostSucceeds(w)

Placed ==
  /\ Places
  /\ UNCHANGED <<state, age, doubtful>> \/ Rewrites
  /\ UNCHANGED asked \/ Asks

(* A step to another place has no part in a creation.                        *)
LEMMA PlacesLeave ==
  ASSUME NEW w \in Workers, \A v \in Workers \ {w} : loc'[v] = loc[v], loc'[w].pc \notin CreatePcs
  PROVE  Places
  BY DEF Places, Continues

LEMMA PlacesBecome ==
  ASSUME LocOK, NEW w \in Workers, NEW l, Becomes(w, l), l.pc \notin CreatePcs
  PROVE  Places
  BY PlacesLeave DEF LocOK, Becomes

LEMMA PlacesEnd == ASSUME LocOK, NEW w \in Workers, End(w) PROVE Places
  BY PlacesBecome DEF End, Idle, CreatePcs

(* Another attempt goes on with the same creation.                           *)
LEMMA PlacesAgain ==
  ASSUME LocOK, NEW w \in Workers, NEW p, TryAgain(w, p) \/ End(w),
         p \in CreatePcs => loc[w].pc \in CreatePcs,
         p \notin CreatePcs \/ p \in {"finRead", "finWrite"}
           \/ loc[w].pc \notin {"finRead", "finWrite"}
  PROVE  Places
<1>1. CASE End(w)
  BY <1>1, PlacesEnd
<1>2. CASE ~End(w)
  BY <1>2, Again DEF Places, Continues, SameTask
<1> QED
  BY <1>1, <1>2

(* Only the transaction of Reserve begins one.                               *)
LEMMA PlacesStep ==
  ASSUME LocOK, [Next]_vars
  PROVE  Placed \/ \E w \in Workers : Reserve(w)
<1>1. ASSUME NEW w \in Workers, ReadIndex(w) PROVE Placed
  <2>1. Places
    <3> DEFINE l == [loc[w] EXCEPT !.pc = "get", !.tgt = index[loc[w].req]]
               m == [loc[w] EXCEPT !.pc = "fallback"]
    <3>1. Becomes(w, l) \/ Becomes(w, m) \/ End(w)
      BY <1>1 DEF ReadIndex, NotFound, GoTo
    <3>2. l.pc \notin CreatePcs /\ m.pc \notin CreatePcs
      BY FieldTypes DEF Operation, CreatePcs
    <3> QED
      BY <3>1, <3>2, PlacesBecome, PlacesEnd
  <2> QED
    BY <1>1, <2>1 DEF Placed, ReadIndex, table, aux, notes
<1>2. ASSUME NEW w \in Workers, GetRecord(w) PROVE Placed
  <2>1. Places
    BY <1>2, PlacesLeave DEF LocOK, Operation, GetRecord, GoTo, End, Becomes, Idle, CreatePcs
  <2> QED
    BY <1>2, <2>1 DEF Placed, GetRecord, table, aux, notes
<1>3. ASSUME NEW w \in Workers, ExpireRecord(w) PROVE Placed
  <2>1. Places
    BY <1>3, PlacesLeave DEF LocOK, Operation, ExpireRecord, ExpireEnds, NotFound, GoTo,
        End, Becomes, Idle, CreatePcs
  <2> QED
    BY <1>3, <2>1 DEF Placed, Rewrites, ExpireRecord, table, aux, notes
<1>4. ASSUME NEW w \in Workers, Unindex(w) PROVE Placed
  <2>1. Places
    BY <1>4, PlacesLeave DEF LocOK, Operation, Unindex, NotFound, GoTo, End, Becomes, Idle,
        CreatePcs
  <2> QED
    BY <1>4, <2>1 DEF Placed, Unindex, table, aux, notes
<1>5. ASSUME NEW w \in Workers, FallbackQuery(w) PROVE Placed
  <2>1. Places
    BY <1>5, PlacesLeave DEF LocOK, Operation, FallbackQuery, GoTo, End, Becomes, Idle,
        CreatePcs
  <2> QED
    BY <1>5, <2>1 DEF Placed, FallbackQuery, table, aux, notes
<1>6. ASSUME NEW w \in Workers, SweepQuery(w) PROVE Placed
  <2>1. Places
    BY <1>6, PlacesLeave DEF LocOK, Operation, SweepQuery, Becomes, Idle, CreatePcs
  <2> QED
    BY <1>6, <2>1 DEF Placed, SweepQuery, table, aux, notes
<1>7. ASSUME NEW w \in Workers, SweepSkip(w) PROVE Placed
  <2>1. Places
    BY <1>7, PlacesLeave DEF LocOK, Operation, SweepSkip, At, Becomes, Idle, CreatePcs
  <2> QED
    BY <1>7, <2>1 DEF Placed, SweepSkip, table, aux, notes
<1>8. ASSUME NEW w \in Workers, SweepIndexRow(w) PROVE Placed
  <2>1. Places
    BY <1>8, PlacesLeave DEF LocOK, Operation, SweepIndexRow, At, Becomes, Idle, CreatePcs
  <2> QED
    BY <1>8, <2>1 DEF Placed, SweepIndexRow, table, aux, notes
<1>9. ASSUME NEW w \in Workers, SweepRecord(w) PROVE Placed
  <2>1. Places
    <3>1. PICK i \in Inv : SweepDeleted(w, i) \/ Becomes(w, [loc[w] EXCEPT !.batch = @ \ {i}])
      BY <1>9 DEF SweepRecord
    <3>2. CASE SweepDeleted(w, i)
      BY <3>2, Deleted, PlacesLeave DEF CreatePcs
    <3>3. CASE Becomes(w, [loc[w] EXCEPT !.batch = @ \ {i}])
      BY <1>9, <3>3, PlacesLeave DEF LocOK, Operation, SweepRecord, At, Becomes, CreatePcs
    <3> QED
      BY <3>1, <3>2, <3>3
  <2> QED
    BY <1>9, <2>1 DEF Placed, Rewrites, SweepRecord, table, aux, notes
<1>9a. ASSUME NEW w \in Workers, SweepGone(w) PROVE Placed
  <2>1. Places
    BY <1>9a, Deleted, PlacesLeave DEF SweepGone, CreatePcs
  <2> QED
    BY <1>9a, <2>1 DEF Placed, SweepGone, table, aux, notes
<1>10. ASSUME NEW w \in Workers, SweepIndexOf(w) PROVE Placed
  <2>1. Places
    BY <1>10, PlacesLeave DEF LocOK, Operation, SweepIndexOf, GoTo, Becomes, Idle, CreatePcs
  <2> QED
    BY <1>10, <2>1 DEF Placed, SweepIndexOf, table, aux, notes
<1>11. ASSUME NEW w \in Workers, SweepDone(w) PROVE Placed
  <2>1. Places
    <3> DEFINE l == [loc[w] EXCEPT !.pc = "readCounter", !.tgt = None, !.tries = 0, !.slots = {}]
    <3>1. Becomes(w, l) \/ End(w)
      BY <1>11 DEF SweepDone
    <3>2. l.pc \notin CreatePcs
      BY FieldTypes DEF Operation, CreatePcs
    <3> QED
      BY <3>1, <3>2, PlacesBecome, PlacesEnd
  <2> QED
    BY <1>11, <2>1 DEF Placed, SweepDone, table, aux, notes
<1>12. ASSUME NEW w \in Workers, DecrementRead(w) PROVE Placed
  <2>1. Places
    BY <1>12, PlacesLeave DEF LocOK, Operation, DecrementRead, Becomes, Idle, CreatePcs
  <2> QED
    BY <1>12, <2>1 DEF Placed, DecrementRead, table, aux, notes
<1>13. ASSUME NEW w \in Workers, DecrementWrite(w) PROVE Placed
  <2>1. Places
    <3>1. CASE DecrementDone(w)
      <4> DEFINE l == [loc[w] EXCEPT !.pc = "sweepNext", !.cnt = 0, !.tries = 0, !.tgt = None]
      <4>1. l.pc = "sweepNext"
        BY FieldTypes DEF Operation
      <4>2. Becomes(w, l) \/ End(w)
        BY <3>1 DEF DecrementDone
      <4> QED
        BY <4>1, <4>2, PlacesBecome, PlacesEnd DEF CreatePcs
    <3>2. CASE DecrementAgain(w, {Counter})
      BY <3>2, PlacesAgain DEF DecrementAgain, CreatePcs
    <3> QED
      BY <1>13, <3>1, <3>2 DEF DecrementWrite
  <2> QED
    BY <1>13, <2>1 DEF Placed, DecrementWrite, table, aux, notes
<1>14. ASSUME NEW w \in Workers, DecrementConflict(w) PROVE Placed
  <2>1. Places
    BY <1>14, PlacesAgain DEF DecrementConflict, At, DecrementAgain, CreatePcs
  <2> QED
    BY <1>14, <2>1 DEF Placed, DecrementConflict, table, aux, notes
<1>15. ASSUME NEW w \in Workers, ReadCounter(w) PROVE Placed
  <2>1. Places
    BY <1>15, PlacesLeave DEF LocOK, Operation, ReadCounter, Becomes, Idle, CreatePcs
  <2> QED
    BY <1>15, <2>1 DEF Placed, ReadCounter, table, aux, notes
<1>16. ASSUME NEW w \in Workers, DenyQuota(w) PROVE Placed
  <2>1. Places
    BY <1>16, PlacesLeave DEF LocOK, Operation, DenyQuota, End, Becomes, Idle, CreatePcs
  <2> QED
    BY <1>16, <2>1 DEF Placed, DenyQuota, table, aux, notes
<1>17. ASSUME NEW w \in Workers, Recount(w) PROVE Placed
  <2>1. Places
    BY <1>17, PlacesLeave DEF LocOK, Operation, Recount, Becomes, Idle, CreatePcs
  <2> QED
    BY <1>17, <2>1 DEF Placed, Recount, table, aux, notes
<1>18. ASSUME NEW w \in Workers, RecountWrite(w) PROVE Placed
  <2>1. Places
    <3> DEFINE l == [loc[w] EXCEPT !.pc = "readCounter", !.tries = @ + 1, !.cnt = 0, !.tally = 0]
    <3>1. Becomes(w, l) \/ End(w)
      BY <1>18 DEF RecountWrite
    <3>2. l.pc \notin CreatePcs
      BY FieldTypes DEF Operation, CreatePcs
    <3> QED
      BY <3>1, <3>2, PlacesBecome, PlacesEnd
  <2> QED
    BY <1>18, <2>1 DEF Placed, RecountWrite, table, aux, notes
<1>20. ASSUME NEW w \in Workers, ReserveConflict(w) PROVE Placed
  <2>1. Places
    BY <1>20, PlacesAgain DEF ReserveConflict, At, Retry, CreatePcs
  <2> QED
    BY <1>20, <2>1 DEF Placed, ReserveConflict, table, aux, notes
<1>21. ASSUME NEW w \in Workers, ReserveDuplicate(w) PROVE Placed
  <2>1. Places
    BY <1>21, PlacesLeave DEF LocOK, Operation, ReserveDuplicate, Becomes, Idle, CreatePcs
  <2> QED
    BY <1>21, <2>1 DEF Placed, ReserveDuplicate, table, aux, notes
<1>22. ASSUME NEW w \in Workers, TokenFails(w) PROVE Placed
  <2>1. Places
    BY <1>22 DEF LocOK, Operation, Places, Continues, TokenFails, At, Becomes, Idle, CreatePcs
  <2> QED
    BY <1>22, <2>1 DEF Placed, TokenFails, table, aux, notes
<1>23. ASSUME NEW w \in Workers, PostUncertain(w) PROVE Placed
  <2>1. Places
    BY <1>23, PlacesLeave DEF LocOK, Operation, PostUncertain, End, Becomes, Idle, CreatePcs
  <2> QED
    BY <1>23, <2>1 DEF Placed, Asks, Post, PostUncertain, table, aux, notes
<1>24. ASSUME NEW w \in Workers, PostSucceeds(w) PROVE Placed
  <2>1. Places
    BY <1>24 DEF LocOK, Operation, Places, Continues, PostSucceeds, GoTo, At, Becomes,
        Idle, CreatePcs
  <2> QED
    BY <1>24, <2>1 DEF Placed, Asks, Post, PostSucceeds, table, aux, notes
<1>25. ASSUME NEW w \in Workers, FinalizeRead(w) PROVE Placed
  <2>1. Places
    BY <1>25 DEF LocOK, Operation, Places, Continues, FinalizeRead, GoTo, End, At, Becomes,
        Idle, CreatePcs
  <2> QED
    BY <1>25, <2>1 DEF Placed, FinalizeRead, table, aux, notes
<1>26. ASSUME NEW w \in Workers, Finalize(w) PROVE Placed
  <2>1. Places
    BY <1>26, PlacesAgain DEF Finalize, At, CreatePcs
  <2> QED
    BY <1>26, <2>1 DEF Placed, Rewrites, Finalize, table, aux, notes
<1>27. ASSUME NEW w \in Workers, FinalizeConflict(w) PROVE Placed
  <2>1. Places
    BY <1>27, PlacesAgain DEF FinalizeConflict, At, Retry, CreatePcs
  <2> QED
    BY <1>27, <2>1 DEF Placed, FinalizeConflict, table, aux, notes
<1>28. ASSUME NEW w \in Workers, ReleaseRead(w) PROVE Placed
  <2>1. Places
    BY <1>28 DEF LocOK, Operation, Places, Continues, ReleaseRead, GoTo, End, At, Becomes,
        Idle, CreatePcs
  <2> QED
    BY <1>28, <2>1 DEF Placed, ReleaseRead, table, aux, notes
<1>29. ASSUME NEW w \in Workers, ReleaseDelete(w) PROVE Placed
  <2>1. Places
    BY <1>29, PlacesLeave DEF LocOK, Operation, ReleaseDelete, Becomes, Idle, CreatePcs
  <2> QED
    BY <1>29, <2>1 DEF Placed, Rewrites, ReleaseDelete, table, aux, notes
<1>30. ASSUME NEW w \in Workers, ReleaseConflict(w) PROVE Placed
  <2>1. Places
    <3>1. CASE TryAgain(w, "relRead") \/ End(w)
      BY <1>30, <3>1, PlacesAgain DEF ReleaseConflict, At, CreatePcs
    <3>2. CASE Becomes(w, [loc[w] EXCEPT !.pc = "decRead", !.tries = 0])
      BY <3>2, PlacesLeave DEF LocOK, Operation, Becomes, CreatePcs
    <3> QED
      BY <1>30, <3>1, <3>2 DEF ReleaseConflict
  <2> QED
    BY <1>30, <2>1 DEF Placed, ReleaseConflict, table, aux, notes
<1>31. ASSUME NEW w \in Workers, CompleteRead(w) PROVE Placed
  <2>1. Places
    BY <1>31, PlacesLeave DEF LocOK, Operation, CompleteRead, GoTo, End, Becomes, Idle,
        CreatePcs
  <2> QED
    BY <1>31, <2>1 DEF Placed, CompleteRead, table, aux, notes
<1>32. ASSUME NEW w \in Workers, CompleteCounter(w) PROVE Placed
  <2>1. Places
    BY <1>32, PlacesLeave DEF LocOK, Operation, CompleteCounter, Becomes, Idle, CreatePcs
  <2> QED
    BY <1>32, <2>1 DEF Placed, CompleteCounter, table, aux, notes
<1>33. ASSUME NEW w \in Workers, Complete(w) PROVE Placed
  <2>1. Places
    BY <1>33, PlacesLeave DEF LocOK, Operation, Complete, End, Becomes, Idle, CreatePcs
  <2> QED
    BY <1>33, <2>1 DEF Placed, Rewrites, Complete, table, aux, notes
<1>34. ASSUME NEW w \in Workers, CompleteConflict(w) PROVE Placed
  <2>1. Places
    BY <1>34, PlacesAgain DEF CompleteConflict, At, Retry, CreatePcs
  <2> QED
    BY <1>34, <2>1 DEF Placed, CompleteConflict, table, aux, notes
<1>35. ASSUME NEW w \in Workers, StaleNext(w) PROVE Placed
  <2>1. Places
    BY <1>35, PlacesLeave DEF LocOK, Operation, StaleNext, Becomes, Idle, CreatePcs
  <2> QED
    BY <1>35, <2>1 DEF Placed, StaleNext, table, aux, notes
<1>36. ASSUME NEW w \in Workers, ReleaseStale(w) PROVE Placed
  <2>1. Places
    <3> DEFINE l == [loc[w] EXCEPT !.pc = "staleNext", !.tgt = None, !.cnt = 0]
    <3>1. Becomes(w, l) \/ End(w)
      BY <1>36 DEF ReleaseStale, StaleContinue
    <3>2. l.pc \notin CreatePcs
      BY FieldTypes DEF Operation, CreatePcs
    <3> QED
      BY <3>1, <3>2, PlacesBecome, PlacesEnd
  <2> QED
    BY <1>36, <2>1 DEF Placed, Rewrites, ReleaseStale, table, aux, notes
<1>37. ASSUME NEW w \in Workers, StaleConflict(w) PROVE Placed
  <2>1. Places
    <3> DEFINE l == [loc[w] EXCEPT !.pc = "staleNext", !.tgt = None, !.cnt = 0]
    <3>1. Becomes(w, l) \/ End(w)
      BY <1>37 DEF StaleConflict, StaleContinue
    <3>2. l.pc \notin CreatePcs
      BY FieldTypes DEF Operation, CreatePcs
    <3> QED
      BY <3>1, <3>2, PlacesBecome, PlacesEnd
  <2> QED
    BY <1>37, <2>1 DEF Placed, StaleConflict, table, aux, notes
<1>38. ASSUME NEW w \in Workers, StartSweep(w) PROVE Placed
  <2>1. Places
    BY <1>38, PlacesLeave DEF LocOK, Operation, StartSweep, Becomes, Idle, CreatePcs
  <2> QED
    BY <1>38, <2>1 DEF Placed, StartSweep, table, aux, notes
<1>39. ASSUME NEW w \in Workers, StartReleaseStale(w) PROVE Placed
  <2>1. Places
    BY <1>39, PlacesLeave DEF LocOK, Operation, StartReleaseStale, Becomes, Idle, CreatePcs
  <2> QED
    BY <1>39, <2>1 DEF Placed, StartReleaseStale, table, aux, notes
<1>40. ASSUME NEW w \in Workers, Abandon(w) PROVE Placed
  <2>1. Places
    BY <1>40, PlacesLeave DEF LocOK, Operation, Abandon, End, Becomes, Idle, CreatePcs
  <2> QED
    BY <1>40, <2>1 DEF Placed, Abandon, Fault, table, aux, notes
<1>41. ASSUME NEW w \in Workers, NEW i \in Inv, StartRead(w, i) PROVE Placed
  <2>1. Places
    BY <1>41, PlacesLeave DEF LocOK, Operation, StartRead, Becomes, Idle, CreatePcs
  <2> QED
    BY <1>41, <2>1 DEF Placed, StartRead, table, aux, notes
<1>42. ASSUME NEW w \in Workers, NEW i \in Inv, StartComplete(w, i) PROVE Placed
  <2>1. Places
    BY <1>42, PlacesLeave DEF LocOK, Operation, StartComplete, Becomes, Idle, CreatePcs
  <2> QED
    BY <1>42, <2>1 DEF Placed, StartComplete, table, aux, notes
<1>43. ASSUME NEW w \in Workers, NEW i \in Inv, NEW k \in Keys \cup {None}, StartCreate(w, k, i) PROVE Placed
  <2>1. Places
    BY <1>43, PlacesLeave DEF LocOK, Operation, StartCreate, Becomes, Idle, CreatePcs
  <2> QED
    BY <1>43, <2>1 DEF Placed, StartCreate, table, aux, notes
<1>44. ASSUME NEW i \in Inv, Age(i) PROVE Placed
  <2>1. Places
    BY <1>44 DEF LocOK, Operation, Places, Continues, Age, Remember
  <2> QED
    BY <1>44, <2>1 DEF Placed, Rewrites, Age, table, aux, notes
<1>45. ASSUME NEW i \in Inv, Touch(i) PROVE Placed
  <2>1. Places
    BY <1>45 DEF Places, Continues, Touch
  <2> QED
    BY <1>45, <2>1 DEF Placed, Touch, table, aux, notes
<1>46. ASSUME UNCHANGED vars PROVE Placed
  BY <1>46 DEF Placed, Places, Continues, vars
<1> QED
  BY <1>1, <1>2, <1>3, <1>4, <1>5, <1>6, <1>7, <1>8, <1>9, <1>9a, <1>10, <1>11,
      <1>12, <1>13, <1>14, <1>15, <1>16, <1>17, <1>18, <1>20, <1>21, <1>22, <1>23,
      <1>24, <1>25, <1>26, <1>27, <1>28, <1>29, <1>30, <1>31, <1>32, <1>33, <1>34,
      <1>35, <1>36, <1>37, <1>38, <1>39, <1>40, <1>41, <1>42, <1>43, <1>44, <1>45,
      <1>46
  DEF Next, Step, FindStep, SweepStep, DecStep, ReserveStep, PlatformStep, SettleStep,
      CompleteStep, StaleStep

(* A step that leaves the records alone, and one of a record that is not     *)
(* being settled, or whose finalize was applied already.                     *)
LEMMA SettlingKept ==
  ASSUME Settling, Places, UNCHANGED <<state, age, doubtful>>
  PROVE  Settling'
  BY DEF Settling, Places, Continues

LEMMA SettlingUsed ==
  ASSUME TypeOK, Control, Settling, Places, NEW i \in Inv, state[i] # "reserved" \/ age[i] # 0,
         NEW new, state' = [state EXCEPT ![i] = new],
         \A j \in Inv : age[j] = 0 => age'[j] = 0, UNCHANGED doubtful
  PROVE  Settling'
<1> SUFFICES ASSUME NEW v \in Workers, loc'[v].pc \in CreatePcs
             PROVE  /\ age'[loc'[v].id] = 0 /\ loc'[v].id \in loc'[v].recent
                    /\ state'[loc'[v].id] # "reserved"
                         => loc'[v].pc \in {"finRead", "finWrite"} /\ loc'[v].id \in doubtful'
  BY DEF Settling
<1>1. Continues(v) /\ loc[v].id \in Inv
  BY DEF Places, Continues, Control, ControlOf
<1> QED
  BY <1>1 DEF Continues, Settling, TypeOK

(* The record of w is nobody else's.                                         *)
LEMMA SettlingOwn ==
  ASSUME TypeOK, Control, DistinctIds, Settling, Places, NEW w \in Workers, loc[w].id \in Inv,
         NEW new, state' = [state EXCEPT ![loc[w].id] = new], UNCHANGED age,
         doubtful \subseteq doubtful',
         loc'[w].pc \in CreatePcs
           => loc'[w].pc \in {"finRead", "finWrite"} /\ loc[w].id \in doubtful'
  PROVE  Settling'
<1> SUFFICES ASSUME NEW v \in Workers, loc'[v].pc \in CreatePcs
             PROVE  /\ age'[loc'[v].id] = 0 /\ loc'[v].id \in loc'[v].recent
                    /\ state'[loc'[v].id] # "reserved"
                         => loc'[v].pc \in {"finRead", "finWrite"} /\ loc'[v].id \in doubtful'
  BY DEF Settling
<1>1. Continues(v) /\ loc[v].id \in Inv
  BY DEF Places, Continues, Control, ControlOf
<1>2. CASE v = w
  BY <1>1, <1>2 DEF Continues, Settling
<1>3. CASE v # w
  <2>1. loc[v].id # loc[w].id
    BY <1>3, RowsAssumption DEF DistinctIds
  <2> QED
    BY <1>1, <2>1 DEF Continues, Settling, TypeOK
<1> QED
  BY <1>2, <1>3

(* If no operation outlasts the gap between two deadlines, nobody else moves *)
(* the record that an operation is settling, unless a finalize was applied   *)
(* and its response lost.                                                    *)
LEMMA SettlingStep ==
  ASSUME TypeOK, LocOK, Control, DistinctIds, FreeRows, Unborn, Held, Settling, ~SlowOperations, [Next]_vars
  PROVE  Settling'
<1>1. ASSUME NEW w \in Workers, Reserve(w) PROVE Settling'
  <2> DEFINE i == loc[w].id
  <2>1. i \in Inv /\ age[i] = 0
    BY <1>1 DEF Control, ControlOf, Unborn, FreeRows, Reserve, At, CreateOnlyPcs, CreatePcs
  <2>2. \A v \in Workers \ {w} : /\ loc'[v].pc = loc[v].pc /\ loc'[v].id = loc[v].id
                                /\ loc[v].recent \subseteq loc'[v].recent
    BY <1>1 DEF LocOK, Operation, Reserve, Remember
  <2>3. loc'[w].id = i /\ i \in loc'[w].recent
    BY <1>1 DEF LocOK, Operation, Reserve, Remember
  <2>4. \A v \in Workers \ {w} : loc[v].pc \in CreatePcs => loc[v].id # i /\ loc[v].id \in Inv
    BY <2>1, RowsAssumption DEF DistinctIds, Control, ControlOf
  <2>5. state' = [state EXCEPT ![i] = "reserved"] /\ UNCHANGED <<age, doubtful>>
    BY <1>1 DEF Reserve, aux, notes
  <2> QED
    BY <2>1, <2>2, <2>3, <2>4, <2>5 DEF Settling, TypeOK
<1>2. ASSUME NEW w \in Workers, ExpireRecord(w), Places PROVE Settling'
  <2>1. UNCHANGED <<age, doubtful>>
    BY <1>2 DEF ExpireRecord, notes
  <2>2. CASE loc[w].tgt \in fresh[w]
    <3>1. loc[w].tgt \in Inv /\ age[loc[w].tgt] # 0
      BY <1>2, <2>2 DEF ExpireRecord, At, Control, ControlOf, TgtPcs, Held, HeldBy,
          Lapsing, Expired
    <3> QED
      BY <1>2, <2>1, <2>2, <3>1, SettlingUsed DEF ExpireRecord
  <2>3. CASE loc[w].tgt \notin fresh[w]
    BY <1>2, <2>1, <2>3, SettlingKept DEF ExpireRecord
  <2> QED
    BY <2>2, <2>3
<1>3. ASSUME NEW w \in Workers, SweepRecord(w), Places PROVE Settling'
  <2>1. PICK i \in loc[w].batch \cap fresh[w] \cap Inv : state' = [state EXCEPT ![i] = "gone"]
    BY <1>3 DEF SweepRecord
  <2>2. age[i] # 0 /\ UNCHANGED <<age, doubtful>>
    BY <1>3, <2>1 DEF SweepRecord, notes, At, Control, ControlOf, Held, HeldBy, Lapsing,
        Expired
  <2> QED
    BY <1>3, <2>1, <2>2, SettlingUsed
<1>4. ASSUME NEW w \in Workers, Finalize(w), Places PROVE Settling'
  <2>1. loc[w].id \in Inv /\ UNCHANGED age /\ state' = [state EXCEPT ![loc[w].id] = "active"]
    BY <1>4 DEF Finalize, At, Control, ControlOf, CreatePcs
  <2>2. CASE UNCHANGED doubtful /\ End(w)
    BY <1>4, <2>1, <2>2, SettlingOwn DEF LocOK, End, Becomes, Idle, CreatePcs
  <2>3. CASE doubtful' = doubtful \cup {loc[w].id} /\ TryAgain(w, "finRead")
    <3>1. loc'[w].pc \in {"idle", "finRead"}
      BY <2>3, Again DEF LocOK, End, Becomes, Idle
    <3> QED
      BY <1>4, <2>1, <2>3, <3>1, SettlingOwn DEF CreatePcs
  <2> QED
    BY <1>4, <2>2, <2>3 DEF Finalize
<1>5. ASSUME NEW w \in Workers, ReleaseDelete(w), Places PROVE Settling'
  <2>1. loc[w].id \in Inv /\ loc'[w].pc \notin CreatePcs
    BY <1>5 DEF LocOK, Operation, ReleaseDelete, At, Becomes, Control, ControlOf, CreatePcs
  <2> QED
    BY <1>5, <2>1, SettlingOwn DEF ReleaseDelete, aux, notes
<1>6. ASSUME NEW w \in Workers, Complete(w), Places PROVE Settling'
  <2>1. loc[w].tgt \in Inv /\ state[loc[w].tgt] # "reserved"
    BY <1>6 DEF Complete, At, Control, ControlOf, TgtPcs, Held, HeldBy, CompletePcs
  <2>2. /\ state' = [state EXCEPT ![loc[w].tgt] = "closed"] /\ UNCHANGED doubtful
        /\ \A j \in Inv : age[j] = 0 => age'[j] = 0
    BY <1>6 DEF TypeOK, Complete, CloseRecord, Prolong, aux, notes
  <2> QED
    BY <1>6, <2>1, <2>2, SettlingUsed
<1>7. ASSUME NEW w \in Workers, ReleaseStale(w), Places PROVE Settling'
  <2>1. loc[w].tgt \in Inv /\ age[loc[w].tgt] # 0
    BY <1>7 DEF ReleaseStale, CloseRecord, At, Control, ControlOf, TgtPcs, StalePcs, Held,
        HeldBy,
        Uncertain
  <2>2. /\ state' = [state EXCEPT ![loc[w].tgt] = "closed"] /\ UNCHANGED doubtful
        /\ \A j \in Inv : age[j] = 0 => age'[j] = 0
    BY <1>7 DEF TypeOK, ReleaseStale, CloseRecord, Prolong, aux, notes
  <2> QED
    BY <1>7, <2>1, <2>2, SettlingUsed
<1>8. ASSUME NEW i \in Inv, Age(i), Places PROVE Settling'
  <2>1. \A v \in Workers : loc[v].pc \in CreatePcs => loc[v].id # i /\ loc[v].id \in Inv
    BY <1>8 DEF Age, Settling, Control, ControlOf
  <2>2. \A v \in Workers : loc'[v].pc = loc[v].pc
    BY <1>8 DEF LocOK, Operation, Age, Remember
  <2> QED
    BY <1>8, <2>1, <2>2 DEF TypeOK, Age, aux, notes, Settling, Places, Continues
<1> QED
  BY <1>1, <1>2, <1>3, <1>4, <1>5, <1>6, <1>7, <1>8, PlacesStep, SettlingKept
  DEF Placed, Rewrites

(* Rows is inductive with Structure, however long an operation takes. *)
LEMMA RowsStep ==
  ASSUME Structure, Rows, [Next]_vars
  PROVE  Rows'
<1>1. TypeOK /\ LocOK /\ Control
  BY DEF Structure, TypeOK, LocOK
<1>2. Control'
  BY StructureStep DEF Structure
<1> QED
  BY <1>1, <1>2, DistinctIdsStep, FreeRowsStep, UnbornStep, HeldStep DEF Rows

(* Nothing has happened to any row at first. *)
LEMMA RowsInit == Init => Rows /\ IndexAgrees /\ Settling
<1> SUFFICES ASSUME Init PROVE Rows /\ IndexAgrees /\ Settling
  OBVIOUS
<1>1. \A w \in Workers : loc[w] = Idle
  BY DEF Init
<1>2. DistinctIds /\ Unborn /\ Settling
  BY <1>1 DEF Idle, DistinctIds, Unborn, Settling, CreatePcs
<1>3. FreeRows /\ IndexAgrees
  BY RowsAssumption DEF Init, FreeRows, IndexAgrees, IndexRows
<1>4. Held
  BY <1>1 DEF Held, HeldBy, Idle, SweepOps, CompletePcs
<1> QED
  BY <1>2, <1>3, <1>4 DEF Rows

-----------------------------------------------------------------------------
(* What becomes of the keys.                                                 *)

(* No record changes its key once it has one, comes back, or has its first   *)
(* retention before it again.                                                *)
Steady == \A i \in Inv :
  /\ keyOf[i] # None => keyOf'[i] = keyOf[i]
  /\ state[i] = "gone" => state'[i] = "gone"
  /\ state'[i] = "free" => state[i] = "free" /\ keyOf'[i] = keyOf[i]
  /\ age[i] >= 2 => age'[i] >= 2

(* The index row of a spent key goes, or a record is created with its row.   *)
IndexMoves ==
  \/ UNCHANGED <<keyOf, index>>
  \/ UNCHANGED keyOf /\ \E k \in Keys : Spent(k) /\ index' = [index EXCEPT ![k] = None]
  \/ \E i \in Inv, k \in Keys \cup {None} :
       /\ keyOf[i] = None /\ keyOf' = [keyOf EXCEPT ![i] = k]
       /\ \/ k = None /\ UNCHANGED index
          \/ k # None /\ index[k] = None /\ index' = [index EXCEPT ![k] = i]

(* A key once spent is spent for good.                                       *)
LEMMA SpentStays ==
  ASSUME TypeOK, TypeOK', Steady, NEW k \in Keys, Spent(k)
  PROVE  Spent(k)'
<1>1. PICK i \in Inv : keyOf[i] = k /\ (state[i] = "gone" \/ age[i] >= 2)
  BY DEF Spent
<1>2. keyOf'[i] = k /\ (state'[i] = "gone" \/ age'[i] >= 2)
  BY <1>1, RowsAssumption DEF Steady, TypeOK
<1> QED
  BY <1>2 DEF Spent

(* Such moves leave every key that is not spent with its one record.         *)
LEMMA KeyKept ==
  ASSUME TypeOK, TypeOK', KeyKeepsItsRecord, Steady, IndexMoves
  PROVE  KeyKeepsItsRecord'
<1> SUFFICES ASSUME NEW k \in Keys, ~Spent(k)', NEW j \in Inv, keyOf'[j] = k
             PROVE  index'[k] = j
  BY DEF KeyKeepsItsRecord
<1>1. ~Spent(k) /\ k # None
  BY SpentStays, RowsAssumption
<1>2. keyOf[j] = k => index[k] = j
  BY <1>1 DEF KeyKeepsItsRecord
<1>3. CASE UNCHANGED <<keyOf, index>>
  BY <1>2, <1>3
<1>4. CASE UNCHANGED keyOf /\ \E m \in Keys : Spent(m) /\ index' = [index EXCEPT ![m] = None]
  BY <1>1, <1>2, <1>4 DEF TypeOK
<1>5. ASSUME NEW i \in Inv, NEW m \in Keys \cup {None},
             keyOf[i] = None, keyOf' = [keyOf EXCEPT ![i] = m],
             \/ m = None /\ UNCHANGED index
             \/ m # None /\ index[m] = None /\ index' = [index EXCEPT ![m] = i]
      PROVE  index'[k] = j
  <2>1. CASE i = j
    BY <1>1, <1>5, <2>1 DEF TypeOK
  <2>2. CASE i # j
    <3>1. keyOf[j] = k
      BY <1>5, <2>2 DEF TypeOK
    <3>2. index[k] # None
      BY <1>2, <3>1, RowsAssumption
    <3> QED
      BY <1>2, <1>5, <3>1, <3>2 DEF TypeOK
  <2> QED
    BY <2>1, <2>2
<1> QED
  BY <1>3, <1>4, <1>5 DEF IndexMoves

(* Records that were never created have no key, and get none but by creation. *)
LEMMA FreeKeysKept == ASSUME FreeKeys, Steady PROVE FreeKeys'
  BY DEF FreeKeys, Steady

(* A step that leaves the rows alone.                                        *)
LEMMA StillRows ==
  ASSUME TypeOK, UNCHANGED <<state, age, keyOf, index>>
  PROVE  Steady /\ IndexMoves
  BY DEF Steady, IndexMoves

(* A step that only changes the state of a record that is neither free nor   *)
(* gone.                                                                     *)
LEMMA MovedRecord ==
  ASSUME TypeOK, UNCHANGED <<keyOf, index>>, \A j \in Inv : age[j] >= 2 => age'[j] >= 2,
         NEW i \in Present, NEW s, s # "free", state' = [state EXCEPT ![i] = s]
  PROVE  Steady /\ IndexMoves
  BY DEF Steady, IndexMoves, Present, TypeOK

(* A step that only deletes the index row of a spent key.                    *)
LEMMA DroppedIndex ==
  ASSUME TypeOK, UNCHANGED <<state, age, keyOf>>, NEW k \in Keys, Spent(k),
         index' = [index EXCEPT ![k] = None]
  PROVE  Steady /\ IndexMoves
  BY DEF Steady, IndexMoves

(* Every step moves the rows in one of these ways.                           *)
LEMMA RowsMoveStep ==
  ASSUME TypeOK, LocOK, Control, Unborn, Held, IndexAgrees, FreeKeys, Known, [Next]_vars
  PROVE  Steady /\ IndexMoves
<1>1. ASSUME NEW w \in Workers, ReadIndex(w) PROVE Steady /\ IndexMoves
  BY <1>1, StillRows DEF ReadIndex, table
<1>2. ASSUME NEW w \in Workers, GetRecord(w) PROVE Steady /\ IndexMoves
  BY <1>2, StillRows DEF GetRecord, table
<1>3. ASSUME NEW w \in Workers, ExpireRecord(w) PROVE Steady /\ IndexMoves
  <2> DEFINE j == loc[w].tgt
  <2>1. UNCHANGED <<age, keyOf, index>>
    BY <1>3 DEF ExpireRecord
  <2>2. CASE j \notin fresh[w]
    BY <1>3, <2>1, <2>2, StillRows DEF ExpireRecord
  <2>3. CASE j \in fresh[w]
    <3>1. j \in Present
      BY <1>3, <2>3 DEF ExpireRecord, At, Held, HeldBy, Lapsing
    <3>2. state' = [state EXCEPT ![j] = "gone"]
      BY <1>3, <2>3 DEF ExpireRecord
    <3> QED
      BY <2>1, <3>1, <3>2, MovedRecord
  <2> QED
    BY <2>2, <2>3
<1>4. ASSUME NEW w \in Workers, Unindex(w) PROVE Steady /\ IndexMoves
  <2>1. loc[w].req \in Keys /\ Spent(loc[w].req)
    BY <1>4 DEF Unindex, At, Control, ControlOf, Known, KnownBy
  <2> QED
    BY <1>4, <2>1, DroppedIndex DEF Unindex
<1>5. ASSUME NEW w \in Workers, FallbackQuery(w) PROVE Steady /\ IndexMoves
  BY <1>5, StillRows DEF FallbackQuery, table
<1>6. ASSUME NEW w \in Workers, SweepQuery(w) PROVE Steady /\ IndexMoves
  BY <1>6, StillRows DEF SweepQuery, table
<1>7. ASSUME NEW w \in Workers, SweepSkip(w) PROVE Steady /\ IndexMoves
  BY <1>7, StillRows DEF SweepSkip, table
<1>8. ASSUME NEW w \in Workers, SweepIndexRow(w) PROVE Steady /\ IndexMoves
  <2>1. PICK k \in loc[w].batch \cap fresh[w] \cap Keys : index' = [index EXCEPT ![k] = None]
    BY <1>8 DEF SweepIndexRow
  <2>2. k \in StaleIndex
    BY <1>8, <2>1 DEF SweepIndexRow, At, Control, ControlOf, Known, KnownBy
  <2>3. Spent(k)
    BY <2>2 DEF StaleIndex, IndexRows, IndexAgrees, Spent, TypeOK
  <2> QED
    BY <1>8, <2>1, <2>3, DroppedIndex DEF SweepIndexRow
<1>9. ASSUME NEW w \in Workers, SweepRecord(w) PROVE Steady /\ IndexMoves
  <2>1. PICK i \in loc[w].batch \cap fresh[w] \cap Inv : state' = [state EXCEPT ![i] = "gone"]
    BY <1>9 DEF SweepRecord, SweepDeleted, Fault, notes
  <2>2. i \in Present
    BY <1>9, <2>1 DEF SweepRecord, SweepDeleted, Fault, notes, At, Control, ControlOf, Held,
        HeldBy, Lapsing
  <2> QED
    BY <1>9, <2>1, <2>2, MovedRecord DEF SweepRecord, SweepDeleted, Fault, notes
<1>9a. ASSUME NEW w \in Workers, SweepGone(w) PROVE Steady /\ IndexMoves
  BY <1>9a, StillRows DEF SweepGone, table
<1>10. ASSUME NEW w \in Workers, SweepIndexOf(w) PROVE Steady /\ IndexMoves
  <2> DEFINE k == keyOf[loc[w].tgt]
  <2>1. loc[w].tgt \in Inv /\ k \in Keys \cup {None} /\ age[loc[w].tgt] >= 2
    BY <1>10 DEF SweepIndexOf, At, Control, ControlOf, TgtPcs, Known, KnownBy, TypeOK
  <2>2. UNCHANGED <<state, age, keyOf>> /\ index' = [index EXCEPT ![k] = None]
    BY <1>10 DEF SweepIndexOf
  <2>3. CASE k \in Keys
    <3>1. Spent(k)
      BY <2>1 DEF Spent
    <3> QED
      BY <2>2, <2>3, <3>1, DroppedIndex
  <2>4. CASE k = None
    <3>1. UNCHANGED index
      BY <2>2, <2>4, RowsAssumption DEF TypeOK
    <3> QED
      BY <2>2, <3>1, StillRows
  <2> QED
    BY <2>1, <2>3, <2>4
<1>11. ASSUME NEW w \in Workers, SweepDone(w) PROVE Steady /\ IndexMoves
  BY <1>11, StillRows DEF SweepDone, table
<1>12. ASSUME NEW w \in Workers, DecrementRead(w) PROVE Steady /\ IndexMoves
  BY <1>12, StillRows DEF DecrementRead, table
<1>13. ASSUME NEW w \in Workers, DecrementWrite(w) PROVE Steady /\ IndexMoves
  BY <1>13, StillRows DEF DecrementWrite, DecrementDone, DecrementAgain, TryAgain,
      MayRetry, Fault
<1>14. ASSUME NEW w \in Workers, DecrementConflict(w) PROVE Steady /\ IndexMoves
  BY <1>14, StillRows DEF DecrementConflict, DecrementAgain, TryAgain, MayRetry, table
<1>15. ASSUME NEW w \in Workers, ReadCounter(w) PROVE Steady /\ IndexMoves
  BY <1>15, StillRows DEF ReadCounter, table
<1>16. ASSUME NEW w \in Workers, DenyQuota(w) PROVE Steady /\ IndexMoves
  BY <1>16, StillRows DEF DenyQuota, table
<1>17. ASSUME NEW w \in Workers, Recount(w) PROVE Steady /\ IndexMoves
  BY <1>17, StillRows DEF Recount, table
<1>18. ASSUME NEW w \in Workers, RecountWrite(w) PROVE Steady /\ IndexMoves
  BY <1>18, StillRows DEF RecountWrite
<1>19. ASSUME NEW w \in Workers, Reserve(w) PROVE Steady /\ IndexMoves
  <2> DEFINE i == loc[w].id  k == loc[w].req
  <2>1. i \in Inv /\ k \in Keys \cup {None} /\ state[i] = "free"
    BY <1>19, FieldTypes DEF Control, ControlOf, Unborn, Reserve, At, CreateOnlyPcs, CreatePcs
  <2>2. /\ state' = [state EXCEPT ![i] = "reserved"] /\ keyOf' = [keyOf EXCEPT ![i] = k]
        /\ index' = IF k = None THEN index ELSE [index EXCEPT ![k] = i]
        /\ k # None => index[k] = None
        /\ UNCHANGED age
    BY <1>19 DEF Reserve
  <2>3. keyOf[i] = None
    BY <2>1 DEF FreeKeys
  <2> QED
    BY <2>1, <2>2, <2>3 DEF Steady, IndexMoves, TypeOK
<1>20. ASSUME NEW w \in Workers, ReserveConflict(w) PROVE Steady /\ IndexMoves
  BY <1>20, StillRows DEF ReserveConflict, table
<1>21. ASSUME NEW w \in Workers, ReserveDuplicate(w) PROVE Steady /\ IndexMoves
  BY <1>21, StillRows DEF ReserveDuplicate, table
<1>22. ASSUME NEW w \in Workers, TokenFails(w) PROVE Steady /\ IndexMoves
  BY <1>22, StillRows DEF TokenFails, table
<1>23. ASSUME NEW w \in Workers, PostUncertain(w) PROVE Steady /\ IndexMoves
  BY <1>23, StillRows DEF PostUncertain, Post, table
<1>24. ASSUME NEW w \in Workers, PostSucceeds(w) PROVE Steady /\ IndexMoves
  BY <1>24, StillRows DEF PostSucceeds, Post, table
<1>25. ASSUME NEW w \in Workers, FinalizeRead(w) PROVE Steady /\ IndexMoves
  BY <1>25, StillRows DEF FinalizeRead, table
<1>26. ASSUME NEW w \in Workers, Finalize(w) PROVE Steady /\ IndexMoves
  <2>1. loc[w].id \in Present
    BY <1>26 DEF Finalize, TryAgain, MayRetry, Fault, At, Known, KnownBy
  <2> QED
    BY <1>26, <2>1, MovedRecord DEF Finalize, TryAgain, MayRetry, Fault
<1>27. ASSUME NEW w \in Workers, FinalizeConflict(w) PROVE Steady /\ IndexMoves
  BY <1>27, StillRows DEF FinalizeConflict, table
<1>28. ASSUME NEW w \in Workers, ReleaseRead(w) PROVE Steady /\ IndexMoves
  BY <1>28, StillRows DEF ReleaseRead, table
<1>29. ASSUME NEW w \in Workers, ReleaseDelete(w) PROVE Steady /\ IndexMoves
  <2>1. loc[w].id \in Present
    BY <1>29 DEF ReleaseDelete, At, Control, ControlOf, CreatePcs, Held, HeldBy, Present
  <2> QED
    BY <1>29, <2>1, MovedRecord DEF ReleaseDelete
<1>30. ASSUME NEW w \in Workers, ReleaseConflict(w) PROVE Steady /\ IndexMoves
  BY <1>30, StillRows DEF ReleaseConflict, TryAgain, MayRetry, table
<1>31. ASSUME NEW w \in Workers, CompleteRead(w) PROVE Steady /\ IndexMoves
  BY <1>31, StillRows DEF CompleteRead, table
<1>32. ASSUME NEW w \in Workers, CompleteCounter(w) PROVE Steady /\ IndexMoves
  BY <1>32, StillRows DEF CompleteCounter, table
<1>33. ASSUME NEW w \in Workers, Complete(w) PROVE Steady /\ IndexMoves
  <2>1. loc[w].tgt \in Present
    BY <1>33 DEF Complete, CloseRecord, Prolong, At, Control, ControlOf, Held, HeldBy, Open,
        OpenStates, Present
  <2>2. \A j \in Inv : age[j] >= 2 => age'[j] >= 2
    BY <1>33 DEF TypeOK, Complete, CloseRecord, Prolong
  <2> QED
    BY <1>33, <2>1, <2>2, MovedRecord DEF Complete, CloseRecord, Prolong
<1>34. ASSUME NEW w \in Workers, CompleteConflict(w) PROVE Steady /\ IndexMoves
  BY <1>34, StillRows DEF CompleteConflict, table
<1>35. ASSUME NEW w \in Workers, StaleNext(w) PROVE Steady /\ IndexMoves
  BY <1>35, StillRows DEF StaleNext, table
<1>36. ASSUME NEW w \in Workers, ReleaseStale(w) PROVE Steady /\ IndexMoves
  <2>1. loc[w].tgt \in Present
    BY <1>36 DEF ReleaseStale, CloseRecord, Prolong, At, Control, ControlOf, TgtPcs, StalePcs,
        Held, HeldBy, Uncertain, Present
  <2>2. \A j \in Inv : age[j] >= 2 => age'[j] >= 2
    BY <1>36 DEF TypeOK, ReleaseStale, CloseRecord, Prolong
  <2> QED
    BY <1>36, <2>1, <2>2, MovedRecord DEF ReleaseStale, CloseRecord, Prolong
<1>37. ASSUME NEW w \in Workers, StaleConflict(w) PROVE Steady /\ IndexMoves
  BY <1>37, StillRows DEF StaleConflict, table
<1>38. ASSUME NEW w \in Workers, StartSweep(w) PROVE Steady /\ IndexMoves
  BY <1>38, StillRows DEF StartSweep, table
<1>39. ASSUME NEW w \in Workers, StartReleaseStale(w) PROVE Steady /\ IndexMoves
  BY <1>39, StillRows DEF StartReleaseStale, table
<1>40. ASSUME NEW w \in Workers, Abandon(w) PROVE Steady /\ IndexMoves
  BY <1>40, StillRows DEF Abandon, Fault, notes, table
<1>41. ASSUME NEW w \in Workers, NEW i \in Inv, StartRead(w, i) PROVE Steady /\ IndexMoves
  BY <1>41, StillRows DEF StartRead, table
<1>42. ASSUME NEW w \in Workers, NEW i \in Inv, StartComplete(w, i) PROVE Steady /\ IndexMoves
  BY <1>42, StillRows DEF StartComplete, table
<1>43. ASSUME NEW w \in Workers, NEW i \in Inv, NEW k \in Keys \cup {None}, StartCreate(w, k, i) PROVE Steady /\ IndexMoves
  BY <1>43, StillRows DEF StartCreate, table
<1>44. ASSUME NEW i \in Inv, Age(i) PROVE Steady /\ IndexMoves
  <2>1. age' = [age EXCEPT ![i] = @ + 1] /\ UNCHANGED <<state, keyOf, index>>
    BY <1>44 DEF Age
  <2> QED
    BY <2>1 DEF TypeOK, Steady, IndexMoves
<1>45. ASSUME NEW i \in Inv, Touch(i) PROVE Steady /\ IndexMoves
  BY <1>45, StillRows DEF Touch, notes, table
<1>46. ASSUME UNCHANGED vars PROVE Steady /\ IndexMoves
  BY <1>46, StillRows DEF vars
<1> QED
  BY <1>1, <1>2, <1>3, <1>4, <1>5, <1>6, <1>7, <1>8, <1>9, <1>9a, <1>10, <1>11, <1>12,
      <1>13, <1>14, <1>15, <1>16, <1>17, <1>18, <1>19, <1>20, <1>21, <1>22, <1>23, <1>24, <1>25,
      <1>26, <1>27, <1>28, <1>29, <1>30, <1>31, <1>32, <1>33, <1>34, <1>35, <1>36, <1>37,
      <1>38, <1>39, <1>40, <1>41, <1>42, <1>43, <1>44, <1>45, <1>46 DEF Next, Step,
      FindStep, SweepStep, DecStep, ReserveStep, PlatformStep, SettleStep, CompleteStep,
      StaleStep

-----------------------------------------------------------------------------
(* What an operation knows of its key stays true.                            *)

(* The step leaves all that KnownBy speaks of to v.                          *)
Bystander(v) ==
  /\ SameHand(v) /\ loc'[v].req = loc[v].req /\ fresh'[v] \subseteq fresh[v]
  /\ \A k \in fresh'[v] \cap Keys : index'[k] = index[k]
  /\ \A i \in fresh'[v] \cap Inv : i \in Present => i \in Present'

(* The operations that have no part in a step know what they knew.           *)
LEMMA KnownKept ==
  ASSUME TypeOK, TypeOK', LocOK, Control, Steady, NEW v \in Workers, KnownBy(v), Bystander(v)
  PROVE  KnownBy(v)'
<1>1. /\ ControlOf(loc[v]) /\ fresh'[v] \subseteq fresh[v] /\ loc'[v].req = loc[v].req
      /\ loc'[v].op = loc[v].op /\ loc'[v].pc = loc[v].pc /\ loc'[v].id = loc[v].id
      /\ loc'[v].tgt = loc[v].tgt /\ loc'[v].batch = loc[v].batch
  BY DEF Bystander, SameHand, Control
<1>2. \A i \in Inv : /\ age[i] >= 2 => age'[i] >= 2
                     /\ keyOf[i] \in Keys => keyOf'[i] = keyOf[i]
  BY RowsAssumption DEF Steady, TypeOK
<1>3. loc[v].pc \in {"get", "expire", "sweepIndex"} => loc[v].tgt \in Inv
  BY <1>1 DEF ControlOf, TgtPcs
<1>4. /\ loc[v].pc \in {"get", "unindex"} => loc[v].req \in Keys
      /\ loc[v].pc = "expire" /\ loc[v].op # "read" => loc[v].req \in Keys
  BY <1>1 DEF ControlOf
<1>5. (loc[v].pc = "get" => keyOf[loc[v].tgt] = loc[v].req)'
  <2>1. loc[v].pc = "get" => keyOf[loc[v].tgt] = loc[v].req
    BY DEF KnownBy
  <2> QED
    BY <1>1, <1>2, <1>3, <1>4, <2>1
<1>6. (loc[v].pc = "expire" => age[loc[v].tgt] >= 2
         /\ (loc[v].op # "read" => keyOf[loc[v].tgt] = loc[v].req))'
  BY <1>1, <1>2, <1>3, <1>4 DEF KnownBy
<1>7. (loc[v].pc = "sweepIndex" => age[loc[v].tgt] >= 2)'
  BY <1>1, <1>2, <1>3 DEF KnownBy
<1>8. (loc[v].pc = "unindex" => Spent(loc[v].req))'
  <2> SUFFICES ASSUME loc[v].pc = "unindex" PROVE Spent(loc[v].req)'
    BY <1>1
  <2>1. Spent(loc[v].req)
    BY DEF KnownBy
  <2>2. PICK k \in Keys : k = loc[v].req
    BY <1>4
  <2>3. Spent(k)'
    BY <2>1, <2>2, SpentStays
  <2> QED
    BY <1>1, <2>2, <2>3 DEF Spent
<1>9. (loc[v].op \in SweepOps => /\ loc[v].batch \cap fresh[v] \cap Keys \subseteq StaleIndex
                                 /\ \A i \in loc[v].batch \cap Inv : age[i] >= 2)'
  <2> SUFFICES ASSUME loc[v].op \in SweepOps
               PROVE  /\ \A k \in loc[v].batch \cap fresh'[v] \cap Keys : k \in StaleIndex'
                      /\ \A i \in loc[v].batch \cap Inv : age'[i] >= 2
    BY <1>1
  <2>1. \A k \in loc[v].batch \cap fresh'[v] \cap Keys : k \in StaleIndex /\ index'[k] = index[k]
    BY <1>1 DEF KnownBy, Bystander
  <2>2. \A i \in loc[v].batch \cap Inv : age[i] >= 2
    BY DEF KnownBy
  <2> QED
    BY <1>2, <2>1, <2>2 DEF StaleIndex, IndexRows, TypeOK
<1>10. (loc[v].pc = "finWrite" /\ loc[v].id \in fresh[v] => loc[v].id \in Present)'
  BY <1>1 DEF KnownBy, Bystander, Present
<1> QED
  BY <1>5, <1>6, <1>7, <1>8, <1>9, <1>10 DEF KnownBy

(* A step of w that leaves the rows and the other operations alone.          *)
LEMMA KnownQuiet ==
  ASSUME TypeOK, TypeOK', LocOK, Control, Known, NEW w \in Workers,
         UNCHANGED <<state, age, keyOf, index>>,
         \A v \in Workers \ {w} : loc'[v] = loc[v] /\ fresh'[v] \subseteq fresh[v],
         KnownBy(w)'
  PROVE  Known'
<1>1. \A v \in Workers \ {w} : Bystander(v)
  BY DEF Bystander, SameHand, Present
<1>2. Steady
  BY StillRows
<1> QED
  BY <1>1, <1>2, KnownKept DEF Known

(* A step of w that changes rows: the others lose their ETags.               *)
LEMMA KnownWrite ==
  ASSUME TypeOK, TypeOK', LocOK, Control, Known, Steady, NEW w \in Workers,
         \A v \in Workers \ {w} : Bystander(v), KnownBy(w)'
  PROVE  Known'
  BY KnownKept DEF Known

(* At most places an operation relies on no key.                             *)
LEMMA KnownClear ==
  ASSUME Control', NEW w \in Workers,
         loc'[w].pc \notin BatchPcs \cup {"get", "expire", "unindex", "finWrite"}
  PROVE  KnownBy(w)'
<1>1. loc'[w].op \in SweepOps => loc'[w].batch = {}
  BY DEF Control, ControlOf, SweepOps, StalePcs
<1> QED
  BY <1>1 DEF KnownBy, BatchPcs

(* A sweep relies on the rows left in its batch.                             *)
LEMMA KnownSweep ==
  ASSUME NEW w \in Workers, loc'[w].pc \in BatchPcs,
         loc'[w].pc = "sweepIndex" => age'[loc'[w].tgt] >= 2,
         loc'[w].op \in SweepOps => /\ loc'[w].batch \cap fresh'[w] \cap Keys \subseteq StaleIndex'
                                    /\ \A i \in loc'[w].batch \cap Inv : age'[i] >= 2
  PROVE  KnownBy(w)'
  BY DEF KnownBy, BatchPcs

(* Looking a key up, an operation has no batch.                              *)
LEMMA KnownAlone ==
  ASSUME Control', NEW w \in Workers, loc'[w].pc \in {"get", "expire", "unindex", "finWrite"},
         (loc[w].pc = "get" => keyOf[loc[w].tgt] = loc[w].req)',
         (loc[w].pc = "expire" => age[loc[w].tgt] >= 2
            /\ (loc[w].op # "read" => keyOf[loc[w].tgt] = loc[w].req))',
         (loc[w].pc = "unindex" => Spent(loc[w].req))',
         (loc[w].pc = "finWrite" /\ loc[w].id \in fresh[w] => loc[w].id \in Present)'
  PROVE  KnownBy(w)'
<1>1. loc'[w].batch = {}
  BY DEF Control, ControlOf, BatchPcs, StalePcs
<1> QED
  BY <1>1 DEF KnownBy

(* What an operation learned of its key stays true.                          *)
LEMMA KnownStep ==
  ASSUME TypeOK, TypeOK', LocOK, Control, Control', Unborn, Held, IndexAgrees, FreeKeys, Known,
         [Next]_vars, Steady
  PROVE  Known'
<1>1. ASSUME NEW w \in Workers, ReadIndex(w) PROVE Known'
  <2>1. \A v \in Workers \ {w} : loc'[v] = loc[v] /\ fresh'[v] \subseteq fresh[v]
    BY <1>1 DEF TypeOK, LocOK, ReadIndex, NotFound, Becomes, table, GoTo, End, Idle
  <2>2. CASE index[loc[w].req] = None
    <3>1. loc'[w].pc \in {"idle", "fallback"}
      BY <1>1, <2>2 DEF LocOK, Operation, ReadIndex, NotFound, Becomes, GoTo, End, Idle
    <3> QED
      BY <1>1, <2>1, <3>1, KnownClear, KnownQuiet DEF ReadIndex, table, BatchPcs
  <2>3. CASE index[loc[w].req] # None
    <3>1. loc'[w].pc = "get" /\ loc'[w].req = loc[w].req /\ loc'[w].tgt = index[loc[w].req]
      BY <1>1, <2>3 DEF LocOK, Operation, ReadIndex, Becomes
    <3>2. keyOf'[index[loc[w].req]] = loc[w].req
      BY <1>1, <2>3 DEF ReadIndex, table, At, Control, ControlOf, IndexAgrees, IndexRows
    <3>3. KnownBy(w)'
      BY <3>1, <3>2, KnownAlone
    <3> QED
      BY <1>1, <2>1, <3>3, KnownQuiet DEF ReadIndex, table
  <2> QED
    BY <2>2, <2>3
<1>2. ASSUME NEW w \in Workers, GetRecord(w) PROVE Known'
  <2>1. \A v \in Workers \ {w} : loc'[v] = loc[v] /\ fresh'[v] \subseteq fresh[v]
    BY <1>2 DEF TypeOK, LocOK, GetRecord, GoTo, Holds, End, table, Becomes, Idle
  <2>2. /\ loc[w].req \in Keys /\ loc[w].tgt \in Inv /\ keyOf[loc[w].tgt] = loc[w].req
        /\ UNCHANGED <<state, age, retained, keyOf, index>>
    BY <1>2 DEF GetRecord, table, At, Control, ControlOf, TgtPcs, Known, KnownBy
  <2>3. CASE loc'[w].pc = "idle"
    BY <2>1, <2>2, <2>3, KnownClear, KnownQuiet DEF BatchPcs
  <2>4. CASE loc'[w].pc = "unindex"
    <3>1. loc[w].tgt \notin Present /\ loc'[w].req = loc[w].req
      BY <1>2, <2>4 DEF LocOK, Operation, GetRecord, GoTo, End, Becomes, Idle
    <3>2. state[loc[w].tgt] = "gone"
      BY <2>2, <3>1, RowsAssumption DEF Present, FreeKeys
    <3>3. Spent(loc[w].req)'
      BY <2>2, <3>1, <3>2 DEF Spent
    <3>4. KnownBy(w)'
      BY <2>4, <3>1, <3>3, KnownAlone
    <3> QED
      BY <2>1, <2>2, <3>4, KnownQuiet
  <2>5. CASE loc'[w].pc = "expire"
    <3>1. Expired(loc[w].tgt) /\ loc'[w].req = loc[w].req /\ loc'[w].tgt = loc[w].tgt
      BY <1>2, <2>5 DEF LocOK, Operation, GetRecord, GoTo, End, Becomes, Idle
    <3>2. age'[loc[w].tgt] >= 2
      BY <2>2, <3>1 DEF Expired
    <3>3. KnownBy(w)'
      BY <2>2, <2>5, <3>1, <3>2, KnownAlone
    <3> QED
      BY <2>1, <2>2, <3>3, KnownQuiet
  <2>6. loc'[w].pc \in {"idle", "unindex", "expire"}
    BY <1>2 DEF LocOK, Operation, GetRecord, GoTo, End, Becomes, Idle
  <2> QED
    BY <2>3, <2>4, <2>5, <2>6
<1>3. ASSUME NEW w \in Workers, ExpireRecord(w) PROVE Known'
  <2>1. \A v \in Workers \ {w} : loc'[v] = loc[v] /\ fresh'[v] \subseteq fresh[v]
    BY <1>3 DEF TypeOK, LocOK, ExpireRecord, ExpireEnds, Fault, notes, NotFound, Holds,
        End, GoTo,
        Becomes, Idle
  <2>2. \A v \in Workers \ {w} : \A i \in fresh'[v] \cap Inv : state'[i] = state[i]
    BY <1>3 DEF TypeOK, ExpireRecord, ExpireEnds, Fault, notes, Holds
  <2>3. UNCHANGED <<age, keyOf, index>>
    BY <1>3 DEF ExpireRecord, ExpireEnds, Fault, notes
  <2>4. \A v \in Workers \ {w} : Bystander(v)
    BY <2>1, <2>2, <2>3 DEF Bystander, SameHand, Present
  <2>5. KnownBy(w)'
    <3>1. CASE loc'[w].pc = "unindex"
      <4>1. loc[w].op # "read" /\ loc'[w].req = loc[w].req
        BY <1>3, <3>1 DEF LocOK, Operation, ExpireRecord, ExpireEnds, Fault, notes, NotFound,
            GoTo, End, Becomes, Idle
      <4>2. loc[w].tgt \in Inv /\ keyOf[loc[w].tgt] = loc[w].req /\ age[loc[w].tgt] >= 2
        BY <1>3, <4>1 DEF ExpireRecord, ExpireEnds, Fault, notes, At, Control, ControlOf,
            TgtPcs,
            Known, KnownBy
      <4>3. Spent(loc[w].req)'
        BY <2>3, <4>1, <4>2 DEF Spent
      <4> QED
        BY <3>1, <4>3, KnownAlone
    <3>2. CASE loc'[w].pc # "unindex"
      <4>1. loc'[w].pc \in {"idle", "fallback"}
        BY <1>3, <3>2 DEF LocOK, Operation, ExpireRecord, ExpireEnds, Fault, notes, NotFound,
            GoTo, End, Becomes, Idle
      <4> QED
        BY <4>1, KnownClear DEF BatchPcs
    <3> QED
      BY <3>1, <3>2
  <2> QED
    BY <2>4, <2>5, KnownWrite
<1>4. ASSUME NEW w \in Workers, Unindex(w) PROVE Known'
  <2>1. \A v \in Workers \ {w} : loc'[v] = loc[v] /\ fresh'[v] \subseteq fresh[v]
    BY <1>4 DEF TypeOK, LocOK, Unindex, NotFound, Holds, GoTo, End, Becomes, Idle
  <2>2. \A v \in Workers \ {w} : \A k \in fresh'[v] \cap Keys : index'[k] = index[k]
    BY <1>4 DEF TypeOK, Unindex, Holds
  <2>3. \A v \in Workers \ {w} : Bystander(v)
    BY <1>4, <2>1, <2>2 DEF Unindex, Bystander, SameHand, Present
  <2>4. loc'[w].pc \in {"idle", "fallback"}
    BY <1>4 DEF LocOK, Operation, Unindex, NotFound, GoTo, End, Becomes, Idle
  <2> QED
    BY <2>3, <2>4, KnownClear, KnownWrite DEF BatchPcs
<1>5. ASSUME NEW w \in Workers, FallbackQuery(w) PROVE Known'
  <2>1. \A v \in Workers \ {w} : loc'[v] = loc[v] /\ fresh'[v] \subseteq fresh[v]
    BY <1>5 DEF TypeOK, LocOK, FallbackQuery, Becomes, GoTo, End, Idle, table
  <2>2. loc'[w].pc \in {"idle", "sweepQuery"}
    BY <1>5 DEF LocOK, Operation, FallbackQuery, Becomes, GoTo, End, Idle
  <2> QED
    BY <1>5, <2>1, <2>2, KnownClear, KnownQuiet DEF FallbackQuery, table, BatchPcs
<1>6. ASSUME NEW w \in Workers, SweepQuery(w) PROVE Known'
  <2>1. \A v \in Workers \ {w} : loc'[v] = loc[v] /\ fresh'[v] \subseteq fresh[v]
    BY <1>6 DEF TypeOK, LocOK, SweepQuery, Becomes, Holds, table
  <2>2. PICK B \in Batches(ExpiredRows) : loc'[w].batch = B /\ loc'[w].pc = "sweepNext" /\ fresh'[w] = B
    BY <1>6 DEF LocOK, TypeOK, Operation, Holds, SweepQuery, Becomes
  <2>3. B \cap Keys \subseteq StaleIndex /\ \A i \in B \cap Inv : age[i] >= 2
    <3>1. B \subseteq ExpiredRows
      BY DEF Batches
    <3> QED
      BY <3>1, RowsAssumption DEF ExpiredRows, Present, StaleIndex, IndexRows, Expired
  <2>4. B \cap Keys \subseteq StaleIndex' /\ \A i \in B \cap Inv : age'[i] >= 2
    BY <1>6, <2>3 DEF SweepQuery, table, StaleIndex, IndexRows
  <2>5. KnownBy(w)'
    BY <2>2, <2>4, KnownSweep DEF BatchPcs
  <2> QED
    BY <1>6, <2>1, <2>5, KnownQuiet DEF SweepQuery, table
<1>7. ASSUME NEW w \in Workers, SweepSkip(w) PROVE Known'
  <2>1. \A v \in Workers \ {w} : loc'[v] = loc[v] /\ fresh'[v] \subseteq fresh[v]
    BY <1>7 DEF TypeOK, LocOK, SweepSkip, Becomes, table
  <2>2. /\ loc'[w].pc = "sweepNext" /\ loc'[w].op = loc[w].op
        /\ loc'[w].batch \subseteq loc[w].batch /\ fresh'[w] = fresh[w] /\ StaleIndex' = StaleIndex
        /\ UNCHANGED age
    BY <1>7 DEF LocOK, Operation, At, SweepSkip, Becomes, table, StaleIndex, IndexRows
  <2>3. KnownBy(w)'
    BY <2>2, KnownSweep DEF Known, KnownBy, BatchPcs
  <2> QED
    BY <1>7, <2>1, <2>3, KnownQuiet DEF SweepSkip, table
<1>8. ASSUME NEW w \in Workers, SweepIndexRow(w) PROVE Known'
  <2>1. \A v \in Workers \ {w} : loc'[v] = loc[v] /\ fresh'[v] \subseteq fresh[v]
    BY <1>8 DEF TypeOK, LocOK, SweepIndexRow, Becomes, Holds
  <2>2. PICK k \in loc[w].batch \cap fresh[w] \cap Keys :
          /\ index' = [index EXCEPT ![k] = None]
          /\ Becomes(w, [loc[w] EXCEPT !.batch = @ \ {k}])
          /\ Holds(w, fresh[w] \ {k}, {k})
    BY <1>8 DEF SweepIndexRow
  <2>3. \A v \in Workers \ {w} : \A m \in fresh'[v] \cap Keys : index'[m] = index[m]
    BY <2>2 DEF TypeOK, Holds
  <2>4. \A v \in Workers \ {w} : Bystander(v)
    BY <1>8, <2>1, <2>3 DEF SweepIndexRow, Bystander, SameHand, Present
  <2>5. /\ loc'[w].pc = "sweepNext" /\ loc'[w].op = loc[w].op
        /\ loc'[w].batch \subseteq loc[w].batch /\ fresh'[w] = fresh[w] \ {k}
        /\ UNCHANGED age
    BY <1>8, <2>2 DEF LocOK, TypeOK, Operation, At, SweepIndexRow, Becomes, Holds
  <2>6. StaleIndex \ {k} \subseteq StaleIndex'
    BY <1>8, <2>2 DEF SweepIndexRow, StaleIndex, IndexRows, TypeOK
  <2>7. KnownBy(w)'
    BY <2>5, <2>6, KnownSweep DEF Known, KnownBy, BatchPcs
  <2> QED
    BY <2>4, <2>7, KnownWrite
<1>9. ASSUME NEW w \in Workers, SweepRecord(w) PROVE Known'
  <2>1. PICK i \in loc[w].batch \cap fresh[w] \cap Inv :
          /\ state' = [state EXCEPT ![i] = "gone"]
          /\ Holds(w, fresh[w] \ {i}, {i})
          /\ SweepDeleted(w, i) \/ Becomes(w, [loc[w] EXCEPT !.batch = @ \ {i}])
    BY <1>9 DEF SweepRecord
  <2>2. /\ \A v \in Workers \ {w} : loc'[v] = loc[v]
        /\ loc'[w].op = loc[w].op /\ loc'[w].batch = loc[w].batch \ {i}
        /\ loc'[w].pc = "sweepIndex" => loc'[w].tgt = i
        /\ loc'[w].pc \in BatchPcs
    <3>1. CASE SweepDeleted(w, i)
      BY <3>1, Deleted DEF BatchPcs
    <3>2. CASE Becomes(w, [loc[w] EXCEPT !.batch = @ \ {i}])
      BY <1>9, <3>2 DEF LocOK, Operation, Becomes, SweepRecord, At, BatchPcs
    <3> QED
      BY <2>1, <3>1, <3>2
  <2>3. /\ \A v \in Workers \ {w} : fresh'[v] \subseteq fresh[v] /\ i \notin fresh'[v]
        /\ fresh'[w] \subseteq fresh[w]
    BY <2>1 DEF TypeOK, Holds
  <2>4. \A v \in Workers \ {w} : Bystander(v)
    <3>1. \A j \in Inv \ {i} : j \in Present => j \in Present'
      BY <2>1 DEF TypeOK, Present
    <3> QED
      BY <1>9, <2>2, <2>3, <3>1 DEF SweepRecord, Bystander, SameHand
  <2>5. StaleIndex' = StaleIndex /\ UNCHANGED age
    BY <1>9 DEF SweepRecord, StaleIndex, IndexRows
  <2>6. /\ loc[w].op \in SweepOps /\ loc[w].batch \cap fresh[w] \cap Keys \subseteq StaleIndex
        /\ \A j \in loc[w].batch \cap Inv : age[j] >= 2
    BY <1>9 DEF SweepRecord, At, Control, ControlOf, Known, KnownBy
  <2>7. KnownBy(w)'
    BY <2>1, <2>2, <2>3, <2>5, <2>6, KnownSweep
  <2> QED
    BY <2>4, <2>7, KnownWrite
<1>9a. ASSUME NEW w \in Workers, SweepGone(w) PROVE Known'
  <2>1. PICK i \in loc[w].batch \cap Inv : SweepDeleted(w, i)
    BY <1>9a DEF SweepGone
  <2>2. /\ \A v \in Workers \ {w} : loc'[v] = loc[v]
        /\ loc'[w].op = loc[w].op /\ loc'[w].batch = loc[w].batch \ {i}
        /\ loc'[w].tgt = i /\ loc'[w].pc \in BatchPcs
    BY <2>1, Deleted DEF BatchPcs
  <2>3. UNCHANGED <<state, age, keyOf, index, fresh>> /\ StaleIndex' = StaleIndex
    BY <1>9a DEF SweepGone, table, StaleIndex, IndexRows
  <2>4. /\ loc[w].op \in SweepOps /\ loc[w].batch \cap fresh[w] \cap Keys \subseteq StaleIndex
        /\ \A j \in loc[w].batch \cap Inv : age[j] >= 2
    BY <1>9a DEF SweepGone, At, Control, ControlOf, Known, KnownBy
  <2>5. KnownBy(w)'
    BY <2>1, <2>2, <2>3, <2>4, KnownSweep
  <2> QED
    BY <2>2, <2>3, <2>5, KnownQuiet
<1>10. ASSUME NEW w \in Workers, SweepIndexOf(w) PROVE Known'
  <2>1. \A v \in Workers \ {w} : loc'[v] = loc[v] /\ fresh'[v] \subseteq fresh[v]
    BY <1>10 DEF TypeOK, LocOK, SweepIndexOf, GoTo, Holds, Becomes
  <2> DEFINE k == keyOf[loc[w].tgt]
  <2>2. index' = [index EXCEPT ![k] = None] /\ UNCHANGED <<state, age>>
    BY <1>10 DEF SweepIndexOf
  <2>3. \A v \in Workers \ {w} : \A m \in fresh'[v] \cap Keys : index'[m] = index[m]
    BY <1>10 DEF SweepIndexOf, TypeOK, Holds
  <2>4. \A v \in Workers \ {w} : Bystander(v)
    BY <2>1, <2>2, <2>3 DEF Bystander, SameHand, Present
  <2>5. /\ loc'[w].pc \in {"decRead", "sweepNext"} /\ loc'[w].op = loc[w].op
        /\ loc'[w].batch = loc[w].batch /\ fresh'[w] = fresh[w] \ {k}
    BY <1>10 DEF LocOK, TypeOK, Operation, SweepIndexOf, GoTo, Becomes, Holds
  <2>6. StaleIndex \ {k} \subseteq StaleIndex'
    BY <2>2 DEF StaleIndex, IndexRows, TypeOK
  <2>7. loc[w].op \in SweepOps => /\ loc[w].batch \cap fresh[w] \cap Keys \subseteq StaleIndex
                                 /\ \A i \in loc[w].batch \cap Inv : age[i] >= 2
    BY DEF Known, KnownBy
  <2>8. KnownBy(w)'
    BY <2>2, <2>5, <2>6, <2>7, KnownSweep DEF BatchPcs
  <2> QED
    BY <2>4, <2>8, KnownWrite
<1>11. ASSUME NEW w \in Workers, SweepDone(w) PROVE Known'
  <2>1. \A v \in Workers \ {w} : loc'[v] = loc[v] /\ fresh'[v] \subseteq fresh[v]
    BY <1>11 DEF TypeOK, LocOK, SweepDone, Becomes, End, Idle, Holds, table
  <2>2. loc'[w].pc \in {"idle", "readCounter"}
    <3> DEFINE l == [loc[w] EXCEPT !.pc = "readCounter", !.tgt = None, !.tries = 0, !.slots = {}]
    <3>1. loc'[w] = Idle \/ loc'[w] = l
      BY <1>11 DEF LocOK, SweepDone, Becomes, End
    <3>2. Idle.pc = "idle" /\ l.pc = "readCounter"
      BY FieldTypes DEF Operation, Idle
    <3> QED
      BY <3>1, <3>2
  <2> QED
    BY <1>11, <2>1, <2>2, KnownClear, KnownQuiet DEF SweepDone, table, BatchPcs
<1>12. ASSUME NEW w \in Workers, DecrementRead(w) PROVE Known'
  <2>1. \A v \in Workers \ {w} : loc'[v] = loc[v] /\ fresh'[v] \subseteq fresh[v]
    BY <1>12 DEF TypeOK, LocOK, DecrementRead, Becomes, Holds, table
  <2>2. StaleIndex' = StaleIndex /\ UNCHANGED age
    BY <1>12 DEF DecrementRead, table, StaleIndex, IndexRows
  <2>3. CASE loc'[w].pc = "idle"
    BY <1>12, <2>1, <2>3, KnownClear, KnownQuiet DEF DecrementRead, table, BatchPcs
  <2>4. CASE loc'[w].pc # "idle"
    <3>1. /\ loc'[w].pc \in {"decRead", "decWrite", "sweepNext"} /\ loc'[w].op = loc[w].op
          /\ loc'[w].batch = loc[w].batch /\ fresh'[w] \subseteq fresh[w] \cup {Counter}
      <4>1. loc'[w] = [loc[w] EXCEPT !.pc = "decWrite", !.cnt = counter]
        BY <1>12, <2>4 DEF LocOK, DecrementRead, Becomes, Holds, table
      <4>2. fresh'[w] \subseteq fresh[w] \cup {Counter}
        BY <1>12, <2>4 DEF LocOK, TypeOK, DecrementRead, Becomes, Holds, table
      <4> QED
        BY <4>1, <4>2, FieldTypes DEF Operation
    <3>2. KnownBy(w)'
      BY <2>2, <3>1, KnownSweep, RowsAssumption DEF Known, KnownBy, BatchPcs
    <3> QED
      BY <1>12, <2>1, <3>2, KnownQuiet DEF DecrementRead, table
  <2> QED
    BY <2>3, <2>4
<1>13. ASSUME NEW w \in Workers, DecrementWrite(w) PROVE Known'
  <2>1. \/ DecrementDone(w)
        \/ TryAgain(w, "decRead") /\ Holds(w, IF MayRetry(w) THEN fresh[w] \ {Counter} ELSE {}, {Counter})
    BY <1>13 DEF DecrementWrite, DecrementAgain
  <2>2. \A v \in Workers : fresh'[v] \subseteq fresh[v]
    BY <2>1 DEF TypeOK, DecrementDone, Holds
  <2>3. /\ \A v \in Workers \ {w} : loc'[v] = loc[v]
        /\ \/ loc'[w].pc = "idle"
           \/ /\ loc'[w].op = loc[w].op /\ loc'[w].batch = loc[w].batch
              /\ loc'[w].pc \in {"decRead", "sweepNext"}
    <3>1. CASE DecrementDone(w)
      <4> DEFINE l == [loc[w] EXCEPT !.pc = "sweepNext", !.cnt = 0, !.tries = 0, !.tgt = None]
      <4>1. /\ \A v \in Workers \ {w} : loc'[v] = loc[v]
            /\ loc'[w] = Idle \/ loc'[w] = l
        BY <3>1 DEF LocOK, DecrementDone, Becomes, End
      <4>2. Idle.pc = "idle" /\ l.pc = "sweepNext" /\ l.op = loc[w].op /\ l.batch = loc[w].batch
        BY FieldTypes DEF Operation, Idle
      <4> QED
        BY <4>1, <4>2
    <3>2. CASE TryAgain(w, "decRead")
      <4>1. CASE End(w)
        BY <3>2, <4>1, Again DEF LocOK, End, Becomes, Idle
      <4> QED
        BY <3>2, <4>1, Again DEF SameTask
    <3> QED
      BY <2>1, <3>1, <3>2
  <2>4. UNCHANGED <<state, age, keyOf, index>> /\ StaleIndex' = StaleIndex
    BY <1>13 DEF DecrementWrite, StaleIndex, IndexRows
  <2>5. KnownBy(w)'
    <3>1. CASE loc'[w].pc = "idle"
      BY <3>1, KnownClear DEF BatchPcs
    <3>2. CASE loc'[w].pc # "idle"
      BY <2>2, <2>3, <2>4, <3>2, KnownSweep DEF Known, KnownBy, BatchPcs
    <3> QED
      BY <3>1, <3>2
  <2> QED
    BY <2>2, <2>3, <2>4, <2>5, KnownQuiet
<1>14. ASSUME NEW w \in Workers, DecrementConflict(w) PROVE Known'
  <2>1. TryAgain(w, "decRead") /\ Holds(w, IF MayRetry(w) THEN fresh[w] \ {Counter} ELSE {}, {})
    BY <1>14 DEF DecrementConflict, DecrementAgain
  <2>2. \A v \in Workers : fresh'[v] \subseteq fresh[v]
    BY <2>1 DEF TypeOK, Holds
  <2>3. /\ \A v \in Workers \ {w} : loc'[v] = loc[v]
        /\ \/ loc'[w].pc = "idle"
           \/ /\ loc'[w].op = loc[w].op /\ loc'[w].batch = loc[w].batch /\ loc'[w].pc = "decRead"
    <3>1. CASE End(w)
      BY <2>1, <3>1, Again DEF LocOK, End, Becomes, Idle
    <3> QED
      BY <2>1, <3>1, Again DEF SameTask
  <2>4. UNCHANGED <<state, age, keyOf, index>> /\ StaleIndex' = StaleIndex
    BY <1>14 DEF DecrementConflict, table, StaleIndex, IndexRows
  <2>5. KnownBy(w)'
    <3>1. CASE loc'[w].pc = "idle"
      BY <3>1, KnownClear DEF BatchPcs
    <3>2. CASE loc'[w].pc # "idle"
      BY <2>2, <2>3, <2>4, <3>2, KnownSweep DEF Known, KnownBy, BatchPcs
    <3> QED
      BY <3>1, <3>2
  <2> QED
    BY <2>2, <2>3, <2>4, <2>5, KnownQuiet
<1>15. ASSUME NEW w \in Workers, ReadCounter(w) PROVE Known'
  <2>1. \A v \in Workers \ {w} : loc'[v] = loc[v] /\ fresh'[v] \subseteq fresh[v]
    BY <1>15 DEF TypeOK, LocOK, ReadCounter, Becomes, Holds, table
  <2>2. loc'[w].pc \in {"recount", "submit"}
    BY <1>15 DEF LocOK, Operation, ReadCounter, Becomes
  <2> QED
    BY <1>15, <2>1, <2>2, KnownClear, KnownQuiet DEF ReadCounter, table, BatchPcs
<1>16. ASSUME NEW w \in Workers, DenyQuota(w) PROVE Known'
  <2>1. \A v \in Workers \ {w} : loc'[v] = loc[v] /\ fresh'[v] \subseteq fresh[v]
    BY <1>16 DEF TypeOK, LocOK, DenyQuota, Becomes, End, Idle, Holds, table
  <2>2. loc'[w].pc \in {"idle"}
    BY <1>16 DEF LocOK, Operation, DenyQuota, Becomes, End, Idle
  <2> QED
    BY <1>16, <2>1, <2>2, KnownClear, KnownQuiet DEF DenyQuota, table, BatchPcs
<1>17. ASSUME NEW w \in Workers, Recount(w) PROVE Known'
  <2>1. \A v \in Workers \ {w} : loc'[v] = loc[v] /\ fresh'[v] \subseteq fresh[v]
    BY <1>17 DEF TypeOK, LocOK, Recount, Becomes, table
  <2>2. loc'[w].pc \in {"recountWrite"}
    BY <1>17 DEF LocOK, Operation, Recount, Becomes
  <2> QED
    BY <1>17, <2>1, <2>2, KnownClear, KnownQuiet DEF Recount, table, BatchPcs
<1>18. ASSUME NEW w \in Workers, RecountWrite(w) PROVE Known'
  <2>1. \A v \in Workers \ {w} : loc'[v] = loc[v] /\ fresh'[v] \subseteq fresh[v]
    BY <1>18 DEF TypeOK, LocOK, RecountWrite, Becomes, End, Idle
  <2>2. loc'[w].pc \in {"idle", "readCounter"}
    <3> DEFINE l == [loc[w] EXCEPT !.pc = "readCounter", !.tries = @ + 1, !.cnt = 0, !.tally = 0]
    <3>1. loc'[w] = Idle \/ loc'[w] = l
      BY <1>18 DEF LocOK, RecountWrite, Becomes, End
    <3>2. Idle.pc = "idle" /\ l.pc = "readCounter"
      BY FieldTypes DEF Operation, Idle
    <3> QED
      BY <3>1, <3>2
  <2> QED
    BY <1>18, <2>1, <2>2, KnownClear, KnownQuiet DEF RecountWrite, BatchPcs
<1>19. ASSUME NEW w \in Workers, Reserve(w) PROVE Known'
  <2>1. \A v \in Workers \ {w} : SameHand(v) /\ loc'[v].req = loc[v].req
    BY <1>19 DEF LocOK, Operation, Reserve, Remember, SameHand
  <2>2. \A v \in Workers \ {w} : /\ fresh'[v] \subseteq fresh[v]
                                 /\ loc[w].id \notin fresh'[v] /\ loc[w].req \notin fresh'[v]
    BY <1>19 DEF TypeOK, Reserve, Holds
  <2>3. \A v \in Workers \ {w} : Bystander(v)
    <3> SUFFICES ASSUME NEW v \in Workers \ {w} PROVE Bystander(v)
      OBVIOUS
    <3>1. \A k \in fresh'[v] \cap Keys : index'[k] = index[k]
      BY <1>19, <2>2 DEF Reserve, TypeOK
    <3>2. \A i \in fresh'[v] \cap Inv : state'[i] = state[i]
      BY <1>19, <2>2 DEF Reserve, TypeOK
    <3> QED
      BY <2>1, <2>2, <3>1, <3>2 DEF Bystander, Present
  <2>4. loc'[w].pc = "platform"
    BY <1>19 DEF LocOK, Operation, Reserve, Remember
  <2> QED
    BY <2>3, <2>4, KnownClear, KnownWrite DEF BatchPcs
<1>20. ASSUME NEW w \in Workers, ReserveConflict(w) PROVE Known'
  <2>1. (TryAgain(w, "readCounter") \/ End(w)) /\ \A v \in Workers \ {w} : fresh'[v] \subseteq fresh[v]
    BY <1>20 DEF TypeOK, ReserveConflict, Retry, Holds
  <2>2. loc'[w].pc \in {"idle", "readCounter"} /\ \A v \in Workers \ {w} : loc'[v] = loc[v]
    BY <2>1, Again DEF LocOK, End, Becomes, Idle
  <2> QED
    BY <1>20, <2>1, <2>2, KnownClear, KnownQuiet DEF ReserveConflict, table, BatchPcs
<1>21. ASSUME NEW w \in Workers, ReserveDuplicate(w) PROVE Known'
  <2>1. \A v \in Workers \ {w} : loc'[v] = loc[v] /\ fresh'[v] \subseteq fresh[v]
    BY <1>21 DEF TypeOK, LocOK, ReserveDuplicate, Becomes, Holds, table
  <2>2. loc'[w].pc \in {"index"}
    BY <1>21 DEF LocOK, Operation, ReserveDuplicate, Becomes
  <2> QED
    BY <1>21, <2>1, <2>2, KnownClear, KnownQuiet DEF ReserveDuplicate, table, BatchPcs
<1>22. ASSUME NEW w \in Workers, TokenFails(w) PROVE Known'
  <2>1. \A v \in Workers \ {w} : loc'[v] = loc[v] /\ fresh'[v] \subseteq fresh[v]
    BY <1>22 DEF TypeOK, LocOK, TokenFails, Becomes, table
  <2>2. loc'[w].pc \in {"relRead"}
    BY <1>22 DEF LocOK, Operation, TokenFails, Becomes
  <2> QED
    BY <1>22, <2>1, <2>2, KnownClear, KnownQuiet DEF TokenFails, table, BatchPcs
<1>23. ASSUME NEW w \in Workers, PostUncertain(w) PROVE Known'
  <2>1. \A v \in Workers \ {w} : loc'[v] = loc[v] /\ fresh'[v] \subseteq fresh[v]
    BY <1>23 DEF TypeOK, LocOK, PostUncertain, Post, Becomes, End, Idle, table
  <2>2. loc'[w].pc \in {"idle"}
    BY <1>23 DEF LocOK, Operation, PostUncertain, Post, Becomes, End, Idle
  <2> QED
    BY <1>23, <2>1, <2>2, KnownClear, KnownQuiet DEF PostUncertain, Post, table, BatchPcs
<1>24. ASSUME NEW w \in Workers, PostSucceeds(w) PROVE Known'
  <2>1. \A v \in Workers \ {w} : loc'[v] = loc[v] /\ fresh'[v] \subseteq fresh[v]
    BY <1>24 DEF TypeOK, LocOK, PostSucceeds, Post, Becomes, GoTo, table
  <2>2. loc'[w].pc \in {"finRead"}
    BY <1>24 DEF LocOK, Operation, PostSucceeds, Post, Becomes, GoTo
  <2> QED
    BY <1>24, <2>1, <2>2, KnownClear, KnownQuiet DEF PostSucceeds, Post, table, BatchPcs
<1>25. ASSUME NEW w \in Workers, FinalizeRead(w) PROVE Known'
  <2>1. \A v \in Workers \ {w} : loc'[v] = loc[v] /\ fresh'[v] \subseteq fresh[v]
    BY <1>25 DEF TypeOK, LocOK, FinalizeRead, GoTo, Holds, End, table, Becomes, Idle
  <2>2. CASE loc[w].id \in Present
    <3>1. loc'[w].pc = "finWrite" /\ loc'[w].id = loc[w].id /\ UNCHANGED state
      BY <1>25, <2>2 DEF LocOK, Operation, FinalizeRead, GoTo, Becomes, table
    <3>2. KnownBy(w)'
      BY <2>2, <3>1, KnownAlone DEF Present
    <3> QED
      BY <1>25, <2>1, <3>2, KnownQuiet DEF FinalizeRead, table
  <2>3. CASE loc[w].id \notin Present
    <3>1. loc'[w].pc = "idle"
      BY <1>25, <2>3 DEF LocOK, FinalizeRead, End, Becomes, Idle
    <3> QED
      BY <1>25, <2>1, <3>1, KnownClear, KnownQuiet DEF FinalizeRead, table, BatchPcs
  <2> QED
    BY <2>2, <2>3
<1>26. ASSUME NEW w \in Workers, Finalize(w) PROVE Known'
  <2>1. loc'[w].pc \in {"idle", "finRead"} /\ \A v \in Workers \ {w} : loc'[v] = loc[v]
    <3>1. TryAgain(w, "finRead") \/ End(w)
      BY <1>26 DEF Finalize
    <3> QED
      BY <3>1, Again DEF LocOK, End, Becomes, Idle
  <2>2. \A v \in Workers \ {w} : fresh'[v] \subseteq fresh[v] /\ loc[w].id \notin fresh'[v]
    BY <1>26 DEF TypeOK, Finalize, Holds
  <2>3. \A v \in Workers \ {w} : \A i \in fresh'[v] \cap Inv : state'[i] = state[i]
    BY <1>26, <2>2 DEF TypeOK, Finalize
  <2>4. \A v \in Workers \ {w} : Bystander(v)
    BY <1>26, <2>1, <2>2, <2>3 DEF Finalize, Bystander, SameHand, Present
  <2> QED
    BY <2>1, <2>4, KnownClear, KnownWrite DEF BatchPcs
<1>27. ASSUME NEW w \in Workers, FinalizeConflict(w) PROVE Known'
  <2>1. (TryAgain(w, "finRead") \/ End(w)) /\ \A v \in Workers \ {w} : fresh'[v] \subseteq fresh[v]
    BY <1>27 DEF TypeOK, FinalizeConflict, Retry, Holds
  <2>2. loc'[w].pc \in {"idle", "finRead"} /\ \A v \in Workers \ {w} : loc'[v] = loc[v]
    BY <2>1, Again DEF LocOK, End, Becomes, Idle
  <2> QED
    BY <1>27, <2>1, <2>2, KnownClear, KnownQuiet DEF FinalizeConflict, table, BatchPcs
<1>28. ASSUME NEW w \in Workers, ReleaseRead(w) PROVE Known'
  <2>1. \A v \in Workers \ {w} : loc'[v] = loc[v] /\ fresh'[v] \subseteq fresh[v]
    BY <1>28 DEF TypeOK, LocOK, ReleaseRead, Becomes, GoTo, End, Idle, Holds, table
  <2>2. loc'[w].pc \in {"idle", "relDelete"}
    BY <1>28 DEF LocOK, Operation, ReleaseRead, Becomes, GoTo, End, Idle
  <2> QED
    BY <1>28, <2>1, <2>2, KnownClear, KnownQuiet DEF ReleaseRead, table, BatchPcs
<1>29. ASSUME NEW w \in Workers, ReleaseDelete(w) PROVE Known'
  <2>1. \A v \in Workers \ {w} : loc'[v] = loc[v] /\ fresh'[v] \subseteq fresh[v]
    BY <1>29 DEF TypeOK, LocOK, ReleaseDelete, Becomes, Holds
  <2>2. \A v \in Workers \ {w} : \A i \in fresh'[v] \cap Inv : state'[i] = state[i]
    BY <1>29 DEF TypeOK, ReleaseDelete, Holds
  <2>3. \A v \in Workers \ {w} : Bystander(v)
    BY <1>29, <2>1, <2>2 DEF ReleaseDelete, Bystander, SameHand, Present
  <2>4. loc'[w].pc = "decRead" /\ loc'[w].op = "release"
    BY <1>29 DEF LocOK, Operation, ReleaseDelete, At, Control, ControlOf, Becomes
  <2>5. KnownBy(w)'
    BY <2>4, KnownSweep DEF BatchPcs, SweepOps
  <2> QED
    BY <2>3, <2>5, KnownWrite
<1>30. ASSUME NEW w \in Workers, ReleaseConflict(w) PROVE Known'
  <2>1. \A v \in Workers \ {w} : fresh'[v] \subseteq fresh[v]
    BY <1>30 DEF TypeOK, ReleaseConflict, Holds
  <2>2. CASE TryAgain(w, "relRead") \/ End(w)
    <3>1. loc'[w].pc \in {"idle", "relRead"} /\ \A v \in Workers \ {w} : loc'[v] = loc[v]
      BY <2>2, Again DEF LocOK, End, Becomes, Idle
    <3> QED
      BY <1>30, <2>1, <3>1, KnownClear, KnownQuiet DEF ReleaseConflict, table, BatchPcs
  <2>3. CASE Becomes(w, [loc[w] EXCEPT !.pc = "decRead", !.tries = 0])
    <3>1. loc[w].op = "release"
      BY <1>30 DEF ReleaseConflict, At, Control, ControlOf
    <3>2. /\ loc'[w].pc = "decRead" /\ loc'[w].op = "release"
          /\ \A v \in Workers \ {w} : loc'[v] = loc[v]
      BY <2>3, <3>1 DEF LocOK, Operation, Becomes
    <3>3. KnownBy(w)'
      BY <3>2, KnownSweep DEF BatchPcs, SweepOps
    <3> QED
      BY <1>30, <2>1, <3>2, <3>3, KnownQuiet DEF ReleaseConflict, table
  <2> QED
    BY <1>30, <2>2, <2>3 DEF ReleaseConflict
<1>31. ASSUME NEW w \in Workers, CompleteRead(w) PROVE Known'
  <2>1. \A v \in Workers \ {w} : loc'[v] = loc[v] /\ fresh'[v] \subseteq fresh[v]
    BY <1>31 DEF TypeOK, LocOK, CompleteRead, Becomes, GoTo, End, Idle, Holds, table
  <2>2. loc'[w].pc \in {"idle", "cmpCounter"}
    BY <1>31 DEF LocOK, Operation, CompleteRead, Becomes, GoTo, End, Idle
  <2> QED
    BY <1>31, <2>1, <2>2, KnownClear, KnownQuiet DEF CompleteRead, table, BatchPcs
<1>32. ASSUME NEW w \in Workers, CompleteCounter(w) PROVE Known'
  <2>1. \A v \in Workers \ {w} : loc'[v] = loc[v] /\ fresh'[v] \subseteq fresh[v]
    BY <1>32 DEF TypeOK, LocOK, CompleteCounter, Becomes, Holds, table
  <2>2. loc'[w].pc \in {"cmpSubmit"}
    BY <1>32 DEF LocOK, Operation, CompleteCounter, Becomes
  <2> QED
    BY <1>32, <2>1, <2>2, KnownClear, KnownQuiet DEF CompleteCounter, table, BatchPcs
<1>33. ASSUME NEW w \in Workers, Complete(w) PROVE Known'
  <2>1. \A v \in Workers \ {w} : loc'[v] = loc[v] /\ fresh'[v] \subseteq fresh[v]
    BY <1>33 DEF TypeOK, LocOK, Complete, End, Holds, Becomes, Idle
  <2>2. \A v \in Workers \ {w} : \A i \in fresh'[v] \cap Inv : state'[i] = state[i]
    BY <1>33 DEF TypeOK, Complete, CloseRecord, Prolong, Holds
  <2>3. \A v \in Workers \ {w} : Bystander(v)
    BY <1>33, <2>1, <2>2 DEF Complete, CloseRecord, Prolong, Bystander, SameHand, Present
  <2>4. loc'[w].pc \in {"idle"}
    BY <1>33 DEF LocOK, Operation, Complete, End, Holds, Becomes, Idle
  <2> QED
    BY <2>3, <2>4, KnownClear, KnownWrite DEF BatchPcs
<1>34. ASSUME NEW w \in Workers, CompleteConflict(w) PROVE Known'
  <2>1. (TryAgain(w, "cmpRead") \/ End(w)) /\ \A v \in Workers \ {w} : fresh'[v] \subseteq fresh[v]
    BY <1>34 DEF TypeOK, CompleteConflict, Retry, Holds
  <2>2. loc'[w].pc \in {"idle", "cmpRead"} /\ \A v \in Workers \ {w} : loc'[v] = loc[v]
    BY <2>1, Again DEF LocOK, End, Becomes, Idle
  <2> QED
    BY <1>34, <2>1, <2>2, KnownClear, KnownQuiet DEF CompleteConflict, table, BatchPcs
<1>35. ASSUME NEW w \in Workers, StaleNext(w) PROVE Known'
  <2>1. \A v \in Workers \ {w} : loc'[v] = loc[v] /\ fresh'[v] \subseteq fresh[v]
    BY <1>35 DEF TypeOK, LocOK, StaleNext, Becomes, Holds, table
  <2>2. loc'[w].pc \in {"staleSubmit"}
    BY <1>35 DEF LocOK, Operation, StaleNext, Becomes
  <2> QED
    BY <1>35, <2>1, <2>2, KnownClear, KnownQuiet DEF StaleNext, table, BatchPcs
<1>36. ASSUME NEW w \in Workers, ReleaseStale(w) PROVE Known'
  <2>1. \A v \in Workers \ {w} : loc'[v] = loc[v] /\ fresh'[v] \subseteq fresh[v]
    BY <1>36 DEF TypeOK, LocOK, ReleaseStale, StaleContinue, End, Holds, Becomes, Idle
  <2>2. \A v \in Workers \ {w} : \A i \in fresh'[v] \cap Inv : state'[i] = state[i]
    BY <1>36 DEF TypeOK, ReleaseStale, CloseRecord, Prolong, StaleContinue, Holds
  <2>3. \A v \in Workers \ {w} : Bystander(v)
    BY <1>36, <2>1, <2>2 DEF ReleaseStale, CloseRecord, Prolong, StaleContinue, Bystander,
        SameHand, Present
  <2>4. loc'[w].pc \in {"idle", "staleNext"}
    <3> DEFINE l == [loc[w] EXCEPT !.pc = "staleNext", !.tgt = None, !.cnt = 0]
    <3>1. loc'[w] = Idle \/ loc'[w] = l
      BY <1>36 DEF LocOK, ReleaseStale, StaleContinue, End, Becomes
    <3>2. Idle.pc = "idle" /\ l.pc = "staleNext"
      BY FieldTypes DEF Operation, Idle
    <3> QED
      BY <3>1, <3>2
  <2> QED
    BY <2>3, <2>4, KnownClear, KnownWrite DEF BatchPcs
<1>37. ASSUME NEW w \in Workers, StaleConflict(w) PROVE Known'
  <2>1. \A v \in Workers \ {w} : loc'[v] = loc[v] /\ fresh'[v] \subseteq fresh[v]
    BY <1>37 DEF TypeOK, LocOK, StaleConflict, Becomes, StaleContinue, End, Idle, Holds, table
  <2>2. loc'[w].pc \in {"idle", "staleNext"}
    <3> DEFINE l == [loc[w] EXCEPT !.pc = "staleNext", !.tgt = None, !.cnt = 0]
    <3>1. loc'[w] = Idle \/ loc'[w] = l
      BY <1>37 DEF LocOK, StaleConflict, Becomes, StaleContinue, End
    <3>2. Idle.pc = "idle" /\ l.pc = "staleNext"
      BY FieldTypes DEF Operation, Idle
    <3> QED
      BY <3>1, <3>2
  <2> QED
    BY <1>37, <2>1, <2>2, KnownClear, KnownQuiet DEF StaleConflict, table, BatchPcs
<1>38. ASSUME NEW w \in Workers, StartSweep(w) PROVE Known'
  <2>1. \A v \in Workers \ {w} : loc'[v] = loc[v] /\ fresh'[v] \subseteq fresh[v]
    BY <1>38 DEF TypeOK, LocOK, StartSweep, Becomes, Holds, table, Idle
  <2>2. PICK B \in Batches(ExpiredRows) : loc'[w].batch = B /\ loc'[w].pc = "sweepNext" /\ fresh'[w] = B
    BY <1>38 DEF LocOK, TypeOK, Operation, Holds, StartSweep, Becomes, Idle
  <2>3. B \cap Keys \subseteq StaleIndex /\ \A i \in B \cap Inv : age[i] >= 2
    <3>1. B \subseteq ExpiredRows
      BY DEF Batches
    <3> QED
      BY <3>1, RowsAssumption DEF ExpiredRows, Present, StaleIndex, IndexRows, Expired
  <2>4. B \cap Keys \subseteq StaleIndex' /\ \A i \in B \cap Inv : age'[i] >= 2
    BY <1>38, <2>3 DEF StartSweep, table, StaleIndex, IndexRows
  <2>5. KnownBy(w)'
    BY <2>2, <2>4, KnownSweep DEF BatchPcs
  <2> QED
    BY <1>38, <2>1, <2>5, KnownQuiet DEF StartSweep, table
<1>39. ASSUME NEW w \in Workers, StartReleaseStale(w) PROVE Known'
  <2>1. \A v \in Workers \ {w} : loc'[v] = loc[v] /\ fresh'[v] \subseteq fresh[v]
    BY <1>39 DEF TypeOK, LocOK, StartReleaseStale, Becomes, Idle, Holds, table
  <2>2. loc'[w].pc \in {"staleNext"}
    BY <1>39 DEF LocOK, Operation, StartReleaseStale, Becomes, Idle
  <2> QED
    BY <1>39, <2>1, <2>2, KnownClear, KnownQuiet DEF StartReleaseStale, table, BatchPcs
<1>40. ASSUME NEW w \in Workers, Abandon(w) PROVE Known'
  <2>1. \A v \in Workers \ {w} : loc'[v] = loc[v] /\ fresh'[v] \subseteq fresh[v]
    BY <1>40 DEF TypeOK, LocOK, Abandon, Fault, notes, Becomes, End, Idle, Holds, table
  <2>2. loc'[w].pc \in {"idle"}
    BY <1>40 DEF LocOK, Operation, Abandon, Fault, notes, Becomes, End, Idle
  <2> QED
    BY <1>40, <2>1, <2>2, KnownClear, KnownQuiet DEF Abandon, Fault, notes, table, BatchPcs
<1>41. ASSUME NEW w \in Workers, NEW i \in Inv, StartRead(w, i) PROVE Known'
  <2>1. \A v \in Workers \ {w} : loc'[v] = loc[v] /\ fresh'[v] \subseteq fresh[v]
    BY <1>41 DEF TypeOK, LocOK, StartRead, Becomes, Holds, table, Idle
  <2>2. loc'[w].pc = "expire" /\ loc'[w].op = "read" /\ loc'[w].tgt = i
    BY <1>41 DEF LocOK, StartRead, Becomes, Idle
  <2>3. age'[i] >= 2
    BY <1>41 DEF StartRead, table, Expired
  <2>4. KnownBy(w)'
    BY <2>2, <2>3, KnownAlone
  <2> QED
    BY <1>41, <2>1, <2>4, KnownQuiet DEF StartRead, table
<1>42. ASSUME NEW w \in Workers, NEW i \in Inv, StartComplete(w, i) PROVE Known'
  <2>1. \A v \in Workers \ {w} : loc'[v] = loc[v] /\ fresh'[v] \subseteq fresh[v]
    BY <1>42 DEF TypeOK, LocOK, StartComplete, Becomes, table, Idle
  <2>2. loc'[w].pc = "cmpRead"
    BY <1>42 DEF LocOK, StartComplete, Becomes, Idle
  <2> QED
    BY <1>42, <2>1, <2>2, KnownClear, KnownQuiet DEF StartComplete, table, BatchPcs
<1>43. ASSUME NEW w \in Workers, NEW i \in Inv, NEW k \in Keys \cup {None}, StartCreate(w, k, i) PROVE Known'
  <2>1. \A v \in Workers \ {w} : loc'[v] = loc[v] /\ fresh'[v] \subseteq fresh[v]
    BY <1>43 DEF TypeOK, LocOK, StartCreate, Becomes, table, Idle
  <2>2. loc'[w].pc \in {"index", "sweepQuery"}
    BY <1>43 DEF LocOK, StartCreate, Becomes, Idle
  <2> QED
    BY <1>43, <2>1, <2>2, KnownClear, KnownQuiet DEF StartCreate, table, BatchPcs
<1>44. ASSUME NEW i \in Inv, Age(i) PROVE Known'
  <2>1. \A v \in Workers : SameHand(v) /\ loc'[v].req = loc[v].req
    BY <1>44 DEF LocOK, Operation, Age, Remember, SameHand
  <2>2. \A v \in Workers : Bystander(v)
    BY <1>44, <2>1 DEF Age, Bystander, Present
  <2> QED
    BY <2>2, KnownKept DEF Known
<1>45. ASSUME NEW i \in Inv, Touch(i) PROVE Known'
  <2>1. \A v \in Workers : Bystander(v)
    BY <1>45 DEF TypeOK, Touch, notes, table, Bystander, SameHand, Present
  <2> QED
    BY <2>1, KnownKept DEF Known
<1>46. ASSUME UNCHANGED vars PROVE Known'
  <2>1. \A v \in Workers : Bystander(v)
    BY <1>46 DEF vars, Bystander, SameHand, Present
  <2> QED
    BY <2>1, KnownKept DEF Known
<1> QED
  BY <1>1, <1>2, <1>3, <1>4, <1>5, <1>6, <1>7, <1>8, <1>9, <1>9a, <1>10, <1>11, <1>12,
      <1>13, <1>14, <1>15, <1>16, <1>17, <1>18, <1>19, <1>20, <1>21, <1>22, <1>23, <1>24, <1>25,
      <1>26, <1>27, <1>28, <1>29, <1>30, <1>31, <1>32, <1>33, <1>34, <1>35, <1>36, <1>37,
      <1>38, <1>39, <1>40, <1>41, <1>42, <1>43, <1>44, <1>45, <1>46 DEF Next, Step,
      FindStep, SweepStep, DecStep, ReserveStep, PlatformStep, SettleStep, CompleteStep,
      StaleStep

(* Until a key is spent there is one record of it, and the index leads there. *)
LEMMA KeyedStep ==
  ASSUME TypeOK, TypeOK', LocOK, Control, Control', Unborn, Held, IndexAgrees, Keyed, [Next]_vars
  PROVE  Keyed'
<1>1. Steady /\ IndexMoves
  BY RowsMoveStep DEF Keyed
<1>2. FreeKeys' /\ KeyKeepsItsRecord'
  BY <1>1, FreeKeysKept, KeyKept DEF Keyed
<1>3. Known'
  BY <1>1, KnownStep DEF Keyed
<1> QED
  BY <1>2, <1>3 DEF Keyed

(* The platform is asked once for each investigation, by the operation that  *)
(* has reserved it.                                                          *)
LEMMA UnaskedStep ==
  ASSUME TypeOK, LocOK, Control, DistinctIds, Unborn, Unasked, Steady, [Next]_vars
  PROVE  Unasked'
<1>1. \A i \in Inv : state'[i] = "free" => state[i] = "free"
  BY DEF Steady
<1>2. \A v \in Workers : loc[v].pc \in CreatePcs => loc[v].id \in Inv
  BY DEF Control, ControlOf
<1>3. ASSUME NEW w \in Workers, Reserve(w) PROVE Unasked'
  <2> DEFINE i == loc[w].id
  <2>1. i \in Inv /\ i \notin asked
    BY <1>3 DEF Control, ControlOf, Unborn, Unasked, Reserve, At, CreateOnlyPcs, CreatePcs
  <2>2. \A v \in Workers \ {w} : loc'[v].pc = loc[v].pc /\ loc'[v].id = loc[v].id
    BY <1>3 DEF LocOK, Operation, Reserve, Remember
  <2>3. loc'[w].id = i /\ state'[i] = "reserved" /\ UNCHANGED asked
    BY <1>3, <2>1 DEF LocOK, Operation, TypeOK, Reserve, Remember, aux, notes
  <2> QED
    BY <1>1, <1>2, <2>1, <2>2, <2>3 DEF Unasked
<1>4. CASE Placed
  <2>1. \A v \in Workers : loc'[v].pc \in CreatePcs => Continues(v) /\ state'[loc'[v].id] # "free"
    BY <1>1, <1>2, <1>4 DEF Placed, Places, Continues, Unasked
  <2>2. \A v \in Workers : loc'[v].pc \in {"platform", "relRead", "relDelete"}
                         => /\ loc[v].pc \in {"platform", "relRead", "relDelete"}
                            /\ loc'[v].id = loc[v].id
    BY <1>4 DEF Placed, Places, Continues, CreatePcs
  <2>3. CASE UNCHANGED asked
    BY <1>1, <2>1, <2>2, <2>3 DEF Unasked
  <2>4. ASSUME NEW w \in Workers, PostUncertain(w) \/ PostSucceeds(w) PROVE Unasked'
    <3>1. /\ loc[w].id \in Inv /\ state[loc[w].id] # "free"
          /\ asked' = asked \cup {loc[w].id} /\ UNCHANGED state
      BY <1>2, <2>4 DEF PostUncertain, PostSucceeds, Post, At, CreatePcs, Unasked, table
    <3>2. loc'[w].pc \notin {"platform", "relRead", "relDelete"}
      BY <2>4 DEF LocOK, Operation, PostUncertain, PostSucceeds, End, GoTo, Becomes, Idle
    <3>3. \A v \in Workers \ {w} : loc[v].id # loc[w].id
      BY <3>1, RowsAssumption DEF DistinctIds
    <3> QED
      BY <2>1, <2>2, <3>1, <3>2, <3>3 DEF Unasked
  <2> QED
    BY <1>4, <2>3, <2>4 DEF Placed, Asks
<1> QED
  BY <1>3, <1>4, PlacesStep

(* No key is in use at first. *)
LEMMA KeyedInit == Init => Keyed /\ Unasked
<1> SUFFICES ASSUME Init PROVE Keyed /\ Unasked
  OBVIOUS
<1>1. FreeKeys /\ KeyKeepsItsRecord
  BY RowsAssumption DEF Init, FreeKeys, KeyKeepsItsRecord
<1>2. Known
  BY DEF Init, Known, KnownBy, Idle, SweepOps
<1>3. Unasked
  BY DEF Init, Unasked, Idle, CreatePcs
<1> QED
  BY <1>1, <1>2, <1>3 DEF Keyed
================================================================================
