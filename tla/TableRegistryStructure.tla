------------------------- MODULE TableRegistryStructure -------------------------
(***************************************************************************)
(* Every step of the registry keeps the types, the control structure and   *)
(* the copies of the counter (Structure of TableRegistryInvariants), one   *)
(* step of the proof for each action.                                      *)
(***************************************************************************)
EXTENDS TableRegistryInvariants, FiniteSetTheorems, TLAPS


(* An idle worker is well typed.                                             *)
LEMMA IdleType == Idle \in Operation
  BY NumbersAssumption DEF Operation, Idle, Ops, Pcs

(* The types of the local variables of one worker.                           *)
LEMMA FieldTypes ==
  ASSUME LocOK, NEW w \in Workers
  PROVE  /\ loc[w] \in Operation
         /\ loc[w].op \in Ops /\ loc[w].pc \in Pcs
         /\ loc[w].id \in Inv \cup {None} /\ loc[w].tgt \in Inv \cup {None}
         /\ loc[w].req \in Keys \cup {None} /\ loc[w].cnt \in Nat /\ loc[w].tally \in Nat
         /\ loc[w].tries \in 0..MaxTries /\ loc[w].batch \subseteq Inv \cup Keys
         /\ loc[w].slots \subseteq Inv /\ loc[w].recent \subseteq Inv
  BY DEF LocOK, Operation

(* An update of the field pc keeps the type.                                 *)
LEMMA PcType == ASSUME NEW l \in Operation, NEW p \in Pcs PROVE [l EXCEPT !.pc = p] \in Operation
  BY DEF Operation

(* An update of the field op keeps the type.                                 *)
LEMMA OpType == ASSUME NEW l \in Operation, NEW o \in Ops PROVE [l EXCEPT !.op = o] \in Operation
  BY DEF Operation

(* An update of the field id keeps the type.                                 *)
LEMMA IdType == ASSUME NEW l \in Operation, NEW i \in Inv \cup {None} PROVE [l EXCEPT !.id = i] \in Operation
  BY DEF Operation

(* An update of the field tgt keeps the type.                                *)
LEMMA TgtType == ASSUME NEW l \in Operation, NEW i \in Inv \cup {None} PROVE [l EXCEPT !.tgt = i] \in Operation
  BY DEF Operation

(* An update of the field req keeps the type.                                *)
LEMMA ReqType == ASSUME NEW l \in Operation, NEW k \in Keys \cup {None} PROVE [l EXCEPT !.req = k] \in Operation
  BY DEF Operation

(* An update of the field cnt keeps the type.                                *)
LEMMA CntType == ASSUME NEW l \in Operation, NEW n \in Nat PROVE [l EXCEPT !.cnt = n] \in Operation
  BY DEF Operation

(* An update of the field tally keeps the type.                              *)
LEMMA TallyType == ASSUME NEW l \in Operation, NEW n \in Nat PROVE [l EXCEPT !.tally = n] \in Operation
  BY DEF Operation

(* An update of the field tries keeps the type.                              *)
LEMMA TriesType == ASSUME NEW l \in Operation, NEW n \in 0..MaxTries PROVE [l EXCEPT !.tries = n] \in Operation
  BY DEF Operation

(* An update of the field batch keeps the type.                              *)
LEMMA BatchType == ASSUME NEW l \in Operation, NEW B \in SUBSET (Inv \cup Keys) PROVE [l EXCEPT !.batch = B] \in Operation
  BY DEF Operation

(* An update of the field slots keeps the type.                              *)
LEMMA SlotsType == ASSUME NEW l \in Operation, NEW B \in SUBSET Inv PROVE [l EXCEPT !.slots = B] \in Operation
  BY DEF Operation

(* An update of the field recent keeps the type.                             *)
LEMMA RecentType == ASSUME NEW l \in Operation, NEW R \in SUBSET Inv PROVE [l EXCEPT !.recent = R] \in Operation
  BY DEF Operation

(* Replacing the local variables of one worker by well typed ones.           *)
LEMMA BecomesType ==
  ASSUME LocOK, NEW w \in Workers, NEW l \in Operation, Becomes(w, l)
  PROVE  LocOK'
  BY DEF LocOK, Becomes

(* Ending an operation keeps the types.                                      *)
LEMMA EndType == ASSUME LocOK, NEW w \in Workers, End(w) PROVE LocOK'
  BY IdleType, BecomesType DEF End

(* Moving to another place keeps the types.                                  *)
LEMMA GoToType == ASSUME LocOK, NEW w \in Workers, NEW p \in Pcs, GoTo(w, p) PROVE LocOK'
  BY PcType, BecomesType, FieldTypes DEF GoTo

(* The first attempt is an attempt.                                          *)
LEMMA ZeroTries == 0 \in 0..MaxTries
  BY NumbersAssumption

(* Another attempt, or the end of the operation, keeps the types.            *)
LEMMA TryAgainType ==
  ASSUME LocOK, NEW w \in Workers, NEW p \in Pcs, TryAgain(w, p)
  PROVE  LocOK'
<1>1. CASE MayRetry(w)
  <2>1. loc[w].tries + 1 \in 0..MaxTries
    BY <1>1, FieldTypes, NumbersAssumption DEF MayRetry
  <2>2. [loc[w] EXCEPT !.pc = p, !.tries = @ + 1, !.cnt = 0] \in Operation
    BY <2>1, FieldTypes, PcType, TriesType, CntType
  <2> QED
    BY <1>1, <2>2, BecomesType DEF TryAgain
<1>2. CASE ~MayRetry(w)
  BY <1>2, EndType DEF TryAgain
<1> QED
  BY <1>1, <1>2

(* A sweep that has deleted a record keeps the types.                        *)
LEMMA SweepDeletedType ==
  ASSUME LocOK, NEW w \in Workers, NEW i \in Inv, SweepDeleted(w, i)
  PROVE  LocOK'
<1> DEFINE p == IF keyOf[i] # None THEN "sweepIndex"
                ELSE IF i \in loc[w].slots THEN "decRead" ELSE "sweepNext"
<1>1. p \in Pcs /\ loc[w].batch \ {i} \in SUBSET (Inv \cup Keys)
  BY FieldTypes DEF Pcs
<1> HIDE DEF p
<1>2. [loc[w] EXCEPT !.batch = @ \ {i}, !.tgt = i, !.tries = 0, !.pc = p] \in Operation
  BY <1>1, FieldTypes, BatchType, TgtType, TriesType, ZeroTries, PcType
<1> QED
  BY <1>2, BecomesType DEF SweepDeleted, p

(* The recount is a number: it counts finite sets.                           *)
LEMMA CountedType == Counted \in Nat
<1>1. IsFiniteSet(Live) /\ IsFiniteSet(IndexRows \ StaleIndex)
  BY FiniteAssumption, FS_Subset DEF Live, Open, IndexRows
<1> QED BY <1>1, FS_CardinalityType DEF Counted

(* The local variables of every worker keep their types.                     *)
LEMMA LocStep ==
  ASSUME TypeOK, LocOK, Control, [Next]_vars
  PROVE  LocOK'
<1>1. ASSUME NEW w \in Workers, ReadIndex(w) PROVE LocOK'
  <2>1. index[loc[w].req] \in Inv \cup {None}
    BY <1>1 DEF TypeOK, Control, ControlOf, ReadIndex, At
  <2> QED
    BY <1>1, <2>1, EndType, GoToType, BecomesType, FieldTypes, PcType, TgtType
       DEF ReadIndex, NotFound, Pcs
<1>2. ASSUME NEW w \in Workers, GetRecord(w) PROVE LocOK'
  BY <1>2, EndType, GoToType DEF GetRecord, At, Pcs
<1>3. ASSUME NEW w \in Workers, ExpireRecord(w) PROVE LocOK'
  BY <1>3, EndType, GoToType DEF ExpireRecord, ExpireEnds, NotFound, Pcs
<1>4. ASSUME NEW w \in Workers, Unindex(w) PROVE LocOK'
  BY <1>4, EndType, GoToType DEF Unindex, At, NotFound, Pcs
<1>5. ASSUME NEW w \in Workers, FallbackQuery(w) PROVE LocOK'
  BY <1>5, EndType, GoToType DEF FallbackQuery, At, Pcs
<1>6. ASSUME NEW w \in Workers, SweepQuery(w) PROVE LocOK'
  <2>1. PICK B \in Batches(ExpiredRows) :
          Becomes(w, [loc[w] EXCEPT !.pc = "sweepNext", !.batch = B, !.slots = B \cap Open])
    BY <1>6 DEF SweepQuery
  <2>2. B \in SUBSET (Inv \cup Keys) /\ B \cap Open \in SUBSET Inv
    BY DEF Batches, ExpiredRows, Present, StaleIndex, IndexRows, Open
  <2>3. "sweepNext" \in Pcs /\ "sweep" \in Ops
    BY DEF Pcs, Ops
  <2>4. [loc[w] EXCEPT !.pc = "sweepNext", !.batch = B, !.slots = B \cap Open] \in Operation
    BY <2>2, <2>3, IdleType, FieldTypes, OpType, PcType, BatchType, SlotsType
  <2> QED
    BY <2>1, <2>4, BecomesType
<1>7. ASSUME NEW w \in Workers, SweepSkip(w) PROVE LocOK'
  BY <1>7, BecomesType, FieldTypes, BatchType DEF SweepSkip, At, Pcs
<1>8. ASSUME NEW w \in Workers, SweepIndexRow(w) PROVE LocOK'
  BY <1>8, BecomesType, FieldTypes, BatchType DEF SweepIndexRow, At, Pcs
<1>9. ASSUME NEW w \in Workers, SweepRecord(w) PROVE LocOK'
  BY <1>9, SweepDeletedType, BecomesType, FieldTypes, BatchType DEF SweepRecord
<1>9a. ASSUME NEW w \in Workers, SweepGone(w) PROVE LocOK'
  BY <1>9a, SweepDeletedType DEF SweepGone
<1>10. ASSUME NEW w \in Workers, SweepIndexOf(w) PROVE LocOK'
  BY <1>10, GoToType DEF SweepIndexOf, At, Pcs
<1>11. ASSUME NEW w \in Workers, SweepDone(w) PROVE LocOK'
  <2>1. [loc[w] EXCEPT !.pc = "readCounter", !.tgt = None, !.tries = 0, !.slots = {}] \in Operation
    BY FieldTypes, PcType, TgtType, TriesType, SlotsType, ZeroTries DEF Pcs
  <2> QED
    BY <1>11, <2>1, EndType, BecomesType DEF SweepDone
<1>12. ASSUME NEW w \in Workers, DecrementRead(w) PROVE LocOK'
  BY <1>12, BecomesType, FieldTypes, CntType, PcType DEF DecrementRead, At, TypeOK, Pcs
<1>13. ASSUME NEW w \in Workers, DecrementWrite(w) PROVE LocOK'
  <2>1. "decRead" \in Pcs /\ "sweepNext" \in Pcs
    BY DEF Pcs
  <2>2. [loc[w] EXCEPT !.pc = "sweepNext", !.cnt = 0, !.tries = 0, !.tgt = None] \in Operation
    BY <2>1, FieldTypes, CntType, PcType, TgtType, TriesType, ZeroTries
  <2> QED
    BY <1>13, <2>1, <2>2, EndType, BecomesType, TryAgainType
    DEF DecrementWrite, DecrementDone, DecrementAgain
<1>14. ASSUME NEW w \in Workers, DecrementConflict(w) PROVE LocOK'
  <2>1. "decRead" \in Pcs
    BY DEF Pcs
  <2> QED
    BY <1>14, <2>1, EndType, TryAgainType DEF DecrementConflict, DecrementAgain
<1>15. ASSUME NEW w \in Workers, ReadCounter(w) PROVE LocOK'
  BY <1>15, BecomesType, FieldTypes, CntType, PcType DEF ReadCounter, At, TypeOK, Pcs
<1>16. ASSUME NEW w \in Workers, DenyQuota(w) PROVE LocOK'
  BY <1>16, EndType DEF DenyQuota, At, Pcs
<1>17. ASSUME NEW w \in Workers, Recount(w) PROVE LocOK'
  <2>1. Counted \in Nat
    BY CountedType
  <2> QED
    BY <1>17, BecomesType, FieldTypes, PcType, TallyType, <2>1 DEF Recount, At, Pcs
<1>18. ASSUME NEW w \in Workers, RecountWrite(w) PROVE LocOK'
  <2>1. loc[w].tries + 1 < MaxTries => loc[w].tries + 1 \in 0..MaxTries
    BY FieldTypes, NumbersAssumption
  <2>2. ASSUME loc[w].tries + 1 < MaxTries
        PROVE  [loc[w] EXCEPT !.pc = "readCounter", !.tries = @ + 1, !.cnt = 0, !.tally = 0]
                 \in Operation
    BY <2>1, <2>2, FieldTypes, PcType, TriesType, CntType, TallyType DEF Pcs
  <2>3. CASE loc[w].tries + 1 < MaxTries
    BY <1>18, <2>2, <2>3, BecomesType DEF RecountWrite
  <2>4. CASE ~(loc[w].tries + 1 < MaxTries)
    BY <1>18, <2>4, EndType DEF RecountWrite
  <2> QED
    BY <2>3, <2>4
<1>19. ASSUME NEW w \in Workers, Reserve(w) PROVE LocOK'
  <2> DEFINE l == [loc EXCEPT ![w] = [loc[w] EXCEPT !.pc = "platform", !.cnt = 0, !.tries = 0]]
  <2>1. [loc[w] EXCEPT !.pc = "platform", !.cnt = 0, !.tries = 0] \in Operation
    BY FieldTypes, PcType, CntType, TriesType, ZeroTries DEF Pcs
  <2>2. l \in [Workers -> Operation]
    BY <2>1 DEF LocOK
  <2>3. loc[w].id \in Inv
    BY <1>19 DEF Control, ControlOf, Reserve, At, CreateOnlyPcs
  <2>4. \A v \in Workers : l[v] \in Operation /\ l[v].recent \subseteq Inv
    BY <2>2 DEF Operation
  <2>5. ASSUME NEW v \in Workers PROVE [l[v] EXCEPT !.recent = @ \cup {loc[w].id}] \in Operation
    <3> HIDE DEF l
    <3> QED BY <2>3, <2>4, RecentType
  <2>6. loc' = Remember(l, loc[w].id)
    BY <1>19 DEF Reserve
  <2> HIDE DEF l
  <2> QED BY <2>2, <2>5, <2>6 DEF Remember, LocOK
<1>20. ASSUME NEW w \in Workers, ReserveConflict(w) PROVE LocOK'
  <2>1. "readCounter" \in Pcs
    BY DEF Pcs
  <2> QED
    BY <1>20, <2>1, EndType, TryAgainType DEF ReserveConflict, Retry
<1>21. ASSUME NEW w \in Workers, ReserveDuplicate(w) PROVE LocOK'
  BY <1>21, BecomesType, FieldTypes, CntType, IdType, OpType, PcType, TriesType, ZeroTries
      DEF ReserveDuplicate, At, Pcs, Ops
<1>22. ASSUME NEW w \in Workers, TokenFails(w) PROVE LocOK'
  BY <1>22, BecomesType, FieldTypes, OpType, PcType DEF TokenFails, At, Pcs, Ops
<1>23. ASSUME NEW w \in Workers, PostUncertain(w) PROVE LocOK'
  BY <1>23, EndType DEF PostUncertain, Post, At, Pcs
<1>24. ASSUME NEW w \in Workers, PostSucceeds(w) PROVE LocOK'
  BY <1>24, GoToType DEF PostSucceeds, Post, At, Pcs
<1>25. ASSUME NEW w \in Workers, FinalizeRead(w) PROVE LocOK'
  BY <1>25, EndType, GoToType DEF FinalizeRead, At, Pcs
<1>26. ASSUME NEW w \in Workers, Finalize(w) PROVE LocOK'
  <2>1. "finRead" \in Pcs
    BY DEF Pcs
  <2> QED
    BY <1>26, <2>1, EndType, TryAgainType DEF Finalize
<1>27. ASSUME NEW w \in Workers, FinalizeConflict(w) PROVE LocOK'
  <2>1. "finRead" \in Pcs
    BY DEF Pcs
  <2> QED
    BY <1>27, <2>1, EndType, TryAgainType DEF FinalizeConflict, Retry
<1>28. ASSUME NEW w \in Workers, ReleaseRead(w) PROVE LocOK'
  BY <1>28, EndType, GoToType DEF ReleaseRead, At, Pcs
<1>29. ASSUME NEW w \in Workers, ReleaseDelete(w) PROVE LocOK'
  BY <1>29, BecomesType, FieldTypes, PcType, TriesType, ZeroTries DEF ReleaseDelete, At,
      Pcs
<1>30. ASSUME NEW w \in Workers, ReleaseConflict(w) PROVE LocOK'
  <2>1. "relRead" \in Pcs /\ "decRead" \in Pcs
    BY DEF Pcs
  <2>2. [loc[w] EXCEPT !.pc = "decRead", !.tries = 0] \in Operation
    BY <2>1, FieldTypes, PcType, TriesType, ZeroTries
  <2> QED
    BY <1>30, <2>1, <2>2, EndType, BecomesType, TryAgainType DEF ReleaseConflict
<1>31. ASSUME NEW w \in Workers, CompleteRead(w) PROVE LocOK'
  BY <1>31, EndType, GoToType DEF CompleteRead, At, Pcs
<1>32. ASSUME NEW w \in Workers, CompleteCounter(w) PROVE LocOK'
  BY <1>32, BecomesType, FieldTypes, CntType, PcType DEF CompleteCounter, At, TypeOK, Pcs
<1>33. ASSUME NEW w \in Workers, Complete(w) PROVE LocOK'
  BY <1>33, EndType DEF Complete, At, Pcs
<1>34. ASSUME NEW w \in Workers, CompleteConflict(w) PROVE LocOK'
  <2>1. "cmpRead" \in Pcs
    BY DEF Pcs
  <2> QED
    BY <1>34, <2>1, EndType, TryAgainType DEF CompleteConflict, Retry
<1>35. ASSUME NEW w \in Workers, StaleNext(w) PROVE LocOK'
  <2>1. loc[w].batch \subseteq Inv
    BY <1>35 DEF Control, ControlOf, StalePcs, StaleNext, At
  <2> QED
    BY <1>35, <2>1, BecomesType, FieldTypes, BatchType, CntType, PcType, TgtType
       DEF StaleNext, TypeOK, Pcs
<1>36. ASSUME NEW w \in Workers, ReleaseStale(w) PROVE LocOK'
  BY <1>36, EndType, BecomesType, FieldTypes, CntType, PcType, TgtType DEF ReleaseStale,
      At, StaleContinue, Pcs
<1>37. ASSUME NEW w \in Workers, StaleConflict(w) PROVE LocOK'
  BY <1>37, EndType, BecomesType, FieldTypes, CntType, PcType, TgtType DEF StaleConflict,
      At, StaleContinue, Pcs
<1>38. ASSUME NEW w \in Workers, StartSweep(w) PROVE LocOK'
  <2>1. PICK B \in Batches(ExpiredRows) :
          Becomes(w, [Idle EXCEPT !.op = "sweep", !.pc = "sweepNext", !.batch = B, !.slots = B \cap Open])
    BY <1>38 DEF StartSweep
  <2>2. B \in SUBSET (Inv \cup Keys) /\ B \cap Open \in SUBSET Inv
    BY DEF Batches, ExpiredRows, Present, StaleIndex, IndexRows, Open
  <2>3. "sweepNext" \in Pcs /\ "sweep" \in Ops
    BY DEF Pcs, Ops
  <2>4. [Idle EXCEPT !.op = "sweep", !.pc = "sweepNext", !.batch = B, !.slots = B \cap Open] \in Operation
    BY <2>2, <2>3, IdleType, FieldTypes, OpType, PcType, BatchType, SlotsType
  <2> QED
    BY <2>1, <2>4, BecomesType
<1>39. ASSUME NEW w \in Workers, StartReleaseStale(w) PROVE LocOK'
  <2>1. \A B \in Batches(Uncertain) : B \in SUBSET (Inv \cup Keys)
    BY DEF Batches, Uncertain
  <2> QED
    BY <1>39, BecomesType, FieldTypes, BatchType, OpType, PcType, IdleType, <2>1 DEF
        StartReleaseStale, At, Pcs, Ops
<1>40. ASSUME NEW w \in Workers, Abandon(w) PROVE LocOK'
  BY <1>40, EndType DEF Abandon, Fault, notes, At, Pcs
<1>41. ASSUME NEW w \in Workers, NEW i \in Inv, StartRead(w, i) PROVE LocOK'
  BY <1>41, BecomesType, FieldTypes, OpType, PcType, TgtType, IdleType DEF StartRead, At,
      Pcs, Ops
<1>42. ASSUME NEW w \in Workers, NEW i \in Inv, StartComplete(w, i) PROVE LocOK'
  BY <1>42, BecomesType, FieldTypes, OpType, PcType, TgtType, IdleType DEF StartComplete,
      At, Pcs, Ops
<1>43. ASSUME NEW w \in Workers, NEW i \in Inv, NEW k \in Keys \cup {None}, StartCreate(w, k, i) PROVE LocOK'
  BY <1>43, BecomesType, FieldTypes, IdType, OpType, PcType, ReqType, IdleType DEF
      StartCreate, At, Pcs, Ops
<1>44. ASSUME NEW i \in Inv, Age(i) PROVE LocOK'
  <2>1. ASSUME NEW v \in Workers PROVE [loc[v] EXCEPT !.recent = @ \cup {i}] \in Operation
    BY RecentType, FieldTypes
  <2> QED BY <1>44, <2>1 DEF Age, Remember, LocOK
<1>45. ASSUME NEW i \in Inv, Touch(i) PROVE LocOK'
  BY <1>45 DEF Touch, notes, LocOK
<1>46. ASSUME UNCHANGED vars PROVE LocOK'
  BY <1>46 DEF vars, LocOK
<1> QED
  BY <1>1, <1>2, <1>3, <1>4, <1>5, <1>6, <1>7, <1>8, <1>9, <1>9a, <1>10, <1>11, <1>12, <1>13,
      <1>14, <1>15, <1>16, <1>17, <1>18, <1>19, <1>20, <1>21, <1>22, <1>23, <1>24, <1>25,
      <1>26, <1>27, <1>28, <1>29, <1>30, <1>31, <1>32, <1>33, <1>34, <1>35, <1>36, <1>37,
      <1>38, <1>39, <1>40, <1>41, <1>42, <1>43, <1>44, <1>45, <1>46 DEF Next, Step,
      FindStep, SweepStep, DecStep, ReserveStep, PlatformStep, SettleStep, CompleteStep,
      StaleStep

(* Less1 stays within the natural numbers.                                   *)
LEMMA Less1Type == ASSUME NEW n \in Nat PROVE Less1(n) \in Nat
  BY DEF Less1

(* Every variable keeps its type.                                            *)
LEMMA TypeStep ==
  ASSUME TypeOK, LocOK, LocOK', Control, [Next]_vars
  PROVE  TypeOK'
<1>1. ASSUME NEW w \in Workers, ReadIndex(w) PROVE TypeOK'
  BY <1>1, FieldTypes, NumbersAssumption DEF TypeOK, LocOK, ReadIndex, table, aux, notes, Row
<1>2. ASSUME NEW w \in Workers, GetRecord(w) PROVE TypeOK'
  BY <1>2, FieldTypes, NumbersAssumption DEF TypeOK, LocOK, GetRecord, Present, Holds, table, aux,
      notes, Row
<1>3. ASSUME NEW w \in Workers, ExpireRecord(w) PROVE TypeOK'
  <2>1. state' \in [Inv -> {"free", "reserved", "active", "closed", "gone"}]
    BY <1>3 DEF TypeOK, ExpireRecord
  <2>2. fresh' \in [Workers -> SUBSET Row]
    BY <1>3 DEF TypeOK, ExpireRecord, Holds
  <2>3. faults' \in 0..MaxFaults
    BY <1>3, NumbersAssumption DEF TypeOK, ExpireRecord, Fault
  <2> QED
    BY <1>3, <2>1, <2>2, <2>3 DEF TypeOK, LocOK, ExpireRecord, notes
<1>4. ASSUME NEW w \in Workers, Unindex(w) PROVE TypeOK'
  BY <1>4, FieldTypes, NumbersAssumption DEF TypeOK, LocOK, Unindex, Holds, aux, notes, Row
<1>5. ASSUME NEW w \in Workers, FallbackQuery(w) PROVE TypeOK'
  BY <1>5, FieldTypes, NumbersAssumption DEF TypeOK, LocOK, FallbackQuery, Present, table, aux,
      notes, Row
<1>6. ASSUME NEW w \in Workers, SweepQuery(w) PROVE TypeOK'
  <2>1. \A B \in Batches(ExpiredRows) : B \subseteq Row
    BY DEF Batches, Row, ExpiredRows, Present, StaleIndex, IndexRows
  <2> QED
    BY <1>6, <2>1 DEF TypeOK, LocOK, SweepQuery, Holds, table, aux, notes
<1>7. ASSUME NEW w \in Workers, SweepSkip(w) PROVE TypeOK'
  BY <1>7, FieldTypes, NumbersAssumption DEF TypeOK, LocOK, SweepSkip, table, aux, notes, Row
<1>8. ASSUME NEW w \in Workers, SweepIndexRow(w) PROVE TypeOK'
  BY <1>8, FieldTypes, NumbersAssumption DEF TypeOK, LocOK, SweepIndexRow, Holds, aux, notes, Row
<1>9. ASSUME NEW w \in Workers, SweepRecord(w) PROVE TypeOK'
  BY <1>9, FieldTypes, NumbersAssumption DEF TypeOK, LocOK, SweepRecord, SweepDeleted, Fault,
      notes, Open, Holds, aux, OpenStates, Row
<1>9a. ASSUME NEW w \in Workers, SweepGone(w) PROVE TypeOK'
  BY <1>9a DEF TypeOK, LocOK, SweepGone, table, aux, notes
<1>10. ASSUME NEW w \in Workers, SweepIndexOf(w) PROVE TypeOK'
  BY <1>10, FieldTypes, NumbersAssumption DEF TypeOK, LocOK, SweepIndexOf, Holds, aux, notes, Row
<1>11. ASSUME NEW w \in Workers, SweepDone(w) PROVE TypeOK'
  BY <1>11, FieldTypes, NumbersAssumption DEF TypeOK, LocOK, SweepDone, Holds, table, aux, notes,
      Row
<1>12. ASSUME NEW w \in Workers, DecrementRead(w) PROVE TypeOK'
  BY <1>12, FieldTypes, NumbersAssumption DEF TypeOK, LocOK, DecrementRead, Holds, table, aux,
      notes, Row
<1>13. ASSUME NEW w \in Workers, DecrementWrite(w) PROVE TypeOK'
  BY <1>13, FieldTypes, NumbersAssumption, Less1Type DEF TypeOK, LocOK, DecrementWrite,
      DecrementDone, DecrementAgain, TryAgain, MayRetry, Fault, Holds, aux, notes, Row
<1>14. ASSUME NEW w \in Workers, DecrementConflict(w) PROVE TypeOK'
  BY <1>14, FieldTypes, NumbersAssumption DEF TypeOK, LocOK, DecrementConflict, DecrementAgain,
      TryAgain, MayRetry, Holds, table, aux, notes, Row
<1>15. ASSUME NEW w \in Workers, ReadCounter(w) PROVE TypeOK'
  BY <1>15, FieldTypes, NumbersAssumption DEF TypeOK, LocOK, ReadCounter, Holds, table, aux,
      notes, Row
<1>16. ASSUME NEW w \in Workers, DenyQuota(w) PROVE TypeOK'
  BY <1>16, FieldTypes, NumbersAssumption DEF TypeOK, LocOK, DenyQuota, Holds, table, aux, notes,
      IndexRows, StaleIndex, Open, OpenStates, Row
<1>17. ASSUME NEW w \in Workers, Recount(w) PROVE TypeOK'
  BY <1>17, FieldTypes, NumbersAssumption DEF TypeOK, LocOK, Recount, table, IndexRows,
      StaleIndex, Open, OpenStates, Row
<1>18. ASSUME NEW w \in Workers, RecountWrite(w) PROVE TypeOK'
  BY <1>18, FieldTypes, NumbersAssumption DEF TypeOK, LocOK, RecountWrite, aux, notes, Row
<1>19. ASSUME NEW w \in Workers, Reserve(w) PROVE TypeOK'
  <2>1. loc[w].id \in Inv /\ loc[w].req \in Keys \cup {None} /\ loc[w].cnt \in Nat
    BY <1>19, FieldTypes DEF Control, ControlOf, CreateOnlyPcs, Reserve, At
  <2>2. counter' \in Nat /\ state' \in [Inv -> {"free", "reserved", "active", "closed", "gone"}]
    BY <1>19, <2>1 DEF Reserve, TypeOK
  <2>3. keyOf' \in [Inv -> Keys \cup {None}] /\ index' \in [Keys -> Inv \cup {None}]
    BY <1>19, <2>1 DEF Reserve, TypeOK
  <2>4. fresh' \in [Workers -> SUBSET Row]
    BY <1>19 DEF Reserve, Holds, TypeOK
  <2> QED
    BY <1>19, <2>2, <2>3, <2>4 DEF Reserve, TypeOK, LocOK, aux, notes
<1>20. ASSUME NEW w \in Workers, ReserveConflict(w) PROVE TypeOK'
  BY <1>20, FieldTypes, NumbersAssumption DEF TypeOK, LocOK, ReserveConflict, Retry, TryAgain,
      MayRetry, table, aux, notes, Holds, Row
<1>21. ASSUME NEW w \in Workers, ReserveDuplicate(w) PROVE TypeOK'
  BY <1>21, FieldTypes, NumbersAssumption DEF TypeOK, LocOK, ReserveDuplicate, Holds, table, aux,
      notes, Row
<1>22. ASSUME NEW w \in Workers, TokenFails(w) PROVE TypeOK'
  BY <1>22, FieldTypes, NumbersAssumption DEF TypeOK, LocOK, TokenFails, table, aux, notes, Row
<1>23. ASSUME NEW w \in Workers, PostUncertain(w) PROVE TypeOK'
  <2>1. loc[w].id \in Inv
    BY <1>23 DEF Control, ControlOf, CreatePcs, PostUncertain, At
  <2> QED
    BY <1>23, <2>1 DEF TypeOK, LocOK, PostUncertain, Post, table
<1>24. ASSUME NEW w \in Workers, PostSucceeds(w) PROVE TypeOK'
  <2>1. loc[w].id \in Inv
    BY <1>24 DEF Control, ControlOf, CreatePcs, PostSucceeds, At
  <2> QED
    BY <1>24, <2>1 DEF TypeOK, LocOK, PostSucceeds, Post, table
<1>25. ASSUME NEW w \in Workers, FinalizeRead(w) PROVE TypeOK'
  BY <1>25, FieldTypes, NumbersAssumption DEF TypeOK, LocOK, FinalizeRead, Present, Holds, table,
      aux, notes, Row
<1>26. ASSUME NEW w \in Workers, Finalize(w) PROVE TypeOK'
  <2>1. loc[w].id \in Inv
    BY <1>26 DEF Control, ControlOf, CreatePcs, Finalize, At
  <2>2. state' \in [Inv -> {"free", "reserved", "active", "closed", "gone"}] /\ slips' \in Nat
    BY <1>26, <2>1 DEF TypeOK, Finalize
  <2>3. faults' \in 0..MaxFaults /\ doubtful' \subseteq Inv
    BY <1>26, <2>1, NumbersAssumption DEF TypeOK, Finalize, Fault
  <2>4. fresh' \in [Workers -> SUBSET Row]
    BY <1>26 DEF TypeOK, Finalize, Holds
  <2> QED
    BY <1>26, <2>2, <2>3, <2>4 DEF TypeOK, LocOK, Finalize
<1>27. ASSUME NEW w \in Workers, FinalizeConflict(w) PROVE TypeOK'
  BY <1>27, FieldTypes, NumbersAssumption DEF TypeOK, LocOK, FinalizeConflict, Present, Retry,
      TryAgain, MayRetry, Holds, table, aux, notes, Row
<1>28. ASSUME NEW w \in Workers, ReleaseRead(w) PROVE TypeOK'
  BY <1>28, FieldTypes, NumbersAssumption DEF Control, ControlOf, CreatePcs, CreateOnlyPcs,
      TgtPcs, At, TypeOK, LocOK, ReleaseRead, Holds, table, aux, notes, Row
<1>29. ASSUME NEW w \in Workers, ReleaseDelete(w) PROVE TypeOK'
  BY <1>29, FieldTypes, NumbersAssumption DEF TypeOK, LocOK, ReleaseDelete, Holds, aux, notes, Row
<1>30. ASSUME NEW w \in Workers, ReleaseConflict(w) PROVE TypeOK'
  BY <1>30, FieldTypes, NumbersAssumption DEF TypeOK, LocOK, ReleaseConflict, TryAgain, MayRetry,
      Present, Retry, Holds, table, aux, notes, Row
<1>31. ASSUME NEW w \in Workers, CompleteRead(w) PROVE TypeOK'
  BY <1>31, FieldTypes, NumbersAssumption DEF TypeOK, LocOK, CompleteRead, Open, Holds, table,
      aux, notes, OpenStates, Row
<1>32. ASSUME NEW w \in Workers, CompleteCounter(w) PROVE TypeOK'
  BY <1>32, FieldTypes, NumbersAssumption DEF TypeOK, LocOK, CompleteCounter, Holds, table, aux,
      notes, Row
<1>33. ASSUME NEW w \in Workers, Complete(w) PROVE TypeOK'
  BY <1>33, FieldTypes, NumbersAssumption, Less1Type DEF Control, ControlOf, CreatePcs,
      CreateOnlyPcs, TgtPcs, At, TypeOK, LocOK, Complete, CloseRecord, Prolong, Holds, aux, notes,
      Row
<1>34. ASSUME NEW w \in Workers, CompleteConflict(w) PROVE TypeOK'
  BY <1>34, FieldTypes, NumbersAssumption DEF TypeOK, LocOK, CompleteConflict, Present, Retry,
      TryAgain, MayRetry, Holds, table, aux, notes, Row
<1>35. ASSUME NEW w \in Workers, StaleNext(w) PROVE TypeOK'
  BY <1>35, FieldTypes, NumbersAssumption DEF TypeOK, LocOK, StaleNext, Holds, table, aux, notes,
      Row
<1>36. ASSUME NEW w \in Workers, ReleaseStale(w) PROVE TypeOK'
  BY <1>36, FieldTypes, NumbersAssumption, Less1Type DEF Control, ControlOf, CreatePcs,
      CreateOnlyPcs, TgtPcs, At, TypeOK, LocOK, ReleaseStale, CloseRecord, Prolong, StaleContinue,
      aux, notes, Holds, Row
<1>37. ASSUME NEW w \in Workers, StaleConflict(w) PROVE TypeOK'
  BY <1>37, FieldTypes, NumbersAssumption DEF TypeOK, LocOK, StaleConflict, Present,
      StaleContinue, Holds, table, aux, notes, Row
<1>38. ASSUME NEW w \in Workers, StartSweep(w) PROVE TypeOK'
  <2>1. \A B \in Batches(ExpiredRows) : B \subseteq Row
    BY DEF Batches, Row, ExpiredRows, Present, StaleIndex, IndexRows
  <2> QED
    BY <1>38, <2>1 DEF TypeOK, LocOK, StartSweep, Holds, table, aux, notes
<1>39. ASSUME NEW w \in Workers, StartReleaseStale(w) PROVE TypeOK'
  <2>1. \A B \in Batches(Uncertain) : B \subseteq Row
    BY DEF Batches, Row, Uncertain
  <2> QED
    BY <1>39, <2>1 DEF TypeOK, LocOK, StartReleaseStale, Holds, table, aux, notes
<1>40. ASSUME NEW w \in Workers, Abandon(w) PROVE TypeOK'
  BY <1>40, FieldTypes, NumbersAssumption DEF TypeOK, LocOK, Abandon, Fault, notes, Holds, table,
      Row
<1>41. ASSUME NEW w \in Workers, NEW i \in Inv, StartRead(w, i) PROVE TypeOK'
  BY <1>41, FieldTypes, NumbersAssumption DEF TypeOK, LocOK, StartRead, Present, Holds, table,
      aux, notes, Row
<1>42. ASSUME NEW w \in Workers, NEW i \in Inv, StartComplete(w, i) PROVE TypeOK'
  BY <1>42, FieldTypes, NumbersAssumption DEF TypeOK, LocOK, StartComplete, table, aux, notes, Row
<1>43. ASSUME NEW w \in Workers, NEW i \in Inv, NEW k \in Keys \cup {None}, StartCreate(w, k, i) PROVE TypeOK'
  BY <1>43, FieldTypes, NumbersAssumption DEF TypeOK, LocOK, StartCreate, table, aux, notes, Row
<1>44. ASSUME NEW i \in Inv, Age(i) PROVE TypeOK'
  BY <1>44, FieldTypes, NumbersAssumption DEF TypeOK, LocOK, Age, aux, notes, Row
<1>45. ASSUME NEW i \in Inv, Touch(i) PROVE TypeOK'
  BY <1>45, FieldTypes, NumbersAssumption DEF TypeOK, LocOK, Touch, notes, Present, table, Row
<1>46. ASSUME UNCHANGED vars PROVE TypeOK'
  BY <1>46 DEF vars, TypeOK, LocOK
<1> QED
  BY <1>1, <1>2, <1>3, <1>4, <1>5, <1>6, <1>7, <1>8, <1>9, <1>9a, <1>10, <1>11, <1>12, <1>13,
      <1>14, <1>15, <1>16, <1>17, <1>18, <1>19, <1>20, <1>21, <1>22, <1>23, <1>24, <1>25,
      <1>26, <1>27, <1>28, <1>29, <1>30, <1>31, <1>32, <1>33, <1>34, <1>35, <1>36, <1>37,
      <1>38, <1>39, <1>40, <1>41, <1>42, <1>43, <1>44, <1>45, <1>46 DEF Next, Step,
      FindStep, SweepStep, DecStep, ReserveStep, PlatformStep, SettleStep, CompleteStep,
      StaleStep

(* One worker's move keeps Control if the worker arrives somewhere           *)
(* consistent.                                                               *)
LEMMA ControlUpdate ==
  ASSUME LocOK, Control, NEW w \in Workers, NEW l, Becomes(w, l), ControlOf(l)
  PROVE  Control'
  BY DEF Control, Becomes, LocOK

(* Ending an operation keeps Control.                                        *)
LEMMA ControlEnd ==
  ASSUME LocOK, Control, NEW w \in Workers, End(w)
  PROVE  Control'
<1>1. ControlOf(Idle) /\ Idle.pc = "idle"
  BY DEF ControlOf, SweepOps, TgtPcs, CreateOnlyPcs, CreatePcs, CompletePcs, BatchPcs, StalePcs, Idle
<1> QED BY <1>1, ControlUpdate DEF End

(* Another attempt keeps Control if the worker may be where it begins.       *)
LEMMA ControlAgain ==
  ASSUME LocOK, Control, NEW w \in Workers, NEW p, TryAgain(w, p),
         ControlOf([loc[w] EXCEPT !.pc = p, !.tries = @ + 1, !.cnt = 0])
  PROVE  Control'
  BY ControlUpdate, ControlEnd DEF TryAgain

(* A sweep that has deleted a record goes on with its index row, its slot,   *)
(* or its batch.                                                             *)
LEMMA ControlDeleted ==
  ASSUME LocOK, Control, NEW w \in Workers, loc[w].pc = "sweepNext", NEW i \in Inv,
         SweepDeleted(w, i)
  PROVE  Control'
<1> DEFINE p == IF keyOf[i] # None THEN "sweepIndex"
                ELSE IF i \in loc[w].slots THEN "decRead" ELSE "sweepNext"
           l == [loc[w] EXCEPT !.batch = @ \ {i}, !.tgt = i, !.tries = 0, !.pc = p]
<1>1. p \in {"sweepIndex", "decRead", "sweepNext"}
  OBVIOUS
<1> HIDE DEF p
<1>2. l.pc = p /\ l.op = loc[w].op /\ l.tgt = i /\ l.id = loc[w].id
      /\ l.batch = loc[w].batch \ {i}
  BY DEF LocOK, Operation
<1>3. ControlOf(loc[w])
  BY DEF Control
<1>4. ControlOf(l)
  <2> HIDE DEF l
  <2> QED
    BY <1>1, <1>2, <1>3 DEF ControlOf, SweepOps, TgtPcs, CreateOnlyPcs, CreatePcs, CompletePcs,
       BatchPcs, StalePcs
<1> QED
  BY <1>4, ControlUpdate DEF SweepDeleted, p, l

(* Every step leaves its worker at a place of its own operation, with the    *)
(* local variables set that the place relies on.                             *)
LEMMA ControlStep ==
  ASSUME TypeOK, LocOK, Control, [Next]_vars
  PROVE  Control'
<1>1. ASSUME NEW w \in Workers, ReadIndex(w) PROVE Control'
  <2>1. ASSUME loc[w].op = "create"
       PROVE  /\ ControlOf([loc[w] EXCEPT !.pc = "fallback"])
               /\ [loc[w] EXCEPT !.pc = "fallback"].pc = "fallback"
    BY <1>1, <2>1, RowsAssumption DEF TypeOK, LocOK, Operation, Control, ControlOf,
        SweepOps, TgtPcs, CreateOnlyPcs, CreatePcs, CompletePcs, BatchPcs, StalePcs,
        ReadIndex, At
  <2>2. ASSUME index[loc[w].req] # None
       PROVE  /\ ControlOf([loc[w] EXCEPT !.pc = "get", !.tgt = index[loc[w].req]])
               /\ [loc[w] EXCEPT !.pc = "get", !.tgt = index[loc[w].req]].pc = "get"
    BY <1>1, <2>2, RowsAssumption DEF TypeOK, LocOK, Operation, Control, ControlOf,
        SweepOps, TgtPcs, CreateOnlyPcs, CreatePcs, CompletePcs, BatchPcs, StalePcs,
        ReadIndex, At
  <2> QED
    BY <1>1, <2>1, <2>2, ControlEnd, ControlUpdate DEF ReadIndex, At, NotFound, aux, notes, GoTo
<1>2. ASSUME NEW w \in Workers, GetRecord(w) PROVE Control'
  <2>1. /\ ControlOf([loc[w] EXCEPT !.pc = "unindex"])
       /\ [loc[w] EXCEPT !.pc = "unindex"].pc = "unindex"
    BY <1>2, RowsAssumption DEF TypeOK, LocOK, Operation, Control, ControlOf, SweepOps,
        TgtPcs, CreateOnlyPcs, CreatePcs, CompletePcs, BatchPcs, StalePcs, GetRecord, At
  <2>2. /\ ControlOf([loc[w] EXCEPT !.pc = "expire"])
       /\ [loc[w] EXCEPT !.pc = "expire"].pc = "expire"
    BY <1>2, RowsAssumption DEF TypeOK, LocOK, Operation, Control, ControlOf, SweepOps,
        TgtPcs, CreateOnlyPcs, CreatePcs, CompletePcs, BatchPcs, StalePcs, GetRecord, At
  <2> QED
    BY <1>2, <2>1, <2>2, ControlEnd, ControlUpdate DEF GetRecord, At, GoTo, aux, notes
<1>3. ASSUME NEW w \in Workers, ExpireRecord(w) PROVE Control'
  <2>1. loc[w].op = "create" => ControlOf([loc[w] EXCEPT !.pc = "fallback"])
    BY <1>3, RowsAssumption DEF ExpireRecord, TypeOK, LocOK, Operation, Control, ControlOf,
        SweepOps, TgtPcs, CreateOnlyPcs, CreatePcs, CompletePcs, BatchPcs, StalePcs, At
  <2>2. loc[w].op # "read" => ControlOf([loc[w] EXCEPT !.pc = "unindex"])
    BY <1>3, RowsAssumption DEF ExpireRecord, TypeOK, LocOK, Operation, Control, ControlOf,
        SweepOps, TgtPcs, CreateOnlyPcs, CreatePcs, CompletePcs, BatchPcs, StalePcs, At
  <2> QED
    BY <1>3, <2>1, <2>2, ControlEnd, ControlUpdate DEF ExpireRecord, ExpireEnds, NotFound, GoTo
<1>4. ASSUME NEW w \in Workers, Unindex(w) PROVE Control'
  <2>1. ASSUME loc[w].op = "create"
       PROVE  /\ ControlOf([loc[w] EXCEPT !.pc = "fallback"])
               /\ [loc[w] EXCEPT !.pc = "fallback"].pc = "fallback"
    BY <1>4, <2>1, RowsAssumption DEF TypeOK, LocOK, Operation, Control, ControlOf,
        SweepOps, TgtPcs, CreateOnlyPcs, CreatePcs, CompletePcs, BatchPcs, StalePcs,
        Unindex, At
  <2> QED
    BY <1>4, <2>1, ControlEnd, ControlUpdate DEF Unindex, At, NotFound, aux, notes, GoTo
<1>5. ASSUME NEW w \in Workers, FallbackQuery(w) PROVE Control'
  <2>1. /\ ControlOf([loc[w] EXCEPT !.pc = "sweepQuery"])
       /\ [loc[w] EXCEPT !.pc = "sweepQuery"].pc = "sweepQuery"
    BY <1>5, RowsAssumption DEF TypeOK, LocOK, Operation, Control, ControlOf, SweepOps,
        TgtPcs, CreateOnlyPcs, CreatePcs, CompletePcs, BatchPcs, StalePcs,
        FallbackQuery, At
  <2> QED
    BY <1>5, <2>1, ControlEnd, ControlUpdate DEF FallbackQuery, At, GoTo, aux, notes
<1>6. ASSUME NEW w \in Workers, SweepQuery(w) PROVE Control'
  BY <1>6, RowsAssumption, FieldTypes DEF TypeOK, LocOK, Operation, Control, ControlOf, SweepOps,
      TgtPcs, CreateOnlyPcs, CreatePcs, CompletePcs, BatchPcs, StalePcs, SweepQuery, At, Batches,
      ExpiredRows, Becomes, aux, notes, Present, StaleIndex, IndexRows
<1>7. ASSUME NEW w \in Workers, SweepSkip(w) PROVE Control'
  BY <1>7, RowsAssumption, FieldTypes DEF TypeOK, LocOK, Operation, Control, ControlOf, SweepOps,
      TgtPcs, CreateOnlyPcs, CreatePcs, CompletePcs, BatchPcs, StalePcs, SweepSkip, At, Becomes,
      aux, notes
<1>8. ASSUME NEW w \in Workers, SweepIndexRow(w) PROVE Control'
  BY <1>8, RowsAssumption, FieldTypes DEF TypeOK, LocOK, Operation, Control, ControlOf, SweepOps,
      TgtPcs, CreateOnlyPcs, CreatePcs, CompletePcs, BatchPcs, StalePcs, SweepIndexRow, At,
      Becomes, aux, notes
<1>9. ASSUME NEW w \in Workers, SweepRecord(w) PROVE Control'
  <2>1. ASSUME NEW i \in Inv, Becomes(w, [loc[w] EXCEPT !.batch = @ \ {i}]) PROVE Control'
    <3> DEFINE l == [loc[w] EXCEPT !.batch = @ \ {i}]
    <3>1. /\ l.pc = loc[w].pc /\ l.op = loc[w].op /\ l.req = loc[w].req /\ l.tgt = loc[w].tgt
          /\ l.id = loc[w].id /\ l.cnt = loc[w].cnt /\ l.batch \subseteq loc[w].batch
      BY FieldTypes DEF Operation
    <3>2. ControlOf(l)
      BY <3>1 DEF Control, ControlOf
    <3> QED
      BY <2>1, <3>2, ControlUpdate
  <2> QED
    BY <1>9, <2>1, ControlDeleted DEF SweepRecord, At
<1>9a. ASSUME NEW w \in Workers, SweepGone(w) PROVE Control'
  BY <1>9a, ControlDeleted DEF SweepGone, At
<1>10. ASSUME NEW w \in Workers, SweepIndexOf(w) PROVE Control'
  <2>1. /\ ControlOf([loc[w] EXCEPT !.pc = "decRead"])
        /\ ControlOf([loc[w] EXCEPT !.pc = "sweepNext"])
    BY <1>10, RowsAssumption DEF SweepIndexOf, TypeOK, LocOK, Operation, Control, ControlOf,
        SweepOps, TgtPcs, CreateOnlyPcs, CreatePcs, CompletePcs, BatchPcs, StalePcs, At
  <2> QED
    BY <1>10, <2>1, ControlUpdate DEF SweepIndexOf, GoTo
<1>11. ASSUME NEW w \in Workers, SweepDone(w) PROVE Control'
  <2>1. ASSUME loc[w].op # "sweep"
       PROVE  /\ ControlOf([loc[w] EXCEPT !.pc = "readCounter", !.tgt = None, !.tries = 0,
                                        !.slots = {}])
               /\ [loc[w] EXCEPT !.pc = "readCounter", !.tgt = None, !.tries = 0, !.slots = {}].pc = "readCounter"
    BY <1>11, <2>1, RowsAssumption DEF TypeOK, LocOK, Operation, Control, ControlOf,
        SweepOps, TgtPcs, CreateOnlyPcs, CreatePcs, CompletePcs, BatchPcs, StalePcs,
        SweepDone, At
  <2> QED
    BY <1>11, <2>1, ControlEnd, ControlUpdate DEF SweepDone, At, aux, notes
<1>12. ASSUME NEW w \in Workers, DecrementRead(w) PROVE Control'
  <2>1. /\ ControlOf([loc[w] EXCEPT !.pc = "decWrite", !.cnt = counter])
       /\ [loc[w] EXCEPT !.pc = "decWrite", !.cnt = counter].pc = "decWrite"
    BY <1>12, RowsAssumption DEF TypeOK, LocOK, Operation, Control, ControlOf, SweepOps,
        TgtPcs, CreateOnlyPcs, CreatePcs, CompletePcs, BatchPcs, StalePcs,
        DecrementRead, At
  <2> QED
    BY <1>12, <2>1, ControlEnd, ControlUpdate DEF Control, DecrementRead, At, aux, notes
<1>13. ASSUME NEW w \in Workers, DecrementWrite(w) PROVE Control'
  <2>1. /\ ControlOf([loc[w] EXCEPT !.pc = "decRead", !.tries = @ + 1, !.cnt = 0])
        /\ loc[w].op # "release" =>
             ControlOf([loc[w] EXCEPT !.pc = "sweepNext", !.cnt = 0, !.tries = 0, !.tgt = None])
    BY <1>13, RowsAssumption DEF DecrementWrite, TypeOK, LocOK, Operation, Control, ControlOf,
        SweepOps, TgtPcs, CreateOnlyPcs, CreatePcs, CompletePcs, BatchPcs, StalePcs, At
  <2> QED
    BY <1>13, <2>1, ControlEnd, ControlUpdate, ControlAgain
    DEF DecrementWrite, DecrementDone, DecrementAgain
<1>14. ASSUME NEW w \in Workers, DecrementConflict(w) PROVE Control'
  <2>1. ControlOf([loc[w] EXCEPT !.pc = "decRead", !.tries = @ + 1, !.cnt = 0])
    BY <1>14, RowsAssumption DEF DecrementConflict, TypeOK, LocOK, Operation, Control, ControlOf,
        SweepOps, TgtPcs, CreateOnlyPcs, CreatePcs, CompletePcs, BatchPcs, StalePcs, At
  <2> QED
    BY <1>14, <2>1, ControlEnd, ControlAgain DEF DecrementConflict, DecrementAgain
<1>15. ASSUME NEW w \in Workers, ReadCounter(w) PROVE Control'
  <2>1. ASSUME counter >= Quota
       PROVE  /\ ControlOf([loc[w] EXCEPT !.cnt = counter, !.pc = "recount"])
               /\ [loc[w] EXCEPT !.cnt = counter, !.pc = "recount"].pc = "recount"
    BY <1>15, <2>1, RowsAssumption, NumbersAssumption DEF TypeOK, LocOK, Operation,
        Control, ControlOf, SweepOps, TgtPcs, CreateOnlyPcs, CreatePcs, CompletePcs,
        BatchPcs, StalePcs, ReadCounter, At
  <2>2. ASSUME ~(counter >= Quota)
       PROVE  /\ ControlOf([loc[w] EXCEPT !.cnt = counter, !.pc = "submit"])
               /\ [loc[w] EXCEPT !.cnt = counter, !.pc = "submit"].pc = "submit"
    BY <1>15, <2>2, RowsAssumption, NumbersAssumption DEF TypeOK, LocOK, Operation,
        Control, ControlOf, SweepOps, TgtPcs, CreateOnlyPcs, CreatePcs, CompletePcs,
        BatchPcs, StalePcs, ReadCounter, At
  <2>3. CASE counter >= Quota
    BY <1>15, <2>1, <2>3, ControlUpdate DEF ReadCounter, aux, notes
  <2>4. CASE ~(counter >= Quota)
    BY <1>15, <2>2, <2>4, ControlUpdate DEF ReadCounter, aux, notes
  <2> QED
    BY <2>3, <2>4
<1>16. ASSUME NEW w \in Workers, DenyQuota(w) PROVE Control'
  BY <1>16, ControlEnd DEF DenyQuota, aux, notes
<1>17. ASSUME NEW w \in Workers, Recount(w) PROVE Control'
  <2>1. /\ ControlOf([loc[w] EXCEPT !.pc = "recountWrite", !.tally = Counted])
       /\ [loc[w] EXCEPT !.pc = "recountWrite", !.tally = Counted].pc = "recountWrite"
    BY <1>17, RowsAssumption DEF TypeOK, LocOK, Operation, Control, ControlOf, SweepOps,
        TgtPcs, CreateOnlyPcs, CreatePcs, CompletePcs, BatchPcs, StalePcs, Recount, At
  <2> QED
    BY <1>17, <2>1, ControlEnd, ControlUpdate DEF Recount, At, IndexRows, StaleIndex,
        Open, OpenStates
<1>18. ASSUME NEW w \in Workers, RecountWrite(w) PROVE Control'
  <2>1. /\ ControlOf([loc[w] EXCEPT !.pc = "readCounter", !.tries = @ + 1, !.cnt = 0, !.tally = 0])
       /\ [loc[w] EXCEPT !.pc = "readCounter", !.tries = @ + 1, !.cnt = 0, !.tally = 0].pc = "readCounter"
    BY <1>18, RowsAssumption DEF TypeOK, LocOK, Operation, Control, ControlOf, SweepOps,
        TgtPcs, CreateOnlyPcs, CreatePcs, CompletePcs, BatchPcs, StalePcs, RecountWrite,
        At
  <2> QED
    BY <1>18, <2>1, ControlEnd, ControlUpdate DEF RecountWrite, At, aux, notes
<1>19. ASSUME NEW w \in Workers, Reserve(w) PROVE Control'
  BY <1>19, RowsAssumption, FieldTypes DEF TypeOK, LocOK, Operation, Control, ControlOf, SweepOps,
      TgtPcs, CreateOnlyPcs, CreatePcs, CompletePcs, BatchPcs, StalePcs, Reserve, At, Remember,
      aux, notes
<1>20. ASSUME NEW w \in Workers, ReserveConflict(w) PROVE Control'
  <2>1. ControlOf([loc[w] EXCEPT !.pc = "readCounter", !.tries = @ + 1, !.cnt = 0])
    BY <1>20, RowsAssumption DEF ReserveConflict, TypeOK, LocOK, Operation, Control, ControlOf,
        SweepOps, TgtPcs, CreateOnlyPcs, CreatePcs, CompletePcs, BatchPcs, StalePcs, At
  <2> QED
    BY <1>20, <2>1, ControlEnd, ControlAgain DEF ReserveConflict, Retry
<1>21. ASSUME NEW w \in Workers, ReserveDuplicate(w) PROVE Control'
  <2>1. /\ ControlOf([loc[w] EXCEPT !.op = "recover", !.pc = "index", !.id = None, !.cnt = 0, !.tries = 0])
       /\ [loc[w] EXCEPT !.op = "recover", !.pc = "index", !.id = None, !.cnt = 0, !.tries = 0].pc = "index"
    BY <1>21, RowsAssumption DEF TypeOK, LocOK, Operation, Control, ControlOf, SweepOps,
        TgtPcs, CreateOnlyPcs, CreatePcs, CompletePcs, BatchPcs, StalePcs,
        ReserveDuplicate, At
  <2> QED
    BY <1>21, <2>1, ControlEnd, ControlUpdate DEF ReserveDuplicate, At, aux, notes
<1>22. ASSUME NEW w \in Workers, TokenFails(w) PROVE Control'
  <2>1. /\ ControlOf([loc[w] EXCEPT !.op = "release", !.pc = "relRead"])
       /\ [loc[w] EXCEPT !.op = "release", !.pc = "relRead"].pc = "relRead"
    BY <1>22, RowsAssumption DEF TypeOK, LocOK, Operation, Control, ControlOf, SweepOps,
        TgtPcs, CreateOnlyPcs, CreatePcs, CompletePcs, BatchPcs, StalePcs, TokenFails,
        At
  <2> QED
    BY <1>22, <2>1, ControlEnd, ControlUpdate DEF TokenFails, At, aux, notes
<1>23. ASSUME NEW w \in Workers, PostUncertain(w) PROVE Control'
  BY <1>23, ControlEnd DEF PostUncertain, Post, aux, notes
<1>24. ASSUME NEW w \in Workers, PostSucceeds(w) PROVE Control'
  <2>1. /\ ControlOf([loc[w] EXCEPT !.pc = "finRead"])
       /\ [loc[w] EXCEPT !.pc = "finRead"].pc = "finRead"
    BY <1>24, RowsAssumption DEF TypeOK, LocOK, Operation, Control, ControlOf, SweepOps, TgtPcs,
        CreateOnlyPcs, CreatePcs, CompletePcs, BatchPcs, StalePcs, PostSucceeds, Post, At
  <2> QED
    BY <1>24, <2>1, ControlEnd, ControlUpdate DEF PostSucceeds, Post, At, GoTo, aux, notes
<1>25. ASSUME NEW w \in Workers, FinalizeRead(w) PROVE Control'
  <2>1. /\ ControlOf([loc[w] EXCEPT !.pc = "finWrite"])
       /\ [loc[w] EXCEPT !.pc = "finWrite"].pc = "finWrite"
    BY <1>25, RowsAssumption DEF TypeOK, LocOK, Operation, Control, ControlOf, SweepOps,
        TgtPcs, CreateOnlyPcs, CreatePcs, CompletePcs, BatchPcs, StalePcs, FinalizeRead,
        At
  <2> QED
    BY <1>25, <2>1, ControlEnd, ControlUpdate DEF FinalizeRead, At, GoTo, aux, notes
<1>26. ASSUME NEW w \in Workers, Finalize(w) PROVE Control'
  <2>1. ControlOf([loc[w] EXCEPT !.pc = "finRead", !.tries = @ + 1, !.cnt = 0])
    BY <1>26, RowsAssumption DEF Finalize, TypeOK, LocOK, Operation, Control, ControlOf,
        SweepOps, TgtPcs, CreateOnlyPcs, CreatePcs, CompletePcs, BatchPcs, StalePcs, At
  <2> QED
    BY <1>26, <2>1, ControlEnd, ControlAgain DEF Finalize
<1>27. ASSUME NEW w \in Workers, FinalizeConflict(w) PROVE Control'
  <2>1. ControlOf([loc[w] EXCEPT !.pc = "finRead", !.tries = @ + 1, !.cnt = 0])
    BY <1>27, RowsAssumption DEF FinalizeConflict, TypeOK, LocOK, Operation, Control, ControlOf,
        SweepOps, TgtPcs, CreateOnlyPcs, CreatePcs, CompletePcs, BatchPcs, StalePcs, At
  <2> QED
    BY <1>27, <2>1, ControlEnd, ControlAgain DEF FinalizeConflict, Retry
<1>28. ASSUME NEW w \in Workers, ReleaseRead(w) PROVE Control'
  <2>1. /\ ControlOf([loc[w] EXCEPT !.pc = "relDelete"])
       /\ [loc[w] EXCEPT !.pc = "relDelete"].pc = "relDelete"
    BY <1>28, RowsAssumption DEF TypeOK, LocOK, Operation, Control, ControlOf, SweepOps,
        TgtPcs, CreateOnlyPcs, CreatePcs, CompletePcs, BatchPcs, StalePcs, ReleaseRead,
        At
  <2> QED
    BY <1>28, <2>1, ControlEnd, ControlUpdate DEF ReleaseRead, At, GoTo, aux, notes
<1>29. ASSUME NEW w \in Workers, ReleaseDelete(w) PROVE Control'
  <2>1. /\ ControlOf([loc[w] EXCEPT !.pc = "decRead", !.tries = 0])
       /\ [loc[w] EXCEPT !.pc = "decRead", !.tries = 0].pc = "decRead"
    BY <1>29, RowsAssumption DEF TypeOK, LocOK, Operation, Control, ControlOf, SweepOps,
        TgtPcs, CreateOnlyPcs, CreatePcs, CompletePcs, BatchPcs, StalePcs,
        ReleaseDelete, At
  <2> QED
    BY <1>29, <2>1, ControlEnd, ControlUpdate DEF Control, ReleaseDelete, At, aux, notes
<1>30. ASSUME NEW w \in Workers, ReleaseConflict(w) PROVE Control'
  <2>1. /\ ControlOf([loc[w] EXCEPT !.pc = "relRead", !.tries = @ + 1, !.cnt = 0])
        /\ ControlOf([loc[w] EXCEPT !.pc = "decRead", !.tries = 0])
    BY <1>30, RowsAssumption DEF ReleaseConflict, TypeOK, LocOK, Operation, Control, ControlOf,
        SweepOps, TgtPcs, CreateOnlyPcs, CreatePcs, CompletePcs, BatchPcs, StalePcs, At
  <2> QED
    BY <1>30, <2>1, ControlEnd, ControlUpdate, ControlAgain DEF ReleaseConflict
<1>31. ASSUME NEW w \in Workers, CompleteRead(w) PROVE Control'
  <2>1. /\ ControlOf([loc[w] EXCEPT !.pc = "cmpCounter"])
       /\ [loc[w] EXCEPT !.pc = "cmpCounter"].pc = "cmpCounter"
    BY <1>31, RowsAssumption DEF TypeOK, LocOK, Operation, Control, ControlOf, SweepOps,
        TgtPcs, CreateOnlyPcs, CreatePcs, CompletePcs, BatchPcs, StalePcs, CompleteRead,
        At
  <2> QED
    BY <1>31, <2>1, ControlEnd, ControlUpdate DEF CompleteRead, At, Open, GoTo, aux, notes,
        OpenStates
<1>32. ASSUME NEW w \in Workers, CompleteCounter(w) PROVE Control'
  <2>1. /\ ControlOf([loc[w] EXCEPT !.pc = "cmpSubmit", !.cnt = counter])
       /\ [loc[w] EXCEPT !.pc = "cmpSubmit", !.cnt = counter].pc = "cmpSubmit"
    BY <1>32, RowsAssumption DEF TypeOK, LocOK, Operation, Control, ControlOf, SweepOps,
        TgtPcs, CreateOnlyPcs, CreatePcs, CompletePcs, BatchPcs, StalePcs,
        CompleteCounter, At
  <2> QED
    BY <1>32, <2>1, ControlEnd, ControlUpdate DEF CompleteCounter, At, aux, notes
<1>33. ASSUME NEW w \in Workers, Complete(w) PROVE Control'
  BY <1>33, ControlEnd DEF Complete, aux, notes
<1>34. ASSUME NEW w \in Workers, CompleteConflict(w) PROVE Control'
  <2>1. ControlOf([loc[w] EXCEPT !.pc = "cmpRead", !.tries = @ + 1, !.cnt = 0])
    BY <1>34, RowsAssumption DEF CompleteConflict, TypeOK, LocOK, Operation, Control, ControlOf,
        SweepOps, TgtPcs, CreateOnlyPcs, CreatePcs, CompletePcs, BatchPcs, StalePcs, At
  <2> QED
    BY <1>34, <2>1, ControlEnd, ControlAgain DEF CompleteConflict, Retry
<1>35. ASSUME NEW w \in Workers, StaleNext(w) PROVE Control'
  BY <1>35, RowsAssumption, FieldTypes DEF TypeOK, LocOK, Operation, Control, ControlOf, SweepOps,
      TgtPcs, CreateOnlyPcs, CreatePcs, CompletePcs, BatchPcs, StalePcs, StaleNext, At, Becomes,
      aux, notes
<1>36. ASSUME NEW w \in Workers, ReleaseStale(w) PROVE Control'
  <2>1. /\ ControlOf([loc[w] EXCEPT !.pc = "staleNext", !.tgt = None, !.cnt = 0])
       /\ [loc[w] EXCEPT !.pc = "staleNext", !.tgt = None, !.cnt = 0].pc = "staleNext"
    BY <1>36, RowsAssumption DEF TypeOK, LocOK, Operation, Control, ControlOf, SweepOps,
        TgtPcs, CreateOnlyPcs, CreatePcs, CompletePcs, BatchPcs, StalePcs, ReleaseStale,
        At
  <2> QED
    BY <1>36, <2>1, ControlEnd, ControlUpdate DEF ReleaseStale, At, StaleContinue, aux, notes
<1>37. ASSUME NEW w \in Workers, StaleConflict(w) PROVE Control'
  <2>1. /\ ControlOf([loc[w] EXCEPT !.pc = "staleNext", !.tgt = None, !.cnt = 0])
       /\ [loc[w] EXCEPT !.pc = "staleNext", !.tgt = None, !.cnt = 0].pc = "staleNext"
    BY <1>37, RowsAssumption DEF TypeOK, LocOK, Operation, Control, ControlOf, SweepOps,
        TgtPcs, CreateOnlyPcs, CreatePcs, CompletePcs, BatchPcs, StalePcs,
        StaleConflict, At
  <2> QED
    BY <1>37, <2>1, ControlEnd, ControlUpdate DEF StaleConflict, At, StaleContinue, aux, notes
<1>38. ASSUME NEW w \in Workers, StartSweep(w) PROVE Control'
  BY <1>38, RowsAssumption, FieldTypes DEF TypeOK, LocOK, Operation, Control, ControlOf, SweepOps,
      TgtPcs, CreateOnlyPcs, CreatePcs, CompletePcs, BatchPcs, StalePcs, StartSweep, At,
      ExpiredRows, Batches, Becomes, Idle, aux, notes, Present, StaleIndex, IndexRows
<1>39. ASSUME NEW w \in Workers, StartReleaseStale(w) PROVE Control'
  BY <1>39, RowsAssumption, FieldTypes DEF TypeOK, LocOK, Operation, Control, ControlOf, SweepOps,
      TgtPcs, CreateOnlyPcs, CreatePcs, CompletePcs, BatchPcs, StalePcs, StartReleaseStale, At,
      Uncertain, Batches, Becomes, Idle, aux, notes
<1>40. ASSUME NEW w \in Workers, Abandon(w) PROVE Control'
  BY <1>40, ControlEnd DEF Abandon, Fault, notes
<1>41. ASSUME NEW w \in Workers, NEW i \in Inv, StartRead(w, i) PROVE Control'
  BY <1>41, RowsAssumption, FieldTypes DEF TypeOK, LocOK, Operation, Control, ControlOf, SweepOps,
      TgtPcs, CreateOnlyPcs, CreatePcs, CompletePcs, BatchPcs, StalePcs, StartRead, At, Present,
      Becomes, Idle, aux, notes
<1>42. ASSUME NEW w \in Workers, NEW i \in Inv, StartComplete(w, i) PROVE Control'
  BY <1>42, RowsAssumption, FieldTypes DEF TypeOK, LocOK, Operation, Control, ControlOf, SweepOps,
      TgtPcs, CreateOnlyPcs, CreatePcs, CompletePcs, BatchPcs, StalePcs, StartComplete, At,
      Becomes, Idle, aux, notes
<1>43. ASSUME NEW w \in Workers, NEW i \in Inv, NEW k \in Keys \cup {None}, StartCreate(w, k, i) PROVE Control'
  BY <1>43, RowsAssumption, FieldTypes DEF TypeOK, LocOK, Operation, Control, ControlOf, SweepOps,
      TgtPcs, CreateOnlyPcs, CreatePcs, CompletePcs, BatchPcs, StalePcs, StartCreate, At, Becomes,
      Idle, aux, notes
<1>44. ASSUME NEW i \in Inv, Age(i) PROVE Control'
  BY <1>44, RowsAssumption, FieldTypes DEF TypeOK, LocOK, Operation, Control, ControlOf, SweepOps,
      TgtPcs, CreateOnlyPcs, CreatePcs, CompletePcs, BatchPcs, StalePcs, Age, Remember, aux, notes
<1>45. ASSUME NEW i \in Inv, Touch(i) PROVE Control'
  BY <1>45, RowsAssumption, FieldTypes DEF TypeOK, LocOK, Operation, Control, ControlOf, SweepOps,
      TgtPcs, CreateOnlyPcs, CreatePcs, CompletePcs, BatchPcs, StalePcs, Touch, notes, Present
<1>46. ASSUME UNCHANGED vars PROVE Control'
  BY <1>46 DEF vars, Control
<1> QED
  BY <1>1, <1>2, <1>3, <1>4, <1>5, <1>6, <1>7, <1>8, <1>9, <1>9a, <1>10, <1>11, <1>12, <1>13,
      <1>14, <1>15, <1>16, <1>17, <1>18, <1>19, <1>20, <1>21, <1>22, <1>23, <1>24, <1>25,
      <1>26, <1>27, <1>28, <1>29, <1>30, <1>31, <1>32, <1>33, <1>34, <1>35, <1>36, <1>37,
      <1>38, <1>39, <1>40, <1>41, <1>42, <1>43, <1>44, <1>45, <1>46 DEF Next, Step,
      FindStep, SweepStep, DecStep, ReserveStep, PlatformStep, SettleStep, CompleteStep,
      StaleStep

(* Copies holds on when the counter stays and the moving worker gives up its *)
(* ETag.                                                                     *)
LEMMA CopiesUpdate ==
  ASSUME LocOK, Copies, NEW w \in Workers, NEW l, Becomes(w, l), UNCHANGED counter,
         Counter \notin fresh'[w], \A v \in Workers \ {w} : fresh'[v] \subseteq fresh[v]
  PROVE  Copies'
  BY DEF Copies, Becomes, LocOK

(* The same for one that has just read the counter, on its way to use it.    *)
LEMMA CopiesRead ==
  ASSUME LocOK, Copies, NEW w \in Workers, NEW l, Becomes(w, l), UNCHANGED counter,
         l.pc \in CopyPcs, l.cnt = counter,
         \A v \in Workers \ {w} : fresh'[v] \subseteq fresh[v]
  PROVE  Copies'
  BY DEF Copies, Becomes, LocOK

(* The same for an operation that tries again or ends.                       *)
LEMMA CopiesAgain ==
  ASSUME LocOK, Copies, NEW w \in Workers, NEW p, TryAgain(w, p) \/ End(w),
         UNCHANGED counter, Counter \notin fresh'[w],
         \A v \in Workers \ {w} : fresh'[v] \subseteq fresh[v]
  PROVE  Copies'
<1>1. PICK l : Becomes(w, l)
  BY DEF TryAgain, End
<1> QED
  BY <1>1, CopiesUpdate

(* A worker that still holds the counter's current ETag has the counter's    *)
(* current value: whoever writes the counter takes the ETag from all others. *)
LEMMA CopiesStep ==
  ASSUME TypeOK, LocOK, Control, Copies, [Next]_vars
  PROVE  Copies'
<1>1. ASSUME NEW w \in Workers, ReadIndex(w) PROVE Copies'
  <2>1. Counter \notin fresh'[w] /\ \A v \in Workers \ {w} : fresh'[v] \subseteq fresh[v]
    BY <1>1, RowsAssumption DEF Copies, CopyPcs, TypeOK, ReadIndex, At, Holds, Present
  <2> QED
    BY <1>1, <2>1, CopiesUpdate DEF ReadIndex, NotFound, table, GoTo, End
<1>2. ASSUME NEW w \in Workers, GetRecord(w) PROVE Copies'
  <2>1. Counter \notin fresh'[w] /\ \A v \in Workers \ {w} : fresh'[v] \subseteq fresh[v]
    BY <1>2, RowsAssumption DEF Copies, CopyPcs, TypeOK, GetRecord, At, Holds, Present
  <2>2. PICK l : Becomes(w, l)
    BY <1>2 DEF GetRecord, GoTo, End
  <2> QED
    BY <1>2, <2>1, <2>2, CopiesUpdate DEF GetRecord, table
<1>3. ASSUME NEW w \in Workers, ExpireRecord(w) PROVE Copies'
  <2>1. Counter \notin fresh'[w] /\ \A v \in Workers \ {w} : fresh'[v] \subseteq fresh[v]
    BY <1>3 DEF ExpireRecord, Holds, TypeOK
  <2>2. PICK l : Becomes(w, l)
    BY <1>3 DEF ExpireRecord, ExpireEnds, NotFound, GoTo, End
  <2> QED
    BY <1>3, <2>1, <2>2, CopiesUpdate DEF ExpireRecord, table
<1>4. ASSUME NEW w \in Workers, Unindex(w) PROVE Copies'
  BY <1>4, RowsAssumption, FieldTypes DEF TypeOK, LocOK, Operation, Copies, CopyPcs, Row, Unindex,
      At, NotFound, Holds, aux, notes, GoTo, End, Becomes, Idle
<1>5. ASSUME NEW w \in Workers, FallbackQuery(w) PROVE Copies'
  BY <1>5, RowsAssumption, FieldTypes DEF TypeOK, LocOK, Operation, Copies, CopyPcs, Row,
      FallbackQuery, At, Present, End, GoTo, table, aux, notes, Becomes, Idle
<1>6. ASSUME NEW w \in Workers, SweepQuery(w) PROVE Copies'
  BY <1>6, RowsAssumption, FieldTypes DEF TypeOK, LocOK, Operation, Copies, CopyPcs, Row,
      SweepQuery, At, Batches, ExpiredRows, Becomes, Holds, table, aux, notes, Present,
      StaleIndex, IndexRows
<1>7. ASSUME NEW w \in Workers, SweepSkip(w) PROVE Copies'
  BY <1>7, RowsAssumption, FieldTypes DEF TypeOK, LocOK, Operation, Copies, CopyPcs, Row,
      SweepSkip, At, Becomes, table, aux, notes
<1>8. ASSUME NEW w \in Workers, SweepIndexRow(w) PROVE Copies'
  BY <1>8, RowsAssumption, FieldTypes DEF TypeOK, LocOK, Operation, Copies, CopyPcs, Row,
      SweepIndexRow, At, Becomes, Holds, aux, notes
<1>9. ASSUME NEW w \in Workers, SweepRecord(w) PROVE Copies'
  <2>1. Counter \notin fresh[w]
    BY <1>9 DEF Copies, CopyPcs, SweepRecord, At
  <2>2. Counter \notin fresh'[w] /\ \A v \in Workers \ {w} : fresh'[v] \subseteq fresh[v]
    BY <1>9, <2>1 DEF SweepRecord, Holds, TypeOK
  <2> QED
    BY <1>9, <2>2, CopiesUpdate DEF SweepRecord, SweepDeleted
<1>9a. ASSUME NEW w \in Workers, SweepGone(w) PROVE Copies'
  <2>1. Counter \notin fresh[w]
    BY <1>9a DEF Copies, CopyPcs, SweepGone, At
  <2> QED
    BY <1>9a, <2>1, CopiesUpdate DEF SweepGone, SweepDeleted, table
<1>10. ASSUME NEW w \in Workers, SweepIndexOf(w) PROVE Copies'
  BY <1>10, RowsAssumption, FieldTypes DEF TypeOK, LocOK, Operation, Copies, CopyPcs, Row,
      SweepIndexOf, At, GoTo, Holds, aux, notes, Becomes
<1>11. ASSUME NEW w \in Workers, SweepDone(w) PROVE Copies'
  BY <1>11, RowsAssumption, FieldTypes DEF TypeOK, LocOK, Operation, Copies, CopyPcs, Row,
      SweepDone, At, End, Becomes, Holds, table, aux, notes, Idle
<1>12. ASSUME NEW w \in Workers, DecrementRead(w) PROVE Copies'
  BY <1>12, RowsAssumption, FieldTypes DEF TypeOK, LocOK, Operation, Copies, CopyPcs, Row,
      DecrementRead, At, Becomes, Holds, table, aux, notes
<1>13. ASSUME NEW w \in Workers, DecrementWrite(w) PROVE Copies'
  <2>1. \A v \in Workers : Counter \notin fresh'[v]
    BY <1>13 DEF DecrementWrite, DecrementDone, DecrementAgain, Holds, TypeOK
  <2> QED
    BY <2>1 DEF Copies
<1>14. ASSUME NEW w \in Workers, DecrementConflict(w) PROVE Copies'
  <2>1. Counter \notin fresh'[w] /\ \A v \in Workers \ {w} : fresh'[v] \subseteq fresh[v]
    BY <1>14, RowsAssumption, FieldTypes
    DEF DecrementConflict, DecrementAgain, Holds, At, TypeOK, Control, ControlOf, CreatePcs, CreateOnlyPcs, TgtPcs
  <2> QED
    BY <1>14, <2>1, CopiesAgain DEF DecrementConflict, DecrementAgain, table
<1>15. ASSUME NEW w \in Workers, ReadCounter(w) PROVE Copies'
  BY <1>15, RowsAssumption, FieldTypes DEF TypeOK, LocOK, Operation, Copies, CopyPcs, Row,
      ReadCounter, At, Becomes, Holds, table, aux, notes
<1>16. ASSUME NEW w \in Workers, DenyQuota(w) PROVE Copies'
  BY <1>16, RowsAssumption, FieldTypes DEF TypeOK, LocOK, Operation, Copies, CopyPcs, Row,
      DenyQuota, At, End, Holds, table, aux, notes, IndexRows, StaleIndex, Becomes, Idle, Open,
      OpenStates
<1>17. ASSUME NEW w \in Workers, Recount(w) PROVE Copies'
  BY <1>17, RowsAssumption, FieldTypes DEF TypeOK, LocOK, Operation, Copies, CopyPcs, Row,
      Recount, At, Becomes, table, IndexRows, StaleIndex, Open, OpenStates
<1>18. ASSUME NEW w \in Workers, RecountWrite(w) PROVE Copies'
  <2>1. CASE Counter \in fresh[w]
    <3>1. \A v \in Workers : Counter \notin fresh'[v]
      BY <1>18, <2>1 DEF RecountWrite, TypeOK
    <3> QED
      BY <3>1 DEF Copies
  <2>2. CASE Counter \notin fresh[w]
    <3>1. Counter \notin fresh'[w] /\ \A v \in Workers \ {w} : fresh'[v] \subseteq fresh[v]
      BY <1>18, <2>2 DEF RecountWrite, TypeOK
    <3>2. PICK l : Becomes(w, l)
      BY <1>18 DEF RecountWrite, End
    <3> QED
      BY <1>18, <2>2, <3>1, <3>2, CopiesUpdate DEF RecountWrite
  <2> QED
    BY <2>1, <2>2
<1>19. ASSUME NEW w \in Workers, Reserve(w) PROVE Copies'
  <2>1. \A v \in Workers : Counter \notin fresh'[v]
    BY <1>19 DEF Reserve, Holds, TypeOK
  <2> QED
    BY <2>1 DEF Copies
<1>20. ASSUME NEW w \in Workers, ReserveConflict(w) PROVE Copies'
  <2>1. Counter \notin fresh'[w] /\ \A v \in Workers \ {w} : fresh'[v] \subseteq fresh[v]
    BY <1>20, RowsAssumption, FieldTypes
    DEF ReserveConflict, Retry, Holds, At, TypeOK, Control, ControlOf, CreatePcs, CreateOnlyPcs, TgtPcs
  <2> QED
    BY <1>20, <2>1, CopiesAgain DEF ReserveConflict, Retry, table
<1>21. ASSUME NEW w \in Workers, ReserveDuplicate(w) PROVE Copies'
  BY <1>21, RowsAssumption, FieldTypes DEF TypeOK, LocOK, Operation, Copies, CopyPcs, Row,
      ReserveDuplicate, At, Becomes, Holds, table, aux, notes
<1>22. ASSUME NEW w \in Workers, TokenFails(w) PROVE Copies'
  BY <1>22, RowsAssumption, FieldTypes DEF TypeOK, LocOK, Operation, Copies, CopyPcs, Row,
      TokenFails, At, Becomes, table, aux, notes
<1>23. ASSUME NEW w \in Workers, PostUncertain(w) PROVE Copies'
  BY <1>23, RowsAssumption, FieldTypes DEF TypeOK, LocOK, Operation, Copies, CopyPcs, Row,
      PostUncertain, Post, At, End, table, aux, notes, Becomes, Idle
<1>24. ASSUME NEW w \in Workers, PostSucceeds(w) PROVE Copies'
  BY <1>24, RowsAssumption, FieldTypes DEF TypeOK, LocOK, Operation, Copies, CopyPcs, Row,
      PostSucceeds, Post, At, GoTo, table, aux, notes, Becomes
<1>25. ASSUME NEW w \in Workers, FinalizeRead(w) PROVE Copies'
  <2>1. Counter \notin fresh'[w] /\ \A v \in Workers \ {w} : fresh'[v] \subseteq fresh[v]
    BY <1>25, RowsAssumption DEF Copies, CopyPcs, TypeOK, FinalizeRead, At, Holds, Present
  <2> QED
    BY <1>25, <2>1, CopiesUpdate DEF FinalizeRead, GoTo, Holds, End, table
<1>26. ASSUME NEW w \in Workers, Finalize(w) PROVE Copies'
  <2>1. Counter \notin fresh'[w] /\ \A v \in Workers \ {w} : fresh'[v] \subseteq fresh[v]
    BY <1>26, RowsAssumption, FieldTypes
    DEF Finalize, Holds, At, TypeOK, Control, ControlOf, CreatePcs, CreateOnlyPcs, TgtPcs
  <2> QED
    BY <1>26, <2>1, CopiesAgain DEF Finalize, table
<1>27. ASSUME NEW w \in Workers, FinalizeConflict(w) PROVE Copies'
  <2>1. Counter \notin fresh'[w] /\ \A v \in Workers \ {w} : fresh'[v] \subseteq fresh[v]
    BY <1>27, RowsAssumption, FieldTypes
    DEF FinalizeConflict, Retry, Holds, At, TypeOK, Control, ControlOf, CreatePcs, CreateOnlyPcs, TgtPcs
  <2> QED
    BY <1>27, <2>1, CopiesAgain DEF FinalizeConflict, Retry, table
<1>28. ASSUME NEW w \in Workers, ReleaseRead(w) PROVE Copies'
  <2>1. Counter \notin fresh'[w] /\ \A v \in Workers \ {w} : fresh'[v] \subseteq fresh[v]
    BY <1>28, RowsAssumption, FieldTypes DEF LocOK, TypeOK, Operation, Copies, CopyPcs, Control, ControlOf,
        CreatePcs, ReleaseRead, At, Holds
  <2> QED
    BY <1>28, <2>1, CopiesUpdate DEF ReleaseRead, GoTo, Holds, End, table
<1>29. ASSUME NEW w \in Workers, ReleaseDelete(w) PROVE Copies'
  <2>1. Counter \notin fresh'[w] /\ \A v \in Workers \ {w} : fresh'[v] \subseteq fresh[v]
    BY <1>29 DEF ReleaseDelete, Holds, TypeOK
  <2>2. PICK l : Becomes(w, l)
    BY <1>29 DEF ReleaseDelete
  <2> QED
    BY <1>29, <2>1, <2>2, CopiesUpdate DEF ReleaseDelete, table
<1>30. ASSUME NEW w \in Workers, ReleaseConflict(w) PROVE Copies'
  <2>1. Counter \notin fresh'[w] /\ \A v \in Workers \ {w} : fresh'[v] \subseteq fresh[v]
    BY <1>30 DEF ReleaseConflict, Holds, TypeOK
  <2>2. CASE loc[w].id \in Present
    BY <1>30, <2>1, <2>2, CopiesAgain DEF ReleaseConflict, table
  <2>3. CASE loc[w].id \notin Present
    BY <1>30, <2>1, <2>3, CopiesUpdate DEF ReleaseConflict, End, table
  <2> QED
    BY <2>2, <2>3
<1>31. ASSUME NEW w \in Workers, CompleteRead(w) PROVE Copies'
  <2>1. Counter \notin fresh'[w] /\ \A v \in Workers \ {w} : fresh'[v] \subseteq fresh[v]
    BY <1>31, RowsAssumption DEF Copies, CopyPcs, TypeOK, CompleteRead, At, Holds, Open
  <2> QED
    BY <1>31, <2>1, CopiesUpdate DEF CompleteRead, GoTo, Holds, End, table
<1>32. ASSUME NEW w \in Workers, CompleteCounter(w) PROVE Copies'
  BY <1>32, RowsAssumption, FieldTypes DEF TypeOK, LocOK, Operation, Copies, CopyPcs, Row,
      CompleteCounter, At, Becomes, Holds, table, aux, notes
<1>33. ASSUME NEW w \in Workers, Complete(w) PROVE Copies'
  <2>1. \A v \in Workers : Counter \notin fresh'[v]
    BY <1>33 DEF Complete, Holds, TypeOK
  <2> QED
    BY <2>1 DEF Copies
<1>34. ASSUME NEW w \in Workers, CompleteConflict(w) PROVE Copies'
  <2>1. Counter \notin fresh'[w] /\ \A v \in Workers \ {w} : fresh'[v] \subseteq fresh[v]
    BY <1>34, RowsAssumption, FieldTypes
    DEF CompleteConflict, Retry, Holds, At, TypeOK, Control, ControlOf, CreatePcs, CreateOnlyPcs, TgtPcs
  <2> QED
    BY <1>34, <2>1, CopiesAgain DEF CompleteConflict, Retry, table
<1>35. ASSUME NEW w \in Workers, StaleNext(w) PROVE Copies'
  <2>1. PICK i \in loc[w].batch :
          Becomes(w, [loc[w] EXCEPT !.pc = "staleSubmit", !.tgt = i, !.batch = @ \ {i}, !.cnt = counter])
    BY <1>35 DEF StaleNext
  <2> DEFINE l == [loc[w] EXCEPT !.pc = "staleSubmit", !.tgt = i, !.batch = @ \ {i}, !.cnt = counter]
  <2>2. l.pc \in CopyPcs /\ l.cnt = counter
    BY FieldTypes DEF Operation, CopyPcs
  <2>3. UNCHANGED counter /\ \A v \in Workers \ {w} : fresh'[v] \subseteq fresh[v]
    BY <1>35 DEF StaleNext, Holds, table
  <2> QED
    BY <2>1, <2>2, <2>3, CopiesRead
<1>36. ASSUME NEW w \in Workers, ReleaseStale(w) PROVE Copies'
  <2>1. \A v \in Workers : Counter \notin fresh'[v]
    BY <1>36 DEF ReleaseStale, StaleContinue, Holds, TypeOK
  <2> QED
    BY <2>1 DEF Copies
<1>37. ASSUME NEW w \in Workers, StaleConflict(w) PROVE Copies'
  <2>1. Counter \notin fresh'[w] /\ \A v \in Workers \ {w} : fresh'[v] \subseteq fresh[v]
    BY <1>37 DEF StaleConflict, Holds, TypeOK, StaleContinue
  <2>2. PICK l : Becomes(w, l)
    BY <1>37 DEF StaleConflict, StaleContinue, End
  <2> QED
    BY <1>37, <2>1, <2>2, CopiesUpdate DEF StaleConflict, table
<1>38. ASSUME NEW w \in Workers, StartSweep(w) PROVE Copies'
  BY <1>38, RowsAssumption, FieldTypes DEF TypeOK, LocOK, Operation, Copies, CopyPcs, Row,
      StartSweep, At, ExpiredRows, Batches, Becomes, Idle, Holds, table, aux, notes, Present,
      StaleIndex, IndexRows
<1>39. ASSUME NEW w \in Workers, StartReleaseStale(w) PROVE Copies'
  BY <1>39, RowsAssumption, FieldTypes DEF TypeOK, LocOK, Operation, Copies, CopyPcs, Row,
      StartReleaseStale, At, Uncertain, Batches, Becomes, Idle, Holds, table, aux, notes
<1>40. ASSUME NEW w \in Workers, Abandon(w) PROVE Copies'
  <2>1. Counter \notin fresh'[w] /\ \A v \in Workers \ {w} : fresh'[v] \subseteq fresh[v]
    BY <1>40 DEF Abandon, Holds, TypeOK
  <2>2. PICK l : Becomes(w, l)
    BY <1>40 DEF Abandon, End
  <2> QED
    BY <1>40, <2>1, <2>2, CopiesUpdate DEF Abandon, table
<1>41. ASSUME NEW w \in Workers, NEW i \in Inv, StartRead(w, i) PROVE Copies'
  BY <1>41, RowsAssumption, FieldTypes DEF TypeOK, LocOK, Operation, Copies, CopyPcs, Row,
      StartRead, At, Present, Becomes, Idle, Holds, table, aux, notes
<1>42. ASSUME NEW w \in Workers, NEW i \in Inv, StartComplete(w, i) PROVE Copies'
  BY <1>42, RowsAssumption, FieldTypes DEF TypeOK, LocOK, Operation, Copies, CopyPcs, Row,
      StartComplete, At, Becomes, Idle, table, aux, notes
<1>43. ASSUME NEW w \in Workers, NEW i \in Inv, NEW k \in Keys \cup {None}, StartCreate(w, k, i) PROVE Copies'
  BY <1>43, RowsAssumption, FieldTypes DEF TypeOK, LocOK, Operation, Copies, CopyPcs, Row,
      StartCreate, At, Becomes, Idle, table, aux, notes
<1>44. ASSUME NEW i \in Inv, Age(i) PROVE Copies'
  BY <1>44, RowsAssumption, FieldTypes DEF TypeOK, LocOK, Operation, Copies, CopyPcs, Row, Age,
      Remember, aux, notes
<1>45. ASSUME NEW i \in Inv, Touch(i) PROVE Copies'
  BY <1>45, RowsAssumption, FieldTypes DEF TypeOK, LocOK, Operation, Copies, CopyPcs, Row, Touch,
      notes, Present, table
<1>46. ASSUME UNCHANGED vars PROVE Copies'
  BY <1>46 DEF vars, Copies
<1> QED
  BY <1>1, <1>2, <1>3, <1>4, <1>5, <1>6, <1>7, <1>8, <1>9, <1>9a, <1>10, <1>11, <1>12, <1>13,
      <1>14, <1>15, <1>16, <1>17, <1>18, <1>19, <1>20, <1>21, <1>22, <1>23, <1>24, <1>25,
      <1>26, <1>27, <1>28, <1>29, <1>30, <1>31, <1>32, <1>33, <1>34, <1>35, <1>36, <1>37,
      <1>38, <1>39, <1>40, <1>41, <1>42, <1>43, <1>44, <1>45, <1>46 DEF Next, Step,
      FindStep, SweepStep, DecStep, ReserveStep, PlatformStep, SettleStep, CompleteStep,
      StaleStep

(* The structural part of the invariant is inductive by itself. *)
LEMMA StructureStep ==
  ASSUME Structure, [Next]_vars
  PROVE  Structure'
<1>1. LocOK
  BY DEF Structure, TypeOK, LocOK
<1>2. LocOK'
  BY <1>1, LocStep DEF Structure
<1>3. TypeOK'
  BY <1>1, <1>2, TypeStep DEF Structure
<1>4. Control'
  BY <1>1, ControlStep DEF Structure
<1>5. Copies'
  BY <1>1, CopiesStep DEF Structure
<1> QED
  BY <1>3, <1>4, <1>5 DEF Structure

(* The initial state is well typed, and nobody is in an operation. *)
LEMMA StructureInit == Init => Structure
<1> SUFFICES ASSUME Init PROVE Structure
  OBVIOUS
<1>1. TypeOK
  <2>1. loc \in [Workers -> Operation]
    BY IdleType DEF Init
  <2>2. counter \in Nat /\ state \in [Inv -> {"free", "reserved", "active", "closed", "gone"}]
    BY DEF Init
  <2>3. age \in [Inv -> 0..3] /\ retained \subseteq Inv
    BY DEF Init
  <2>4. keyOf \in [Inv -> Keys \cup {None}] /\ index \in [Keys -> Inv \cup {None}]
    BY DEF Init
  <2>5. fresh \in [Workers -> SUBSET Row] /\ owing \subseteq Workers
    BY DEF Init
  <2>6. blind \in BOOLEAN /\ slips \in Nat /\ doubtful \subseteq Inv /\ asked \subseteq Inv
    BY DEF Init
  <2>7. faults \in 0..MaxFaults /\ touches \in 0..MaxTouches
    BY NumbersAssumption DEF Init
  <2> QED
    BY <2>1, <2>2, <2>3, <2>4, <2>5, <2>6, <2>7 DEF TypeOK
<1>2. Control
  BY DEF Init, Control, ControlOf, Idle, TgtPcs, CreateOnlyPcs, StalePcs, BatchPcs, CreatePcs,
         CompletePcs
<1>3. Copies
  BY DEF Init, Copies
<1> QED
  BY <1>1, <1>2, <1>3 DEF Structure

================================================================================
