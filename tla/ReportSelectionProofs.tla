------------------------ MODULE ReportSelectionProofs ------------------------
(***************************************************************************)
(* Whatever sequence of messages the agent wrote: a best message exists,   *)
(* and the three properties of the selection hold.                         *)
(***************************************************************************)
EXTENDS ReportSelection, WellFoundedInduction, TLAPS

USE RequireTokenAssumption

LessThan == {p \in Nat \X Nat : p[1] < p[2]}

LEMMA Minimum ==
  ASSUME NEW S \in SUBSET Nat, S # {}
  PROVE  \E x \in S : \A y \in S : x <= y
<1>1. IsWellFoundedOn(LessThan, Nat)
  BY NatLessThanWellFounded DEF LessThan, OpToRel
<1>2. PICK x \in S : \A y \in S : <<y, x>> \notin LessThan
  BY <1>1, WFMin, Zenon
<1>3. ASSUME NEW y \in S PROVE x <= y
  <2>1. <<y, x>> \in Nat \X Nat /\ <<y, x>> \notin LessThan
    BY <1>2
  <2> QED
    BY <2>1 DEF LessThan
<1> QED
  BY <1>3

(* Induction up to a bound, for the numbers in a set. *)
LEMMA Induction ==
  ASSUME NEW N \in Nat, NEW S, 0 \in S, \A n \in 1..N : n - 1 \in S => n \in S
  PROVE  \A n \in 0..N : n \in S
<1> SUFFICES ASSUME (0..N) \ S # {} PROVE FALSE
  OBVIOUS
<1>1. (0..N) \ S \in SUBSET Nat
  OBVIOUS
<1>2. PICK n \in (0..N) \ S : \A m \in (0..N) \ S : n <= m
  BY <1>1, Minimum
<1>3. n # 0 /\ n \in 1..N
  BY <1>2
<1>4. n - 1 \in S
  BY <1>2, <1>3
<1> QED
  BY <1>2, <1>3, <1>4

-----------------------------------------------------------------------------
(* The weights: a JSON report outweighs every text without the token, and    *)
(* what ends with the token outweighs every message that does not mention it. *)
LEMMA Weights ==
  ASSUME NEW m \in Message
  PROVE  /\ Score(m) \in Int /\ Score(m) <= 1000
         /\ m.token = "none" => Score(m) <= 325
         /\ m.token = "last" => Score(m) >= 490
<1>1. PhrasePoints(m) \in Int /\ 0 <= PhrasePoints(m) /\ PhrasePoints(m) <= 310
  <2> DEFINE a == Points(m, "escalation response", 100)
             b == Points(m, "findings", 90)
             c == Points(m, "root cause", 30)
             d == Points(m, "evidence", 25)
             e == Points(m, "recommended actions", 25)
             f == Points(m, "verdict", 20)
             g == Points(m, "escalated by", 10)
             h == Points(m, "reported symptom", 10)
  <2>1. /\ a \in {0, 100}
        /\ b \in {0, 90}
        /\ c \in {0, 30}
        /\ d \in {0, 25}
        /\ e \in {0, 25}
        /\ f \in {0, 20}
        /\ g \in {0, 10}
        /\ h \in {0, 10}
    BY Zenon DEF Points
  <2>2. PhrasePoints(m) = a + b + c + d + e + f + g + h
    BY DEF PhrasePoints
  <2> HIDE DEF a, b, c, d, e, f, g, h
  <2> QED
    BY <2>1, <2>2
<1>2. LengthPoints(m) \in Int /\ -10 <= LengthPoints(m) /\ LengthPoints(m) <= 15
  BY DEF LengthPoints
<1>3. CASE m.json /\ m.token = "last"
  BY <1>3 DEF Score, JsonWeight
<1>4. CASE ~(m.json /\ m.token = "last")
  <2>1. Score(m) = (IF m.token = "none" THEN 0 ELSE 500) + PhrasePoints(m) + LengthPoints(m)
    BY <1>4 DEF Score, TokenWeight
  <2> HIDE DEF Score
  <2>2. CASE m.token = "none"
    <3>1. Score(m) = 0 + PhrasePoints(m) + LengthPoints(m)
      BY <2>1, <2>2
    <3> QED
      BY <1>1, <1>2, <2>2, <3>1
  <2>3. CASE m.token # "none"
    <3>1. Score(m) = 500 + PhrasePoints(m) + LengthPoints(m)
      BY <2>1, <2>3
    <3> QED
      BY <1>1, <1>2, <2>3, <3>1
  <2> QED
    BY <2>2, <2>3
<1> QED
  BY <1>3, <1>4

(* There is a best message, and no other. *)
LEMMA BestExists ==
  ASSUME NEW msgs \in Seq(Message), msgs # <<>>
  PROVE  /\ IsBest(msgs, Best(msgs))
         /\ \A i \in DOMAIN msgs : IsBest(msgs, i) => i = Best(msgs)
<1>1. \A i \in DOMAIN msgs : msgs[i] \in Message /\ Score(msgs[i]) \in Int /\ Score(msgs[i]) <= 1000
  BY Weights
<1>2. DOMAIN msgs = 1..Len(msgs) /\ Len(msgs) \in Nat /\ DOMAIN msgs # {}
  OBVIOUS
<1> DEFINE Gap(i) == 1000 - Score(msgs[i])
           Gaps   == {Gap(i) : i \in DOMAIN msgs}
<1>3. PICK a \in DOMAIN msgs : \A j \in DOMAIN msgs : Score(msgs[j]) <= Score(msgs[a])
  <2>1. Gaps \in SUBSET Nat /\ Gaps # {}
    BY <1>1, <1>2
  <2>2. PICK g \in Gaps : \A h \in Gaps : g <= h
    BY <2>1, Minimum
  <2>3. PICK i \in DOMAIN msgs : g = Gap(i)
    BY <2>2
  <2>4. \A j \in DOMAIN msgs : Gap(i) <= Gap(j)
    BY <2>2, <2>3
  <2> QED
    BY <1>1, <2>3, <2>4
<1> DEFINE Equals == {i \in DOMAIN msgs : Score(msgs[i]) = Score(msgs[a])}
           Ages   == {Len(msgs) - i : i \in Equals}
<1>4. PICK b \in Equals : \A j \in Equals : j <= b
  <2>1. Ages \in SUBSET Nat /\ Ages # {}
    BY <1>2
  <2>2. PICK g \in Ages : \A h \in Ages : g <= h
    BY <2>1, Minimum
  <2>3. PICK i \in Equals : g = Len(msgs) - i
    BY <2>2
  <2>4. \A j \in Equals : Len(msgs) - i <= Len(msgs) - j
    BY <2>2, <2>3
  <2>5. \A j \in Equals : j \in Int /\ j <= i
    BY <1>2, <2>4
  <2> QED
    BY <2>5
<1>5. IsBest(msgs, b)
  <2> SUFFICES ASSUME NEW j \in DOMAIN msgs \ {b} PROVE Outranks(msgs, b, j)
    BY DEF IsBest
  <2>1. CASE j \in Equals
    BY <1>2, <1>4, <2>1 DEF Outranks
  <2>2. CASE j \notin Equals
    BY <1>1, <1>3, <1>4, <2>2 DEF Outranks
  <2> QED
    BY <2>1, <2>2
<1>6. IsBest(msgs, Best(msgs))
  BY <1>4, <1>5 DEF Best
<1>7. ASSUME NEW i \in DOMAIN msgs, NEW j \in DOMAIN msgs, IsBest(msgs, i), IsBest(msgs, j), i # j
      PROVE  FALSE
  <2>1. Outranks(msgs, i, j) /\ Outranks(msgs, j, i)
    BY <1>7 DEF IsBest
  <2> QED
    BY <1>1, <1>2, <2>1 DEF Outranks
<1>8. Best(msgs) \in DOMAIN msgs
  BY <1>6 DEF IsBest
<1> QED
  BY <1>6, <1>7, <1>8

(* What is selected of some messages. *)
LEMMA Selection ==
  ASSUME NEW msgs \in Seq(Message), msgs # <<>>
  PROVE  LET i == Best(msgs)
         IN  /\ i \in DOMAIN msgs /\ msgs[i] \in Message
             /\ \A j \in DOMAIN msgs : Score(msgs[j]) <= Score(msgs[i])
             /\ Selected(msgs).score = Score(msgs[i])
             /\ Score(msgs[i]) >= Structured =>
                  Selected(msgs).text = msgs[i] /\ Selected(msgs).strategy = "best"
             /\ Score(msgs[i]) < Structured =>
                  Selected(msgs).text = Composite(msgs) /\ Selected(msgs).strategy = "composite"
<1> DEFINE i == Best(msgs)
<1>1. i \in DOMAIN msgs /\ \A j \in DOMAIN msgs \ {i} : Outranks(msgs, i, j)
  BY BestExists DEF IsBest
<1>2. \A j \in DOMAIN msgs : msgs[j] \in Message /\ Score(msgs[j]) \in Int
  BY Weights
<1> HIDE DEF i
<1>3. \A j \in DOMAIN msgs : Score(msgs[j]) <= Score(msgs[i])
  BY <1>1, <1>2 DEF Outranks
<1> QED
  BY <1>1, <1>2, <1>3 DEF Selected, Structured, i

-----------------------------------------------------------------------------
(* Messages that are put together because none is structured never count as  *)
(* the final report (select_best_summary_text, is_finalized_summary).        *)
THEOREM CompositeTheorem ==
  ASSUME NEW msgs \in Seq(Message) PROVE CompositeIsNotFinal(msgs)
<1>1. CASE msgs = <<>>
  BY <1>1 DEF CompositeIsNotFinal, Selected
<1>2. CASE msgs # <<>>
  <2> SUFFICES ASSUME Selected(msgs).strategy = "composite" PROVE ~IsFinalized(Selected(msgs))
    BY DEF CompositeIsNotFinal
  <2>1. /\ Selected(msgs).text = Composite(msgs) /\ Selected(msgs).score < Structured
        /\ \A j \in DOMAIN msgs : Score(msgs[j]) < 490
    BY <1>2, Selection, Weights DEF Structured
  <2>2. \A j \in DOMAIN msgs : msgs[j].token # "last"
    BY <2>1, Weights
  <2>3. Len(msgs) \in DOMAIN msgs
    BY <1>2
  <2>4. Composite(msgs).token # "last"
    BY <2>2, <2>3 DEF Composite, NoText
  <2>5. Selected(msgs).score \in Int
    BY <1>2, Selection, Weights
  <2> QED
    BY <2>1, <2>4, <2>5 DEF IsFinalized, Structured, Composite, NoText
<1> QED
  BY <1>1, <1>2

(* The one message that mentions the token, if its findings can be given, is *)
(* selected, final and parsed: no number of structured drafts outranks it    *)
(* (summary_candidate_score).                                                *)
THEOREM OneReportTheorem ==
  ASSUME NEW msgs \in Seq(Message) PROVE OneReportIsFound(msgs)
<1> SUFFICES ASSUME NEW i \in DOMAIN msgs, Presentable(msgs[i]),
                    \A j \in DOMAIN msgs \ {i} : msgs[j].token = "none"
             PROVE  SummaryOf(msgs) = "completed" /\ Selected(msgs).text = msgs[i]
  BY DEF OneReportIsFound
<1>1. msgs # <<>> /\ msgs[i].token = "last" /\ msgs[i] \in Message
  BY DEF Presentable, Parses, ParsesJson, ParsesMarkdown
<1>2. Score(msgs[i]) >= 490 /\ Score(msgs[i]) \in Int
  BY <1>1, Weights
<1>3. \A j \in DOMAIN msgs \ {i} : Score(msgs[j]) <= 325 /\ Score(msgs[j]) \in Int
  BY Weights
<1>4. Best(msgs) = i
  <2>1. \A j \in DOMAIN msgs \ {i} : Outranks(msgs, i, j)
    BY <1>2, <1>3 DEF Outranks
  <2> QED
    BY <1>1, <2>1, BestExists DEF IsBest
<1>5. Selected(msgs).text = msgs[i] /\ Selected(msgs).score = Score(msgs[i])
  BY <1>1, <1>2, <1>4, Selection DEF Structured
<1>6. IsFinalized(Selected(msgs))
  BY <1>1, <1>2, <1>5 DEF IsFinalized, Structured
<1>7. Parses(Redacted(Selected(msgs).text))
  BY <1>5 DEF Presentable
<1> QED
  BY <1>1, <1>5, <1>6, <1>7 DEF SummaryOf

(* Findings are delivered only of one message, that ends with the token and  *)
(* whose findings can be given, redacted or not (parse_finalized_findings).  *)
THEOREM FindingsTheorem ==
  ASSUME NEW msgs \in Seq(Message) PROVE FindingsComeFromReport(msgs)
<1> SUFFICES ASSUME SummaryOf(msgs) = "completed" PROVE \E i \in DOMAIN msgs : Presentable(msgs[i])
  BY DEF FindingsComeFromReport
<1>1. /\ msgs # <<>> /\ IsFinalized(Selected(msgs))
      /\ Parses(Redacted(Selected(msgs).text))
  BY DEF SummaryOf
<1>2. Selected(msgs).strategy # "composite"
  BY <1>1, CompositeTheorem DEF CompositeIsNotFinal
<1>3. Best(msgs) \in DOMAIN msgs /\ msgs[Best(msgs)] \in Message
      /\ Selected(msgs).text = msgs[Best(msgs)]
  BY <1>1, <1>2, Selection, Weights DEF Structured
<1>4. Presentable(msgs[Best(msgs)])
  BY <1>1, <1>3 DEF Presentable, Parses, ParsesJson, ParsesMarkdown, Redacted, Message
<1> QED
  BY <1>3, <1>4
=============================================================================
