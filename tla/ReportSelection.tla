--------------------------- MODULE ReportSelection ---------------------------
(***************************************************************************)
(* output_validation.py: which of the agent's messages is taken for the    *)
(* final report, when it counts as final, and when its findings can be     *)
(* given to the caller.                                                    *)
(*                                                                         *)
(* A message is what the code looks for in it, not its text:               *)
(*   agent     its author is the SRE agent                                 *)
(*   json      the text validates as a LiaisonFinalReport                  *)
(*   token     the finalization token: not there, somewhere in the text,   *)
(*             or where it makes the report final (the last line of a text, *)
(*             the token field of a JSON report)                           *)
(*   marks     the phrases that score, found in the text                   *)
(*   length    its number of characters                                    *)
(*   complete  a text with the four sections, each filled, and a verdict    *)
(*             that is allowed                                             *)
(*   garbled   redaction removes part of the structure that makes it parse  *)
(***************************************************************************)
EXTENDS Integers, Sequences

CONSTANT RequireToken   \* REQUIRE_FINALIZATION_TOKEN

ASSUME RequireTokenAssumption == RequireToken \in BOOLEAN

Marks == {"escalation response", "findings", "root cause", "evidence",
          "recommended actions", "verdict", "escalated by", "reported symptom"}

Message == [agent : BOOLEAN, json : BOOLEAN, token : {"none", "inside", "last"},
            marks : SUBSET Marks, length : Nat, complete : BOOLEAN, garbled : BOOLEAN]

(* The empty string, of which neither score nor parse finds anything. *)
NoText == [agent |-> TRUE, json |-> FALSE, token |-> "none", marks |-> {},
           length |-> 0, complete |-> FALSE, garbled |-> FALSE]

-----------------------------------------------------------------------------
(* summary_candidate_score                                                   *)

Points(m, mark, weight) == IF mark \in m.marks THEN weight ELSE 0

LengthPoints(m) ==
  IF m.length >= 1200 THEN 15 ELSE IF m.length >= 600 THEN 8
  ELSE IF m.length < 160 THEN -10 ELSE 0

PhrasePoints(m) ==
    Points(m, "escalation response", 100) + Points(m, "findings", 90)
  + Points(m, "root cause", 30)           + Points(m, "evidence", 25)
  + Points(m, "recommended actions", 25)  + Points(m, "verdict", 20)
  + Points(m, "escalated by", 10)         + Points(m, "reported symptom", 10)

TokenWeight == 500

(* Mutant of JsonWeight: a JSON report counts as little as a few headings. *)
LightJsonWeight == 200

JsonWeight == 600

Score(m) ==
  IF m.json /\ m.token = "last" THEN JsonWeight
  ELSE (IF m.token = "none" THEN 0 ELSE TokenWeight) + PhrasePoints(m) + LengthPoints(m)

-----------------------------------------------------------------------------
(* select_best_summary_text: the highest score, of equals the latest, unless *)
(* none is structured, when the last three are put together.                 *)

Outranks(msgs, i, j) ==
  \/ Score(msgs[i]) > Score(msgs[j])
  \/ Score(msgs[i]) = Score(msgs[j]) /\ i > j

IsBest(msgs, i) ==
  i \in DOMAIN msgs /\ \A j \in DOMAIN msgs \ {i} : Outranks(msgs, i, j)

Best(msgs) == CHOOSE i \in DOMAIN msgs : IsBest(msgs, i)

Recent(msgs) == {i \in DOMAIN msgs : i + 3 > Len(msgs)}

(* A single message stays what it is; the sections of several that are put   *)
(* together are never parsed (see CompositeIsNotFinal).                      *)
Composite(msgs) ==
  IF Len(msgs) = 1 THEN msgs[1]
  ELSE [NoText EXCEPT
         !.token = IF msgs[Len(msgs)].token = "last" /\ ~msgs[Len(msgs)].json THEN "last"
                   ELSE IF \E i \in Recent(msgs) : msgs[i].token # "none" THEN "inside"
                   ELSE "none",
         !.marks = UNION {msgs[i].marks : i \in Recent(msgs)}]

Structured == 40

Selected(msgs) ==
  IF msgs = <<>> THEN [score |-> -1, text |-> NoText, strategy |-> "none"]
  ELSE LET best == msgs[Best(msgs)]
       IN  IF Score(best) >= Structured
           THEN [score |-> Score(best), text |-> best, strategy |-> "best"]
           ELSE [score |-> Score(best), text |-> Composite(msgs), strategy |-> "composite"]

-----------------------------------------------------------------------------
(* is_finalized_summary *)
IsFinalized(s) ==
  IF s.text.json THEN s.text.token = "last"
  ELSE IF RequireToken THEN s.text.token = "last"
  ELSE s.score >= Structured

(* redact_sensitive_text: a credential-shaped value is replaced up to the  *)
(* next blank or comma, together with the quotes and brackets after it or  *)
(* a heading on the next line.                                             *)
Redacted(m) == IF m.garbled THEN [m EXCEPT !.json = FALSE, !.complete = FALSE] ELSE m

(* parse_finalized_findings: JSON, or the Markdown of before the JSON rollout. *)
ParsesJson(m)     == m.json /\ m.token = "last"
ParsesMarkdown(m) == m.complete /\ m.token = "last"
Parses(m)         == ParsesJson(m) \/ ParsesMarkdown(m)

(* What get_summary makes of the agent's messages. *)
SummaryOf(msgs) ==
  IF msgs = <<>> THEN "pending"
  ELSE IF ~IsFinalized(Selected(msgs)) THEN "running"
  ELSE IF Parses(Redacted(Selected(msgs).text)) THEN "completed" ELSE "rejected"

-----------------------------------------------------------------------------
(* A report whose findings a caller is to have. *)
Presentable(m) == Parses(m) /\ Parses(Redacted(m))

(* Whatever the messages are: messages put together are never taken for a    *)
(* final report, so that findings come from one message (the fallback of      *)
(* select_best_summary_text feeds is_finalized_summary).                       *)
CompositeIsNotFinal(msgs) == Selected(msgs).strategy = "composite" => ~IsFinalized(Selected(msgs))

(* If one message alone mentions the token and its findings can be given, it  *)
(* is the one that is selected, wherever it stands and however structured the *)
(* others are (the weights of summary_candidate_score).                       *)
OneReportIsFound(msgs) ==
  \A i \in DOMAIN msgs :
    (Presentable(msgs[i]) /\ \A j \in DOMAIN msgs \ {i} : msgs[j].token = "none")
      => SummaryOf(msgs) = "completed" /\ Selected(msgs).text = msgs[i]

(* Findings are given only of a message that ends with the token and parses. *)
FindingsComeFromReport(msgs) ==
  SummaryOf(msgs) = "completed" => \E i \in DOMAIN msgs : Presentable(msgs[i])
=============================================================================
