------------------------ MODULE MCInvestigationPolling ------------------------
(* Instances of InvestigationPolling for TLC.  The table starts as one of    *)
(* five: two callers poll row 1; one does, from before its thread exists, and *)
(* calls fail; one does while a replica sweeps; two replicas sweep two rows  *)
(* whose callers have used up their polls; row 1 is closed, and its thread   *)
(* holds any four messages.                                                  *)
EXTENDS InvestigationPolling, TLC

CONSTANTS q1, q2, r1, r2

M(token, marks, length) ==
  [agent |-> TRUE, json |-> FALSE, token |-> token, marks |-> marks, length |-> length,
   complete |-> FALSE, garbled |-> FALSE]

Headings == {"escalation response", "findings", "root cause", "evidence"}

Prompt  == [M("none", {"findings"}, 200) EXCEPT !.agent = FALSE]
Note    == M("none", {}, 200)
Draft   == M("none", Headings, 1200)
Quote   == M("inside", Headings, 1200)
Report  == [M("last", Headings, 600) EXCEPT !.complete = TRUE]
Stub    == M("last", {}, 100)
Json    == [M("last", {}, 700) EXCEPT !.json = TRUE]
Secret  == [Json EXCEPT !.garbled = TRUE]

Messages == {Prompt, Note, Draft, Quote, Report, Stub, Json, Secret}

MCThreads == [i \in Inv |-> IF i = 1 THEN {<<Report>>} ELSE {}]
MCReports == [i \in Inv |-> IF i = 1 THEN {"failed"} ELSE {"completed"}]

Rows(s)    == state = [i \in Inv |-> IF i \in DOMAIN s THEN s[i] ELSE "gone"]
Left(a, b) == polls = [i \in Inv |-> [k \in Kinds |-> MaxPolls - IF k = "status" THEN a ELSE b]]
Team(S)    == loc = [w \in Workers |-> IF w \in S THEN Idle ELSE Off]
Thread(p, words) == posts = [i \in Inv |-> p] /\ signals = [i \in Inv |-> words]

MCInit ==
  /\ \/ /\ Rows(<<"active">>) /\ Thread(<<>>, {})
        /\ Team({q1, q2}) /\ (Left(1, 0) \/ Left(0, 2)) /\ faults = MaxFaults /\ creating = {}
     \/ /\ Rows(<<"reserved">>) /\ Thread(<<>>, {})
        /\ Team({q1}) /\ (Left(1, 0) \/ Left(0, 1)) /\ faults = 0 /\ creating = {1}
     \/ /\ Rows(<<"active">>) /\ Thread(<<>>, {})
        /\ Team({q1, r1}) /\ Left(1, 1) /\ faults = MaxFaults /\ creating = {}
     \/ /\ Rows(<<"active", "active">>) /\ Thread(<<Note>>, {})
        /\ Team({r1, r2}) /\ Left(0, 0) /\ faults = 0 /\ creating = {}
     \/ /\ Rows(<<"completed">>) /\ \E p \in [1..4 -> Messages] : Thread(p, {"completed"})
        /\ Team({}) /\ Left(0, 0) /\ faults = MaxFaults /\ creating = {}
  /\ Init

MCSpec == MCInit /\ [][Next]_vars /\ Fairness
=============================================================================
