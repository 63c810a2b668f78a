------------------------ MODULE InvestigationLifecycle ------------------------
(***************************************************************************)
(* What the registry promises for the investigations of one caller, with   *)
(* no table, no ETag and no worker: the lifecycle of service-contract-v1.md *)
(* ("Investigation lifecycle"), the quota at admission, and the retention  *)
(* that a row outlives before it is removed.  TableRegistry implements it, *)
(* with the two exceptions the code makes: a slot may slip, and then one   *)
(* more investigation is admitted; and an activation that the registry is  *)
(* not sure of may reopen the investigation, at the price of a slot.       *)
(***************************************************************************)
EXTENDS Naturals, FiniteSets

CONSTANTS Inv, Quota

VARIABLES
  life,        \* where each investigation is in its lifecycle
  lapsed,      \* investigations whose retention has passed
  miscounted,  \* has the quota been recounted while slots were hidden?
  slips,       \* slots given back that were not free
  unsure       \* investigations whose activation may be repeated

vars == <<life, lapsed, miscounted, slips, unsure>>

OpenLives == {i \in Inv : life[i] \in {"reserved", "active"}}

Init ==
  /\ life = [i \in Inv |-> "free"]
  /\ lapsed = {}
  /\ miscounted = FALSE /\ slips = 0 /\ unsure = {}

Move(i, from, to) ==
  /\ life[i] \in from
  /\ life' = [life EXCEPT ![i] = to]
  /\ UNCHANGED miscounted

Certain == UNCHANGED <<slips, unsure>>

(* A slot is free, and the investigation takes it. *)
Admit(i) ==
  /\ miscounted \/ Cardinality(OpenLives) < Quota + slips
  /\ Move(i, {"free"}, "reserved")
  /\ Certain /\ UNCHANGED lapsed

(* The platform thread exists; the registry may be unsure of its own write. *)
Activate(i) ==
  /\ Move(i, {"reserved"}, "active")
  /\ unsure' \in {unsure, unsure \cup {i}}
  /\ UNCHANGED <<lapsed, slips>>

(* The activation is repeated after the investigation has ended. *)
Reopen(i) ==
  /\ i \in unsure
  /\ Move(i, {"closed"}, "active")
  /\ slips' = slips + 1
  /\ UNCHANGED <<lapsed, unsure>>

(* Completed, failed, or never confirmed; the final retention starts. *)
Terminate(i) ==
  Move(i, {"reserved", "active"}, "closed") /\ lapsed' = lapsed \ {i} /\ Certain

(* The platform was never asked. *)
Withdraw(i) == Move(i, {"reserved"}, "gone") /\ lapsed' = lapsed \ {i} /\ Certain

Lapse(i) ==
  /\ life[i] \in {"reserved", "active", "closed"}
  /\ lapsed' = lapsed \cup {i}
  /\ Certain /\ UNCHANGED <<life, miscounted>>

Remove(i) ==
  /\ i \in lapsed
  /\ Move(i, {"reserved", "active", "closed"}, "gone")
  /\ lapsed' = lapsed \ {i} /\ Certain

Miscount == miscounted' = TRUE /\ Certain /\ UNCHANGED <<life, lapsed>>

Slip == slips' = slips + 1 /\ UNCHANGED <<life, lapsed, miscounted, unsure>>

Next ==
  \/ \E i \in Inv : \/ Admit(i) \/ Activate(i) \/ Reopen(i) \/ Terminate(i)
                    \/ Withdraw(i) \/ Lapse(i) \/ Remove(i)
  \/ Miscount \/ Slip

Spec == Init /\ [][Next]_vars
=============================================================================
