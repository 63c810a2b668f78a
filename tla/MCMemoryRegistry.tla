--------------------------- MODULE MCMemoryRegistry ---------------------------
(* Instances of MemoryRegistry for TLC.                                      *)
EXTENDS MemoryRegistry

CONSTANT i3   \* an investigation made earlier

(* One investigation is active, two more may be asked for. *)
MCInit ==
  /\ state = [i \in Inv |-> IF i = i3 THEN "active" ELSE "free"]
  /\ expired = {} /\ finalized = {}
  /\ keyOf = [i \in Inv |-> None]
  /\ lock = None
  /\ loc = [t \in Threads |-> Idle]

MCSpec == MCInit /\ [][Next]_vars /\ Fairness
=============================================================================
