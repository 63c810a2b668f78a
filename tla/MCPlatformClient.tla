--------------------------- MODULE MCPlatformClient ---------------------------
(* Instances of PlatformClient for TLC.                                      *)
EXTENDS PlatformClientInvariants, TLC

(* Calls of one kind are interchangeable. *)
SymCalls == Permutations(Calls \ Background)
=============================================================================
