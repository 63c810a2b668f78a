---------------------------- MODULE MCCallerPolicy ----------------------------
(* Instances of CallerPolicy for TLC.                                        *)
EXTENDS CallerPolicyInvariants
=============================================================================
