----------------------- MODULE PlatformClientInvariants -----------------------
(***************************************************************************)
(* The inductive strengthening of PlatformClient's safety properties.      *)
(***************************************************************************)
EXTENDS PlatformClient

(* An open circuit has reached the threshold, so that a late failure, which  *)
(* clears the flag of the probe, starts the recovery time again; and a call  *)
(* admitted since then is a probe whose flag is still set.                   *)
CircuitOK ==
  /\ opened = "no" => admitted = 0
  /\ opened # "no" => failures = Threshold
  /\ admitted > 0 => admitted = 1 /\ probing
  /\ opened = "no" => ~probing

(* A call counts its attempts only while another is allowed. *)
AttemptsOK == \A c \in Calls :
  /\ call[c].attempt < MaxAttempts
  /\ call[c].pc = "backoff" => call[c].attempt + 1 < MaxAttempts

ClientInv == TypeOK /\ CircuitOK /\ AttemptsOK /\ PermitsKept
=============================================================================
