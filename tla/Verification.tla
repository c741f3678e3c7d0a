---------------------------- MODULE Verification ----------------------------
(***************************************************************************)
(* aep.verification.service and the parts of ExecutionEvidence it reads.   *)
(* An evidence is a record with at least a status and an error.            *)
(***************************************************************************)

\* The error of an evidence that has none (None in the code).
NoError == "none"

VerificationVerdict == {"verified", "failed"}

\* VerificationService.verify.  The expected effects are not consulted, and
\* side effects are reported without changing the verdict.
Verdict(evidence) ==
  IF evidence.status = "success" /\ evidence.error = NoError
  THEN "verified" ELSE "failed"

\* ActionExecutionEngine._denied_evidence: the status is also the error.
DeniedEvidence(status) == [status |-> status, error |-> status]
=============================================================================
