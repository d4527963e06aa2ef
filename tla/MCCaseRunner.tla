---------------------------- MODULE MCCaseRunner ----------------------------
(* Instances of CaseRunner for TLC. *)
EXTENDS CaseRunner, TLC

\* A report, a refusal of the case, and pydantic_ai's own cancellation.
SomeEndings == {"report", "ValueError", "RunCancelled"}
TwoEndings == {"report", "ValueError"}
OneEnding == {"report"}

IdSymmetry == Permutations(CaseIds)
=============================================================================
