----------------------------- MODULE MCCaseGraph -----------------------------
(* Instances of CaseGraph for TLC: three documents that may be presented, two
   at most accepted. *)
EXTENDS CaseGraph

OneCost == {1}
TwoCosts == {1, 2}
=============================================================================
