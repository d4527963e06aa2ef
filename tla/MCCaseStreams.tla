---------------------------- MODULE MCCaseStreams ----------------------------
(* Instances of CaseStreams for TLC: a few streams over a runner with one or
   two cases. *)
EXTENDS CaseStreams

TwoStreams == 1..2
OneEnding == {"report"}
=============================================================================
