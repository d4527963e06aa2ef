--------------------- MODULE ReconciliationToolsProofs ---------------------
(* What the reconciliation agent may rely on, whatever it passes the tools. *)
EXTENDS ReconciliationTools, TLAPS

(* The fields of the period verdict, as arithmetic. *)
LEMMA PeriodVerdict ==
    ASSUME NEW shipment \in Int, NEW expiry \in Int,
           NEW presented \in Int, NEW period \in Int
    PROVE  LET verdict == CheckPresentationPeriod(shipment, expiry, presented, period)
               deadline == Earliest(shipment + period, expiry)
           IN  /\ verdict.deadline = deadline
               /\ verdict.days_late = AtLeastZero(presented - deadline)
               /\ verdict.passed <=> AtLeastZero(presented - deadline) = 0
  BY DEF CheckPresentationPeriod

(* The deadline is the earlier of the two. *)
LEMMA DeadlineIsEarliest ==
    ASSUME NEW a \in Int, NEW b \in Int
    PROVE  /\ Earliest(a, b) \in Int
           /\ \A day \in Int : day <= Earliest(a, b) <=> day <= a /\ day <= b
  BY DEF Earliest

LEMMA LateIsWhatIsPast ==
    ASSUME NEW n \in Int
    PROVE  /\ AtLeastZero(n) \in Nat
           /\ \A days \in Nat : AtLeastZero(n - days) = 0 <=> days >= AtLeastZero(n)
           /\ AtLeastZero(n) = 0 <=> n <= 0
  BY DEF AtLeastZero

(* A presentation is in time exactly when it is made within the period after
   shipment and no later than the expiry of the credit (Art 14(c), as
   check_presentation_period states it), a day on either deadline included. *)
THEOREM InTimeForBothDeadlines ==
    ASSUME NEW shipment \in Int, NEW expiry \in Int,
           NEW presented \in Int, NEW period \in Int
    PROVE  CheckPresentationPeriod(shipment, expiry, presented, period).passed
           <=> presented <= shipment + period /\ presented <= expiry
<1> DEFINE deadline == Earliest(shipment + period, expiry)
<1>1. deadline \in Int
      /\ (presented <= deadline <=> presented <= shipment + period /\ presented <= expiry)
  BY DeadlineIsEarliest
<1>2. CheckPresentationPeriod(shipment, expiry, presented, period).passed
      <=> AtLeastZero(presented - deadline) = 0
  BY PeriodVerdict
<1> HIDE DEF deadline
<1>3. presented - deadline \in Int
  BY <1>1
<1>4. AtLeastZero(presented - deadline) = 0 <=> presented - deadline <= 0
  BY <1>3, LateIsWhatIsPast
<1> QED
  BY <1>1, <1>2, <1>4

(* The days it is late by are the days it should have been made earlier: so many
   suffice, and no fewer would. *)
THEOREM DaysLateAreTheFewest ==
    ASSUME NEW shipment \in Int, NEW expiry \in Int,
           NEW presented \in Int, NEW period \in Int, NEW earlier \in Nat
    PROVE  CheckPresentationPeriod(shipment, expiry, presented - earlier, period).passed
           <=> earlier >= CheckPresentationPeriod(shipment, expiry, presented,
                                                  period).days_late
<1> DEFINE deadline == Earliest(shipment + period, expiry)
<1>1. deadline \in Int
  BY DeadlineIsEarliest
<1>2. CheckPresentationPeriod(shipment, expiry, presented - earlier, period).passed
      <=> AtLeastZero((presented - earlier) - deadline) = 0
  BY presented - earlier \in Int, PeriodVerdict
<1>3. CheckPresentationPeriod(shipment, expiry, presented, period).days_late
      = AtLeastZero(presented - deadline)
  BY PeriodVerdict
<1> HIDE DEF deadline
<1>4. presented - deadline \in Int
      /\ (presented - earlier) - deadline = (presented - deadline) - earlier
  BY <1>1
<1>5. AtLeastZero((presented - deadline) - earlier) = 0
      <=> earlier >= AtLeastZero(presented - deadline)
  BY <1>4, LateIsWhatIsPast
<1> QED
  BY <1>2, <1>3, <1>4, <1>5

(* The two date checks agree: a presentation is in time exactly when it is in
   order before the deadline the period check names. *)
THEOREM DateChecksAgree ==
    ASSUME NEW shipment \in Int, NEW expiry \in Int,
           NEW presented \in Int, NEW period \in Int
    PROVE  LET verdict == CheckPresentationPeriod(shipment, expiry, presented, period)
           IN  verdict.passed <=> CheckDateOrder(presented, verdict.deadline).passed
<1> DEFINE deadline == Earliest(shipment + period, expiry)
<1>1. deadline \in Int
  BY DeadlineIsEarliest
<1>2. LET verdict == CheckPresentationPeriod(shipment, expiry, presented, period)
      IN  /\ verdict.deadline = deadline
          /\ verdict.passed <=> AtLeastZero(presented - deadline) = 0
  BY PeriodVerdict
<1> HIDE DEF deadline
<1>3. presented - deadline \in Int
  BY <1>1
<1>4. AtLeastZero(presented - deadline) = 0 <=> presented - deadline <= 0
  BY <1>3, LateIsWhatIsPast
<1>5. CheckDateOrder(presented, deadline).passed <=> deadline - presented >= 0
  BY DEF CheckDateOrder
<1>6. presented - deadline <= 0 <=> deadline - presented >= 0
  BY <1>1
<1> QED
  BY <1>2, <1>4, <1>5, <1>6

(* The verdicts on amounts, as arithmetic. *)
LEMMA AmountVerdicts ==
    ASSUME NEW value \in Int, NEW amount \in Int, NEW percent \in Int
    PROVE  /\ CheckAmountTolerance(value, amount, percent).passed
              <=> 100 * amount - value * (100 + percent) <= 0
           /\ CheckInsuranceCoverage(value, amount, percent).passed
              <=> 100 * amount - value * percent >= 0
  BY DEF CheckAmountTolerance, CheckInsuranceCoverage, AmountVerdict

(* Without a stated tolerance the credit amount is a hard ceiling. *)
THEOREM NoToleranceIsAHardCeiling ==
    ASSUME NEW credit \in Int, NEW presented \in Int
    PROVE  CheckAmountTolerance(credit, presented, 0).passed <=> presented <= credit
  BY AmountVerdicts

(* A wider tolerance never refuses what a narrower one allows. *)
THEOREM WiderToleranceAllowsMore ==
    ASSUME NEW credit \in Nat, NEW presented \in Int,
           NEW narrow \in Int, NEW wide \in Int, narrow <= wide,
           CheckAmountTolerance(credit, presented, narrow).passed
    PROVE  CheckAmountTolerance(credit, presented, wide).passed
<1>1. PICK n \in Nat : wide = narrow + n
  <2>1. wide - narrow \in Nat /\ wide = narrow + (wide - narrow)
    OBVIOUS
  <2> QED
    BY <2>1
<1>2. credit * n \in Nat
  OBVIOUS
<1>3. credit * (100 + wide) = credit * (100 + narrow) + credit * n
  BY <1>1
<1>4. credit * (100 + narrow) \in Int
  OBVIOUS
<1>5. 100 * presented - credit * (100 + narrow) <= 0
  BY AmountVerdicts
<1>6. 100 * presented - credit * (100 + wide) <= 0
  BY <1>2, <1>3, <1>4, <1>5
<1> QED
  BY <1>6, AmountVerdicts

(* The insurance check is the tolerance check inverted: at the percentage the
   ceiling stands for, one amount and no other satisfies both, the one that
   meets floor and ceiling exactly. *)
THEOREM FloorMirrorsCeiling ==
    ASSUME NEW value \in Int, NEW amount \in Int, NEW tolerance \in Int
    PROVE  /\ CheckInsuranceCoverage(value, amount, 100 + tolerance).passed
              \/ CheckAmountTolerance(value, amount, tolerance).passed
           /\ (/\ CheckInsuranceCoverage(value, amount, 100 + tolerance).passed
               /\ CheckAmountTolerance(value, amount, tolerance).passed)
              <=> 100 * amount = value * (100 + tolerance)
<1>1. value * (100 + tolerance) \in Int
  OBVIOUS
<1>2. 100 + tolerance \in Int
  OBVIOUS
<1>3. CheckInsuranceCoverage(value, amount, 100 + tolerance).passed
      <=> 100 * amount - value * (100 + tolerance) >= 0
  BY <1>2, AmountVerdicts
<1>4. CheckAmountTolerance(value, amount, tolerance).passed
      <=> 100 * amount - value * (100 + tolerance) <= 0
  BY AmountVerdicts
<1> QED
  BY <1>1, <1>3, <1>4
=============================================================================
