------------------------ MODULE ReconciliationTools ------------------------
(* services/tools.py: the checks the reconciliation agent calls instead of doing
   arithmetic itself.  Each is a function of its arguments; of a verdict the
   numbers are kept, its sentence is left out.

   Dates are days.  Amounts are whole units and percentages whole percents, so
   what the code divides by a hundred is kept here in hundredths, exactly: a
   Decimal is exact too, up to 28 digits. *)
EXTENDS Integers

AmountVerdict(passed, difference, bound) ==
    [passed |-> passed, difference |-> difference, permitted_maximum |-> bound]

(* The credit amount and its tolerance are a ceiling. *)
CheckAmountTolerance(credit, presented, tolerance) ==
    LET permitted == credit * (100 + tolerance)
        difference == 100 * presented - permitted
    IN  AmountVerdict(difference <= 0, difference, permitted)

(* The insured percentage of the value is a floor. *)
CheckInsuranceCoverage(goods, insured, percent) ==
    LET required == goods * percent
        difference == 100 * insured - required
    IN  AmountVerdict(difference >= 0, difference, required)

CheckDateOrder(earlier, later) ==
    [passed |-> later - earlier >= 0, days_between |-> later - earlier]

Earliest(a, b) == IF b < a THEN b ELSE a
AtLeastZero(n) == IF n > 0 THEN n ELSE 0

(* The deadline is the end of the period after shipment, or the expiry of the
   credit if that comes first. *)
CheckPresentationPeriod(shipment, expiry, presented, period) ==
    LET deadline == Earliest(shipment + period, expiry)
        late == AtLeastZero(presented - deadline)
    IN  [passed |-> late = 0, deadline |-> deadline, days_late |-> late]
=============================================================================
