-------------------------- MODULE MCFineCalculator --------------------------
(* A loan with every due date, looked at every instant as time passes.      *)
EXTENDS FineCalculator, FiniteSets

CONSTANT MaxTime

ASSUME MaxTimeAssumption == MaxTime \in Nat

VARIABLES due_date, reference_date

Init == due_date \in 0 .. MaxTime /\ reference_date = 0

Next ==
  /\ reference_date < MaxTime
  /\ reference_date' = reference_date + 1
  /\ UNCHANGED due_date

Spec == Init /\ [][Next]_<<due_date, reference_date>>

(* The days late are the midnights that passed after the due date: zero     *)
(* until the first of them, even for a loan that is already overdue to      *)
(* list_overdue, which compares the instants alone.                         *)
DaysLateCountMidnights ==
  CalculateDaysLate(due_date, reference_date) =
    Cardinality({t \in due_date + 1 .. reference_date : t % TicksPerDay = 0})

(* A fine never shrinks as time passes and grows by one day's amount at     *)
(* most, so a payment made today leaves at most the days since to be paid.  *)
FineGrowsByTheDay ==
  [][CalculateAmount(due_date, reference_date') - CalculateAmount(due_date, reference_date)
       \in {0, DAILY_FINE_AMOUNT}]_<<due_date, reference_date>>
=============================================================================
