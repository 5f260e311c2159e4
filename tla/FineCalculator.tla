--------------------------- MODULE FineCalculator ---------------------------
(* Days late and fines (domain/loans/services/fine_calculator.py).          *)
(* A datetime is a natural number of ticks; a calendar day has TicksPerDay  *)
(* of them, so Date truncates a datetime the way datetime.date() does.      *)
EXTENDS Naturals

CONSTANT TicksPerDay

ASSUME TicksPerDayAssumption == TicksPerDay \in Nat \ {0}

DAILY_FINE_AMOUNT == 2

Date(t) == t \div TicksPerDay

(* timedelta(days=n) *)
Days(n) == n * TicksPerDay

(* Faulty variants of CalculateDaysLate: without the guard, with elapsed    *)
(* days for calendar days, and with a first day charged at once.            *)
CalculateDaysLate_Unguarded(due_date, reference_date) ==
  Date(reference_date) - Date(due_date)

CalculateDaysLate_Elapsed(due_date, reference_date) ==
  IF reference_date <= due_date THEN 0
  ELSE (reference_date - due_date) \div TicksPerDay

CalculateDaysLate_ChargedAtOnce(due_date, reference_date) ==
  IF reference_date <= due_date THEN 0
  ELSE Date(reference_date) - Date(due_date) + 1

(* The guard compares the instants, the difference compares the dates: a    *)
(* loan returned late but on its due day is zero days late.                 *)
CalculateDaysLate(due_date, reference_date) ==
  IF reference_date <= due_date THEN 0
  ELSE Date(reference_date) - Date(due_date)

CalculateAmount(due_date, reference_date) ==
  CalculateDaysLate(due_date, reference_date) * DAILY_FINE_AMOUNT
=============================================================================
