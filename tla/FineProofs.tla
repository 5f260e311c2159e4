------------------------------ MODULE FineProofs ------------------------------
(* Proofs about fines: the days late are the midnights since the due date,  *)
(* and a fine grows by the day, for every length of the day in ticks.       *)
EXTENDS MCFineCalculator, Integers, FiniteSetTheorems, TLAPS

(* Quotient and remainder by the ticks of a day. *)
LEMMA DayAndTick ==
  ASSUME NEW d \in Nat \ {0}, NEW n \in Nat
  PROVE  /\ n \div d \in Nat /\ n % d \in 0 .. d - 1
         /\ n = (d * (n \div d)) + (n % d)
<1>1. n \div d \in Nat
  OBVIOUS
<1>2. n % d \in 0 .. d - 1
  OBVIOUS
<1>3. n = (d * (n \div d)) + (n % d)
  OBVIOUS
<1> QED
  BY <1>1, <1>2, <1>3

(* One more tick carries into the quotient at most once. *)
LEMMA Carry ==
  ASSUME NEW d \in Nat \ {0}, NEW q \in Nat, NEW p \in Nat,
         NEW r \in 0 .. d - 1, NEW s \in 0 .. d - 1,
         d * p + s = d * q + r + 1
  PROVE  p = IF s = 0 THEN q + 1 ELSE q
<1>1. CASE p >= q + 2
  <2>1. d * p >= d * (q + 2)
    BY <1>1
  <2>2. d * (q + 2) = d * q + 2 * d
    OBVIOUS
  <2> QED
    BY <2>1, <2>2
<1>2. CASE p + 1 <= q
  <2>1. d * (p + 1) <= d * q
    BY <1>2
  <2>2. d * (p + 1) = d * p + d
    OBVIOUS
  <2> QED
    BY <2>1, <2>2
<1>3. CASE p = q
  BY <1>3
<1>4. CASE p = q + 1
  <2>1. d * (q + 1) = d * q + d
    OBVIOUS
  <2> QED
    BY <1>4, <2>1
<1> QED
  BY <1>1, <1>2, <1>3, <1>4

(* The date is that of the instant before it, or the next one at midnight. *)
LEMMA NextTick ==
  ASSUME NEW n \in Nat
  PROVE  Date(n + 1) = IF (n + 1) % TicksPerDay = 0 THEN Date(n) + 1 ELSE Date(n)
<1> DEFINE d == TicksPerDay
           r == n % d
           s == (n + 1) % d
<1>1. d \in Nat \ {0}
  BY TicksPerDayAssumption
<1>2. Date(n) \in Nat /\ r \in 0 .. d - 1 /\ n = d * Date(n) + r
  BY <1>1, DayAndTick DEF Date
<1>3. Date(n + 1) \in Nat /\ s \in 0 .. d - 1 /\ n + 1 = d * Date(n + 1) + s
  <2>1. n + 1 \in Nat
    OBVIOUS
  <2> QED
    BY <1>1, <2>1, DayAndTick DEF Date
<1>4. Date(n + 1) = IF s = 0 THEN Date(n) + 1 ELSE Date(n)
  <2> HIDE DEF d, r, s
  <2>1. d * Date(n + 1) + s = d * Date(n) + r + 1
    BY <1>1, <1>2, <1>3
  <2>2. /\ d \in Nat \ {0} /\ Date(n) \in Nat /\ Date(n + 1) \in Nat
        /\ r \in 0 .. d - 1 /\ s \in 0 .. d - 1
    BY <1>1, <1>2, <1>3
  <2> QED
    BY <2>1, <2>2, Carry, Zenon
<1> QED
  BY <1>4

-----------------------------------------------------------------------------
(* The midnights between two instants. *)
Midnights(due, t) == {i \in due + 1 .. t : i % TicksPerDay = 0}

(* The state: two instants. *)
TypeInv == due_date \in Nat /\ reference_date \in Nat

LEMMA InitType ==
  ASSUME Init
  PROVE  TypeInv
BY MaxTimeAssumption DEF Init, TypeInv

LEMMA NextType ==
  ASSUME TypeInv, [Next]_<<due_date, reference_date>>
  PROVE  TypeInv'
BY DEF TypeInv, Next

(* Midnights are counted. *)
LEMMA MidnightsCounted ==
  ASSUME NEW due \in Nat, NEW t \in Nat
  PROVE  IsFiniteSet(Midnights(due, t)) /\ Cardinality(Midnights(due, t)) \in Nat
<1>1. IsFiniteSet(due + 1 .. t)
  BY FS_Interval
<1>2. Midnights(due, t) \subseteq due + 1 .. t
  BY DEF Midnights
<1>3. IsFiniteSet(Midnights(due, t))
  BY <1>1, <1>2, FS_Subset
<1> QED
  BY <1>3, FS_CardinalityType

(* None has passed by the due date. *)
LEMMA NoMidnightYet ==
  ASSUME NEW due \in Nat, NEW t \in Nat, t <= due
  PROVE  Cardinality(Midnights(due, t)) = 0
<1>1. Midnights(due, t) = {}
  BY DEF Midnights
<1> QED
  BY <1>1, FS_EmptySet

(* One instant adds the midnight it is, if it is one. *)
LEMMA OneMoreMidnight ==
  ASSUME NEW due \in Nat, NEW t \in Nat, due <= t
  PROVE  Cardinality(Midnights(due, t + 1)) =
           IF (t + 1) % TicksPerDay = 0 THEN Cardinality(Midnights(due, t)) + 1
                                        ELSE Cardinality(Midnights(due, t))
<1>1. due + 1 .. t + 1 = (due + 1 .. t) \cup {t + 1}
  OBVIOUS
<1>2. CASE (t + 1) % TicksPerDay = 0
  <2>1. Midnights(due, t + 1) = Midnights(due, t) \cup {t + 1}
    BY <1>1, <1>2 DEF Midnights
  <2>2. t + 1 \notin Midnights(due, t)
    BY DEF Midnights
  <2>3. IsFiniteSet(Midnights(due, t))
    BY MidnightsCounted
  <2>4. Cardinality(Midnights(due, t) \cup {t + 1}) = Cardinality(Midnights(due, t)) + 1
    BY <2>2, <2>3, FS_AddElement
  <2> QED
    BY <1>2, <2>1, <2>4
<1>3. CASE (t + 1) % TicksPerDay # 0
  <2>1. Midnights(due, t + 1) = Midnights(due, t)
    BY <1>1, <1>3 DEF Midnights
  <2> QED
    BY <1>3, <2>1
<1> QED
  BY <1>2, <1>3

(* The days late grow with the date once the due date has passed. *)
LEMMA OneMoreDayLate ==
  ASSUME NEW due \in Nat, NEW t \in Nat
  PROVE  /\ CalculateDaysLate(due, t) \in Int
         /\ CalculateDaysLate(due, t + 1) =
              IF due <= t /\ (t + 1) % TicksPerDay = 0
              THEN CalculateDaysLate(due, t) + 1 ELSE CalculateDaysLate(due, t)
<1>1. Date(due) \in Nat /\ Date(t) \in Nat /\ Date(t + 1) \in Nat
  BY TicksPerDayAssumption, DayAndTick DEF Date
<1>2. Date(t + 1) = IF (t + 1) % TicksPerDay = 0 THEN Date(t) + 1 ELSE Date(t)
  BY NextTick
<1>3. CASE due < t
  BY <1>1, <1>2, <1>3 DEF CalculateDaysLate
<1>4. CASE due = t
  BY <1>1, <1>2, <1>4 DEF CalculateDaysLate
<1>5. CASE due > t
  BY <1>5 DEF CalculateDaysLate
<1> QED
  BY <1>3, <1>4, <1>5

-----------------------------------------------------------------------------
(* The days late, and so the fine, count calendar days: one for every       *)
(* midnight after the due date, whatever the hour the book comes back at.   *)
THEOREM DaysLateAreMidnights == Spec => []DaysLateCountMidnights
<1> DEFINE Counted == CalculateDaysLate(due_date, reference_date) =
                        Cardinality(Midnights(due_date, reference_date))
<1>1. Init => Counted
  <2> SUFFICES ASSUME Init PROVE Counted
    OBVIOUS
  <2>1. TypeInv /\ reference_date <= due_date
    BY InitType DEF TypeInv, Init
  <2> QED
    BY <2>1, NoMidnightYet DEF TypeInv, CalculateDaysLate
<1>2. TypeInv /\ Counted /\ [Next]_<<due_date, reference_date>> => Counted'
  <2> SUFFICES ASSUME TypeInv, Counted, [Next]_<<due_date, reference_date>>
               PROVE  Counted'
    OBVIOUS
  <2>1. CASE UNCHANGED <<due_date, reference_date>>
    BY <2>1 DEF Midnights
  <2>2. CASE Next
    <3>1. /\ due_date \in Nat /\ reference_date \in Nat
          /\ due_date' = due_date /\ reference_date' = reference_date + 1
      BY <2>2 DEF TypeInv, Next
    <3>2. CalculateDaysLate(due_date, reference_date + 1)
            = Cardinality(Midnights(due_date, reference_date + 1))
      <4>1. CASE due_date <= reference_date
        BY <3>1, <4>1, OneMoreMidnight, OneMoreDayLate
      <4>2. CASE reference_date + 1 <= due_date
        BY <3>1, <4>2, NoMidnightYet DEF CalculateDaysLate
      <4> QED
        BY <3>1, <4>1, <4>2
    <3>3. /\ CalculateDaysLate(due_date, reference_date)' = CalculateDaysLate(due_date, reference_date + 1)
          /\ Cardinality(Midnights(due_date, reference_date))'
               = Cardinality(Midnights(due_date, reference_date + 1))
      BY <3>1 DEF CalculateDaysLate, Date, Midnights
    <3> QED
      BY <3>2, <3>3
  <2> QED
    BY <2>1, <2>2
<1>3. Counted => DaysLateCountMidnights
  BY DEF DaysLateCountMidnights, Midnights
<1> QED
  BY <1>1, <1>2, <1>3, InitType, NextType, PTL DEF Spec

(* A fine never shrinks as time passes, and grows by one day's amount at    *)
(* most from one instant to the next.                                       *)
THEOREM FinesGrowByTheDay == Spec => FineGrowsByTheDay
<1>1. TypeInv /\ [Next]_<<due_date, reference_date>> =>
        [CalculateAmount(due_date, reference_date') - CalculateAmount(due_date, reference_date)
           \in {0, DAILY_FINE_AMOUNT}]_<<due_date, reference_date>>
  <2> SUFFICES ASSUME TypeInv, Next
               PROVE  CalculateAmount(due_date, reference_date')
                        - CalculateAmount(due_date, reference_date) \in {0, DAILY_FINE_AMOUNT}
    OBVIOUS
  <2>1. /\ due_date \in Nat /\ reference_date \in Nat /\ reference_date' = reference_date + 1
    BY DEF TypeInv, Next
  <2>2. PICK late \in Int, later \in Int :
           /\ late = CalculateDaysLate(due_date, reference_date)
           /\ later = CalculateDaysLate(due_date, reference_date + 1)
           /\ later = late \/ later = late + 1
    <3>1. CalculateDaysLate(due_date, reference_date) \in Int
      BY <2>1, OneMoreDayLate
    <3>2. \/ CalculateDaysLate(due_date, reference_date + 1) = CalculateDaysLate(due_date, reference_date)
          \/ CalculateDaysLate(due_date, reference_date + 1) = CalculateDaysLate(due_date, reference_date) + 1
      BY <2>1, OneMoreDayLate
    <3> QED
      BY <3>1, <3>2
  <2>3. later * 2 - late * 2 \in {0, 2}
    BY <2>2
  <2> QED
    BY <2>1, <2>2, <2>3 DEF CalculateAmount, DAILY_FINE_AMOUNT
<1> QED
  BY <1>1, InitType, NextType, PTL DEF Spec, FineGrowsByTheDay
=============================================================================
