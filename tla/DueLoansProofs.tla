---------------------------- MODULE DueLoansProofs ----------------------------
(* Proofs about DueLoans, for any numbers of loans, runs and connections:   *)
(* the inductive invariant, that notices are bounded and grounded, and that *)
(* a run that gets to its end leaves nobody out.                            *)
EXTENDS DueLoans, FiniteSetTheorems, TLAPS

-----------------------------------------------------------------------------
(* Lemmas about the helpers. *)

(* Dates are natural numbers and do not run backwards. *)
LEMMA DateMonotone ==
  ASSUME NEW t \in Nat, NEW u \in Nat, t <= u
  PROVE  Date(t) \in Nat /\ Date(u) \in Nat /\ Date(t) <= Date(u)
BY TicksPerDayAssumption DEF Date

(* The three loops of execute. *)
LEMMA PhasesType ==
  /\ Len(Phases) = 3 /\ DOMAIN Phases = 1 .. 3
  /\ Phases[1] = "LOAN_DUE_SOON" /\ Phases[2] = "LOAN_DUE_TODAY" /\ Phases[3] = "LOAN_OVERDUE"
  /\ NotificationType = {"LOAN_DUE_SOON", "LOAN_DUE_TODAY", "LOAN_OVERDUE"}
<1>1. Len(Phases) = 3 /\ DOMAIN Phases = 1 .. 3
  BY DEF Phases
<1>2. Phases[1] = "LOAN_DUE_SOON" /\ Phases[2] = "LOAN_DUE_TODAY" /\ Phases[3] = "LOAN_OVERDUE"
  BY DEF Phases
<1>3. NotificationType = {"LOAN_DUE_SOON", "LOAN_DUE_TODAY", "LOAN_OVERDUE"}
  <2>1. \A i \in 1 .. 3 : i = 1 \/ i = 2 \/ i = 3
    OBVIOUS
  <2> QED
    BY <1>1, <1>2, <2>1 DEF NotificationType
<1> QED
  BY <1>1, <1>2, <1>3

(* A run is always in one of its phases. *)
LEMMA TypeOfRun ==
  ASSUME TypeOK, NEW r \in Runs
  PROVE  job[r] \in Run /\ Type(r) \in NotificationType
BY DEF TypeOK, Run, Type, NotificationType

(* A step changes what one run is doing. *)
LEMMA StepEffect ==
  ASSUME TypeOK, NEW r \in Runs, NEW row \in Run, Step(r, row)
  PROVE  /\ job' \in [Runs -> Run] /\ job'[r] = row
         /\ \A q \in Runs \ {r} : job'[q] = job[q]
BY DEF Step, TypeOK

(* What is due of a loan on the day a run began. *)
LEMMA CallsMeaning ==
  ASSUME NEW l, NEW t
  PROVE  /\ "LOAN_DUE_SOON" \in Calls(l, t) <=> Date(loans[l].due_date) = Date(t) + DAYS_BEFORE
         /\ "LOAN_DUE_TODAY" \in Calls(l, t) <=> Date(loans[l].due_date) = Date(t)
         /\ "LOAN_OVERDUE" \in Calls(l, t) <=> loans[l].due_date < t
<1>1. ASSUME NEW type \in NotificationType
      PROVE  /\ type = "LOAN_DUE_SOON" =>
                  (type \in Calls(l, t) <=> Date(loans[l].due_date) = Date(t) + DAYS_BEFORE)
             /\ type = "LOAN_DUE_TODAY" =>
                  (type \in Calls(l, t) <=> Date(loans[l].due_date) = Date(t))
             /\ type = "LOAN_OVERDUE" => (type \in Calls(l, t) <=> loans[l].due_date < t)
  BY DEF Calls
<1> QED
  BY <1>1, PhasesType

-----------------------------------------------------------------------------
(* The connection pool *)

(* A set of runs is finite. *)
LEMMA RunsCounted ==
  ASSUME NEW S, S \subseteq Runs
  PROVE  /\ IsFiniteSet(S) /\ Cardinality(S) \in Nat /\ Cardinality(Runs) \in Nat
         /\ Cardinality(S) <= Cardinality(Runs)
BY DueLoansAssumption, FS_Subset, FS_CardinalityType

(* A run that gives connections back, or takes none, leaves no fewer free.  *)
LEMMA GivingBack ==
  ASSUME TypeOK, NEW r \in Runs, NEW row \in Run, Step(r, row), row.held <= job[r].held
  PROVE  InUse' <= InUse
<1>1. ASSUME NEW n \in 1 .. 2
      PROVE  /\ Cardinality(Holding(n)') <= Cardinality(Holding(n))
             /\ Cardinality(Holding(n)) \in Nat /\ Cardinality(Holding(n)') \in Nat
  <2>1. job[r].held \in 0 .. 2 /\ row.held \in 0 .. 2
    BY TypeOfRun DEF Run
  <2>2. Holding(n)' \subseteq Holding(n)
    BY <2>1, StepEffect DEF Holding
  <2>3. Holding(n) \subseteq Runs /\ Holding(n)' \subseteq Runs
    BY DEF Holding
  <2> QED
    BY <2>2, <2>3, RunsCounted, FS_Subset
<1>2. Cardinality(Holding(1)') <= Cardinality(Holding(1))
      /\ Cardinality(Holding(1)) \in Nat /\ Cardinality(Holding(1)') \in Nat
  BY <1>1
<1>3. Cardinality(Holding(2)') <= Cardinality(Holding(2))
      /\ Cardinality(Holding(2)) \in Nat /\ Cardinality(Holding(2)') \in Nat
  BY <1>1
<1> QED
  BY <1>2, <1>3 DEF InUse

(* A run that takes one connection adds one. *)
LEMMA TakingOne ==
  ASSUME TypeOK, NEW r \in Runs, NEW row \in Run, Step(r, row), row.held = job[r].held + 1
  PROVE  InUse' = InUse + 1
<1>1. job[r].held \in 0 .. 2 /\ row.held \in 0 .. 2
  BY TypeOfRun DEF Run
<1>2. \A n \in 1 .. 2 : Holding(n) \subseteq Runs
  BY DEF Holding
<1>3. /\ Cardinality(Holding(1)) \in Nat /\ IsFiniteSet(Holding(1))
      /\ Cardinality(Holding(2)) \in Nat /\ IsFiniteSet(Holding(2))
  BY <1>2, RunsCounted
<1>4. CASE job[r].held = 0
  <2>1. Holding(1)' = Holding(1) \cup {r} /\ r \notin Holding(1) /\ Holding(2)' = Holding(2)
    BY <1>4, StepEffect DEF Holding
  <2>2. Cardinality(Holding(1) \cup {r}) = Cardinality(Holding(1)) + 1
    BY <1>3, <2>1, FS_AddElement
  <2>3. InUse' = Cardinality(Holding(1) \cup {r}) + Cardinality(Holding(2))
    BY <2>1 DEF InUse
  <2> QED
    BY <1>3, <2>2, <2>3 DEF InUse
<1>5. CASE job[r].held = 1
  <2>1. Holding(2)' = Holding(2) \cup {r} /\ r \notin Holding(2) /\ Holding(1)' = Holding(1)
    BY <1>5, StepEffect DEF Holding
  <2>2. Cardinality(Holding(2) \cup {r}) = Cardinality(Holding(2)) + 1
    BY <1>3, <2>1, FS_AddElement
  <2>3. InUse' = Cardinality(Holding(1)) + Cardinality(Holding(2) \cup {r})
    BY <2>1 DEF InUse
  <2> QED
    BY <1>3, <2>2, <2>3 DEF InUse
<1> QED
  BY <1>1, <1>4, <1>5

(* Connections in use are counted. *)
LEMMA InUseType ==
  InUse \in Nat /\ InUse' \in Nat
<1>1. /\ Holding(1) \subseteq Runs /\ Holding(2) \subseteq Runs
      /\ Holding(1)' \subseteq Runs /\ Holding(2)' \subseteq Runs
  BY DEF Holding
<1>2. /\ Cardinality(Holding(1)) \in Nat /\ Cardinality(Holding(2)) \in Nat
      /\ Cardinality(Holding(1)') \in Nat /\ Cardinality(Holding(2)') \in Nat
  BY <1>1, RunsCounted
<1> QED
  BY <1>2 DEF InUse

-----------------------------------------------------------------------------
(* Notices *)

(* The clock shows a day of the calendar. *)
LEMMA TodayType ==
  ASSUME TypeOK
  PROVE  /\ now \in Nat /\ MaxNow \in Nat /\ now <= MaxNow
         /\ today \in Nat /\ Date(MaxNow) \in Nat /\ today <= Date(MaxNow)
<1>1. now \in Nat /\ MaxNow \in Nat /\ now <= MaxNow
  BY DueLoansAssumption DEF TypeOK
<1> QED
  BY <1>1, DateMonotone DEF today

(* A reader who was told stays told, as notices are only added. *)
LEMMA ToldGrows ==
  ASSUME TypeOK, TypeOK', NEW r \in Runs, NEW l \in LoanIds, NEW type \in NotificationType,
         job'[r].at = job[r].at, job[r].at \in 0 .. MaxNow, now <= now',
         \A n \in DOMAIN notifications : notifications[n] <= notifications'[n],
         Told(r, l, type)
  PROVE  Told(r, l, type)'
<1>1. now \in Nat /\ now' \in Nat /\ today \in Nat /\ today' \in Nat /\ today <= today'
  <2>1. now \in Nat /\ now' \in Nat
    BY DueLoansAssumption DEF TypeOK
  <2> QED
    BY <2>1, DateMonotone DEF today
<1>2. Date(job[r].at) \in Nat
  BY DateMonotone, DueLoansAssumption
<1>3. PICK date \in Date(job[r].at) .. today : notifications[<<l, type, date>>] > 0
  BY DEF Told
<1>4. <<l, type, date>> \in LoanIds \X NotificationType \X (0 .. Date(MaxNow))
  BY <1>1, <1>2, TodayType
<1>5. /\ notifications[<<l, type, date>>] \in Nat /\ notifications'[<<l, type, date>>] \in Nat
      /\ notifications[<<l, type, date>>] <= notifications'[<<l, type, date>>]
  BY <1>4 DEF TypeOK
<1>6. notifications'[<<l, type, date>>] > 0
  BY <1>3, <1>5
<1>7. date \in Date(job'[r].at) .. today'
  BY <1>1, <1>2, <1>3
<1> QED
  BY <1>6, <1>7 DEF Told

(* What a run has listed and told survives the steps of others that change  *)
(* no loan.                                                                 *)
LEMMA Undisturbed ==
  ASSUME IInv, TypeOK', NEW q \in Runs, job'[q] = job[q], loans' = loans, now <= now',
         \A n \in DOMAIN notifications : notifications[n] <= notifications'[n]
  PROVE  RunInv(q)'
<1>1. RunInv(q) /\ TypeOK /\ job[q] \in Run /\ job[q].at \in 0 .. MaxNow
  BY TypeOfRun DEF IInv, Run
<1>2. /\ Listed(q)' <=> Listed(q)
      /\ Pending(q)' = Pending(q) /\ Type(q)' = Type(q)
      /\ \A l, t : Calls(l, t)' = Calls(l, t)
  BY DEF Listed, Pending, Type, At, Calls
<1>3. now \in Nat /\ now' \in Nat
  BY <1>1, DueLoansAssumption DEF TypeOK
<1>4. ConnectionsMatch(q)' /\ StepMatches(q)'
  BY <1>1, <1>3 DEF RunInv, ConnectionsMatch, StepMatches, At
<1>5. ListIsDue(q)'
  <2> SUFFICES ASSUME Listed(q), NEW l \in Pending(q), l \notin job[q].changed
               PROVE  IsDue(q, l)'
    BY <1>2 DEF ListIsDue
  <2>1. IsDue(q, l)
    BY <1>1 DEF RunInv, ListIsDue
  <2>2. loans[l].due_date \in Nat
    <3>1. l \in LoanIds
      BY <1>1 DEF Pending, Run
    <3> QED
      BY <1>1, <3>1, DueLoansAssumption DEF TypeOK, Loan
  <2> QED
    BY <1>2, <1>3, <2>1, <2>2 DEF IsDue
<1>6. NobodyIsLeftOut(q)'
  <2> SUFFICES ASSUME NEW l \in LoanIds, NEW i \in DOMAIN Phases,
                      loans[l].active, l \notin job[q].changed,
                      Phases[i] \in Calls(l, job[q].at),
                      job[q].pc \notin {"idle", "authenticate"},
                      i < job[q].phase \/ (i = job[q].phase /\ Listed(q))
               PROVE  Told(q, l, Phases[i])' \/ (i = job[q].phase /\ l \in Pending(q))
    BY <1>2 DEF NobodyIsLeftOut
  <2>1. Told(q, l, Phases[i]) \/ (i = job[q].phase /\ l \in Pending(q))
    BY <1>1 DEF RunInv, NobodyIsLeftOut
  <2>2. Phases[i] \in NotificationType
    BY DEF NotificationType
  <2> QED
    BY <1>1, <2>1, <2>2, ToldGrows
<1> QED
  BY <1>4, <1>5, <1>6 DEF RunInv

(* Who is to insert a notice. *)
LEMMA CreatorsCounted ==
  ASSUME NEW l, NEW type
  PROVE  /\ Creators(l, type) \subseteq Runs /\ IsFiniteSet(Creators(l, type))
         /\ Cardinality(Creators(l, type)) \in Nat /\ Cardinality(Runs) \in Nat
         /\ Cardinality(Creators(l, type)) <= Cardinality(Runs)
<1>1. Creators(l, type) \subseteq Runs
  BY DEF Creators
<1> QED
  BY <1>1, RunsCounted

(* The bound on notices holds on when none is inserted, and a run joins     *)
(* those about to insert one only where there is none.                      *)
LEMMA NoticesKept ==
  ASSUME TypeOK, NoticesInv, UNCHANGED <<notifications, now>>,
         \A l \in LoanIds, type \in NotificationType :
           \/ Creators(l, type)' \subseteq Creators(l, type)
           \/ notifications[<<l, type, today>>] = 0
  PROVE  NoticesInv'
<1>1. NoticesBounded' /\ today' = today
  BY DEF NoticesInv, NoticesBounded, today
<1>2. ASSUME NEW l \in LoanIds, NEW type \in NotificationType
      PROVE  notifications[<<l, type, today>>] + Cardinality(Creators(l, type)')
               <= Cardinality(Runs)
  <2>1. /\ Cardinality(Creators(l, type)) \in Nat /\ Cardinality(Runs) \in Nat
        /\ IsFiniteSet(Creators(l, type))
    BY CreatorsCounted
  <2>2. Creators(l, type)' \subseteq Runs
    BY DEF Creators
  <2>3. Cardinality(Creators(l, type)') \in Nat /\ Cardinality(Creators(l, type)') <= Cardinality(Runs)
    BY <2>2, RunsCounted
  <2>4. notifications[<<l, type, today>>] \in Nat
    <3>1. <<l, type, today>> \in LoanIds \X NotificationType \X (0 .. Date(MaxNow))
      BY TodayType
    <3> QED
      BY <3>1 DEF TypeOK
  <2>5. CASE notifications[<<l, type, today>>] = 0
    BY <2>3, <2>5
  <2>6. CASE Creators(l, type)' \subseteq Creators(l, type)
    <3>1. Cardinality(Creators(l, type)') <= Cardinality(Creators(l, type))
      BY <2>1, <2>6, FS_Subset
    <3>2. notifications[<<l, type, today>>] + Cardinality(Creators(l, type)) <= Cardinality(Runs)
      BY DEF NoticesInv
    <3> QED
      BY <2>1, <2>3, <2>4, <3>1, <3>2
  <2> QED
    BY <2>5, <2>6
<1> QED
  BY <1>1, <1>2 DEF NoticesInv

-----------------------------------------------------------------------------
(* The steps of a run that insert no notice. *)

(* Such a step keeps the invariant when the run takes no connection, or one *)
(* that is free, is not about to insert a notice unless there is none, and  *)
(* is itself in order afterwards.                                           *)
LEMMA QuietStep ==
  ASSUME IInv, NEW r \in Runs, NEW row \in Run, Step(r, row),
         UNCHANGED <<loans, notifications, changes, now>>, started' \subseteq 0 .. today,
         \/ row.held <= job[r].held
         \/ row.held = job[r].held + 1 /\ Free,
         row.pc = "create" => notifications[<<row.loan, Phases[row.phase], today>>] = 0,
         RunInv(r)'
  PROVE  IInv'
<1>1. TypeOK /\ NoticesInv
  BY DEF IInv
<1>2. /\ job' \in [Runs -> Run] /\ job'[r] = row
      /\ \A q \in Runs \ {r} : job'[q] = job[q]
  BY <1>1, StepEffect
<1>3. InUse' <= PoolLimit
  <2>1. InUse \in Nat /\ InUse <= PoolLimit /\ PoolLimit \in Nat
    BY <1>1, InUseType, DueLoansAssumption DEF TypeOK
  <2>2. InUse' \in Nat
    BY InUseType
  <2>3. CASE row.held <= job[r].held
    <3>1. InUse' <= InUse
      BY <1>1, <2>3, GivingBack
    <3> QED
      BY <2>1, <2>2, <3>1
  <2>4. CASE row.held = job[r].held + 1 /\ Free
    <3>1. InUse' = InUse + 1
      BY <1>1, <2>4, TakingOne
    <3> QED
      BY <2>1, <2>4, <3>1 DEF Free
  <2> QED
    BY <2>3, <2>4
<1>4. today' = today
  BY DEF today
<1>5. TypeOK'
  BY <1>1, <1>2, <1>3, <1>4 DEF TypeOK
<1>6. NoticesInv'
  <2>1. ASSUME NEW l \in LoanIds, NEW type \in NotificationType
        PROVE  \/ Creators(l, type)' \subseteq Creators(l, type)
               \/ notifications[<<l, type, today>>] = 0
    <3>1. \A q \in Runs \ {r} : q \in Creators(l, type)' <=> q \in Creators(l, type)
      BY <1>2 DEF Creators, At, Type
    <3>2. r \in Creators(l, type)' => row.pc = "create" /\ row.loan = l /\ Phases[row.phase] = type
      BY <1>2 DEF Creators, At, Type
    <3>3. Creators(l, type)' \subseteq Runs
      BY DEF Creators
    <3> QED
      BY <3>1, <3>2, <3>3
  <2> QED
    BY <1>1, <2>1, NoticesKept
<1>7. ASSUME NEW q \in Runs \ {r}
      PROVE  RunInv(q)'
  <2>1. now <= now'
    BY <1>1, TodayType
  <2>2. \A n \in DOMAIN notifications : notifications[n] <= notifications'[n]
    BY <1>1 DEF TypeOK
  <2> QED
    BY <1>2, <1>5, <2>1, <2>2, Undisturbed
<1> QED
  BY <1>5, <1>6, <1>7 DEF IInv

(* An idle slot is in order. *)
LEMMA IdleType ==
  Idle \in Run
<1>1. 0 \in 0 .. MaxNow
  BY DueLoansAssumption
<1>2. 1 \in DOMAIN Phases
  BY PhasesType
<1> QED
  BY <1>1, <1>2 DEF Idle, Run

(* A run that has not begun is in order. *)
LEMMA NotBegun ==
  ASSUME TypeOK, NEW r \in Runs, NEW pc \in {"idle", "authenticate"}, now' = now,
         job'[r] = [Idle EXCEPT !.pc = pc]
  PROVE  RunInv(r)'
<1>1. job'[r].pc = pc /\ job'[r].at = 0 /\ job'[r].held = 0
  BY DEF Idle
<1>2. now \in Nat
  BY TodayType
<1>3. ConnectionsMatch(r)' /\ StepMatches(r)'
  BY <1>1, <1>2 DEF ConnectionsMatch, StepMatches, At
<1>4. ~Listed(r)'
  BY <1>1 DEF Listed
<1> QED
  BY <1>1, <1>3, <1>4 DEF RunInv, ListIsDue, NobodyIsLeftOut

(* A run may end at any step: by an exception, by the timeout of the pool   *)
(* or because it is done.                                                   *)
LEMMA FinishInv ==
  ASSUME IInv, NEW r \in Runs, Finish(r), UNCHANGED <<loans, notifications, started, changes, now>>
  PROVE  IInv'
<1>1. TypeOK /\ job[r].held \in 0 .. 2
  BY TypeOfRun DEF IInv, Run
<1>2. Step(r, Idle) /\ Idle \in Run /\ Idle.held = 0 /\ Idle.pc = "idle"
  BY IdleType DEF Finish, Idle
<1>3. job'[r] = [Idle EXCEPT !.pc = "idle"]
  BY <1>1, <1>2, StepEffect DEF Idle
<1>4. RunInv(r)'
  BY <1>1, <1>3, NotBegun
<1>5. started' \subseteq 0 .. today
  BY <1>1 DEF TypeOK
<1>6. Idle.held <= job[r].held
  BY <1>1, <1>2
<1> QED
  BY <1>2, <1>4, <1>5, <1>6, QuietStep

(* POST /notifications/jobs/due-loans/run *)
LEMMA RunDueLoansJobInv ==
  ASSUME IInv, NEW r \in Runs, RunDueLoansJob(r)
  PROVE  IInv'
<1> DEFINE row == [Idle EXCEPT !.pc = "authenticate"]
<1>1. /\ Step(r, row) /\ UNCHANGED <<loans, notifications, started, changes, now>>
      /\ job[r].pc = "idle"
  BY DEF RunDueLoansJob, At
<1>2. TypeOK /\ job[r].held = 0
  BY <1>1 DEF IInv, RunInv, ConnectionsMatch
<1>3. row \in Run
  BY IdleType DEF Run
<1>4. row.held = 0 /\ row.pc = "authenticate"
  BY DEF Idle
<1>5. job'[r] = row
  BY <1>1, <1>2, <1>3, StepEffect
<1>6. RunInv(r)'
  BY <1>1, <1>2, <1>5, NotBegun
<1>7. started' \subseteq 0 .. today
  BY <1>1, <1>2 DEF TypeOK
<1>8. row.held <= job[r].held /\ row.pc # "create"
  BY <1>2, <1>4
<1> HIDE DEF row
<1> QED
  BY <1>1, <1>3, <1>6, <1>7, <1>8, QuietStep

(* get_current_admin takes the first connection and the date is read. *)
LEMMA AuthenticateInv ==
  ASSUME IInv, NEW r \in Runs, Authenticate(r)
  PROVE  IInv'
<1> DEFINE row == [Idle EXCEPT !.pc = "list", !.at = now, !.held = 1]
<1>1. /\ Step(r, row) /\ UNCHANGED <<loans, notifications, changes, now>>
      /\ job[r].pc = "authenticate" /\ Free /\ started' = started \cup {today}
  BY DEF Authenticate, At
<1>2. TypeOK /\ job[r].held = 0
  BY <1>1 DEF IInv, RunInv, ConnectionsMatch
<1>3. row \in Run
  <2>1. now \in 0 .. MaxNow /\ now \in Nat /\ MaxNow \in Nat
    BY <1>2, TodayType DEF TypeOK
  <2>2. [Idle EXCEPT !.pc = "list", !.at = now] \in Run
    BY <2>1, IdleType DEF Run
  <2>3. \A old \in Run : [old EXCEPT !.held = 1] \in Run
    BY DEF Run
  <2>4. row = [[Idle EXCEPT !.pc = "list", !.at = now] EXCEPT !.held = 1]
    OBVIOUS
  <2> QED
    BY <2>2, <2>3, <2>4
<1>4. row.held = 1 /\ row.pc = "list" /\ row.at = now /\ row.phase = 1
  BY DEF Idle
<1> HIDE DEF row
<1>5. job'[r] = row
  BY <1>1, <1>2, <1>3, StepEffect
<1>6. RunInv(r)'
  <2>1. ~Listed(r)' /\ \A i \in DOMAIN Phases : ~(i < job'[r].phase)
    BY <1>4, <1>5, PhasesType DEF Listed
  <2>2. now' = now /\ now \in Nat
    BY <1>1, <1>2, TodayType
  <2>3. ConnectionsMatch(r)' /\ StepMatches(r)'
    BY <1>4, <1>5, <2>2 DEF ConnectionsMatch, StepMatches, At
  <2> QED
    BY <2>1, <2>3 DEF RunInv, ListIsDue, NobodyIsLeftOut
<1>7. started' \subseteq 0 .. today
  <2>1. today \in 0 .. today
    BY <1>2, TodayType
  <2>2. started \subseteq 0 .. today
    BY <1>2 DEF TypeOK
  <2> QED
    BY <1>1, <2>1, <2>2
<1>8. row.held = job[r].held + 1 /\ row.pc # "create"
  BY <1>2, <1>4
<1> QED
  BY <1>1, <1>3, <1>6, <1>7, <1>8, QuietStep

-----------------------------------------------------------------------------
(* The lists *)

(* The next loan of the list, the next list, or the end. *)
LEMMA ProceedEffect ==
  ASSUME NEW row \in Run
  PROVE  /\ Proceed(row) \in Run
         /\ Proceed(row).at = row.at /\ Proceed(row).todo = row.todo
         /\ Proceed(row).loan = row.loan /\ Proceed(row).held = row.held
         /\ Proceed(row).changed = row.changed
         /\ \/ row.todo # {} /\ Proceed(row).pc = "exists" /\ Proceed(row).phase = row.phase
            \/ row.todo = {} /\ Proceed(row).pc = "list" /\ Proceed(row).phase = row.phase + 1
            \/ /\ row.todo = {} /\ Proceed(row).pc = "close"
               /\ row.phase = Len(Phases) /\ Proceed(row).phase = row.phase
<1>1. row.phase \in 1 .. 3 /\ Len(Phases) = 3 /\ DOMAIN Phases = 1 .. 3
  BY PhasesType DEF Run
<1>2. CASE row.todo # {}
  <2>1. Proceed(row) = [row EXCEPT !.pc = "exists"]
    BY <1>2 DEF Proceed
  <2> QED
    BY <1>2, <2>1 DEF Run
<1>3. CASE row.todo = {} /\ row.phase < Len(Phases)
  <2>1. Proceed(row) = [row EXCEPT !.pc = "list", !.phase = row.phase + 1]
    BY <1>3 DEF Proceed
  <2>2. row.phase + 1 \in DOMAIN Phases
    BY <1>1, <1>3
  <2> QED
    BY <1>3, <2>1, <2>2 DEF Run
<1>4. CASE row.todo = {} /\ ~(row.phase < Len(Phases))
  <2>1. Proceed(row) = [row EXCEPT !.pc = "close"]
    BY <1>4 DEF Proceed
  <2>2. row.phase = Len(Phases)
    BY <1>1, <1>4
  <2> QED
    BY <1>4, <2>1, <2>2 DEF Run
<1> QED
  BY <1>2, <1>3, <1>4

(* A run that goes on with its list is in order when what is left of the    *)
(* list is due, and everybody else who called for a notice so far was told. *)
LEMMA ProceedInv ==
  ASSUME IInv, NEW r \in Runs, NEW row \in Run, Step(r, Proceed(row)),
         UNCHANGED <<loans, notifications, started, changes, now>>,
         row.at = job[r].at, row.changed = job[r].changed, row.held = 2,
         \/ job[r].held = 2
         \/ job[r].held = 1 /\ Free,
         \A l \in row.todo :
           \/ l \in row.changed
           \/ /\ loans[l].active
              /\ \/ Phases[row.phase] \in Calls(l, row.at)
                 \/ Phases[row.phase] = "LOAN_OVERDUE" /\ loans[l].due_date < now,
         \A l \in LoanIds, i \in DOMAIN Phases :
           /\ loans[l].active /\ l \notin row.changed /\ Phases[i] \in Calls(l, row.at)
           /\ i <= row.phase
           => Told(r, l, Phases[i]) \/ (i = row.phase /\ l \in row.todo)
  PROVE  IInv'
<1> DEFINE next == Proceed(row)
<1>1. TypeOK /\ RunInv(r)
  BY DEF IInv
<1>2. /\ next \in Run /\ next.at = row.at /\ next.todo = row.todo /\ next.held = 2
      /\ next.changed = row.changed
      /\ \/ row.todo # {} /\ next.pc = "exists" /\ next.phase = row.phase
         \/ row.todo = {} /\ next.pc = "list" /\ next.phase = row.phase + 1
         \/ row.todo = {} /\ next.pc = "close" /\ row.phase = Len(Phases) /\ next.phase = row.phase
  BY ProceedEffect
<1>3. Step(r, next)
  OBVIOUS
<1> HIDE DEF next
<1>4. job'[r] = next
  BY <1>1, <1>2, <1>3, StepEffect
<1>5. ConnectionsMatch(r)'
  BY <1>2, <1>4 DEF ConnectionsMatch
<1>6. StepMatches(r)'
  <2>1. job[r].at <= now
    BY <1>1 DEF RunInv, StepMatches
  <2> QED
    BY <1>2, <1>4, <2>1 DEF StepMatches, At
<1>7. Pending(r)' = row.todo
  BY <1>2, <1>4 DEF Pending, At
<1>8. \A l, t : Calls(l, t)' = Calls(l, t)
  BY DEF Calls
<1>9. ListIsDue(r)'
  <2> SUFFICES ASSUME NEW l \in row.todo, l \notin row.changed
               PROVE  IsDue(r, l)'
    BY <1>2, <1>4, <1>7 DEF ListIsDue
  <2>1. next.phase = row.phase
    BY <1>2
  <2> QED
    BY <1>2, <1>4, <1>8, <2>1 DEF IsDue, Type
<1>10. NobodyIsLeftOut(r)'
  <2> SUFFICES ASSUME NEW l \in LoanIds, NEW i \in DOMAIN Phases,
                      loans[l].active, l \notin row.changed, Phases[i] \in Calls(l, row.at),
                      i < next.phase \/ (i = next.phase /\ Listed(r)')
               PROVE  Told(r, l, Phases[i])' \/ (i = next.phase /\ l \in row.todo)
    BY <1>2, <1>4, <1>7, <1>8 DEF NobodyIsLeftOut
  <2>1. i <= row.phase /\ (i = row.phase /\ l \in row.todo => i = next.phase)
    <3>1. i \in 1 .. 3 /\ row.phase \in 1 .. 3
      BY PhasesType DEF Run
    <3>2. CASE next.pc = "list"
      <4>1. ~Listed(r)' /\ next.phase = row.phase + 1 /\ row.todo = {}
        BY <1>2, <1>4, <3>2 DEF Listed
      <4> QED
        BY <3>1, <4>1
    <3>3. CASE next.phase = row.phase
      BY <3>1, <3>3
    <3> QED
      BY <1>2, <3>2, <3>3
  <2>2. Told(r, l, Phases[i]) \/ (i = row.phase /\ l \in row.todo)
    BY <2>1
  <2>3. Told(r, l, Phases[i]) => Told(r, l, Phases[i])'
    BY <1>2, <1>4 DEF Told, today
  <2> QED
    BY <2>1, <2>2, <2>3
<1>11. RunInv(r)'
  BY <1>5, <1>6, <1>9, <1>10 DEF RunInv
<1>12. \/ next.held <= job[r].held
       \/ next.held = job[r].held + 1 /\ Free
  BY <1>2
<1>13. next.pc # "create"
  BY <1>2
<1>14. started' \subseteq 0 .. today
  BY <1>1 DEF TypeOK
<1> QED
  BY <1>2, <1>3, <1>11, <1>12, <1>13, <1>14, QuietStep

(* The list of a phase has the loans that are due, and no others. *)
LEMMA ListMeaning ==
  ASSUME TypeOK, NEW r \in Runs, job[r].at <= now
  PROVE  /\ LoansOfPhase(r) \subseteq LoanIds
         /\ \A l \in LoansOfPhase(r) : IsDue(r, l)
         /\ \A l \in LoanIds :
              loans[l].active /\ Type(r) \in Calls(l, job[r].at) => l \in LoansOfPhase(r)
<1>1. Type(r) \in {"LOAN_DUE_SOON", "LOAN_DUE_TODAY", "LOAN_OVERDUE"}
  BY TypeOfRun, PhasesType
<1>2. CASE Type(r) = "LOAN_DUE_SOON"
  <2>1. LoansOfPhase(r) = ListDueOnDate(Date(job[r].at) + DAYS_BEFORE)
    BY <1>2 DEF LoansOfPhase
  <2> QED
    BY <1>2, <2>1, CallsMeaning DEF ListDueOnDate, IsDue
<1>3. CASE Type(r) = "LOAN_DUE_TODAY"
  <2>1. LoansOfPhase(r) = ListDueOnDate(Date(job[r].at))
    BY <1>3 DEF LoansOfPhase
  <2> QED
    BY <1>3, <2>1, CallsMeaning DEF ListDueOnDate, IsDue
<1>4. CASE Type(r) = "LOAN_OVERDUE"
  <2>1. LoansOfPhase(r) = ListOverdue
    BY <1>4 DEF LoansOfPhase
  <2>2. ASSUME NEW l \in LoanIds, loans[l].due_date < job[r].at
        PROVE  loans[l].due_date < now
    <3>1. loans[l].due_date \in Nat
      BY DueLoansAssumption DEF TypeOK, Loan
    <3>2. job[r].at \in Nat /\ now \in Nat
      BY TypeOfRun, TodayType DEF Run
    <3> QED
      BY <2>2, <3>1, <3>2
  <2> QED
    BY <1>4, <2>1, <2>2, CallsMeaning DEF ListOverdue, IsDue
<1> QED
  BY <1>1, <1>2, <1>3, <1>4

(* The query of a phase takes a connection, if the session of the job has   *)
(* none, and finds what is due.                                             *)
LEMMA ListInv ==
  ASSUME IInv, NEW r \in Runs, List(r)
  PROVE  IInv'
<1> DEFINE row == [job[r] EXCEPT !.held = 2, !.todo = LoansOfPhase(r)]
<1>1. /\ job[r].pc = "list" /\ Step(r, Proceed(row))
      /\ SessionHolds(r) \/ Free
      /\ UNCHANGED <<loans, notifications, started, changes, now>>
  BY DEF List, At
<1> HIDE DEF row
<1>2. TypeOK /\ RunInv(r) /\ job[r] \in Run
  BY TypeOfRun DEF IInv
<1>3. job[r].at <= now /\ job[r].held \in {1, 2}
  BY <1>1, <1>2 DEF RunInv, StepMatches, ConnectionsMatch
<1>4. /\ LoansOfPhase(r) \subseteq LoanIds
      /\ \A l \in LoansOfPhase(r) : IsDue(r, l)
      /\ \A l \in LoanIds :
           loans[l].active /\ Type(r) \in Calls(l, job[r].at) => l \in LoansOfPhase(r)
  BY <1>2, <1>3, ListMeaning
<1>5. /\ row \in Run /\ row.at = job[r].at /\ row.changed = job[r].changed /\ row.held = 2
      /\ row.todo = LoansOfPhase(r) /\ row.phase = job[r].phase
  <2>1. [job[r] EXCEPT !.todo = LoansOfPhase(r)] \in Run
    BY <1>2, <1>4 DEF Run
  <2>2. \A old \in Run : [old EXCEPT !.held = 2] \in Run
    BY DEF Run
  <2>3. row = [[job[r] EXCEPT !.todo = LoansOfPhase(r)] EXCEPT !.held = 2]
    BY <1>2 DEF Run, row
  <2>4. row \in Run
    BY <2>1, <2>2, <2>3
  <2> QED
    BY <1>2, <2>4 DEF Run, row
<1>6. \A l \in row.todo :
        /\ loans[l].active
        /\ \/ Phases[row.phase] \in Calls(l, row.at)
           \/ Phases[row.phase] = "LOAN_OVERDUE" /\ loans[l].due_date < now
  BY <1>4, <1>5 DEF IsDue, Type
<1>7. ASSUME NEW l \in LoanIds, NEW i \in DOMAIN Phases,
             loans[l].active, l \notin row.changed, Phases[i] \in Calls(l, row.at),
             i <= row.phase
      PROVE  Told(r, l, Phases[i]) \/ (i = row.phase /\ l \in row.todo)
  <2>1. CASE i = row.phase
    BY <1>4, <1>5, <1>7, <2>1 DEF Type
  <2>2. CASE i < row.phase
    <3>1. NobodyIsLeftOut(r) /\ i # job[r].phase
      BY <1>2, <1>5, <2>2, PhasesType DEF RunInv, Run
    <3> QED
      BY <1>1, <1>5, <1>7, <2>2, <3>1 DEF NobodyIsLeftOut
  <2> QED
    BY <1>5, <1>7, <2>1, <2>2, PhasesType DEF Run
<1>8. \/ job[r].held = 2
      \/ job[r].held = 1 /\ Free
  BY <1>1, <1>3 DEF SessionHolds
<1> QED
  BY <1>1, <1>5, <1>6, <1>7, <1>8, ProceedInv

(* A loan that has its notice of today is passed over. *)
LEMMA ToldToday ==
  ASSUME TypeOK, NEW r \in Runs, job[r].at <= now, NEW l, NEW type,
         notifications[<<l, type, today>>] > 0
  PROVE  Told(r, l, type)
<1>1. Date(job[r].at) \in Nat /\ today \in Nat /\ Date(job[r].at) <= today
  BY TypeOfRun, TodayType, DateMonotone DEF Run, today
<1>2. today \in Date(job[r].at) .. today
  BY <1>1
<1> QED
  BY <1>2 DEF Told

LEMMA ExistsForLoanTodayInv ==
  ASSUME IInv, NEW r \in Runs, ExistsForLoanToday(r)
  PROVE  IInv'
<1>1. TypeOK /\ RunInv(r) /\ job[r] \in Run /\ job[r].pc = "exists"
  BY TypeOfRun DEF IInv, ExistsForLoanToday, At
<1>2. job[r].held = 2 /\ job[r].at <= now /\ Listed(r) /\ Pending(r) = job[r].todo
  BY <1>1 DEF RunInv, ConnectionsMatch, StepMatches, Listed, Pending, At
<1>3. PICK l \in job[r].todo :
        /\ \/ SentToday(l, Type(r)) = 0
              /\ Step(r, [[job[r] EXCEPT !.todo = @ \ {l}] EXCEPT !.pc = "create", !.loan = l])
           \/ SentToday(l, Type(r)) = 1 /\ Step(r, Proceed([job[r] EXCEPT !.todo = @ \ {l}]))
           \/ SentToday(l, Type(r)) > 1 /\ Finish(r)
        /\ UNCHANGED <<loans, notifications, started, changes, now>>
  BY DEF ExistsForLoanToday
<1>4. l \in LoanIds
  BY <1>1 DEF Run
<1> DEFINE row == [job[r] EXCEPT !.todo = @ \ {l}]
<1>5. /\ row \in Run /\ row.at = job[r].at /\ row.changed = job[r].changed /\ row.held = 2
      /\ row.todo = job[r].todo \ {l} /\ row.phase = job[r].phase
  BY <1>1, <1>2 DEF Run
<1>6. \A k \in job[r].todo : IsDue(r, k) \/ k \in job[r].changed
  BY <1>1, <1>2 DEF RunInv, ListIsDue
<1>7. ASSUME NEW k \in LoanIds, NEW i \in DOMAIN Phases,
             loans[k].active, k \notin job[r].changed, Phases[i] \in Calls(k, job[r].at),
             i <= job[r].phase
      PROVE  Told(r, k, Phases[i]) \/ (i = job[r].phase /\ k \in job[r].todo)
  <2>1. i < job[r].phase \/ i = job[r].phase
    BY <1>1, <1>7, PhasesType DEF Run
  <2> QED
    BY <1>1, <1>2, <1>7, <2>1 DEF RunInv, NobodyIsLeftOut
<1>8. CASE SentToday(l, Type(r)) = 0 /\ Step(r, [row EXCEPT !.pc = "create", !.loan = l])
  <2> DEFINE new == [row EXCEPT !.pc = "create", !.loan = l]
  <2>1. /\ new \in Run /\ new.at = job[r].at /\ new.changed = job[r].changed /\ new.held = 2
        /\ new.todo = job[r].todo \ {l} /\ new.phase = job[r].phase
        /\ new.pc = "create" /\ new.loan = l
    BY <1>4, <1>5 DEF Run
  <2>2. Step(r, new)
    BY <1>8
  <2> HIDE DEF new, row
  <2>3. job'[r] = new
    BY <1>1, <2>1, <2>2, StepEffect
  <2>4. Pending(r)' = job[r].todo
    <3>1. Pending(r)' = (job[r].todo \ {l}) \cup {k \in LoanIds : k = l}
      BY <2>1, <2>3 DEF Pending, At
    <3> QED
      BY <1>3, <1>4, <3>1
  <2>5. ConnectionsMatch(r)' /\ StepMatches(r)'
    BY <1>2, <1>3, <1>4, <2>1, <2>3 DEF ConnectionsMatch, StepMatches, At
  <2>6. \A k, t : Calls(k, t)' = Calls(k, t)
    BY <1>3 DEF Calls
  <2>7. ListIsDue(r)'
    BY <1>3, <1>6, <2>1, <2>3, <2>4, <2>6 DEF ListIsDue, IsDue, Type
  <2>8. NobodyIsLeftOut(r)'
    <3> SUFFICES ASSUME NEW k \in LoanIds, NEW i \in DOMAIN Phases,
                        loans[k].active, k \notin job[r].changed,
                        Phases[i] \in Calls(k, job[r].at),
                        i < job[r].phase \/ i = job[r].phase
                 PROVE  Told(r, k, Phases[i])' \/ (i = job[r].phase /\ k \in job[r].todo)
      BY <1>3, <2>1, <2>3, <2>4, <2>6 DEF NobodyIsLeftOut
    <3>1. Told(r, k, Phases[i]) => Told(r, k, Phases[i])'
      BY <1>3, <2>1, <2>3 DEF Told, today
    <3> QED
      BY <1>1, <1>7, <3>1, PhasesType DEF Run
  <2>9. RunInv(r)'
    BY <2>5, <2>7, <2>8 DEF RunInv
  <2>10. notifications[<<new.loan, Phases[new.phase], today>>] = 0
    BY <1>8, <2>1 DEF SentToday, Type
  <2>11. started' \subseteq 0 .. today /\ new.held <= job[r].held
    BY <1>1, <1>2, <1>3, <2>1 DEF TypeOK
  <2> QED
    BY <1>3, <2>1, <2>2, <2>9, <2>10, <2>11, QuietStep
<1>9. CASE SentToday(l, Type(r)) = 1 /\ Step(r, Proceed(row))
  <2> HIDE DEF row
  <2>1. Told(r, l, Type(r))
    BY <1>1, <1>2, <1>9, ToldToday DEF SentToday
  <2>2. \A k \in row.todo :
          \/ k \in row.changed
          \/ /\ loans[k].active
             /\ \/ Phases[row.phase] \in Calls(k, row.at)
                \/ Phases[row.phase] = "LOAN_OVERDUE" /\ loans[k].due_date < now
    BY <1>5, <1>6 DEF IsDue, Type
  <2>3. \A k \in LoanIds, i \in DOMAIN Phases :
          /\ loans[k].active /\ k \notin row.changed /\ Phases[i] \in Calls(k, row.at)
          /\ i <= row.phase
          => Told(r, k, Phases[i]) \/ (i = row.phase /\ k \in row.todo)
    BY <1>5, <1>7, <2>1 DEF Type
  <2> QED
    BY <1>2, <1>3, <1>5, <1>9, <2>2, <2>3, ProceedInv
<1>10. CASE Finish(r)
  BY <1>3, <1>10, FinishInv
<1> QED
  BY <1>3, <1>8, <1>9, <1>10

(* db.refresh takes the second connection again. *)
LEMMA RefreshInv ==
  ASSUME IInv, NEW r \in Runs, Refresh(r)
  PROVE  IInv'
<1> DEFINE row == [job[r] EXCEPT !.held = 2]
<1>1. /\ job[r].pc = "refresh" /\ Free /\ Step(r, Proceed(row))
      /\ UNCHANGED <<loans, notifications, started, changes, now>>
  BY DEF Refresh, At
<1>2. TypeOK /\ RunInv(r) /\ job[r] \in Run
  BY TypeOfRun DEF IInv
<1>3. job[r].held = 1 /\ Listed(r) /\ Pending(r) = job[r].todo
  BY <1>1, <1>2 DEF RunInv, ConnectionsMatch, Listed, Pending, At
<1>4. /\ row \in Run /\ row.at = job[r].at /\ row.changed = job[r].changed /\ row.held = 2
      /\ row.todo = job[r].todo /\ row.phase = job[r].phase
  BY <1>2 DEF Run
<1> HIDE DEF row
<1>5. \A l \in row.todo :
        \/ l \in row.changed
        \/ /\ loans[l].active
           /\ \/ Phases[row.phase] \in Calls(l, row.at)
              \/ Phases[row.phase] = "LOAN_OVERDUE" /\ loans[l].due_date < now
  BY <1>2, <1>3, <1>4 DEF RunInv, ListIsDue, IsDue, Type
<1>6. ASSUME NEW l \in LoanIds, NEW i \in DOMAIN Phases,
             loans[l].active, l \notin row.changed, Phases[i] \in Calls(l, row.at),
             i <= row.phase
      PROVE  Told(r, l, Phases[i]) \/ (i = row.phase /\ l \in row.todo)
  <2>1. i < row.phase \/ i = row.phase
    BY <1>4, <1>6, PhasesType DEF Run
  <2> QED
    BY <1>1, <1>2, <1>3, <1>4, <1>6, <2>1 DEF RunInv, NobodyIsLeftOut
<1> QED
  BY <1>1, <1>3, <1>4, <1>5, <1>6, ProceedInv

-----------------------------------------------------------------------------
(* A notice is inserted. *)

(* One notice more, and one run less that is to insert one. *)
LEMMA CreateCounts ==
  ASSUME IInv, NEW r \in Runs, Create(r), \A q \in Runs \ {r} : job'[q] = job[q],
         job'[r].pc = "refresh"
  PROVE  NoticesInv'
<1> DEFINE told == job[r].loan
           notice == <<told, Type(r), today>>
<1>1. /\ notifications' = [notifications EXCEPT ![notice] = @ + 1] /\ now' = now
      /\ job[r].pc = "create"
  BY DEF Create, At
<1>2. /\ TypeOK /\ NoticesInv /\ told \in LoanIds /\ Type(r) \in NotificationType
      /\ today' = today
  BY <1>1, TypeOfRun DEF IInv, RunInv, StepMatches, At, today
<1>3. notice \in LoanIds \X NotificationType \X (0 .. Date(MaxNow))
  BY <1>2, TodayType
<1>4. /\ notifications[notice] \in Nat /\ notifications'[notice] = notifications[notice] + 1
      /\ \A n \in DOMAIN notifications : n # notice => notifications'[n] = notifications[n]
      /\ DOMAIN notifications' = DOMAIN notifications
  BY <1>1, <1>2, <1>3 DEF TypeOK
<1>5. ASSUME NEW l \in LoanIds, NEW type \in NotificationType
      PROVE  notifications'[<<l, type, today>>] + Cardinality(Creators(l, type)')
               <= Cardinality(Runs)
  <2>1. /\ IsFiniteSet(Creators(l, type)) /\ Cardinality(Creators(l, type)) \in Nat
        /\ Cardinality(Runs) \in Nat
        /\ notifications[<<l, type, today>>] + Cardinality(Creators(l, type)) <= Cardinality(Runs)
    BY <1>2, CreatorsCounted DEF NoticesInv
  <2>2. Creators(l, type)' = Creators(l, type) \ {r}
    BY <1>1 DEF Creators, At, Type
  <2>3. r \in Creators(l, type) <=> l = told /\ type = Type(r)
    BY <1>1 DEF Creators, At
  <2>4. CASE l = told /\ type = Type(r)
    <3>1. Cardinality(Creators(l, type) \ {r}) = Cardinality(Creators(l, type)) - 1
      BY <2>1, <2>3, <2>4, FS_RemoveElement
    <3>2. notifications'[<<l, type, today>>] = notifications[<<l, type, today>>] + 1
          /\ notifications[<<l, type, today>>] \in Nat
      BY <1>4, <2>4
    <3>3. Cardinality(Creators(l, type)') = Cardinality(Creators(l, type)) - 1
      BY <2>2, <3>1
    <3> QED
      BY <2>1, <3>2, <3>3
  <2>5. CASE ~(l = told /\ type = Type(r))
    <3>1. Creators(l, type)' = Creators(l, type)
      BY <2>2, <2>3, <2>5
    <3>2. <<l, type, today>> \in DOMAIN notifications /\ <<l, type, today>> # notice
      BY <1>2, <2>5, TodayType DEF TypeOK
    <3> QED
      BY <1>4, <2>1, <3>1, <3>2
  <2> QED
    BY <2>4, <2>5
<1>6. NoticesBounded'
  <2> SUFFICES ASSUME NEW n \in DOMAIN notifications
               PROVE  notifications'[n] <= Cardinality(Runs)
    BY <1>4 DEF NoticesBounded
  <2>1. CASE n = notice
    <3> PICK l \in LoanIds, type \in NotificationType : l = told /\ type = Type(r)
      BY <1>2
    <3>1. notifications'[<<l, type, today>>] + Cardinality(Creators(l, type)')
            <= Cardinality(Runs)
      BY <1>5
    <3>2. Creators(l, type)' \subseteq Runs
      BY DEF Creators
    <3>3. Cardinality(Creators(l, type)') \in Nat /\ Cardinality(Runs) \in Nat
      BY <3>2, RunsCounted
    <3>4. notifications'[n] = notifications'[<<l, type, today>>] /\ notifications'[n] \in Nat
      BY <1>4, <2>1
    <3> QED
      BY <3>1, <3>3, <3>4
  <2>2. CASE n # notice
    BY <1>2, <1>4, <2>2 DEF NoticesInv, NoticesBounded
  <2> QED
    BY <2>1, <2>2
<1>7. ASSUME NEW l \in LoanIds, NEW type \in NotificationType,
             NEW date \in today + 1 .. Date(MaxNow)
      PROVE  notifications'[<<l, type, date>>] = 0
  <2>1. date # today /\ date \in 0 .. Date(MaxNow)
    BY <1>2, TodayType
  <2>2. <<l, type, date>> \in DOMAIN notifications /\ <<l, type, date>> # notice
    BY <1>2, <2>1 DEF TypeOK
  <2> QED
    BY <1>2, <1>4, <2>2 DEF NoticesInv
<1> QED
  BY <1>2, <1>5, <1>6, <1>7 DEF NoticesInv

(* INSERT and COMMIT give the second connection back and tell the reader.   *)
LEMMA CreateInv ==
  ASSUME IInv, NEW r \in Runs, Create(r)
  PROVE  IInv'
<1> DEFINE told == job[r].loan
           notice == <<told, Type(r), today>>
           row == [job[r] EXCEPT !.pc = "refresh", !.loan = None, !.held = 1]
<1>1. /\ job[r].pc = "create" /\ Step(r, row)
      /\ UNCHANGED <<loans, started, changes, now>>
  BY DEF Create, At
<1>2. notifications' = [notifications EXCEPT ![notice] = @ + 1]
  BY DEF Create
<1> HIDE DEF row
<1>3. /\ TypeOK /\ NoticesInv /\ RunInv(r) /\ told \in LoanIds /\ Type(r) \in NotificationType
      /\ job[r] \in Run
  BY <1>1, TypeOfRun DEF IInv, RunInv, StepMatches, At
<1>4. job[r].held = 2 /\ Listed(r) /\ Pending(r) = job[r].todo \cup {told} /\ job[r].at <= now
  BY <1>1, <1>3 DEF RunInv, ConnectionsMatch, StepMatches, Listed, Pending, At
<1>5. row \in Run
  <2>1. [job[r] EXCEPT !.pc = "refresh", !.loan = None] \in Run
    BY <1>3 DEF Run
  <2>2. \A old \in Run : [old EXCEPT !.held = 1] \in Run
    BY DEF Run
  <2>3. row = [[job[r] EXCEPT !.pc = "refresh", !.loan = None] EXCEPT !.held = 1]
    BY <1>3 DEF Run, row
  <2> QED
    BY <2>1, <2>2, <2>3
<1>6. /\ row.pc = "refresh" /\ row.at = job[r].at /\ row.phase = job[r].phase
      /\ row.todo = job[r].todo /\ row.held = 1 /\ row.changed = job[r].changed
  BY <1>3 DEF Run, row
<1>7. /\ job' \in [Runs -> Run] /\ job'[r] = row
      /\ \A q \in Runs \ {r} : job'[q] = job[q]
  BY <1>1, <1>3, <1>5, StepEffect
<1>8. /\ notifications' \in [LoanIds \X NotificationType \X (0 .. Date(MaxNow)) -> Nat]
      /\ \A n \in DOMAIN notifications : notifications[n] <= notifications'[n]
      /\ notifications'[notice] > 0
  <2>1. notice \in LoanIds \X NotificationType \X (0 .. Date(MaxNow))
    BY <1>3, TodayType
  <2> HIDE DEF notice
  <2>2. notifications \in [LoanIds \X NotificationType \X (0 .. Date(MaxNow)) -> Nat]
    BY <1>3 DEF TypeOK
  <2> QED
    BY <1>2, <2>1, <2>2
<1>9. InUse' <= PoolLimit
  <2>1. InUse \in Nat /\ InUse' \in Nat /\ InUse <= PoolLimit /\ PoolLimit \in Nat
    BY <1>3, InUseType, DueLoansAssumption DEF TypeOK
  <2>2. row.held <= job[r].held
    BY <1>4, <1>6
  <2>3. InUse' <= InUse
    BY <1>1, <1>3, <1>5, <2>2, GivingBack
  <2> QED
    BY <2>1, <2>3
<1>10. TypeOK'
  <2>1. today' = today
    BY <1>1 DEF today
  <2> QED
    BY <1>1, <1>3, <1>7, <1>8, <1>9, <2>1 DEF TypeOK
<1>11. NoticesInv'
  BY <1>6, <1>7, CreateCounts
<1>12. ASSUME NEW q \in Runs \ {r}
       PROVE  RunInv(q)'
  <2>1. now <= now'
    BY <1>1, <1>3, TodayType
  <2> QED
    BY <1>1, <1>7, <1>8, <1>10, <2>1, Undisturbed
<1>13. RunInv(r)'
  <2>1. ConnectionsMatch(r)' /\ StepMatches(r)'
    BY <1>1, <1>4, <1>6, <1>7 DEF ConnectionsMatch, StepMatches, At
  <2>2. Pending(r)' = job[r].todo /\ \A l, t : Calls(l, t)' = Calls(l, t)
    BY <1>1, <1>6, <1>7 DEF Pending, At, Calls
  <2>3. ListIsDue(r)'
    BY <1>1, <1>3, <1>4, <1>6, <1>7, <2>2 DEF RunInv, ListIsDue, IsDue, Type
  <2>4. NobodyIsLeftOut(r)'
    <3> SUFFICES ASSUME NEW l \in LoanIds, NEW i \in DOMAIN Phases,
                        loans[l].active, l \notin job[r].changed,
                        Phases[i] \in Calls(l, job[r].at),
                        i < job[r].phase \/ i = job[r].phase
                 PROVE  Told(r, l, Phases[i])' \/ (i = job[r].phase /\ l \in job[r].todo)
      BY <1>1, <1>6, <1>7, <2>2 DEF NobodyIsLeftOut
    <3>1. Told(r, l, Phases[i]) \/ (i = job[r].phase /\ l \in job[r].todo \cup {told})
      BY <1>1, <1>3, <1>4 DEF RunInv, NobodyIsLeftOut
    <3>2. Told(r, l, Phases[i]) => Told(r, l, Phases[i])'
      <4>1. Phases[i] \in NotificationType /\ job[r].at \in 0 .. MaxNow /\ now <= now'
        BY <1>1, <1>3, TodayType DEF NotificationType, Run
      <4> QED
        BY <1>3, <1>6, <1>7, <1>8, <1>10, <4>1, ToldGrows
    <3>3. ASSUME i = job[r].phase, l = told
          PROVE  Told(r, l, Phases[i])'
      <4>1. today \in Date(job[r].at) .. today
        <5>1. Date(job[r].at) \in Nat /\ today \in Nat /\ Date(job[r].at) <= today
          BY <1>3, <1>4, TodayType, DateMonotone DEF Run, today
        <5> QED
          BY <5>1
      <4>2. notifications'[<<l, Phases[i], today>>] > 0 /\ today' = today
        BY <1>1, <1>8, <3>3 DEF Type, today
      <4> QED
        BY <1>6, <1>7, <4>1, <4>2 DEF Told
    <3> QED
      BY <3>1, <3>2, <3>3
  <2> QED
    BY <2>1, <2>3, <2>4 DEF RunInv
<1> QED
  BY <1>10, <1>11, <1>12, <1>13 DEF IInv

(* A loan is renewed, edited or closed: every run that has begun counts it  *)
(* as changed, and goes on.                                                 *)
LEMMA ChangeLoanInv ==
  ASSUME IInv, NEW k \in LoanIds, NEW row \in Loan, ChangeLoan(k, row)
  PROVE  IInv'
<1>1. /\ loans' = [loans EXCEPT ![k] = row] /\ changes < MaxChanges /\ changes' = changes + 1
      /\ job' = [r \in Runs |-> IF job[r].pc \in {"idle", "authenticate"} THEN job[r]
                                ELSE [job[r] EXCEPT !.changed = @ \cup {k}]]
      /\ UNCHANGED <<notifications, started, now>>
  BY DEF ChangeLoan
<1>2. TypeOK /\ NoticesInv /\ today' = today
  BY <1>1 DEF IInv, today
<1>3. ASSUME NEW r \in Runs
      PROVE  /\ job'[r] \in Run
             /\ job'[r].pc = job[r].pc /\ job'[r].at = job[r].at
             /\ job'[r].phase = job[r].phase /\ job'[r].todo = job[r].todo
             /\ job'[r].loan = job[r].loan /\ job'[r].held = job[r].held
             /\ job[r].changed \subseteq job'[r].changed
             /\ job[r].pc \notin {"idle", "authenticate"} => k \in job'[r].changed
  <2>1. job[r] \in Run
    BY <1>2, TypeOfRun
  <2>2. CASE job[r].pc \in {"idle", "authenticate"}
    BY <1>1, <2>1, <2>2
  <2>3. CASE job[r].pc \notin {"idle", "authenticate"}
    <3>1. job'[r] = [job[r] EXCEPT !.changed = @ \cup {k}]
      BY <1>1, <2>3
    <3> QED
      BY <2>1, <3>1 DEF Run
  <2> QED
    BY <2>2, <2>3
<1>4. \A l \in LoanIds : l # k => loans'[l] = loans[l]
  BY <1>1, <1>2 DEF TypeOK
<1>5. TypeOK'
  <2>1. loans' \in [LoanIds -> Loan]
    BY <1>1, <1>2 DEF TypeOK
  <2>2. job' \in [Runs -> Run]
    <3>1. job' = [r \in Runs |-> job'[r]]
      BY <1>1
    <3> QED
      BY <1>3, <3>1
  <2>3. InUse' = InUse
    <3>1. Holding(1)' = Holding(1) /\ Holding(2)' = Holding(2)
      BY <1>3 DEF Holding
    <3> QED
      BY <3>1 DEF InUse
  <2>4. changes' \in 0 .. MaxChanges
    BY <1>1, <1>2, DueLoansAssumption DEF TypeOK
  <2> QED
    BY <1>1, <1>2, <2>1, <2>2, <2>3, <2>4 DEF TypeOK
<1>6. NoticesInv'
  <2>1. \A l \in LoanIds, type \in NotificationType : Creators(l, type)' \subseteq Creators(l, type)
    BY <1>3 DEF Creators, At, Type
  <2> QED
    BY <1>1, <1>2, <2>1, NoticesKept
<1>7. ASSUME NEW r \in Runs
      PROVE  RunInv(r)'
  <2>1. RunInv(r)
    BY DEF IInv
  <2>2. ConnectionsMatch(r)' /\ StepMatches(r)'
    BY <1>1, <1>3, <2>1 DEF RunInv, ConnectionsMatch, StepMatches, At
  <2>3. /\ Listed(r)' <=> Listed(r)
        /\ Pending(r)' = Pending(r) /\ Pending(r) \subseteq LoanIds
    <3>1. job[r] \in Run
      BY <1>2, TypeOfRun
    <3> QED
      BY <1>3, <3>1 DEF Listed, Pending, At, Run
  <2>4. ListIsDue(r)'
    <3> SUFFICES ASSUME Listed(r), NEW l \in LoanIds, l \in Pending(r)
                 PROVE  IsDue(r, l)' \/ l \in job'[r].changed
      BY <2>3 DEF ListIsDue
    <3>1. CASE l = k
      BY <1>3, <3>1 DEF Listed
    <3>2. CASE l # k
      <4>1. IsDue(r, l) \/ l \in job[r].changed
        BY <2>1 DEF RunInv, ListIsDue
      <4>2. loans'[l] = loans[l]
        BY <1>4, <3>2
      <4>3. IsDue(r, l) => IsDue(r, l)'
        BY <1>1, <1>3, <4>2 DEF IsDue, Type, Calls
      <4> QED
        BY <1>3, <4>1, <4>3
    <3> QED
      BY <3>1, <3>2
  <2>5. NobodyIsLeftOut(r)'
    <3> SUFFICES ASSUME NEW l \in LoanIds, NEW i \in DOMAIN Phases,
                        loans'[l].active, l \notin job'[r].changed,
                        Phases[i] \in Calls(l, job[r].at)',
                        job[r].pc \notin {"idle", "authenticate"},
                        i < job[r].phase \/ (i = job[r].phase /\ Listed(r))
                 PROVE  Told(r, l, Phases[i])' \/ (i = job[r].phase /\ l \in Pending(r))
      BY <1>3, <2>3 DEF NobodyIsLeftOut
    <3>1. l # k /\ l \notin job[r].changed
      BY <1>3
    <3>2. loans'[l] = loans[l] /\ Phases[i] \in Calls(l, job[r].at)
      BY <1>1, <1>3, <1>4, <3>1 DEF Calls
    <3>3. Told(r, l, Phases[i]) \/ (i = job[r].phase /\ l \in Pending(r))
      BY <2>1, <3>1, <3>2 DEF RunInv, NobodyIsLeftOut
    <3>4. Told(r, l, Phases[i]) => Told(r, l, Phases[i])'
      BY <1>1, <1>2, <1>3 DEF Told
    <3> QED
      BY <3>3, <3>4
  <2> QED
    BY <2>2, <2>4, <2>5 DEF RunInv
<1> QED
  BY <1>5, <1>6, <1>7 DEF IInv

(* At midnight the count of notices begins anew: there is none of the new   *)
(* date yet.                                                                *)
LEMMA TickInv ==
  ASSUME IInv, Tick
  PROVE  IInv'
<1>1. now < MaxNow /\ now' = now + 1 /\ UNCHANGED <<loans, notifications, job, started, changes>>
  BY DEF Tick
<1>2. TypeOK /\ NoticesInv
  BY DEF IInv
<1>3. /\ now \in Nat /\ now' \in 0 .. MaxNow /\ now <= now'
      /\ today \in Nat /\ today' \in Nat /\ today <= today' /\ today' <= Date(MaxNow)
  <2>1. now \in Nat /\ MaxNow \in Nat /\ now' \in Nat /\ now <= now' /\ now' <= MaxNow
    BY <1>1, <1>2, TodayType
  <2> QED
    BY <2>1, DateMonotone DEF today
<1>4. TypeOK'
  <2>1. InUse' = InUse
    BY <1>1 DEF InUse, Holding
  <2>2. started' \subseteq 0 .. today'
    BY <1>1, <1>2, <1>3 DEF TypeOK
  <2> QED
    BY <1>1, <1>2, <1>3, <2>1, <2>2 DEF TypeOK
<1>5. NoticesInv'
  <2>1. NoticesBounded'
    BY <1>1, <1>2 DEF NoticesInv, NoticesBounded
  <2>2. ASSUME NEW l \in LoanIds, NEW type \in NotificationType
        PROVE  /\ notifications[<<l, type, today'>>] + Cardinality(Creators(l, type)')
                    <= Cardinality(Runs)
               /\ \A date \in today' + 1 .. Date(MaxNow) : notifications[<<l, type, date>>] = 0
    <3>1. Creators(l, type)' = Creators(l, type)
      BY <1>1 DEF Creators, At, Type
    <3>2. \A date \in today + 1 .. Date(MaxNow) : notifications[<<l, type, date>>] = 0
      BY <1>2 DEF NoticesInv
    <3>3. Date(MaxNow) \in Nat
      BY <1>2, TodayType
    <3>4. CASE today' = today
      BY <1>2, <3>1, <3>2, <3>4 DEF NoticesInv
    <3>5. CASE today' # today
      <4>1. notifications[<<l, type, today'>>] = 0
        BY <1>3, <3>2, <3>3, <3>5
      <4>2. Cardinality(Creators(l, type)) \in Nat /\ Cardinality(Runs) \in Nat
            /\ Cardinality(Creators(l, type)) <= Cardinality(Runs)
        BY CreatorsCounted
      <4>3. notifications[<<l, type, today'>>] + Cardinality(Creators(l, type)')
              <= Cardinality(Runs)
        BY <3>1, <4>1, <4>2
      <4>4. \A from, later, last \in Nat :
              from <= later => later + 1 .. last \subseteq from + 1 .. last
        OBVIOUS
      <4>5. ASSUME NEW date \in today' + 1 .. Date(MaxNow)
            PROVE  notifications[<<l, type, date>>] = 0
        <5>1. date \in today + 1 .. Date(MaxNow)
          BY <1>3, <3>3, <4>4
        <5> QED
          BY <3>2, <5>1
      <4> QED
        BY <4>3, <4>5
    <3> QED
      BY <3>4, <3>5
  <2> QED
    BY <1>1, <2>1, <2>2 DEF NoticesInv
<1>6. ASSUME NEW r \in Runs
      PROVE  RunInv(r)'
  BY <1>1, <1>2, <1>3, <1>4, Undisturbed DEF TypeOK
<1> QED
  BY <1>4, <1>5, <1>6 DEF IInv

-----------------------------------------------------------------------------
(* Before the first run nothing is held, listed or told. *)
LEMMA InitInv ==
  Init => IInv
<1> SUFFICES ASSUME Init
             PROVE  IInv
  OBVIOUS
<1>1. /\ loans \in [LoanIds -> [active: {TRUE}, due_date: DueDates]]
      /\ notifications = [n \in LoanIds \X NotificationType \X (0 .. Date(MaxNow)) |-> 0]
      /\ job = [r \in Runs |-> Idle] /\ started = {} /\ changes = 0 /\ now = 0
  BY DEF Init
<1>2. Idle \in Run /\ Idle.pc = "idle" /\ Idle.held = 0 /\ Idle.at = 0
  BY IdleType DEF Idle
<1>3. TypeOK
  <2>1. loans \in [LoanIds -> Loan]
    BY <1>1 DEF Loan
  <2>2. Holding(1) = {} /\ Holding(2) = {}
    BY <1>1, <1>2 DEF Holding
  <2>3. InUse <= PoolLimit
    BY <2>2, FS_EmptySet, DueLoansAssumption DEF InUse
  <2>4. changes \in 0 .. MaxChanges /\ now \in 0 .. MaxNow
    BY <1>1, DueLoansAssumption
  <2>5. notifications \in [LoanIds \X NotificationType \X (0 .. Date(MaxNow)) -> Nat]
    BY <1>1
  <2>6. job \in [Runs -> Run] /\ started \subseteq 0 .. today
    BY <1>1, <1>2
  <2> QED
    BY <2>1, <2>3, <2>4, <2>5, <2>6 DEF TypeOK
<1>4. NoticesInv
  <2>1. \A n \in LoanIds \X NotificationType \X (0 .. Date(MaxNow)) : notifications[n] = 0
    BY <1>1
  <2>2. Cardinality(Runs) \in Nat /\ today \in Nat /\ today <= Date(MaxNow) /\ Date(MaxNow) \in Nat
    BY <1>3, RunsCounted, TodayType
  <2>3. NoticesBounded
    BY <1>1, <2>1, <2>2 DEF NoticesBounded
  <2>4. ASSUME NEW l \in LoanIds, NEW type \in NotificationType
        PROVE  /\ notifications[<<l, type, today>>] + Cardinality(Creators(l, type))
                    <= Cardinality(Runs)
               /\ \A date \in today + 1 .. Date(MaxNow) : notifications[<<l, type, date>>] = 0
    <3>1. \A date \in today .. Date(MaxNow) : notifications[<<l, type, date>>] = 0
      BY <2>1, <2>2
    <3>2. Cardinality(Creators(l, type)) \in Nat /\ Cardinality(Creators(l, type)) <= Cardinality(Runs)
      BY CreatorsCounted
    <3> QED
      BY <2>2, <3>1, <3>2
  <2> QED
    BY <2>3, <2>4 DEF NoticesInv
<1>5. ASSUME NEW r \in Runs
      PROVE  RunInv(r)
  <2>1. job[r] = Idle /\ now = 0
    BY <1>1
  <2> QED
    BY <1>2, <2>1 DEF RunInv, ConnectionsMatch, StepMatches, ListIsDue, NobodyIsLeftOut, Listed, At
<1> QED
  BY <1>3, <1>4, <1>5 DEF IInv

(* A state that looks the same is as good. *)
LEMMA StutterInv ==
  ASSUME IInv, UNCHANGED vars
  PROVE  IInv'
<1>1. UNCHANGED <<loans, notifications, job, started, changes, now>> /\ TypeOK /\ NoticesInv
  BY DEF vars, IInv
<1>2. TypeOK'
  BY <1>1 DEF TypeOK, InUse, Holding, today
<1>3. NoticesInv'
  <2>1. \A l \in LoanIds, type \in NotificationType : Creators(l, type)' = Creators(l, type)
    BY <1>1 DEF Creators, At, Type
  <2> QED
    BY <1>1, <2>1, NoticesKept
<1>4. ASSUME NEW r \in Runs
      PROVE  RunInv(r)'
  <2>1. now <= now' /\ \A n \in DOMAIN notifications : notifications[n] <= notifications'[n]
    BY <1>1, TodayType DEF TypeOK
  <2> QED
    BY <1>1, <1>2, <2>1, Undisturbed
<1> QED
  BY <1>2, <1>3, <1>4 DEF IInv

LEMMA NextInv ==
  IInv /\ [Next]_vars => IInv'
<1> SUFFICES ASSUME IInv, [Next]_vars
             PROVE  IInv'
  OBVIOUS
<1>1. ASSUME NEW r \in Runs, RunDueLoansJob(r)
      PROVE  IInv'
  BY <1>1, RunDueLoansJobInv
<1>2. ASSUME NEW r \in Runs, Authenticate(r)
      PROVE  IInv'
  BY <1>2, AuthenticateInv
<1>3. ASSUME NEW r \in Runs, List(r)
      PROVE  IInv'
  BY <1>3, ListInv
<1>4. ASSUME NEW r \in Runs, ExistsForLoanToday(r)
      PROVE  IInv'
  BY <1>4, ExistsForLoanTodayInv
<1>5. ASSUME NEW r \in Runs, Create(r)
      PROVE  IInv'
  BY <1>5, CreateInv
<1>6. ASSUME NEW r \in Runs, Refresh(r)
      PROVE  IInv'
  BY <1>6, RefreshInv
<1>7. ASSUME NEW r \in Runs, Close(r) \/ TimeOut(r) \/ Fail(r)
      PROVE  IInv'
  BY <1>7, FinishInv DEF Close, TimeOut, Fail
<1>8. ASSUME NEW l \in LoanIds, NEW row \in Loan, ChangeLoan(l, row)
      PROVE  IInv'
  BY <1>8, ChangeLoanInv
<1>9. CASE Tick
  BY <1>9, TickInv
<1>10. CASE UNCHANGED vars
  BY <1>10, StutterInv
<1> QED
  BY <1>1, <1>2, <1>3, <1>4, <1>5, <1>6, <1>7, <1>8, <1>9, <1>10 DEF Next, RunStep

(* Runs of the job never exceed the pool, list only what is due and leave   *)
(* out nobody, however they interleave, fail and time out.                  *)
THEOREM Invariance ==
  Spec => []IInv
BY InitInv, NextInv, PTL DEF Spec

(* Rows and runs keep their types, and the pool its limit, for any number   *)
(* of runs, loans, connections and days.                                    *)
THEOREM TypeCorrect ==
  Spec => []TypeOK
<1>1. IInv => TypeOK
  BY DEF IInv
<1> QED
  BY <1>1, Invariance, PTL

(* A reader gets no more notices of a type on a day than there are requests *)
(* that can run together.                                                   *)
THEOREM NoticesAreBounded ==
  Spec => []NoticesBounded
<1>1. IInv => NoticesBounded
  BY DEF IInv, NoticesInv
<1> QED
  BY <1>1, Invariance, PTL

(* A run that gets to its end has told, or found told, the reader of every  *)
(* loan that was due all the while.                                         *)
THEOREM CompleteRunsHaveNotified ==
  Spec => []CompleteRunsNotify
<1>1. IInv => CompleteRunsNotify
  <2> SUFFICES ASSUME IInv, NEW r \in Runs, NEW l \in LoanIds, At(r, "close"),
                      loans[l].active, l \notin job[r].changed,
                      NEW type \in Calls(l, job[r].at)
               PROVE  Told(r, l, type)
    BY DEF CompleteRunsNotify
  <2>1. RunInv(r) /\ job[r].pc = "close" /\ job[r].todo = {} /\ job[r].phase = 3
    BY PhasesType DEF IInv, RunInv, StepMatches, At
  <2>2. Pending(r) = {} /\ Listed(r)
    BY <2>1 DEF Pending, Listed, At
  <2>3. PICK i \in DOMAIN Phases : type = Phases[i]
    BY DEF Calls, NotificationType
  <2>4. i < 3 \/ i = 3
    BY PhasesType
  <2> QED
    BY <2>1, <2>2, <2>3, <2>4 DEF RunInv, NobodyIsLeftOut
<1> QED
  BY <1>1, Invariance, PTL

(* A notice is inserted only by a run that is telling of this loan, which   *)
(* is due as the notice says, or was when the run began and has changed.    *)
THEOREM NoticesAreAlwaysGrounded ==
  Spec => NoticesAreGrounded
<1> DEFINE Grounded(l, type) ==
      \E r \in Runs :
        /\ At(r, "create") /\ job[r].loan = l
        /\ \/ loans[l].active /\ type \in Calls(l, job[r].at)
           \/ loans[l].active /\ type = "LOAN_OVERDUE" /\ loans[l].due_date < now
           \/ l \in job[r].changed
<1>1. ASSUME IInv, Next, NEW l \in LoanIds, NEW type \in NotificationType,
             notifications'[<<l, type, today>>] > notifications[<<l, type, today>>]
      PROVE  Grounded(l, type)
  <2>1. TypeOK /\ <<l, type, today>> \in DOMAIN notifications
        /\ notifications[<<l, type, today>>] \in Nat
    <3>1. TypeOK
      BY <1>1 DEF IInv
    <3>2. today \in 0 .. Date(MaxNow)
      BY <3>1, TodayType
    <3> QED
      BY <3>1, <3>2 DEF TypeOK
  <2>2. notifications' # notifications
    BY <1>1, <2>1
  <2>3. PICK r \in Runs : Create(r)
    BY <1>1, <2>2 DEF Next, RunStep, RunDueLoansJob, Authenticate, List, ExistsForLoanToday,
       Refresh, Close, TimeOut, Fail, ChangeLoan, Tick
  <2>4. At(r, "create") /\ job[r].loan = l /\ Type(r) = type
    BY <1>1, <2>1, <2>3 DEF Create
  <2>5. Listed(r) /\ l \in Pending(r)
    BY <2>4 DEF Listed, Pending, At
  <2>6. IsDue(r, l) \/ l \in job[r].changed
    BY <1>1, <2>5 DEF IInv, RunInv, ListIsDue
  <2> QED
    BY <2>4, <2>6 DEF IsDue
<1>2. IInv /\ [Next]_vars =>
        [\A l \in LoanIds, type \in NotificationType :
           notifications'[<<l, type, today>>] > notifications[<<l, type, today>>] =>
             Grounded(l, type)]_vars
  BY <1>1
<1> QED
  BY <1>2, Invariance, PTL DEF Spec, NoticesAreGrounded

=============================================================================
