------------------------------ MODULE RaceProofs ------------------------------
(* Proofs about how requests race: a reader is told once of what became of  *)
(* a loan, and the checks that take no lock are overrun by no more than the *)
(* requests that run together.                                              *)
EXTENDS LoanProofs, FiniteSetTheorems

-----------------------------------------------------------------------------
(* What a step of a handler does to its request. *)

(* What the request names stays as it is. *)
Same(r) ==
  /\ req'[r].op = req[r].op /\ req'[r].user = req[r].user /\ req'[r].loan = req[r].loan
  /\ req'[r].reservation = req[r].reservation
  /\ req[r].op \in {"create_loan", "create_reservation"} => req'[r].book = req[r].book

(* The steps after which a handler goes on. *)
Moves(r) ==
  \/ CountActiveByUser(r) /\ req'[r].pc = "lock_book" /\ loans' = loans
       /\ Cardinality(LoansOf(req[r].user)) < MAX_ACTIVE_LOANS
  \/ CreateLoanLocksBook(r) /\ req'[r].pc = "commit"
  \/ CommitCreateLoan(r) /\ req'[r].pc = "publish"
  \/ CommitReturnLoan(r) /\ req'[r].pc = "publish"
  \/ CommitCancelLoan(r) /\ req'[r].pc = "publish"
  \/ FindExistingReservation(r) /\ req'[r].pc = "commit" /\ reservations' = reservations
       /\ ReservationsOf(req[r].user, req[r].book) = {}
  \/ CommitCreateReservation(r) /\ req'[r].pc = "publish"
  \/ CommitCancelReservation(r) /\ req'[r].pc = "publish"
  \/ req[r].op \in LockingOps /\ req'[r].pc # "publish"

Others(r) == \A q \in Requests \ {r} : req'[q] = req[q]

(* COMMIT, an unlocked SELECT or a check: the handler goes on at pc. *)
LEMMA GoingOn ==
  ASSUME IInv, NEW r \in Requests,
         NEW pc \in {"lock_book", "check_reservations", "commit", "publish"}, Goto(r, pc)
  PROVE  Same(r) /\ req'[r].pc = pc /\ Others(r)
BY GotoEffect DEF IInv, TypeOK, Same, Others

LEMMA Ending ==
  ASSUME IInv, NEW r \in Requests, Finish(r)
  PROVE  req'[r] = Idle /\ Others(r)
BY FinishEffect DEF IInv, TypeOK, Others

(* A lock is taken: the handler goes on with what it has loaded. *)
LEMMA LockMoves ==
  ASSUME IInv, NEW r \in Requests, NEW op \in LockingOps, NEW accepted,
         NEW pc \in {"lock_book", "check_reservations", "commit"},
         LockLoan(r, op, accepted, pc)
  PROVE  /\ Others(r)
         /\ \/ req'[r] = Idle
            \/ Same(r) /\ req[r].op \in LockingOps /\ req'[r].pc # "publish"
<1>1. req \in [Requests -> Request] /\ req[r] \in Request /\ req[r].op = op
  BY DEF IInv, TypeOK, LockLoan, At
<1>2. \/ Finish(r)
      \/ req' = [req EXCEPT ![r].pc = pc, ![r].at = now,
                            ![r].loan_row = loans[req[r].loan],
                            ![r].book = loans[req[r].loan].book]
  BY DEF LockLoan, Rollback
<1>3. CASE Finish(r)
  BY <1>3, Ending
<1>4. CASE req' = [req EXCEPT ![r].pc = pc, ![r].at = now,
                              ![r].loan_row = loans[req[r].loan],
                              ![r].book = loans[req[r].loan].book]
  <2>1. /\ req'[r].pc = pc /\ req'[r].op = req[r].op /\ req'[r].user = req[r].user
        /\ req'[r].loan = req[r].loan /\ req'[r].reservation = req[r].reservation
    BY <1>1, <1>4 DEF Request
  <2>2. op \notin {"create_loan", "create_reservation"} /\ pc # "publish"
    BY DEF LockingOps
  <2>3. Others(r)
    BY <1>1, <1>4 DEF Others
  <2> QED
    BY <1>1, <2>1, <2>2, <2>3 DEF Same
<1> QED
  BY <1>2, <1>3, <1>4

(* A step of a loan handler ends the request, or moves it on. *)
LEMMA LoanStepMoves ==
  ASSUME IInv, NEW r \in Requests, LoanServiceStep(r)
  PROVE  Others(r) /\ (req'[r] = Idle \/ (Same(r) /\ Moves(r)))
<1>1. req \in [Requests -> Request] /\ req[r] \in Request
  BY DEF IInv, TypeOK
<1>2. CASE CountActiveByUser(r)
  <2>1. CASE Finish(r)
    BY <2>1, Ending
  <2>2. CASE ~Finish(r)
    <3>1. Goto(r, "lock_book") /\ loans' = loans
          /\ ~(Cardinality({l \in ActiveLoans : loans[l].user = req[r].user}) >= MAX_ACTIVE_LOANS)
      BY <1>2, <2>2 DEF CountActiveByUser, tables
    <3>2. LoansOf(req[r].user) \subseteq LoanIds
      BY DEF LoansOf, ActiveLoans, IInv, TypeOK
    <3>3. Cardinality(LoansOf(req[r].user)) \in Nat /\ MAX_ACTIVE_LOANS \in Nat
      BY <3>2, DatabaseAssumption, FS_Subset, FS_CardinalityType
    <3>4. Cardinality(LoansOf(req[r].user)) < MAX_ACTIVE_LOANS
      BY <3>1, <3>3 DEF LoansOf
    <3> QED
      BY <1>2, <3>1, <3>4, GoingOn DEF Moves
  <2> QED
    BY <2>1, <2>2
<1>3. CASE CreateLoanLocksBook(r)
  <2>1. \/ Finish(r)
        \/ req' = [req EXCEPT ![r].pc = "commit", ![r].at = now,
                              ![r].book_row = books[req[r].book]]
    BY <1>3 DEF CreateLoanLocksBook, Rollback
  <2>2. CASE Finish(r)
    BY <2>2, Ending
  <2>3. CASE req' = [req EXCEPT ![r].pc = "commit", ![r].at = now,
                                ![r].book_row = books[req[r].book]]
    <3>1. req'[r].pc = "commit" /\ Same(r) /\ Others(r)
      BY <1>1, <2>3 DEF Request, Same, Others
    <3> QED
      BY <1>3, <3>1 DEF Moves
  <2> QED
    BY <2>1, <2>2, <2>3
<1>4. CASE ClosingLoanLocksBook(r)
  <2>1. /\ req[r].op \in {"return_loan", "cancel_loan"}
        /\ \/ Finish(r)
           \/ req' = [req EXCEPT ![r].pc = "commit", ![r].book_row = books[req[r].book]]
    BY <1>4 DEF ClosingLoanLocksBook, Rollback
  <2>2. CASE Finish(r)
    BY <2>2, Ending
  <2>3. CASE req' = [req EXCEPT ![r].pc = "commit", ![r].book_row = books[req[r].book]]
    <3>1. req'[r].pc = "commit" /\ Same(r) /\ Others(r)
      BY <1>1, <2>3 DEF Request, Same, Others
    <3> QED
      BY <2>1, <3>1 DEF Moves, LockingOps
  <2> QED
    BY <2>1, <2>2, <2>3
<1>5. CASE CommitCreateLoan(r) \/ CommitReturnLoan(r) \/ CommitCancelLoan(r)
  <2>1. Goto(r, "publish")
    BY <1>5 DEF CommitCreateLoan, CommitReturnLoan, CommitCancelLoan
  <2> QED
    BY <1>5, <2>1, GoingOn DEF Moves
<1>6. CASE RenewalChecksReservations(r)
  <2>1. req[r].op = "renew_loan" /\ (Finish(r) \/ Goto(r, "commit"))
    BY <1>6 DEF RenewalChecksReservations, At, Rollback
  <2> QED
    BY <2>1, GoingOn, Ending DEF Moves, LockingOps
<1>7. CASE ReturnLoan(r) \/ CancelLoan(r) \/ PayFine(r) \/ RenewLoan(r)
  BY <1>7, LockMoves DEF ReturnLoan, CancelLoan, PayFine, RenewLoan, LockingOps, Moves
<1>8. CASE CommitPayFine(r) \/ CommitRenewLoan(r) \/ CommitUpdateLoan(r) \/ PublishLoanEvent(r)
  <2>1. Finish(r)
    BY <1>8 DEF CommitPayFine, CommitRenewLoan, CommitUpdateLoan, PublishLoanEvent
  <2> QED
    BY <2>1, Ending
<1> QED
  BY <1>2, <1>3, <1>4, <1>5, <1>6, <1>7, <1>8 DEF LoanServiceStep

(* So does a step of any handler, and a failure ends the request. *)
LEMMA StepMoves ==
  ASSUME IInv, NEW r \in Requests, Step(r) \/ RequestFails(r)
  PROVE  Others(r) /\ (req'[r] = Idle \/ (Same(r) /\ Moves(r)))
<1>1. CASE RequestFails(r) \/ CommitUpdateBook(r) \/ PublishReservationEvent(r)
  <2>1. Finish(r)
    BY <1>1 DEF RequestFails, Rollback, CommitUpdateBook, PublishReservationEvent
  <2> QED
    BY <2>1, Ending
<1>2. CASE FindExistingReservation(r)
  <2>1. CASE Finish(r)
    BY <2>1, Ending
  <2>2. CASE ~Finish(r)
    <3>1. Goto(r, "commit") /\ reservations' = reservations
          /\ ReservationsOf(req[r].user, req[r].book) = {}
      BY <1>2, <2>2 DEF FindExistingReservation, tables, ReservationsOf
    <3> QED
      BY <1>2, <3>1, GoingOn DEF Moves
  <2> QED
    BY <2>1, <2>2
<1>3. CASE CommitCreateReservation(r) \/ CommitCancelReservation(r)
  <2>1. Goto(r, "publish")
    BY <1>3 DEF CommitCreateReservation, CommitCancelReservation
  <2> QED
    BY <1>3, <2>1, GoingOn DEF Moves
<1>4. CASE LoanServiceStep(r)
  BY <1>4, LoanStepMoves
<1> QED
  BY <1>1, <1>2, <1>3, <1>4 DEF Step, ReservationServiceStep

(* A request that is received has the slot to itself and commits nothing    *)
(* yet; only a cancellation is already past its check.                      *)
LEMMA StartMoves ==
  ASSUME IInv, NEW r \in Requests, Start(r)
  PROVE  /\ Others(r) /\ req[r].pc = "idle"
         /\ UNCHANGED <<loans, reservations, notifications>>
         /\ req'[r].pc \in {"count_active", "lock_loan", "find_existing", "commit"}
         /\ req'[r].pc = "commit" =>
              \/ req'[r].op \in {"update_loan", "update_book"}
              \/ req'[r].op = "cancel_reservation" /\ req'[r].reservation \in ActiveReservations
         /\ req'[r].pc = "find_existing" =>
              /\ req'[r].reservation \notin DOMAIN reservations
              /\ \A q \in Requests : req[q].reservation # req'[r].reservation
<1>1. req \in [Requests -> Request]
  BY DEF IInv, TypeOK
<1>2. ASSUME NEW u \in Users, NEW b \in Books, NEW l \in LoanIds, CreateLoan(r, u, b, l)
      PROVE  /\ Others(r) /\ req[r].pc = "idle" /\ req'[r].pc = "count_active"
             /\ UNCHANGED <<loans, reservations, notifications>>
  BY <1>1, <1>2 DEF CreateLoan, CanStart, Idle, Others, tables
<1>3. ASSUME NEW op \in LockingOps, NEW l \in LoanIds, ReceiveLoanRequest(r, op, l)
      PROVE  /\ Others(r) /\ req[r].pc = "idle" /\ req'[r].pc = "lock_loan"
             /\ UNCHANGED <<loans, reservations, notifications>>
  BY <1>1, <1>3 DEF ReceiveLoanRequest, CanStart, Idle, Others, tables
<1>4. ASSUME NEW l \in LoanIds, NEW due_date \in DueDates, UpdateLoan(r, l, due_date)
      PROVE  /\ Others(r) /\ req[r].pc = "idle"
             /\ req'[r].pc = "commit" /\ req'[r].op = "update_loan"
             /\ UNCHANGED <<loans, reservations, notifications>>
  BY <1>1, <1>4 DEF UpdateLoan, CanStart, Idle, Others, tables
<1>5. ASSUME NEW b \in Books, NEW n \in Copies, UpdateBook(r, b, n)
      PROVE  /\ Others(r) /\ req[r].pc = "idle"
             /\ req'[r].pc = "commit" /\ req'[r].op = "update_book"
             /\ UNCHANGED <<loans, reservations, notifications>>
  BY <1>1, <1>5 DEF UpdateBook, CanStart, Idle, Others, tables
<1>6. ASSUME NEW u \in Users, NEW b \in Books, NEW v \in ReservationIds,
             CreateReservation(r, u, b, v)
      PROVE  /\ Others(r) /\ req[r].pc = "idle" /\ req'[r].pc = "find_existing"
             /\ req'[r].reservation \notin DOMAIN reservations
             /\ \A q \in Requests : req[q].reservation # req'[r].reservation
             /\ UNCHANGED <<loans, reservations, notifications>>
  BY <1>1, <1>6 DEF CreateReservation, CanStart, Idle, Others, tables
<1>7. ASSUME NEW v \in ReservationIds, CancelReservation(r, v)
      PROVE  /\ Others(r) /\ req[r].pc = "idle" /\ req'[r].pc = "commit"
             /\ req'[r].op = "cancel_reservation" /\ req'[r].reservation \in ActiveReservations
             /\ UNCHANGED <<loans, reservations, notifications>>
  BY <1>1, <1>7 DEF CancelReservation, CanStart, Idle, Others, tables
<1> QED
  BY <1>2, <1>3, <1>4, <1>5, <1>6, <1>7 DEF Start, LoanServiceStart, ReservationServiceStart

(* Every other step leaves the requests, loans and notices alone. *)
LEMMA WhoSteps ==
  ASSUME [Next]_vars
  PROVE  \/ UNCHANGED <<loans, reservations, req, notifications>>
         \/ \E r \in Requests : Start(r) \/ Step(r) \/ RequestFails(r)
BY DEF Next, vars, tables, DeleteBook, DeleteUser, Tick

(* Notices are inserted by the two publishing steps. *)
LEMMA NoticeWriters ==
  ASSUME [Next]_vars
  PROVE  \/ notifications' = notifications
         \/ \E r \in Requests : PublishLoanEvent(r) \/ PublishReservationEvent(r)
<1>1. ASSUME NEW r \in Requests, LoanServiceStep(r)
      PROVE  notifications' = notifications \/ PublishLoanEvent(r)
  BY <1>1 DEF LoanServiceStep, CountActiveByUser, CreateLoanLocksBook, ReturnLoan, CancelLoan,
     PayFine, RenewLoan, LockLoan, ClosingLoanLocksBook, CommitCreateLoan, CommitReturnLoan,
     CommitCancelLoan, CommitPayFine, CommitRenewLoan, CommitUpdateLoan, RenewalChecksReservations
<1>2. ASSUME NEW r \in Requests, ReservationServiceStep(r)
      PROVE  notifications' = notifications \/ PublishReservationEvent(r)
  BY <1>2 DEF ReservationServiceStep, FindExistingReservation, CommitCreateReservation,
     CommitCancelReservation
<1>3. ASSUME NEW r \in Requests, CommitUpdateBook(r) \/ RequestFails(r) \/ Start(r)
      PROVE  notifications' = notifications
  BY <1>3 DEF CommitUpdateBook, RequestFails, Start, LoanServiceStart, CreateLoan,
     ReceiveLoanRequest, UpdateLoan, UpdateBook, ReservationServiceStart, CreateReservation,
     CancelReservation
<1> QED
  BY <1>1, <1>2, <1>3, WhoSteps DEF Step

(* Reservations are written by two commits. *)
LEMMA ReservationWriters ==
  ASSUME [Next]_vars
  PROVE  \/ reservations' = reservations
         \/ \E r \in Requests : CommitCreateReservation(r) \/ CommitCancelReservation(r)
<1>1. ASSUME NEW r \in Requests, LoanServiceStep(r)
      PROVE  reservations' = reservations
  BY <1>1 DEF LoanServiceStep, CountActiveByUser, CreateLoanLocksBook, ReturnLoan, CancelLoan,
     PayFine, RenewLoan, LockLoan, ClosingLoanLocksBook, CommitCreateLoan, CommitReturnLoan,
     CommitCancelLoan, CommitPayFine, CommitRenewLoan, CommitUpdateLoan,
     RenewalChecksReservations, PublishLoanEvent, tables
<1>2. ASSUME NEW r \in Requests, ReservationServiceStep(r)
      PROVE  \/ reservations' = reservations
             \/ CommitCreateReservation(r) \/ CommitCancelReservation(r)
  BY <1>2 DEF ReservationServiceStep, FindExistingReservation, PublishReservationEvent, tables
<1>3. ASSUME NEW r \in Requests, CommitUpdateBook(r) \/ RequestFails(r) \/ Start(r)
      PROVE  reservations' = reservations
  BY <1>3 DEF CommitUpdateBook, RequestFails, Start, LoanServiceStart, CreateLoan,
     ReceiveLoanRequest, UpdateLoan, UpdateBook, ReservationServiceStart, CreateReservation,
     CancelReservation, tables
<1> QED
  BY <1>1, <1>2, <1>3, WhoSteps DEF Step

-----------------------------------------------------------------------------
(* A reader is told once of what became of a loan. *)

(* A stored loan stays stored, with its reader, and once closed it stays    *)
(* what it is.                                                              *)
LEMMA LoanKept ==
  ASSUME IInv, [Next]_vars, NEW l \in DOMAIN loans
  PROVE  /\ l \in DOMAIN loans' /\ loans[l] \in Loan /\ loans'[l].user = loans[l].user
         /\ loans[l].status # "ACTIVE" => loans'[l].status = loans[l].status
<1>1. loans[l] \in Loan
  BY DEF IInv, TypeOK
<1>2. ASSUME NEW r \in Requests, LoanCommits(r, l)
      PROVE  loans'[l].user = loans[l].user /\ loans[l].status = "ACTIVE"
  BY <1>1, <1>2, HeldLoan DEF LoanCommits, Returned, Cancelled, Paid, Renewed, Loan
<1>3. ASSUME loans'[l] = [loans[l] EXCEPT !.due_date = loans'[l].due_date]
      PROVE  loans'[l].user = loans[l].user /\ loans'[l].status = loans[l].status
  BY <1>1, <1>3 DEF Loan
<1> QED
  BY <1>1, <1>2, <1>3, LoanRowStep

LEMMA OutcomesType ==
  /\ DOMAIN Outcomes = {"create_loan", "return_loan", "cancel_loan"}
  /\ Outcomes["create_loan"] = LoanStatus /\ Outcomes["return_loan"] = {"RETURNED"}
  /\ Outcomes["cancel_loan"] = {"CANCELLED"}
  /\ EventType["create_loan"] = "LOAN_CREATED" /\ EventType["return_loan"] = "LOAN_RETURNED"
  /\ EventType["cancel_loan"] = "LOAN_CANCELLED"
  /\ EventType["create_reservation"] = "RESERVATION_CREATED"
  /\ EventType["cancel_reservation"] = "RESERVATION_CANCELLED"
BY DEF Outcomes, EventType

(* What has become of a loan is not undone. *)
LEMMA OutcomeStays ==
  ASSUME IInv, [Next]_vars, NEW op \in DOMAIN Outcomes, NEW l \in LoanIds, Outcome(op, l)
  PROVE  Outcome(op, l)'
<1>1. l \in DOMAIN loans /\ loans[l].status \in Outcomes[op]
  BY DEF Outcome
<1>2. /\ l \in DOMAIN loans' /\ loans'[l].status \in LoanStatus
      /\ loans[l].status # "ACTIVE" => loans'[l].status = loans[l].status
  <2>1. IInv'
    BY NextInv
  <2> QED
    BY <1>1, <2>1, LoanKept DEF IInv, TypeOK, Loan
<1>3. op = "create_loan" \/ loans[l].status # "ACTIVE"
  BY <1>1, OutcomesType
<1> QED
  BY <1>1, <1>2, <1>3, OutcomesType DEF Outcome

(* The requests about to tell are counted, and so are the notices.          *)
LEMMA TellingCounted ==
  ASSUME TypeOK, NEW op \in DOMAIN Outcomes, NEW l \in LoanIds
  PROVE  /\ IsFiniteSet(Telling(op, l)) /\ Cardinality(Telling(op, l)) \in Nat
         /\ <<EventType[op], l>> \in DOMAIN notifications
         /\ notifications[<<EventType[op], l>>] \in Nat
<1>1. Telling(op, l) \subseteq Requests
  BY DEF Telling
<1>2. EventType[op] \in NotificationType
  BY OutcomesType DEF NotificationType
<1> QED
  BY <1>1, <1>2, DatabaseAssumption, FS_Subset, FS_CardinalityType DEF TypeOK

(* Fewer requests tell, and what they tell is still so. *)
LEMMA OutcomeKept ==
  ASSUME IInv, OutcomesInv, [Next]_vars, NEW op \in DOMAIN Outcomes, NEW l \in LoanIds,
         notifications'[<<EventType[op], l>>] = notifications[<<EventType[op], l>>],
         Telling(op, l)' \subseteq Telling(op, l)
  PROVE  notifications'[<<EventType[op], l>>] + Cardinality(Telling(op, l)')
           <= IF Outcome(op, l)' THEN 1 ELSE 0
<1>1. TypeOK
  BY DEF IInv
<1>2. /\ IsFiniteSet(Telling(op, l)) /\ Cardinality(Telling(op, l)) \in Nat
      /\ notifications[<<EventType[op], l>>] \in Nat
  BY <1>1, TellingCounted
<1>3. /\ Cardinality(Telling(op, l)') \in Nat
      /\ Cardinality(Telling(op, l)') <= Cardinality(Telling(op, l))
  BY <1>2, FS_Subset, FS_CardinalityType
<1>4. notifications[<<EventType[op], l>>] + Cardinality(Telling(op, l))
        <= IF Outcome(op, l) THEN 1 ELSE 0
  BY DEF OutcomesInv
<1> QED
  BY <1>2, <1>3, <1>4, OutcomeStays

(* The commit that brings about an outcome is the first to, so its request  *)
(* is the only one to tell of it.                                           *)
LEMMA OutcomeCommitted ==
  ASSUME IInv, OutcomesInv, [Next]_vars, NEW r \in Requests, NEW op \in DOMAIN Outcomes,
         NEW l \in LoanIds, req[r].op = op, req[r].loan = l, req[r].pc = "commit",
         Goto(r, "publish"), notifications' = notifications,
         ~Outcome(op, l), Outcome(op, l)'
  PROVE  OutcomesInv'
<1>1. Same(r) /\ req'[r].pc = "publish" /\ Others(r) /\ TypeOK
  BY GoingOn DEF IInv
<1>2. ASSUME NEW o \in DOMAIN Outcomes, NEW k \in LoanIds
      PROVE  notifications'[<<EventType[o], k>>] + Cardinality(Telling(o, k)')
               <= IF Outcome(o, k)' THEN 1 ELSE 0
  <2>1. CASE o = op /\ k = l
    <3>1. /\ IsFiniteSet(Telling(o, k)) /\ Cardinality(Telling(o, k)) \in Nat
          /\ notifications[<<EventType[o], k>>] \in Nat
      BY <1>1, TellingCounted
    <3>2. notifications[<<EventType[o], k>>] + Cardinality(Telling(o, k)) <= 0
      BY <2>1 DEF OutcomesInv
    <3>3. notifications[<<EventType[o], k>>] = 0 /\ Cardinality(Telling(o, k)) = 0
      BY <3>1, <3>2
    <3>4. Telling(o, k) = {}
      BY <3>1, <3>3, FS_EmptySet
    <3>5. Telling(o, k)' = {r}
      BY <1>1, <2>1, <3>4 DEF Telling, At, Same, Others
    <3>6. Cardinality(Telling(o, k)') = 1
      BY <3>5, FS_Singleton
    <3> QED
      BY <2>1, <3>3, <3>6
  <2>2. CASE ~(o = op /\ k = l)
    <3>1. Telling(o, k)' \subseteq Telling(o, k)
      BY <1>1, <2>2 DEF Telling, At, Same, Others
    <3> QED
      BY <3>1, OutcomeKept
  <2> QED
    BY <2>1, <2>2
<1> QED
  BY <1>2 DEF OutcomesInv

LEMMA CommitCreateLoanTold ==
  ASSUME IInv, OutcomesInv, [Next]_vars, NEW r \in Requests, CommitCreateLoan(r)
  PROVE  OutcomesInv'
<1>1. /\ req[r].op = "create_loan" /\ req[r].pc = "commit" /\ Goto(r, "publish")
      /\ notifications' = notifications /\ loans' = Insert(loans, req[r].loan, NewLoan(r))
  BY DEF CommitCreateLoan, At
<1>2. req[r].loan \in LoanIds \ DOMAIN loans
  BY <1>1 DEF IInv, RequestInv, LoanIsNew, CreatesLoan
<1> PICK l \in LoanIds : l = req[r].loan
  BY <1>2
<1>3. ~Outcome("create_loan", l)
  BY <1>2 DEF Outcome
<1>4. Outcome("create_loan", l)'
  <2>1. l \in DOMAIN loans' /\ loans'[l] = NewLoan(r)
    BY <1>1 DEF Insert
  <2>2. NewLoan(r).status = "ACTIVE"
    BY DEF NewLoan
  <2> QED
    BY <2>1, <2>2, OutcomesType DEF Outcome, LoanStatus
<1> QED
  BY <1>1, <1>3, <1>4, OutcomesType, OutcomeCommitted

LEMMA CommitCloseLoanTold ==
  ASSUME IInv, OutcomesInv, [Next]_vars, NEW r \in Requests,
         CommitReturnLoan(r) \/ CommitCancelLoan(r)
  PROVE  OutcomesInv'
<1>1. /\ req[r].op \in {"return_loan", "cancel_loan"} /\ req[r].pc = "commit"
      /\ Goto(r, "publish") /\ notifications' = notifications
  BY DEF CommitReturnLoan, CommitCancelLoan, At
<1>2. HoldsLoan(r)
  BY <1>1 DEF HoldsLoan, LockingOps
<1>3. /\ req[r].loan \in DOMAIN loans /\ req[r].loan \in LoanIds
      /\ loans[req[r].loan] \in Loan /\ loans[req[r].loan].status = "ACTIVE"
  BY <1>2, HeldLoan
<1> PICK l \in LoanIds, op \in DOMAIN Outcomes :
         l = req[r].loan /\ op = req[r].op /\ op \in {"return_loan", "cancel_loan"}
  BY <1>1, <1>3, OutcomesType
<1>4. ~Outcome(op, l)
  BY <1>3, OutcomesType DEF Outcome
<1>5. Outcome(op, l)'
  <2>1. CASE CommitReturnLoan(r)
    <3>1. l \in DOMAIN loans' /\ loans'[l].status = "RETURNED" /\ op = "return_loan"
      BY <1>3, <2>1 DEF CommitReturnLoan, At, Loan
    <3> QED
      BY <3>1, OutcomesType DEF Outcome
  <2>2. CASE CommitCancelLoan(r)
    <3>1. l \in DOMAIN loans' /\ loans'[l].status = "CANCELLED" /\ op = "cancel_loan"
      BY <1>3, <2>2 DEF CommitCancelLoan, At, Loan
    <3> QED
      BY <3>1, OutcomesType DEF Outcome
  <2> QED
    BY <2>1, <2>2
<1> QED
  BY <1>1, <1>4, <1>5, OutcomeCommitted

(* The notice is inserted by one of those that were about to.               *)
LEMMA PublishLoanEventTold ==
  ASSUME IInv, OutcomesInv, [Next]_vars, NEW r \in Requests, PublishLoanEvent(r)
  PROVE  OutcomesInv'
<1>1. /\ req[r].op \in {"create_loan", "return_loan", "cancel_loan"} /\ req[r].pc = "publish"
      /\ Notify(EventType[req[r].op], req[r].loan) /\ Finish(r) /\ TypeOK
  BY DEF PublishLoanEvent, IInv
<1>2. req[r].loan \in LoanIds
  BY <1>1 DEF IInv, TypeOK, RequestInv, LoanIsStored
<1> PICK l \in LoanIds, op \in DOMAIN Outcomes : l = req[r].loan /\ op = req[r].op
  BY <1>1, <1>2, OutcomesType
<1>3. req'[r] = Idle /\ Others(r) /\ Idle.pc = "idle"
  BY <1>1, Ending DEF Idle
<1>4. \A o \in DOMAIN Outcomes, k \in LoanIds : Telling(o, k)' = Telling(o, k) \ {r}
  BY <1>3 DEF Telling, At, Others
<1>5. r \in Telling(op, l)
  BY <1>1 DEF Telling, At
<1>6. notifications' = [notifications EXCEPT ![<<EventType[op], l>>] = @ + 1]
  BY <1>1 DEF Notify
<1>7. ASSUME NEW o \in DOMAIN Outcomes, NEW k \in LoanIds
      PROVE  notifications'[<<EventType[o], k>>] + Cardinality(Telling(o, k)')
               <= IF Outcome(o, k)' THEN 1 ELSE 0
  <2>1. CASE o = op /\ k = l
    <3>1. /\ IsFiniteSet(Telling(op, l)) /\ Cardinality(Telling(op, l)) \in Nat
          /\ <<EventType[op], l>> \in DOMAIN notifications
          /\ notifications[<<EventType[op], l>>] \in Nat
      BY <1>1, TellingCounted
    <3>2. Cardinality(Telling(op, l) \ {r}) = Cardinality(Telling(op, l)) - 1
      BY <1>5, <3>1, FS_RemoveElement
    <3>3. Cardinality(Telling(op, l)') = Cardinality(Telling(op, l)) - 1
      BY <1>4, <3>2
    <3>4. notifications'[<<EventType[op], l>>] = notifications[<<EventType[op], l>>] + 1
      BY <1>6, <3>1
    <3>5. notifications[<<EventType[op], l>>] + Cardinality(Telling(op, l))
            <= IF Outcome(op, l) THEN 1 ELSE 0
      BY DEF OutcomesInv
    <3>6. Outcome(op, l) => Outcome(op, l)'
      BY OutcomeStays
    <3>7. notifications'[<<EventType[op], l>>] + Cardinality(Telling(op, l)')
            <= IF Outcome(op, l)' THEN 1 ELSE 0
      BY <3>1, <3>3, <3>4, <3>5, <3>6
    <3> QED
      BY <2>1, <3>7
  <2>2. CASE ~(o = op /\ k = l)
    <3>1. EventType[o] = EventType[op] => o = op
      BY OutcomesType
    <3>2. <<EventType[o], k>> # <<EventType[op], l>>
      BY <2>2, <3>1
    <3>3. notifications'[<<EventType[o], k>>] = notifications[<<EventType[o], k>>]
      BY <1>1, <1>6, <3>2, TellingCounted
    <3>4. Telling(o, k)' \subseteq Telling(o, k)
      BY <1>4
    <3> QED
      BY <3>3, <3>4, OutcomeKept
  <2> QED
    BY <2>1, <2>2
<1> QED
  BY <1>7 DEF OutcomesInv

(* No other step tells of a loan, or is about to. *)
LEMMA OutcomesStep ==
  ASSUME IInv, OutcomesInv, [Next]_vars
  PROVE  OutcomesInv'
<1>1. CASE \E r \in Requests : \/ CommitCreateLoan(r) \/ CommitReturnLoan(r)
                               \/ CommitCancelLoan(r) \/ PublishLoanEvent(r)
  BY <1>1, CommitCreateLoanTold, CommitCloseLoanTold, PublishLoanEventTold
<1>2. CASE \A r \in Requests : ~(\/ CommitCreateLoan(r) \/ CommitReturnLoan(r)
                                 \/ CommitCancelLoan(r) \/ PublishLoanEvent(r))
  <2>1. ASSUME NEW op \in DOMAIN Outcomes, NEW l \in LoanIds
        PROVE  notifications'[<<EventType[op], l>>] = notifications[<<EventType[op], l>>]
    <3>1. ASSUME NEW r \in Requests, PublishReservationEvent(r)
          PROVE  notifications'[<<EventType[op], l>>] = notifications[<<EventType[op], l>>]
      <4>1. req[r].op \in {"create_reservation", "cancel_reservation"}
            /\ Notify(EventType[req[r].op], req[r].reservation)
        BY <3>1 DEF PublishReservationEvent
      <4>2. EventType[req[r].op] # EventType[op]
        BY <4>1, OutcomesType
      <4>3. <<EventType[op], l>> \in DOMAIN notifications
        BY TellingCounted DEF IInv
      <4>4. <<EventType[op], l>> # <<EventType[req[r].op], req[r].reservation>>
        BY <4>2
      <4> QED
        BY <4>1, <4>3, <4>4 DEF Notify
    <3> QED
      BY <1>2, <3>1, NoticeWriters
  <2>2. ASSUME NEW op \in DOMAIN Outcomes, NEW l \in LoanIds
        PROVE  Telling(op, l)' \subseteq Telling(op, l)
    <3>1. CASE req' = req
      BY <3>1 DEF Telling, At
    <3>2. ASSUME NEW r \in Requests, Start(r)
          PROVE  Telling(op, l)' \subseteq Telling(op, l)
      BY <3>2, StartMoves DEF Telling, At, Others
    <3>3. ASSUME NEW r \in Requests, Step(r) \/ RequestFails(r)
          PROVE  Telling(op, l)' \subseteq Telling(op, l)
      <4>1. Others(r) /\ (req'[r] = Idle \/ (Same(r) /\ Moves(r)))
        BY <3>3, StepMoves
      <4>2. req'[r].pc # "publish" \/ req'[r].op # op
        <5>1. CASE req'[r] = Idle
          BY <5>1 DEF Idle
        <5>2. CASE Same(r) /\ (CommitCreateReservation(r) \/ CommitCancelReservation(r))
          BY <5>2, OutcomesType DEF Same, CommitCreateReservation, CommitCancelReservation, At
        <5>3. CASE /\ Same(r) /\ Moves(r)
                   /\ ~(CommitCreateReservation(r) \/ CommitCancelReservation(r))
          BY <1>2, <5>3 DEF Moves
        <5> QED
          BY <4>1, <5>1, <5>2, <5>3
      <4> QED
        BY <4>1, <4>2 DEF Telling, At, Others
    <3> QED
      BY <3>1, <3>2, <3>3, WhoSteps
  <2> QED
    BY <2>1, <2>2, OutcomeKept DEF OutcomesInv
<1> QED
  BY <1>1, <1>2

LEMMA OutcomesInit ==
  ASSUME Init
  PROVE  OutcomesInv
<1> SUFFICES ASSUME NEW op \in DOMAIN Outcomes, NEW l \in LoanIds
             PROVE  notifications[<<EventType[op], l>>] + Cardinality(Telling(op, l))
                      <= IF Outcome(op, l) THEN 1 ELSE 0
  BY DEF OutcomesInv
<1>1. Telling(op, l) = {}
  BY DEF Init, DatabaseInit, Telling, At, Idle
<1>2. EventType[op] \in NotificationType
  BY OutcomesType DEF NotificationType
<1>3. notifications[<<EventType[op], l>>] = 0
  BY <1>2 DEF Init, DatabaseInit
<1> QED
  BY <1>1, <1>3, FS_EmptySet

(* What becomes of a loan has been told, or is about to be, at most once,   *)
(* and nothing that has not become of it.                                   *)
THEOREM OutcomesInvariance ==
  Spec => []OutcomesInv
<1>1. Init => OutcomesInv
  BY OutcomesInit
<1>2. IInv /\ OutcomesInv /\ [Next]_vars => OutcomesInv'
  BY OutcomesStep
<1> QED
  BY <1>1, <1>2, Invariance, PTL DEF Spec

(* A reader hears of a loan that was created, returned or cancelled at most *)
(* once, and only if it was, whatever requests interleave or fail.          *)
THEOREM LoanNotificationsAreTruthful ==
  Spec => []LoanNotificationsTruthful
<1>1. ASSUME IInv, OutcomesInv
      PROVE  LoanNotificationsTruthful
  <2> SUFFICES ASSUME NEW l \in LoanIds
               PROVE  /\ notifications[<<"LOAN_CREATED", l>>] <= 1
                      /\ notifications[<<"LOAN_CREATED", l>>] = 1 => l \in DOMAIN loans
                      /\ notifications[<<"LOAN_RETURNED", l>>] <=
                           (IF l \in DOMAIN loans /\ loans[l].status = "RETURNED" THEN 1 ELSE 0)
                      /\ notifications[<<"LOAN_CANCELLED", l>>] <=
                           (IF l \in DOMAIN loans /\ loans[l].status = "CANCELLED" THEN 1 ELSE 0)
    BY DEF LoanNotificationsTruthful
  <2>1. ASSUME NEW op \in DOMAIN Outcomes
        PROVE  /\ notifications[<<EventType[op], l>>] \in Nat
               /\ notifications[<<EventType[op], l>>] <= IF Outcome(op, l) THEN 1 ELSE 0
    <3>1. /\ Cardinality(Telling(op, l)) \in Nat /\ notifications[<<EventType[op], l>>] \in Nat
          /\ notifications[<<EventType[op], l>>] + Cardinality(Telling(op, l))
               <= IF Outcome(op, l) THEN 1 ELSE 0
      BY <1>1, TellingCounted DEF IInv, OutcomesInv
    <3> QED
      BY <3>1
  <2>2. /\ Outcome("create_loan", l) => l \in DOMAIN loans
        /\ Outcome("return_loan", l) <=> l \in DOMAIN loans /\ loans[l].status = "RETURNED"
        /\ Outcome("cancel_loan", l) <=> l \in DOMAIN loans /\ loans[l].status = "CANCELLED"
    BY OutcomesType DEF Outcome
  <2>3. /\ notifications[<<"LOAN_CREATED", l>>] <= IF Outcome("create_loan", l) THEN 1 ELSE 0
        /\ notifications[<<"LOAN_RETURNED", l>>] <= IF Outcome("return_loan", l) THEN 1 ELSE 0
        /\ notifications[<<"LOAN_CANCELLED", l>>] <= IF Outcome("cancel_loan", l) THEN 1 ELSE 0
        /\ notifications[<<"LOAN_CREATED", l>>] \in Nat
    BY <2>1, OutcomesType
  <2> QED
    BY <2>2, <2>3
<1>2. IInv /\ OutcomesInv => LoanNotificationsTruthful
  BY <1>1
<1> QED
  BY <1>2, Invariance, OutcomesInvariance, PTL

-----------------------------------------------------------------------------
(* The bounds on checks that take no lock. *)

LEMMA RequestsCounted ==
  ASSUME NEW S, S \subseteq Requests
  PROVE  /\ IsFiniteSet(S) /\ Cardinality(S) \in Nat /\ Cardinality(Requests) \in Nat
         /\ Cardinality(S) <= Cardinality(Requests)
BY DatabaseAssumption, FS_Subset, FS_CardinalityType

(* The sum of two counts does not grow when neither set does. *)
LEMMA NoMore ==
  ASSUME NEW S, NEW T, NEW S1, NEW T1, IsFiniteSet(S), IsFiniteSet(T),
         S1 \subseteq S, T1 \subseteq T
  PROVE  /\ IsFiniteSet(S1) /\ Cardinality(S1) \in Nat /\ Cardinality(T1) \in Nat
         /\ Cardinality(S) \in Nat /\ Cardinality(T) \in Nat
         /\ Cardinality(S1) + Cardinality(T1) <= Cardinality(S) + Cardinality(T)
<1>1. /\ IsFiniteSet(S1) /\ Cardinality(S1) <= Cardinality(S)
      /\ Cardinality(T1) <= Cardinality(T) /\ IsFiniteSet(T1)
  BY FS_Subset
<1>2. /\ Cardinality(S1) \in Nat /\ Cardinality(T1) \in Nat
      /\ Cardinality(S) \in Nat /\ Cardinality(T) \in Nat
  BY <1>1, FS_CardinalityType
<1> QED
  BY <1>1, <1>2

(* Nor does it when an element moves from one to the other.                 *)
LEMMA OneMoves ==
  ASSUME NEW S, NEW T, NEW S1, NEW T1, NEW r, NEW l, IsFiniteSet(S), IsFiniteSet(T),
         S1 \subseteq S \cup {l}, T1 = T \ {r}, r \in T
  PROVE  /\ IsFiniteSet(S1) /\ Cardinality(S1) \in Nat /\ Cardinality(T1) \in Nat
         /\ Cardinality(S) \in Nat /\ Cardinality(T) \in Nat
         /\ Cardinality(S1) + Cardinality(T1) <= Cardinality(S) + Cardinality(T)
<1>1. Cardinality(T1) = Cardinality(T) - 1
  BY FS_RemoveElement
<1>2. IsFiniteSet(S \cup {l}) /\ Cardinality(S \cup {l}) <= Cardinality(S) + 1
  <2>1. Cardinality(S) \in Nat
    BY FS_CardinalityType
  <2>2. /\ IsFiniteSet(S \cup {l})
        /\ Cardinality(S \cup {l}) = Cardinality(S) \/ Cardinality(S \cup {l}) = Cardinality(S) + 1
    BY FS_AddElement
  <2> QED
    BY <2>1, <2>2
<1>3. IsFiniteSet(S1) /\ Cardinality(S1) <= Cardinality(S \cup {l})
  BY <1>2, FS_Subset
<1>4. /\ Cardinality(S1) \in Nat /\ Cardinality(S \cup {l}) \in Nat
      /\ Cardinality(S) \in Nat /\ Cardinality(T) \in Nat
  BY <1>2, <1>3, FS_CardinalityType
<1>5. Cardinality(T1) \in Nat
  BY FS_RemoveElement, FS_CardinalityType
<1> QED
  BY <1>1, <1>2, <1>3, <1>4, <1>5

(* A user's active loans and the requests that passed the count: one more   *)
(* passes only while the loans are fewer than the limit.                    *)
LEMMA LoansBounded ==
  ASSUME IInv, [Next]_vars, NEW u \in Users,
         Cardinality(LoansOf(u)) + Cardinality(Lending(u))
           <= MAX_ACTIVE_LOANS + Cardinality(Requests) - 1
  PROVE  Cardinality(LoansOf(u)') + Cardinality(Lending(u)')
           <= MAX_ACTIVE_LOANS + Cardinality(Requests) - 1
<1>1. /\ MAX_ACTIVE_LOANS \in Nat /\ Cardinality(Requests) \in Nat
      /\ IsFiniteSet(LoansOf(u)) /\ Cardinality(LoansOf(u)) \in Nat
      /\ IsFiniteSet(Lending(u)) /\ Cardinality(Lending(u)) \in Nat
  <2>1. LoansOf(u) \subseteq LoanIds /\ Lending(u) \subseteq Requests
    BY DEF LoansOf, ActiveLoans, Lending, IInv, TypeOK
  <2> QED
    BY <2>1, DatabaseAssumption, FS_Subset, FS_CardinalityType
<1>2. ASSUME NEW l \in LoansOf(u)', l \in DOMAIN loans
      PROVE  l \in LoansOf(u)
  <2>1. loans'[l].user = u /\ loans'[l].status = "ACTIVE"
    BY DEF LoansOf, ActiveLoans
  <2> QED
    BY <1>2, <2>1, LoanKept DEF LoansOf, ActiveLoans
<1>3. ASSUME NEW r \in Requests, CommitCreateLoan(r)
      PROVE  Cardinality(LoansOf(u)') + Cardinality(Lending(u)')
               <= MAX_ACTIVE_LOANS + Cardinality(Requests) - 1
  <2>1. /\ req[r].op = "create_loan" /\ req[r].pc = "commit" /\ Goto(r, "publish")
        /\ loans' = Insert(loans, req[r].loan, NewLoan(r))
    BY <1>3 DEF CommitCreateLoan, At
  <2>2. req'[r].pc = "publish" /\ Others(r)
    BY <2>1, GoingOn
  <2>3. Lending(u)' = Lending(u) \ {r}
    BY <2>2 DEF Lending, Others
  <2>4. PICK l : l = req[r].loan
    OBVIOUS
  <2>5. DOMAIN loans' = DOMAIN loans \cup {l} /\ loans'[l] = NewLoan(r)
    BY <2>1, <2>4 DEF Insert
  <2>6. CASE req[r].user = u
    <3>1. r \in Lending(u)
      BY <2>1, <2>6 DEF Lending
    <3>2. LoansOf(u)' \subseteq LoansOf(u) \cup {l}
      BY <1>2, <2>5 DEF LoansOf, ActiveLoans
    <3>3. /\ Cardinality(LoansOf(u)') + Cardinality(Lending(u)')
               <= Cardinality(LoansOf(u)) + Cardinality(Lending(u))
          /\ Cardinality(LoansOf(u)') \in Nat /\ Cardinality(Lending(u)') \in Nat
      BY <1>1, <2>3, <3>1, <3>2, OneMoves
    <3> QED
      BY <1>1, <3>3
  <2>7. CASE req[r].user # u
    <3>1. l \notin LoansOf(u)'
      BY <2>5, <2>7 DEF LoansOf, NewLoan
    <3>2. LoansOf(u)' \subseteq LoansOf(u)
      BY <1>2, <2>5, <3>1 DEF LoansOf, ActiveLoans
    <3>3. Lending(u)' \subseteq Lending(u)
      BY <2>3
    <3>4. /\ Cardinality(LoansOf(u)') + Cardinality(Lending(u)')
               <= Cardinality(LoansOf(u)) + Cardinality(Lending(u))
          /\ Cardinality(LoansOf(u)') \in Nat /\ Cardinality(Lending(u)') \in Nat
      BY <1>1, <3>2, <3>3, NoMore
    <3> QED
      BY <1>1, <3>4
  <2> QED
    BY <2>6, <2>7
<1>4. ASSUME NEW r \in Requests, Same(r), req[r].user = u, loans' = loans,
             Cardinality(LoansOf(req[r].user)) < MAX_ACTIVE_LOANS
      PROVE  Cardinality(LoansOf(u)') + Cardinality(Lending(u)')
               <= MAX_ACTIVE_LOANS + Cardinality(Requests) - 1
  <2>1. LoansOf(u)' = LoansOf(u) /\ Cardinality(LoansOf(u)) < MAX_ACTIVE_LOANS
    BY <1>4 DEF LoansOf, ActiveLoans
  <2>2. Lending(u)' \subseteq Requests
    BY DEF Lending
  <2>3. Cardinality(Lending(u)') \in Nat /\ Cardinality(Lending(u)') <= Cardinality(Requests)
    BY <2>2, RequestsCounted
  <2> QED
    BY <1>1, <2>1, <2>3
<1>5. ASSUME \A r \in Requests : ~CommitCreateLoan(r), Lending(u)' \subseteq Lending(u)
      PROVE  Cardinality(LoansOf(u)') + Cardinality(Lending(u)')
               <= MAX_ACTIVE_LOANS + Cardinality(Requests) - 1
  <2>1. DOMAIN loans' \subseteq DOMAIN loans
    BY <1>5, LoanInserted
  <2>2. LoansOf(u)' \subseteq LoansOf(u)
    BY <1>2, <2>1 DEF LoansOf, ActiveLoans
  <2>3. /\ Cardinality(LoansOf(u)') + Cardinality(Lending(u)')
             <= Cardinality(LoansOf(u)) + Cardinality(Lending(u))
        /\ Cardinality(LoansOf(u)') \in Nat /\ Cardinality(Lending(u)') \in Nat
    BY <1>1, <1>5, <2>2, NoMore
  <2> QED
    BY <1>1, <2>3
<1>6. ASSUME NEW r \in Requests, Start(r)
      PROVE  Lending(u)' \subseteq Lending(u)
  BY <1>6, StartMoves DEF Lending, Others
<1>7. ASSUME NEW r \in Requests, Step(r) \/ RequestFails(r)
      PROVE  \/ Lending(u)' \subseteq Lending(u)
             \/ /\ Same(r) /\ req[r].user = u /\ loans' = loans
                /\ Cardinality(LoansOf(req[r].user)) < MAX_ACTIVE_LOANS
  <2>1. Others(r) /\ (req'[r] = Idle \/ (Same(r) /\ Moves(r)))
    BY <1>7, StepMoves
  <2>2. CASE r \notin Lending(u)'
    BY <2>1, <2>2 DEF Lending, Others
  <2>3. CASE r \in Lending(u)'
    <3>1. req'[r].op = "create_loan" /\ req'[r].pc \in {"lock_book", "commit"} /\ req'[r].user = u
      BY <2>3 DEF Lending
    <3>2. Same(r) /\ Moves(r) /\ req[r].op = "create_loan" /\ req[r].user = u
      BY <2>1, <3>1 DEF Idle, Same
    <3>3. CASE CreateLoanLocksBook(r)
      <4>1. r \in Lending(u)
        BY <3>2, <3>3 DEF CreateLoanLocksBook, At, Lending
      <4> QED
        BY <2>1, <4>1 DEF Lending, Others
    <3>4. CASE ~CreateLoanLocksBook(r)
      <4>1. ~FindExistingReservation(r) /\ req[r].op \notin LockingOps
        BY <3>2 DEF FindExistingReservation, At, LockingOps
      <4> QED
        BY <3>1, <3>2, <3>4, <4>1 DEF Moves
    <3> QED
      BY <3>3, <3>4
  <2> QED
    BY <2>2, <2>3
<1>8. CASE req' = req
  <2>1. Lending(u)' \subseteq Lending(u)
    BY <1>8 DEF Lending
  <2> QED
    BY <1>3, <1>5, <2>1
<1> QED
  BY <1>3, <1>4, <1>5, <1>6, <1>7, <1>8, WhoSteps

-----------------------------------------------------------------------------
(* Reservations. *)

AllAreNew == \A r \in Requests : ReservationIsNew(r)

(* The row that create_reservation inserts is the only one it touches, and  *)
(* cancel_reservation changes a status.                                     *)
LEMMA ReservationInserted ==
  ASSUME IInv, AllAreNew, NEW r \in Requests, CommitCreateReservation(r)
  PROVE  /\ CreatesReservation(r) /\ req[r].pc = "commit"
         /\ req[r].reservation \notin DOMAIN reservations
         /\ DOMAIN reservations' = DOMAIN reservations \cup {req[r].reservation}
         /\ reservations'[req[r].reservation] =
              [user |-> req[r].user, book |-> req[r].book, status |-> "ACTIVE"]
         /\ \A v \in DOMAIN reservations : reservations'[v] = reservations[v]
         /\ req'[r].pc = "publish" /\ Others(r) /\ Same(r) /\ notifications' = notifications
<1>1. /\ req[r].op = "create_reservation" /\ req[r].pc = "commit" /\ Goto(r, "publish")
      /\ reservations' = Insert(reservations, req[r].reservation,
            [user |-> req[r].user, book |-> req[r].book, status |-> "ACTIVE"])
      /\ notifications' = notifications
  BY DEF CommitCreateReservation, At
<1>2. CreatesReservation(r) /\ req[r].reservation \notin DOMAIN reservations
  BY <1>1 DEF CreatesReservation, AllAreNew, ReservationIsNew
<1>3. req'[r].pc = "publish" /\ Others(r) /\ Same(r)
  BY <1>1, GoingOn
<1>4. /\ DOMAIN reservations' = DOMAIN reservations \cup {req[r].reservation}
      /\ reservations'[req[r].reservation] =
           [user |-> req[r].user, book |-> req[r].book, status |-> "ACTIVE"]
      /\ \A v \in DOMAIN reservations : reservations'[v] = reservations[v]
  BY <1>1, <1>2 DEF Insert
<1> QED
  BY <1>1, <1>2, <1>3, <1>4

LEMMA ReservationCancelled ==
  ASSUME IInv, NEW r \in Requests, CommitCancelReservation(r)
  PROVE  /\ req[r].op = "cancel_reservation" /\ req[r].pc = "commit"
         /\ req[r].reservation \in DOMAIN reservations
         /\ DOMAIN reservations' = DOMAIN reservations
         /\ \A v \in DOMAIN reservations :
              reservations'[v] = IF v = req[r].reservation
                                 THEN [reservations[v] EXCEPT !.status = "CANCELLED"]
                                 ELSE reservations[v]
         /\ req'[r].pc = "publish" /\ Others(r) /\ Same(r) /\ notifications' = notifications
<1>1. /\ req[r].op = "cancel_reservation" /\ req[r].pc = "commit" /\ Goto(r, "publish")
      /\ reservations' = [reservations EXCEPT ![req[r].reservation].status = "CANCELLED"]
      /\ notifications' = notifications
  BY DEF CommitCancelReservation, At
<1>2. req[r].reservation \in DOMAIN reservations
  BY <1>1 DEF IInv, RequestInv, ReservationIsKnown
<1>3. req'[r].pc = "publish" /\ Others(r) /\ Same(r)
  BY <1>1, GoingOn
<1>4. reservations \in [DOMAIN reservations -> Reservation]
  BY DEF IInv, TypeOK
<1>5. /\ DOMAIN reservations' = DOMAIN reservations
      /\ \A v \in DOMAIN reservations :
           reservations'[v] = IF v = req[r].reservation
                              THEN [reservations[v] EXCEPT !.status = "CANCELLED"]
                              ELSE reservations[v]
  BY <1>1, <1>2, <1>4
<1> QED
  BY <1>1, <1>2, <1>3, <1>5

(* A stored reservation stays stored and its reader's, and once cancelled   *)
(* it stays so.                                                             *)
LEMMA ReservationKept ==
  ASSUME IInv, AllAreNew, [Next]_vars, NEW v \in DOMAIN reservations
  PROVE  /\ v \in DOMAIN reservations' /\ reservations[v] \in Reservation
         /\ reservations'[v].user = reservations[v].user
         /\ reservations'[v].book = reservations[v].book
         /\ reservations[v].status = "CANCELLED" => reservations'[v].status = "CANCELLED"
<1>1. reservations[v] \in Reservation
  BY DEF IInv, TypeOK
<1>2. ASSUME NEW r \in Requests, CommitCreateReservation(r)
      PROVE  v \in DOMAIN reservations' /\ reservations'[v] = reservations[v]
  BY <1>2, ReservationInserted
<1>3. ASSUME NEW r \in Requests, CommitCancelReservation(r)
      PROVE  /\ v \in DOMAIN reservations'
             /\ \/ reservations'[v] = reservations[v]
                \/ reservations'[v] = [reservations[v] EXCEPT !.status = "CANCELLED"]
  BY <1>3, ReservationCancelled
<1>4. /\ v \in DOMAIN reservations'
      /\ \/ reservations'[v] = reservations[v]
         \/ reservations'[v] = [reservations[v] EXCEPT !.status = "CANCELLED"]
  BY <1>2, <1>3, ReservationWriters
<1> QED
  BY <1>1, <1>4 DEF Reservation

(* A request comes to create a reservation by finding that it may, with an  *)
(* id that no other request has, or is creating it already.                 *)
LEMMA WhoCreates ==
  ASSUME IInv, [Next]_vars, NEW r \in Requests, CreatesReservation(r)'
  PROVE  \/ CreatesReservation(r) /\ req'[r].reservation = req[r].reservation
         \/ /\ reservations' = reservations /\ Others(r)
            /\ req'[r].reservation \notin DOMAIN reservations
            /\ \A q \in Requests : req[q].reservation # req'[r].reservation
<1>1. req'[r].op = "create_reservation" /\ req'[r].pc \in {"find_existing", "commit"}
  BY DEF CreatesReservation
<1>2. CASE req'[r] = req[r]
  BY <1>2 DEF CreatesReservation
<1>3. CASE Start(r)
  BY <1>1, <1>3, StartMoves
<1>4. CASE Step(r) \/ RequestFails(r)
  <2>1. Same(r) /\ Moves(r)
    BY <1>1, <1>4, StepMoves DEF Idle
  <2>2. req[r].op = "create_reservation"
    BY <1>1, <2>1 DEF Same
  <2>3. FindExistingReservation(r)
    BY <1>1, <2>1, <2>2 DEF Moves, LockingOps, CountActiveByUser, CreateLoanLocksBook, At
  <2> QED
    BY <2>1, <2>3 DEF Same, FindExistingReservation, At, CreatesReservation
<1>5. ASSUME NEW q \in Requests \ {r}, Start(q) \/ Step(q) \/ RequestFails(q)
      PROVE  req'[r] = req[r]
  BY <1>5, StartMoves, StepMoves DEF Others
<1> QED
  BY <1>2, <1>3, <1>4, <1>5, WhoSteps

LEMMA NewStays ==
  ASSUME IInv, AllAreNew, [Next]_vars
  PROVE  AllAreNew'
<1> SUFFICES ASSUME NEW r \in Requests, CreatesReservation(r)'
             PROVE  /\ req'[r].reservation \notin DOMAIN reservations'
                    /\ \A q \in Requests \ {r} :
                         CreatesReservation(q)' => req'[q].reservation # req'[r].reservation
  BY DEF AllAreNew, ReservationIsNew
<1>1. ASSUME NEW q \in Requests, CommitCreateReservation(q)
      PROVE  ~CreatesReservation(q)'
  BY <1>1, ReservationInserted DEF CreatesReservation
<1>2. req'[r].reservation \notin DOMAIN reservations'
  <2>1. CASE reservations' = reservations
    BY <2>1, WhoCreates DEF AllAreNew, ReservationIsNew
  <2>2. ASSUME NEW q \in Requests, CommitCreateReservation(q)
        PROVE  req'[r].reservation \notin DOMAIN reservations'
    <3>1. /\ q # r /\ CreatesReservation(q) /\ reservations' # reservations
          /\ DOMAIN reservations' = DOMAIN reservations \cup {req[q].reservation}
      BY <1>1, <2>2, ReservationInserted
    <3>2. CreatesReservation(r) /\ req'[r].reservation = req[r].reservation
      BY <3>1, WhoCreates
    <3>3. req[r].reservation \notin DOMAIN reservations /\ req[q].reservation # req[r].reservation
      BY <3>1, <3>2 DEF AllAreNew, ReservationIsNew
    <3> QED
      BY <3>1, <3>2, <3>3
  <2>3. ASSUME NEW q \in Requests, CommitCancelReservation(q)
        PROVE  req'[r].reservation \notin DOMAIN reservations'
    <3>1. DOMAIN reservations' = DOMAIN reservations
      BY <2>3, ReservationCancelled
    <3> QED
      BY <3>1, WhoCreates DEF AllAreNew, ReservationIsNew
  <2> QED
    BY <2>1, <2>2, <2>3, ReservationWriters
<1>3. ASSUME NEW q \in Requests \ {r}, CreatesReservation(q)'
      PROVE  req'[q].reservation # req'[r].reservation
  <2>1. CASE CreatesReservation(r) /\ req'[r].reservation = req[r].reservation
    <3>1. CASE CreatesReservation(q) /\ req'[q].reservation = req[q].reservation
      BY <2>1, <3>1 DEF AllAreNew, ReservationIsNew
    <3>2. CASE \A p \in Requests : req[p].reservation # req'[q].reservation
      BY <2>1, <3>2
    <3> QED
      BY <1>3, <3>1, <3>2, WhoCreates
  <2>2. CASE Others(r) /\ \A p \in Requests : req[p].reservation # req'[r].reservation
    BY <2>2 DEF Others
  <2> QED
    BY <2>1, <2>2, WhoCreates
<1> QED
  BY <1>2, <1>3

(* Reservations of one user for one book, and the requests that found none. *)
LEMMA ReservationsBounded ==
  ASSUME IInv, AllAreNew, [Next]_vars, NEW u \in Users, NEW b \in Books,
         IsFiniteSet(ReservationsOf(u, b)),
         Cardinality(ReservationsOf(u, b)) + Cardinality(Reserving(u, b)) <= Cardinality(Requests)
  PROVE  /\ IsFiniteSet(ReservationsOf(u, b)')
         /\ Cardinality(ReservationsOf(u, b)') + Cardinality(Reserving(u, b)')
              <= Cardinality(Requests)
<1>1. /\ Cardinality(Requests) \in Nat /\ Cardinality(ReservationsOf(u, b)) \in Nat
      /\ IsFiniteSet(Reserving(u, b)) /\ Cardinality(Reserving(u, b)) \in Nat
  <2>1. Reserving(u, b) \subseteq Requests
    BY DEF Reserving
  <2> QED
    BY <2>1, RequestsCounted, FS_CardinalityType
<1>2. ASSUME NEW v \in ReservationsOf(u, b)', v \in DOMAIN reservations
      PROVE  v \in ReservationsOf(u, b)
  <2>1. /\ reservations'[v].user = u /\ reservations'[v].book = b
        /\ reservations'[v].status = "ACTIVE"
    BY DEF ReservationsOf, ActiveReservations
  <2> QED
    BY <1>2, <2>1, ReservationKept DEF ReservationsOf, ActiveReservations, Reservation
<1>3. ASSUME NEW r \in Requests, CommitCreateReservation(r)
      PROVE  /\ IsFiniteSet(ReservationsOf(u, b)')
             /\ Cardinality(ReservationsOf(u, b)') + Cardinality(Reserving(u, b)')
                  <= Cardinality(Requests)
  <2>1. PICK v : v = req[r].reservation
    OBVIOUS
  <2>2. /\ CreatesReservation(r) /\ req[r].pc = "commit"
        /\ DOMAIN reservations' = DOMAIN reservations \cup {v}
        /\ reservations'[v].user = req[r].user /\ reservations'[v].book = req[r].book
        /\ req'[r].pc = "publish" /\ Others(r)
    <3>1. /\ CreatesReservation(r) /\ req[r].pc = "commit"
          /\ DOMAIN reservations' = DOMAIN reservations \cup {v}
          /\ reservations'[v] = [user |-> req[r].user, book |-> req[r].book, status |-> "ACTIVE"]
          /\ req'[r].pc = "publish" /\ Others(r)
      BY <1>3, <2>1, ReservationInserted
    <3> QED
      BY <3>1
  <2>3. Reserving(u, b)' = Reserving(u, b) \ {r}
    BY <2>2 DEF Reserving, At, Others
  <2>4. CASE req[r].user = u /\ req[r].book = b
    <3>1. r \in Reserving(u, b)
      BY <2>2, <2>4 DEF Reserving, At, CreatesReservation
    <3>2. ReservationsOf(u, b)' \subseteq ReservationsOf(u, b) \cup {v}
      BY <1>2, <2>2 DEF ReservationsOf, ActiveReservations
    <3>3. /\ IsFiniteSet(ReservationsOf(u, b)')
          /\ Cardinality(ReservationsOf(u, b)') + Cardinality(Reserving(u, b)')
               <= Cardinality(ReservationsOf(u, b)) + Cardinality(Reserving(u, b))
          /\ Cardinality(ReservationsOf(u, b)') \in Nat /\ Cardinality(Reserving(u, b)') \in Nat
      BY <1>1, <2>3, <3>1, <3>2, OneMoves
    <3> QED
      BY <1>1, <3>3
  <2>5. CASE ~(req[r].user = u /\ req[r].book = b)
    <3>1. v \notin ReservationsOf(u, b)'
      BY <2>2, <2>5 DEF ReservationsOf
    <3>2. ReservationsOf(u, b)' \subseteq ReservationsOf(u, b)
      BY <1>2, <2>2, <3>1 DEF ReservationsOf, ActiveReservations
    <3>3. Reserving(u, b)' \subseteq Reserving(u, b)
      BY <2>3
    <3>4. /\ IsFiniteSet(ReservationsOf(u, b)')
          /\ Cardinality(ReservationsOf(u, b)') + Cardinality(Reserving(u, b)')
               <= Cardinality(ReservationsOf(u, b)) + Cardinality(Reserving(u, b))
          /\ Cardinality(ReservationsOf(u, b)') \in Nat /\ Cardinality(Reserving(u, b)') \in Nat
      BY <1>1, <3>2, <3>3, NoMore
    <3> QED
      BY <1>1, <3>4
  <2> QED
    BY <2>4, <2>5
<1>4. ASSUME reservations' = reservations, ReservationsOf(u, b) = {}
      PROVE  /\ IsFiniteSet(ReservationsOf(u, b)')
             /\ Cardinality(ReservationsOf(u, b)') + Cardinality(Reserving(u, b)')
                  <= Cardinality(Requests)
  <2>1. ReservationsOf(u, b)' = {}
    BY <1>4 DEF ReservationsOf, ActiveReservations
  <2>2. Reserving(u, b)' \subseteq Requests
    BY DEF Reserving
  <2>3. IsFiniteSet(ReservationsOf(u, b)') /\ Cardinality(ReservationsOf(u, b)') = 0
    BY <2>1, FS_EmptySet
  <2>4. Cardinality(Reserving(u, b)') \in Nat /\ Cardinality(Reserving(u, b)') <= Cardinality(Requests)
    BY <2>2, RequestsCounted
  <2> QED
    BY <1>1, <2>3, <2>4
<1>5. ASSUME \A r \in Requests : ~CommitCreateReservation(r),
             Reserving(u, b)' \subseteq Reserving(u, b)
      PROVE  /\ IsFiniteSet(ReservationsOf(u, b)')
             /\ Cardinality(ReservationsOf(u, b)') + Cardinality(Reserving(u, b)')
                  <= Cardinality(Requests)
  <2>1. DOMAIN reservations' = DOMAIN reservations
    BY <1>5, ReservationWriters, ReservationCancelled
  <2>2. ReservationsOf(u, b)' \subseteq ReservationsOf(u, b)
    BY <1>2, <2>1 DEF ReservationsOf, ActiveReservations
  <2>3. /\ IsFiniteSet(ReservationsOf(u, b)')
        /\ Cardinality(ReservationsOf(u, b)') + Cardinality(Reserving(u, b)')
             <= Cardinality(ReservationsOf(u, b)) + Cardinality(Reserving(u, b))
        /\ Cardinality(ReservationsOf(u, b)') \in Nat /\ Cardinality(Reserving(u, b)') \in Nat
    BY <1>1, <1>5, <2>2, NoMore
  <2> QED
    BY <1>1, <2>3
<1>6. ASSUME NEW r \in Requests, Start(r)
      PROVE  Reserving(u, b)' \subseteq Reserving(u, b)
  BY <1>6, StartMoves DEF Reserving, At, Others
<1>7. ASSUME NEW r \in Requests, Step(r) \/ RequestFails(r)
      PROVE  \/ Reserving(u, b)' \subseteq Reserving(u, b)
             \/ reservations' = reservations /\ ReservationsOf(u, b) = {}
  <2>1. Others(r) /\ (req'[r] = Idle \/ (Same(r) /\ Moves(r)))
    BY <1>7, StepMoves
  <2>2. CASE r \notin Reserving(u, b)'
    BY <2>1, <2>2 DEF Reserving, At, Others
  <2>3. CASE r \in Reserving(u, b)'
    <3>1. /\ req'[r].op = "create_reservation" /\ req'[r].pc = "commit"
          /\ req'[r].user = u /\ req'[r].book = b
      BY <2>3 DEF Reserving, At
    <3>2. /\ Same(r) /\ Moves(r) /\ req[r].op = "create_reservation"
          /\ req[r].user = u /\ req[r].book = b
      BY <2>1, <3>1 DEF Idle, Same
    <3>3. ~CreateLoanLocksBook(r) /\ req[r].op \notin LockingOps
      BY <3>2 DEF CreateLoanLocksBook, At, LockingOps
    <3> QED
      BY <3>1, <3>2, <3>3 DEF Moves
  <2> QED
    BY <2>2, <2>3
<1>8. CASE req' = req
  <2>1. Reserving(u, b)' \subseteq Reserving(u, b)
    BY <1>8 DEF Reserving, At
  <2> QED
    BY <1>3, <1>5, <2>1
<1> QED
  BY <1>3, <1>4, <1>5, <1>6, <1>7, <1>8, WhoSteps

(* Only the publication of its cancellation tells of that of a reservation. *)
LEMMA CancellationTold ==
  ASSUME IInv, [Next]_vars, NEW v \in ReservationIds
  PROVE  /\ <<"RESERVATION_CANCELLED", v>> \in DOMAIN notifications
         /\ notifications[<<"RESERVATION_CANCELLED", v>>] \in Nat
         /\ \/ notifications'[<<"RESERVATION_CANCELLED", v>>] =
                 notifications[<<"RESERVATION_CANCELLED", v>>]
            \/ \E r \in Requests :
                 /\ r \in Cancelling(v) /\ req[r].pc = "publish"
                 /\ req'[r] = Idle /\ Others(r) /\ reservations' = reservations
                 /\ notifications'[<<"RESERVATION_CANCELLED", v>>] =
                      notifications[<<"RESERVATION_CANCELLED", v>>] + 1
<1>1. /\ <<"RESERVATION_CANCELLED", v>> \in DOMAIN notifications
      /\ notifications[<<"RESERVATION_CANCELLED", v>>] \in Nat
  BY DEF IInv, TypeOK, NotificationType
<1>2. ASSUME NEW r \in Requests, PublishLoanEvent(r)
      PROVE  notifications'[<<"RESERVATION_CANCELLED", v>>] =
               notifications[<<"RESERVATION_CANCELLED", v>>]
  <2>1. /\ req[r].op \in {"create_loan", "return_loan", "cancel_loan"}
        /\ Notify(EventType[req[r].op], req[r].loan)
    BY <1>2 DEF PublishLoanEvent
  <2>2. <<EventType[req[r].op], req[r].loan>> # <<"RESERVATION_CANCELLED", v>>
    BY <2>1, OutcomesType
  <2> QED
    BY <1>1, <2>1, <2>2 DEF Notify
<1>3. ASSUME NEW r \in Requests, PublishReservationEvent(r)
      PROVE  \/ notifications'[<<"RESERVATION_CANCELLED", v>>] =
                  notifications[<<"RESERVATION_CANCELLED", v>>]
             \/ /\ r \in Cancelling(v) /\ req[r].pc = "publish"
                /\ req'[r] = Idle /\ Others(r) /\ reservations' = reservations
                /\ notifications'[<<"RESERVATION_CANCELLED", v>>] =
                     notifications[<<"RESERVATION_CANCELLED", v>>] + 1
  <2>1. /\ req[r].op \in {"create_reservation", "cancel_reservation"} /\ req[r].pc = "publish"
        /\ Notify(EventType[req[r].op], req[r].reservation) /\ Finish(r)
        /\ reservations' = reservations
    BY <1>3 DEF PublishReservationEvent, tables
  <2>2. CASE req[r].op = "cancel_reservation" /\ req[r].reservation = v
    <3>1. r \in Cancelling(v) /\ req'[r] = Idle /\ Others(r)
      BY <2>1, <2>2, Ending DEF Cancelling
    <3>2. notifications' = [notifications EXCEPT ![<<"RESERVATION_CANCELLED", v>>] = @ + 1]
      BY <2>1, <2>2, OutcomesType DEF Notify
    <3> QED
      BY <1>1, <2>1, <3>1, <3>2
  <2>3. CASE ~(req[r].op = "cancel_reservation" /\ req[r].reservation = v)
    <3>1. <<EventType[req[r].op], req[r].reservation>> # <<"RESERVATION_CANCELLED", v>>
      BY <2>1, <2>3, OutcomesType
    <3> QED
      BY <1>1, <2>1, <3>1 DEF Notify
  <2> QED
    BY <2>2, <2>3
<1> QED
  BY <1>1, <1>2, <1>3, NoticeWriters

(* A request joins those that cancel a reservation by finding it active.    *)
LEMMA WhoCancels ==
  ASSUME IInv, [Next]_vars, NEW v \in ReservationIds
  PROVE  \/ /\ Cancelling(v)' \subseteq Cancelling(v)
            /\ \A r \in Cancelling(v)' :
                 req'[r].pc = "publish" =>
                   \/ req[r].pc = "publish"
                   \/ CommitCancelReservation(r) /\ req[r].reservation = v
         \/ /\ v \in ActiveReservations
            /\ UNCHANGED <<reservations, notifications>>
            /\ \A r \in Cancelling(v)' :
                 req'[r].pc = "publish" => r \in Cancelling(v) /\ req[r].pc = "publish"
<1>1. CASE req' = req
  BY <1>1 DEF Cancelling
<1>2. ASSUME NEW r \in Requests, Start(r)
      PROVE  \/ /\ Cancelling(v)' \subseteq Cancelling(v)
                /\ \A q \in Cancelling(v)' : req'[q].pc = "publish" => req[q].pc = "publish"
             \/ /\ v \in ActiveReservations
                /\ UNCHANGED <<reservations, notifications>>
                /\ \A q \in Cancelling(v)' :
                     req'[q].pc = "publish" => q \in Cancelling(v) /\ req[q].pc = "publish"
  <2>1. /\ Others(r) /\ UNCHANGED <<reservations, notifications>> /\ req'[r].pc # "publish"
        /\ r \in Cancelling(v)' => v \in ActiveReservations
    BY <1>2, StartMoves DEF Cancelling
  <2> QED
    BY <2>1 DEF Cancelling, Others
<1>3. ASSUME NEW r \in Requests, Step(r) \/ RequestFails(r)
      PROVE  /\ Cancelling(v)' \subseteq Cancelling(v)
             /\ \A q \in Cancelling(v)' :
                  req'[q].pc = "publish" =>
                    \/ req[q].pc = "publish"
                    \/ CommitCancelReservation(q) /\ req[q].reservation = v
  <2>1. Others(r) /\ (req'[r] = Idle \/ (Same(r) /\ Moves(r)))
    BY <1>3, StepMoves
  <2>2. CASE r \notin Cancelling(v)'
    BY <2>1, <2>2 DEF Cancelling, Others
  <2>3. CASE r \in Cancelling(v)'
    <3>1. /\ req'[r].op = "cancel_reservation" /\ req'[r].pc \in {"commit", "publish"}
          /\ req'[r].reservation = v
      BY <2>3 DEF Cancelling
    <3>2. /\ Same(r) /\ Moves(r) /\ req[r].op = "cancel_reservation"
          /\ req[r].reservation = v
      BY <2>1, <3>1 DEF Idle, Same
    <3>3. CommitCancelReservation(r)
      BY <3>2 DEF Moves, LockingOps, CountActiveByUser, CreateLoanLocksBook, CommitCreateLoan,
         CommitReturnLoan, CommitCancelLoan, FindExistingReservation, CommitCreateReservation, At
    <3>4. r \in Cancelling(v)
      BY <3>2, <3>3 DEF CommitCancelReservation, At, Cancelling
    <3> QED
      BY <2>1, <3>2, <3>3, <3>4 DEF Cancelling, Others
  <2> QED
    BY <2>2, <2>3
<1> QED
  BY <1>1, <1>2, <1>3, WhoSteps

(* A cancellation is told by those that found the reservation active, and   *)
(* nobody finds it so once it is told.                                      *)
LEMMA CancellationsStep ==
  ASSUME IInv, AllAreNew, [Next]_vars, NEW v \in ReservationIds, CancellationsInv(v)
  PROVE  CancellationsInv(v)'
<1> DEFINE told == notifications[<<"RESERVATION_CANCELLED", v>>]
           Over(id) == id \in DOMAIN reservations /\ reservations[id].status = "CANCELLED"
<1>1. /\ told \in Nat /\ Cardinality(Requests) \in Nat
      /\ IsFiniteSet(Cancelling(v)) /\ Cardinality(Cancelling(v)) \in Nat
      /\ Cardinality(Cancelling(v)') \in Nat
      /\ Cardinality(Cancelling(v)') <= Cardinality(Requests)
  <2>1. Cancelling(v) \subseteq Requests /\ Cancelling(v)' \subseteq Requests
    BY DEF Cancelling
  <2> QED
    BY <2>1, CancellationTold, RequestsCounted
<1>2. /\ told + Cardinality(Cancelling(v)) <= Cardinality(Requests)
      /\ told > 0 \/ (\E r \in Cancelling(v) : req[r].pc = "publish") => Over(v)
  BY DEF CancellationsInv
<1>3. Over(v) => Over(v)'
  BY ReservationKept
<1>4. CASE told' = told
  <2>1. told' + Cardinality(Cancelling(v)') <= Cardinality(Requests)
    <3>1. CASE Cancelling(v)' \subseteq Cancelling(v)
      <4>1. Cardinality(Cancelling(v)') <= Cardinality(Cancelling(v))
        BY <1>1, <3>1, FS_Subset
      <4> HIDE DEF told
      <4> QED
        BY <1>1, <1>2, <1>4, <4>1
    <3>2. CASE v \in ActiveReservations
      <4>1. ~Over(v)
        BY <3>2 DEF ActiveReservations
      <4> HIDE DEF told, Over
      <4>2. told = 0
        BY <1>1, <1>2, <4>1
      <4> QED
        BY <1>1, <1>4, <4>2
    <3> QED
      BY <3>1, <3>2, WhoCancels
  <2>2. ASSUME told' > 0
        PROVE  Over(v)'
    BY <1>2, <1>3, <1>4, <2>2
  <2>3. ASSUME NEW r \in Cancelling(v)', req'[r].pc = "publish"
        PROVE  Over(v)'
    <3>1. CASE r \in Cancelling(v) /\ req[r].pc = "publish"
      BY <1>2, <1>3, <3>1
    <3>2. CASE CommitCancelReservation(r) /\ req[r].reservation = v
      <4>1. r \in Requests
        BY DEF Cancelling
      <4>2. /\ v \in DOMAIN reservations /\ v \in DOMAIN reservations'
            /\ reservations'[v] = [reservations[v] EXCEPT !.status = "CANCELLED"]
        BY <3>2, <4>1, ReservationCancelled
      <4>3. reservations[v] \in Reservation
        BY <4>2 DEF IInv, TypeOK
      <4> QED
        BY <4>2, <4>3 DEF Reservation
    <3> QED
      BY <2>3, <3>1, <3>2, WhoCancels
  <2> QED
    BY <2>1, <2>2, <2>3 DEF CancellationsInv
<1>5. ASSUME NEW r \in Cancelling(v), req[r].pc = "publish", req'[r] = Idle, Others(r),
             reservations' = reservations, told' = told + 1
      PROVE  CancellationsInv(v)'
  <2>1. Cancelling(v)' = Cancelling(v) \ {r}
    BY <1>5 DEF Cancelling, Idle, Others
  <2>2. Cardinality(Cancelling(v) \ {r}) = Cardinality(Cancelling(v)) - 1
    BY <1>1, FS_RemoveElement
  <2>3. Over(v)'
    BY <1>2, <1>3, <1>5
  <2>4. told' + Cardinality(Cancelling(v)') <= Cardinality(Requests)
    <3>1. Cardinality(Cancelling(v)') = Cardinality(Cancelling(v)) - 1
      BY <2>1, <2>2
    <3> HIDE DEF told
    <3> QED
      BY <1>1, <1>2, <1>5, <3>1
  <2> QED
    BY <2>3, <2>4 DEF CancellationsInv
<1> QED
  BY <1>4, <1>5, CancellationTold DEF Cancelling

-----------------------------------------------------------------------------
(* The races as a whole. *)

LEMMA RacesStep ==
  ASSUME IInv, RacesInv, [Next]_vars
  PROVE  RacesInv'
<1>1. AllAreNew
  BY DEF RacesInv, AllAreNew
<1>2. ASSUME NEW r \in Requests
      PROVE  ReservationIsNew(r)'
  BY <1>1, NewStays DEF AllAreNew
<1>3. ASSUME NEW u \in Users
      PROVE  Cardinality(LoansOf(u)') + Cardinality(Lending(u)')
               <= MAX_ACTIVE_LOANS + Cardinality(Requests) - 1
  BY LoansBounded DEF RacesInv
<1>4. ASSUME NEW u \in Users, NEW b \in Books
      PROVE  /\ IsFiniteSet(ReservationsOf(u, b)')
             /\ Cardinality(ReservationsOf(u, b)') + Cardinality(Reserving(u, b)')
                  <= Cardinality(Requests)
  BY <1>1, ReservationsBounded DEF RacesInv
<1>5. ASSUME NEW v \in ReservationIds
      PROVE  CancellationsInv(v)'
  BY <1>1, CancellationsStep DEF RacesInv
<1> QED
  BY <1>2, <1>3, <1>4, <1>5 DEF RacesInv

LEMMA RacesInit ==
  ASSUME Init, Requests # {}
  PROVE  RacesInv
<1>1. /\ Cardinality(Requests) \in Nat /\ Cardinality(Requests) # 0
      /\ MAX_ACTIVE_LOANS \in Nat /\ Cardinality({}) = 0 /\ IsFiniteSet({})
  BY DatabaseAssumption, FS_EmptySet, FS_CardinalityType
<1>2. /\ \A r \in Requests : req[r].pc = "idle"
      /\ DOMAIN loans = {} /\ DOMAIN reservations = {}
      /\ \A v \in ReservationIds : notifications[<<"RESERVATION_CANCELLED", v>>] = 0
  BY DEF Init, DatabaseInit, Idle, NotificationType
<1>3. ASSUME NEW u \in Users
      PROVE  Cardinality(LoansOf(u)) + Cardinality(Lending(u))
               <= MAX_ACTIVE_LOANS + Cardinality(Requests) - 1
  <2>1. LoansOf(u) = {} /\ Lending(u) = {}
    BY <1>2 DEF LoansOf, ActiveLoans, Lending
  <2> QED
    BY <1>1, <2>1
<1>4. ASSUME NEW u \in Users, NEW b \in Books
      PROVE  /\ IsFiniteSet(ReservationsOf(u, b))
             /\ Cardinality(ReservationsOf(u, b)) + Cardinality(Reserving(u, b))
                  <= Cardinality(Requests)
  <2>1. ReservationsOf(u, b) = {} /\ Reserving(u, b) = {}
    BY <1>2 DEF ReservationsOf, ActiveReservations, Reserving, At
  <2> QED
    BY <1>1, <2>1
<1>5. ASSUME NEW r \in Requests
      PROVE  ReservationIsNew(r)
  BY <1>2 DEF ReservationIsNew, CreatesReservation
<1>6. ASSUME NEW v \in ReservationIds
      PROVE  CancellationsInv(v)
  <2>1. Cancelling(v) = {}
    BY <1>2 DEF Cancelling
  <2> QED
    BY <1>1, <1>2, <2>1 DEF CancellationsInv
<1> QED
  BY <1>3, <1>4, <1>5, <1>6 DEF RacesInv

(* What is stored and what has passed its check stay within the bounds, for *)
(* any number of requests at a time but none.                               *)
THEOREM RacesInvariance ==
  ASSUME Requests # {}
  PROVE  Spec => []RacesInv
<1>1. Init => RacesInv
  BY RacesInit
<1>2. IInv /\ RacesInv /\ [Next]_vars => RacesInv'
  BY RacesStep
<1> QED
  BY <1>1, <1>2, Invariance, PTL DEF Spec

(* However many requests pass the count of active loans together, a user's  *)
(* loans exceed the limit by less than there can be requests.               *)
THEOREM OvershootIsBounded ==
  ASSUME Requests # {}
  PROVE  Spec => []OvershootBounded
<1>1. ASSUME RacesInv, TypeOK, NEW u \in Users
      PROVE  Cardinality(LoansOf(u)) <= MAX_ACTIVE_LOANS + Cardinality(Requests) - 1
  <2>1. LoansOf(u) \subseteq LoanIds /\ Lending(u) \subseteq Requests
    BY <1>1 DEF LoansOf, ActiveLoans, Lending, TypeOK
  <2>2. /\ Cardinality(LoansOf(u)) \in Nat /\ Cardinality(Lending(u)) \in Nat
        /\ Cardinality(Requests) \in Nat /\ MAX_ACTIVE_LOANS \in Nat
    BY <2>1, DatabaseAssumption, FS_Subset, FS_CardinalityType
  <2>3. Cardinality(LoansOf(u)) + Cardinality(Lending(u))
          <= MAX_ACTIVE_LOANS + Cardinality(Requests) - 1
    BY <1>1 DEF RacesInv
  <2> QED
    BY <2>2, <2>3
<1>2. RacesInv /\ IInv => OvershootBounded
  BY <1>1 DEF OvershootBounded, IInv
<1> QED
  BY <1>2, RacesInvariance, Invariance, PTL

(* A user has no more active reservations of a book than there can be       *)
(* requests that looked for one together.                                   *)
THEOREM DuplicateReservationsAreBounded ==
  ASSUME Requests # {}
  PROVE  Spec => []DuplicateReservationsBounded
<1>1. ASSUME RacesInv, NEW u \in Users, NEW b \in Books
      PROVE  Cardinality(ReservationsOf(u, b)) <= Cardinality(Requests)
  <2>1. Reserving(u, b) \subseteq Requests
    BY DEF Reserving
  <2>2. /\ Cardinality(Reserving(u, b)) \in Nat /\ Cardinality(Requests) \in Nat
        /\ Cardinality(ReservationsOf(u, b)) \in Nat
        /\ Cardinality(ReservationsOf(u, b)) + Cardinality(Reserving(u, b))
             <= Cardinality(Requests)
    BY <1>1, <2>1, RequestsCounted, FS_CardinalityType DEF RacesInv
  <2> QED
    BY <2>2
<1>2. RacesInv => DuplicateReservationsBounded
  BY <1>1 DEF DuplicateReservationsBounded
<1> QED
  BY <1>2, RacesInvariance, PTL

(* The reader of a reservation hears that it is cancelled only if it is,    *)
(* and no more often than there can be requests that found it active.       *)
THEOREM CancellationsAreBounded ==
  ASSUME Requests # {}
  PROVE  Spec => []CancellationsBounded
<1>1. ASSUME RacesInv, IInv, NEW v \in ReservationIds
      PROVE  notifications[<<"RESERVATION_CANCELLED", v>>] <=
               IF v \in DOMAIN reservations /\ reservations[v].status = "CANCELLED"
               THEN Cardinality(Requests) ELSE 0
  <2>1. Cancelling(v) \subseteq Requests
    BY DEF Cancelling
  <2>2. /\ notifications[<<"RESERVATION_CANCELLED", v>>] \in Nat
        /\ Cardinality(Cancelling(v)) \in Nat /\ Cardinality(Requests) \in Nat
    BY <1>1, <2>1, RequestsCounted DEF IInv, TypeOK, NotificationType
  <2>3. CancellationsInv(v)
    BY <1>1 DEF RacesInv
  <2> QED
    BY <2>2, <2>3 DEF CancellationsInv
<1>2. RacesInv /\ IInv => CancellationsBounded
  BY <1>1 DEF CancellationsBounded
<1> QED
  BY <1>2, RacesInvariance, Invariance, PTL

=============================================================================
