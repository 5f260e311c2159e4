------------------------------ MODULE LoanProofs ------------------------------
(* Proofs about what becomes of a loan: it is closed once, with its fine    *)
(* paid and its renewals counted, and not at all once its book is deleted.  *)
EXTENDS LibraryProofs

-----------------------------------------------------------------------------
(* What a step can do to a row of loans. *)

(* The rows r may leave behind when it commits the loan it has locked. *)
Returned(r, row) ==
  [row EXCEPT !.status = "RETURNED", !.returned_at = req[r].at,
              !.fine_amount = CalculateAmount(row.due_date, req[r].at)]
Cancelled(row) == [row EXCEPT !.status = "CANCELLED", !.fine_amount = 0]
Paid(r, row) ==
  [row EXCEPT !.fine_amount = CalculateAmount(row.due_date, req[r].at),
              !.fine_paid_amount = CalculateAmount(row.due_date, req[r].at)]
Renewed(row) ==
  [row EXCEPT !.due_date = row.due_date + Days(RENEWAL_DAYS),
              !.renewal_count = row.renewal_count + 1]

LoanCommits(r, l) ==
  /\ HoldsLoan(r) /\ req[r].loan = l
  /\ \/ req[r].op = "return_loan" /\ HoldsBook(r) /\ loans'[l] = Returned(r, loans[l])
     \/ req[r].op = "cancel_loan" /\ HoldsBook(r) /\ loans'[l] = Cancelled(loans[l])
     \/ req[r].op = "pay_fine" /\ loans'[l] = Paid(r, loans[l])
     \/ req[r].op = "renew_loan" /\ loans'[l] = Renewed(loans[l])

(* A step leaves loans alone unless it is one of six commits. *)
LEMMA LoanWriters ==
  ASSUME [Next]_vars
  PROVE  \/ loans' = loans
         \/ \E r \in Requests :
              \/ CommitCreateLoan(r) \/ CommitReturnLoan(r) \/ CommitCancelLoan(r)
              \/ CommitPayFine(r) \/ CommitRenewLoan(r) \/ CommitUpdateLoan(r)
<1>1. CASE UNCHANGED vars
  BY <1>1 DEF vars, tables
<1>2. ASSUME NEW r \in Requests, Start(r) PROVE loans' = loans
  BY <1>2 DEF Start, LoanServiceStart, CreateLoan, ReceiveLoanRequest, UpdateLoan, UpdateBook,
     ReservationServiceStart, CreateReservation, CancelReservation, tables
<1>3. ASSUME NEW r \in Requests, ReservationServiceStep(r) \/ CommitUpdateBook(r) \/ RequestFails(r)
      PROVE  loans' = loans
  BY <1>3 DEF ReservationServiceStep, FindExistingReservation, CommitCreateReservation,
     CommitCancelReservation, PublishReservationEvent, CommitUpdateBook, RequestFails, tables
<1>4. ASSUME NEW r \in Requests, LoanServiceStep(r)
      PROVE  \/ loans' = loans
             \/ CommitCreateLoan(r) \/ CommitReturnLoan(r) \/ CommitCancelLoan(r)
             \/ CommitPayFine(r) \/ CommitRenewLoan(r) \/ CommitUpdateLoan(r)
  BY <1>4 DEF LoanServiceStep, CountActiveByUser, CreateLoanLocksBook, ReturnLoan, CancelLoan,
     PayFine, RenewLoan, LockLoan, ClosingLoanLocksBook, RenewalChecksReservations,
     PublishLoanEvent, tables
<1>5. CASE \/ \E b \in Books : DeleteBook(b)
           \/ \E u \in Users : DeleteUser(u)
           \/ Tick
  BY <1>5 DEF DeleteBook, DeleteUser, Tick, tables
<1> QED
  BY <1>1, <1>2, <1>3, <1>4, <1>5 DEF Next, Step

(* The row of a stored loan changes only by a commit of the request that    *)
(* has locked it, or by an update of its due date.                          *)
LEMMA LoanRowStep ==
  ASSUME IInv, [Next]_vars, NEW l \in DOMAIN loans
  PROVE  /\ l \in DOMAIN loans'
         /\ \/ loans'[l] = loans[l]
            \/ DueDates # {} /\ loans'[l] = [loans[l] EXCEPT !.due_date = loans'[l].due_date]
            \/ \E r \in Requests : LoanCommits(r, l)
<1>1. loans[l] \in Loan /\ loans \in [DOMAIN loans -> Loan]
  BY DEF IInv, TypeOK
<1>2. CASE loans' = loans
  BY <1>2
<1>3. ASSUME NEW r \in Requests, CommitCreateLoan(r)
      PROVE  l \in DOMAIN loans' /\ loans'[l] = loans[l]
  <2>1. req[r].loan \notin DOMAIN loans
    BY <1>3 DEF CommitCreateLoan, At, IInv, RequestInv, LoanIsNew, CreatesLoan
  <2> QED
    BY <1>3, <2>1 DEF CommitCreateLoan, Insert
<1>4. ASSUME NEW r \in Requests, CommitReturnLoan(r)
      PROVE  l \in DOMAIN loans' /\ (loans'[l] = loans[l] \/ LoanCommits(r, l))
  <2>1. HoldsLoan(r) /\ HoldsBook(r) /\ req[r].op = "return_loan"
    BY <1>4 DEF CommitReturnLoan, At, HoldsLoan, HoldsBook, LockingOps
  <2>2. req[r].loan_row = loans[req[r].loan] /\ req[r].loan \in DOMAIN loans
    BY <2>1, HeldLoan
  <2>3. loans' = [loans EXCEPT ![req[r].loan] = Returned(r, loans[req[r].loan])]
    BY <1>1, <1>4, <2>2 DEF CommitReturnLoan, Returned
  <2> QED
    BY <2>1, <2>2, <2>3 DEF LoanCommits
<1>5. ASSUME NEW r \in Requests, CommitCancelLoan(r)
      PROVE  l \in DOMAIN loans' /\ (loans'[l] = loans[l] \/ LoanCommits(r, l))
  <2>1. HoldsLoan(r) /\ HoldsBook(r) /\ req[r].op = "cancel_loan"
    BY <1>5 DEF CommitCancelLoan, At, HoldsLoan, HoldsBook, LockingOps
  <2>2. req[r].loan \in DOMAIN loans
    BY <2>1, HeldLoan
  <2>3. loans' = [loans EXCEPT ![req[r].loan] = Cancelled(loans[req[r].loan])]
    BY <1>1, <1>5, <2>2 DEF CommitCancelLoan, Cancelled
  <2> QED
    BY <2>1, <2>2, <2>3 DEF LoanCommits
<1>6. ASSUME NEW r \in Requests, CommitPayFine(r)
      PROVE  l \in DOMAIN loans' /\ (loans'[l] = loans[l] \/ LoanCommits(r, l))
  <2>1. HoldsLoan(r) /\ req[r].op = "pay_fine"
    BY <1>6 DEF CommitPayFine, At, HoldsLoan, LockingOps
  <2>2. req[r].loan_row = loans[req[r].loan] /\ req[r].loan \in DOMAIN loans
    BY <2>1, HeldLoan
  <2>3. loans' = [loans EXCEPT ![req[r].loan] = Paid(r, loans[req[r].loan])]
    BY <1>1, <1>6, <2>2 DEF CommitPayFine, Paid
  <2> QED
    BY <2>1, <2>2, <2>3 DEF LoanCommits
<1>7. ASSUME NEW r \in Requests, CommitRenewLoan(r)
      PROVE  l \in DOMAIN loans' /\ (loans'[l] = loans[l] \/ LoanCommits(r, l))
  <2>1. HoldsLoan(r) /\ req[r].op = "renew_loan"
    BY <1>7 DEF CommitRenewLoan, At, HoldsLoan, LockingOps
  <2>2. req[r].loan_row = loans[req[r].loan] /\ req[r].loan \in DOMAIN loans
    BY <2>1, HeldLoan
  <2>3. loans' = [loans EXCEPT ![req[r].loan] = Renewed(loans[req[r].loan])]
    BY <1>1, <1>7, <2>2 DEF CommitRenewLoan, Renewed
  <2> QED
    BY <2>1, <2>2, <2>3 DEF LoanCommits
<1>8. ASSUME NEW r \in Requests, CommitUpdateLoan(r)
      PROVE  /\ l \in DOMAIN loans'
             /\ \/ loans'[l] = loans[l]
                \/ DueDates # {} /\ loans'[l] = [loans[l] EXCEPT !.due_date = loans'[l].due_date]
  <2>1. req[r].arg \in DueDates
    BY <1>8 DEF CommitUpdateLoan, At, IInv, RequestInv, LoanIsStored
  <2>2. \/ loans' = loans
        \/ loans' = [loans EXCEPT ![req[r].loan].due_date = req[r].arg]
    BY <1>8 DEF CommitUpdateLoan
  <2>3. \/ loans'[l] = loans[l]
        \/ loans'[l] = [loans[l] EXCEPT !.due_date = req[r].arg]
    BY <1>1, <2>2
  <2>4. \A due_date : [loans[l] EXCEPT !.due_date = due_date].due_date = due_date
    BY <1>1 DEF Loan
  <2>5. l \in DOMAIN loans'
    BY <2>2
  <2> QED
    BY <2>1, <2>3, <2>4, <2>5
<1> QED
  BY <1>2, <1>3, <1>4, <1>5, <1>6, <1>7, <1>8, LoanWriters

(* A row is added only by create_loan. *)
LEMMA LoanInserted ==
  ASSUME IInv, [Next]_vars, NEW l \in DOMAIN loans' \ DOMAIN loans
  PROVE  \E r \in Requests : /\ CommitCreateLoan(r) /\ CreatesLoan(r)
                             /\ req[r].loan = l /\ loans'[l] = NewLoan(r)
<1>1. ASSUME NEW r \in Requests, CommitReturnLoan(r) \/ CommitCancelLoan(r) \/ CommitPayFine(r)
             \/ CommitRenewLoan(r) \/ CommitUpdateLoan(r)
      PROVE  DOMAIN loans' = DOMAIN loans
  BY <1>1 DEF CommitReturnLoan, CommitCancelLoan, CommitPayFine, CommitRenewLoan, CommitUpdateLoan
<1>2. PICK r \in Requests : CommitCreateLoan(r)
  BY <1>1, LoanWriters
<1> QED
  BY <1>2 DEF CommitCreateLoan, At, CreatesLoan, Insert

-----------------------------------------------------------------------------
(* A loan that was returned or cancelled is history, unless clients call    *)
(* PUT /loans/{id}: its unlocked read can pass a loan that is then closed.  *)
THEOREM ClosedLoansStayClosed ==
  ASSUME DueDates = {}
  PROVE  Spec => ClosedLoansAreFinal
<1>1. ASSUME IInv, [Next]_vars, NEW l \in DOMAIN loans, loans[l].status # "ACTIVE"
      PROVE  l \in DOMAIN loans' /\ loans'[l] = loans[l]
  <2>1. ASSUME NEW r \in Requests PROVE ~LoanCommits(r, l)
    BY <1>1, HeldLoan DEF LoanCommits
  <2> QED
    BY <1>1, <2>1, LoanRowStep
<1>2. IInv /\ [Next]_vars =>
        [\A l \in DOMAIN loans :
           loans[l].status # "ACTIVE" => l \in DOMAIN loans' /\ loans'[l] = loans[l]]_vars
  BY <1>1
<1> QED
  BY <1>2, Invariance, PTL DEF Spec, ClosedLoansAreFinal

(* With PUT /loans/{id}, that read changes the due date of the closed loan  *)
(* and nothing else: what the holder of the lock commits finds it active.   *)
THEOREM ClosedLoansAreRedatedAtMost ==
  Spec => ClosedLoansAreOnlyRedated
<1>1. ASSUME IInv, [Next]_vars, NEW l \in DOMAIN loans, loans[l].status # "ACTIVE"
      PROVE  loans'[l] = [loans[l] EXCEPT !.due_date = loans'[l].due_date]
  <2>1. ASSUME NEW r \in Requests PROVE ~LoanCommits(r, l)
    BY <1>1, HeldLoan DEF LoanCommits
  <2>2. loans[l] = [loans[l] EXCEPT !.due_date = loans[l].due_date]
    BY <1>1 DEF IInv, TypeOK, Loan
  <2> QED
    BY <1>1, <2>1, <2>2, LoanRowStep
<1>2. IInv /\ [Next]_vars =>
        [\A l \in DOMAIN loans :
           loans[l].status # "ACTIVE" =>
             loans'[l] = [loans[l] EXCEPT !.due_date = loans'[l].due_date]]_vars
  BY <1>1
<1> QED
  BY <1>2, Invariance, PTL DEF Spec, ClosedLoansAreOnlyRedated

(* The active loans of a deleted book stay active: return_loan and          *)
(* cancel_loan hold the lock of the book, and the book is then not deleted. *)
THEOREM LoansOfDeletedBooksAreStuck == Spec => LoansOfDeletedBooksStayOpen
<1>1. ASSUME IInv, [Next]_vars, NEW l \in ActiveLoans, ~books[loans[l].book].is_active
      PROVE  loans'[l].status = "ACTIVE"
  <2>1. l \in DOMAIN loans /\ loans[l].status = "ACTIVE" /\ loans[l] \in Loan
    BY <1>1 DEF ActiveLoans, IInv, TypeOK
  <2>2. ASSUME NEW r \in Requests, LoanCommits(r, l)
        PROVE  loans'[l].status = "ACTIVE"
    <3>1. ~HoldsBook(r)
      <4> SUFFICES ASSUME HoldsBook(r) PROVE FALSE
        OBVIOUS
      <4>1. req[r].book = loans[l].book
        BY <1>1, <2>2, HeldLoan DEF LoanCommits
      <4>2. books[req[r].book].is_active
        BY <1>1 DEF IInv, RequestInv, BookIsCurrent
      <4> QED
        BY <1>1, <4>1, <4>2
    <3>2. loans'[l] = Paid(r, loans[l]) \/ loans'[l] = Renewed(loans[l])
      BY <2>2, <3>1 DEF LoanCommits
    <3> QED
      BY <2>1, <3>2 DEF Paid, Renewed, Loan
  <2>3. loans'[l] = [loans[l] EXCEPT !.due_date = loans'[l].due_date] => loans'[l].status = "ACTIVE"
    BY <2>1 DEF Loan
  <2> QED
    BY <1>1, <2>1, <2>2, <2>3, LoanRowStep
<1>2. IInv /\ [Next]_vars =>
        [\A l \in ActiveLoans :
           ~books[loans[l].book].is_active => loans'[l].status = "ACTIVE"]_vars
  BY <1>1
<1> QED
  BY <1>2, Invariance, PTL DEF Spec, LoansOfDeletedBooksStayOpen

-----------------------------------------------------------------------------
(* Fines and renewals. *)

(* A loan is returned only with its fine paid. *)
LEMMA SettledStep ==
  ASSUME DueDates = {}, IInv, ReturnedLoansAreSettled, [Next]_vars
  PROVE  ReturnedLoansAreSettled'
<1> SUFFICES ASSUME NEW l \in DOMAIN loans', loans'[l].status = "RETURNED"
             PROVE  /\ loans'[l].fine_amount =
                         CalculateAmount(loans'[l].due_date, loans'[l].returned_at)
                    /\ loans'[l].fine_amount <= loans'[l].fine_paid_amount
  BY DEF ReturnedLoansAreSettled
<1>1. CASE l \notin DOMAIN loans
  BY <1>1, LoanInserted DEF NewLoan
<1>2. CASE l \in DOMAIN loans /\ loans'[l] = loans[l]
  BY <1>2 DEF ReturnedLoansAreSettled
<1>3. ASSUME l \in DOMAIN loans, NEW r \in Requests, LoanCommits(r, l)
      PROVE  /\ loans'[l].fine_amount =
                  CalculateAmount(loans'[l].due_date, loans'[l].returned_at)
             /\ loans'[l].fine_amount <= loans'[l].fine_paid_amount
  <2>1. loans[l] \in Loan /\ loans[l].status = "ACTIVE"
    BY <1>3, HeldLoan DEF LoanCommits
  <2>2. loans'[l] # Cancelled(loans[l]) /\ loans'[l] # Paid(r, loans[l]) /\ loans'[l] # Renewed(loans[l])
    BY <2>1 DEF Cancelled, Paid, Renewed, Loan
  <2>3. req[r].op = "return_loan" /\ loans'[l] = Returned(r, loans[l])
    BY <1>3, <2>2 DEF LoanCommits
  <2>4. CalculateAmount(loans[l].due_date, req[r].at) <= loans[l].fine_paid_amount
    BY <1>3, <2>3 DEF LoanCommits, IInv, RequestInv, LoanIsCurrent
  <2>5. /\ loans'[l].fine_amount = CalculateAmount(loans[l].due_date, req[r].at)
        /\ loans'[l].due_date = loans[l].due_date /\ loans'[l].returned_at = req[r].at
        /\ loans'[l].fine_paid_amount = loans[l].fine_paid_amount
    BY <2>1, <2>3 DEF Returned, Loan
  <2> QED
    BY <2>4, <2>5
<1> QED
  BY <1>1, <1>2, <1>3, LoanRowStep

(* No loan is returned with an unpaid fine, however its return interleaves  *)
(* with payments, renewals and other returns (PUT /loans/{id} aside).       *)
THEOREM FinesAreSettled ==
  ASSUME DueDates = {}
  PROVE  Spec => []ReturnedLoansAreSettled
<1>1. Init => ReturnedLoansAreSettled
  BY DEF Init, DatabaseInit, ReturnedLoansAreSettled
<1>2. IInv /\ ReturnedLoansAreSettled /\ [Next]_vars => ReturnedLoansAreSettled'
  BY SettledStep
<1> QED
  BY <1>1, <1>2, Invariance, PTL DEF Spec

(* Whatever a commit finds, it leaves no less paid than before, and a loan  *)
(* it returns has paid what is recorded.                                    *)
LEMMA PaidStep ==
  ASSUME IInv, [Next]_vars, NEW l \in DOMAIN loans
  PROVE  /\ l \in DOMAIN loans'
         /\ loans'[l].fine_paid_amount >= loans[l].fine_paid_amount
         /\ \/ loans'[l].status # "RETURNED"
            \/ loans'[l].fine_amount <= loans'[l].fine_paid_amount
            \/ /\ loans'[l].status = loans[l].status
               /\ loans'[l].fine_amount = loans[l].fine_amount
               /\ loans'[l].fine_paid_amount = loans[l].fine_paid_amount
<1>1. loans[l] \in Loan /\ loans[l].fine_paid_amount \in Nat
  BY DEF IInv, TypeOK, Loan
<1>2. CASE loans'[l] = [loans[l] EXCEPT !.due_date = loans'[l].due_date]
  <2>1. /\ loans'[l].status = loans[l].status
        /\ loans'[l].fine_amount = loans[l].fine_amount
        /\ loans'[l].fine_paid_amount = loans[l].fine_paid_amount
    BY <1>1, <1>2 DEF Loan
  <2>2. l \in DOMAIN loans'
    BY LoanRowStep
  <2>3. loans'[l].fine_paid_amount >= loans[l].fine_paid_amount
    BY <1>1, <2>1
  <2> QED
    BY <2>1, <2>2, <2>3
<1>3. ASSUME NEW r \in Requests, LoanCommits(r, l)
      PROVE  /\ loans'[l].fine_paid_amount >= loans[l].fine_paid_amount
             /\ \/ loans'[l].status # "RETURNED"
                \/ loans'[l].fine_amount <= loans'[l].fine_paid_amount
  <2>1. loans[l].status = "ACTIVE"
    BY <1>3, HeldLoan DEF LoanCommits
  <2>2. CASE req[r].op = "return_loan"
    <3>1. CalculateAmount(loans[l].due_date, req[r].at) <= loans[l].fine_paid_amount
      BY <1>3, <2>2 DEF LoanCommits, IInv, RequestInv, LoanIsCurrent
    <3>2. /\ loans'[l].fine_amount = CalculateAmount(loans[l].due_date, req[r].at)
          /\ loans'[l].fine_paid_amount = loans[l].fine_paid_amount
      BY <1>1, <1>3, <2>2 DEF LoanCommits, Returned, Loan
    <3> QED
      BY <1>1, <3>1, <3>2
  <2>3. CASE req[r].op = "pay_fine"
    <3>1. CalculateAmount(loans[l].due_date, req[r].at) > loans[l].fine_paid_amount
      BY <1>3, <2>3 DEF LoanCommits, IInv, RequestInv, LoanIsCurrent
    <3>2. /\ loans'[l].fine_paid_amount = CalculateAmount(loans[l].due_date, req[r].at)
          /\ loans'[l].status = "ACTIVE"
      BY <1>1, <1>3, <2>1, <2>3 DEF LoanCommits, Paid, Loan
    <3>3. CalculateAmount(loans[l].due_date, req[r].at) \in Nat
      <4>1. loans[l].due_date \in Nat /\ req[r].at \in 0 .. now
        BY <1>1, <1>3 DEF Loan, LoanCommits, IInv, RequestInv, LoanIsCurrent
      <4>2. req[r].at \in Nat
        BY <4>1 DEF IInv, TypeOK
      <4> QED
        BY <4>1, <4>2, FineType
    <3> QED
      BY <1>1, <3>1, <3>2, <3>3
  <2>4. CASE req[r].op \in {"cancel_loan", "renew_loan"}
    <3>1. /\ loans'[l].fine_paid_amount = loans[l].fine_paid_amount
          /\ loans'[l].status # "RETURNED"
      BY <1>1, <1>3, <2>1, <2>4 DEF LoanCommits, Cancelled, Renewed, Loan
    <3> QED
      BY <1>1, <3>1
  <2> QED
    BY <1>3, <2>2, <2>3, <2>4 DEF LoanCommits
<1> QED
  BY <1>1, <1>2, <1>3, LoanRowStep

(* A returned loan has paid the fine it records, whatever due dates it had, *)
(* was given before its return or is given after.                           *)
THEOREM ReturnsArePaid == Spec => []RecordedFinesArePaid
<1>1. Init => RecordedFinesArePaid
  BY DEF Init, DatabaseInit, RecordedFinesArePaid
<1>2. ASSUME IInv, RecordedFinesArePaid, [Next]_vars, NEW l \in DOMAIN loans',
             loans'[l].status = "RETURNED"
      PROVE  loans'[l].fine_amount <= loans'[l].fine_paid_amount
  <2>1. CASE l \notin DOMAIN loans
    BY <1>2, <2>1, LoanInserted DEF NewLoan
  <2>2. CASE l \in DOMAIN loans
    BY <1>2, <2>2, PaidStep DEF RecordedFinesArePaid
  <2> QED
    BY <2>1, <2>2
<1>3. IInv /\ RecordedFinesArePaid /\ [Next]_vars => RecordedFinesArePaid'
  BY <1>2 DEF RecordedFinesArePaid
<1> QED
  BY <1>1, <1>3, Invariance, PTL DEF Spec

(* No payment is lost: pay_fine compares the fine with what was paid, and   *)
(* holds the lock of the loan until it has written it.                      *)
THEOREM PaymentsLast == Spec => PaymentsAreKept
<1>1. IInv /\ [Next]_vars =>
        [\A l \in DOMAIN loans :
           /\ l \in DOMAIN loans'
           /\ loans'[l].fine_paid_amount >= loans[l].fine_paid_amount]_vars
  BY PaidStep
<1> QED
  BY <1>1, Invariance, PTL DEF Spec, PaymentsAreKept

(* Each renewal is counted and moves the due date once. *)
LEMMA RenewalStep ==
  ASSUME DueDates = {}, IInv, RenewalsAccountedFor, [Next]_vars
  PROVE  RenewalsAccountedFor'
<1> DEFINE Right(row) ==
      /\ row.renewal_count <= MAX_RENEWALS
      /\ row.due_date = row.loan_date + Days(LOAN_DAYS) + row.renewal_count * Days(RENEWAL_DAYS)
<1> SUFFICES ASSUME NEW l \in DOMAIN loans'
             PROVE  Right(loans'[l])
  BY DEF RenewalsAccountedFor
<1>1. Days(LOAN_DAYS) \in Nat /\ Days(RENEWAL_DAYS) \in Nat /\ MAX_RENEWALS \in Nat
  BY DaysType, DatabaseAssumption
<1>2. CASE l \notin DOMAIN loans
  <2>1. PICK r \in Requests : CommitCreateLoan(r) /\ loans'[l] = NewLoan(r)
    BY <1>2, LoanInserted
  <2>2. req[r].at \in Nat
    BY <2>1 DEF CommitCreateLoan, At, HoldsBook, IInv, RequestInv, BookIsCurrent
  <2>3. /\ loans'[l].renewal_count = 0 /\ loans'[l].loan_date = req[r].at
        /\ loans'[l].due_date = req[r].at + Days(LOAN_DAYS)
    BY <2>1 DEF NewLoan
  <2> QED
    BY <1>1, <2>2, <2>3
<1>3. CASE l \in DOMAIN loans /\ loans'[l] = loans[l]
  BY <1>3 DEF RenewalsAccountedFor
<1>4. ASSUME l \in DOMAIN loans, NEW r \in Requests, LoanCommits(r, l)
      PROVE  Right(loans'[l])
  <2>1. loans[l] \in Loan /\ Right(loans[l])
    BY <1>4 DEF RenewalsAccountedFor, IInv, TypeOK
  <2>2. CASE req[r].op = "renew_loan"
    <3>1. loans[l].renewal_count < MAX_RENEWALS
      BY <1>4, <2>2 DEF LoanCommits, IInv, RequestInv, LoanIsCurrent
    <3>2. loans'[l] = Renewed(loans[l])
      BY <1>4, <2>2 DEF LoanCommits
    <3>3. /\ loans'[l].renewal_count = loans[l].renewal_count + 1
          /\ loans'[l].loan_date = loans[l].loan_date
          /\ loans'[l].due_date = loans[l].due_date + Days(RENEWAL_DAYS)
      BY <2>1, <3>2 DEF Renewed, Loan
    <3>4. /\ loans[l].renewal_count \in Nat /\ loans[l].loan_date \in Nat
          /\ loans[l].due_date \in Nat
      BY <2>1 DEF Loan
    <3>5. \A c, d, from, term, due \in Nat :
            due = from + term + c * d => due + d = from + term + (c + 1) * d
      OBVIOUS
    <3>6. loans[l].due_date + Days(RENEWAL_DAYS) =
            loans[l].loan_date + Days(LOAN_DAYS) + (loans[l].renewal_count + 1) * Days(RENEWAL_DAYS)
      BY <1>1, <2>1, <3>4, <3>5
    <3>7. loans'[l].renewal_count <= MAX_RENEWALS
      BY <1>1, <3>1, <3>3, <3>4
    <3> QED
      BY <3>3, <3>6, <3>7
  <2>3. CASE req[r].op # "renew_loan"
    <3>1. /\ loans'[l].renewal_count = loans[l].renewal_count
          /\ loans'[l].loan_date = loans[l].loan_date
          /\ loans'[l].due_date = loans[l].due_date
      BY <1>4, <2>1, <2>3 DEF LoanCommits, Returned, Cancelled, Paid, Loan
    <3> QED
      BY <2>1, <3>1
  <2> QED
    BY <2>2, <2>3
<1> QED
  BY <1>2, <1>3, <1>4, LoanRowStep

(* No loan is renewed too often, and no renewal is lost or applied twice    *)
(* (PUT /loans/{id} aside).                                                 *)
THEOREM RenewalsAreAccountedFor ==
  ASSUME DueDates = {}
  PROVE  Spec => []RenewalsAccountedFor
<1>1. Init => RenewalsAccountedFor
  BY DEF Init, DatabaseInit, RenewalsAccountedFor
<1>2. IInv /\ RenewalsAccountedFor /\ [Next]_vars => RenewalsAccountedFor'
  BY RenewalStep
<1> QED
  BY <1>1, <1>2, Invariance, PTL DEF Spec

=====
