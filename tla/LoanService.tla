----------------------------- MODULE LoanService -----------------------------
(* The loan endpoints (domain/loans): the handlers of loan_controller.py    *)
(* and loan_service.py over the queries of loan_repository.py.              *)
EXTENDS Database

(* POST /loans: the user is found; the count comes next.  The uuid of the   *)
(* row is fixed here, so a free LoanId bounds the loans ever started.       *)
CreateLoan(r, u, b, l) ==
  /\ CanStart(r, "create_loan")
  /\ users[u]
  /\ l \notin DOMAIN loans
  /\ \A q \in Requests : req[q].loan # l
  /\ req' = [req EXCEPT ![r] = [Idle EXCEPT
        !.op = "create_loan", !.pc = "count_active", !.user = u, !.book = b, !.loan = l]]
  /\ UNCHANGED <<tables, locks, notifications, now>>

(* Faulty variant: > for >=. *)
CountActiveByUser_OffByOne(r) ==
  /\ At(r, "create_loan", "count_active")
  /\ IF Cardinality({l \in ActiveLoans : loans[l].user = req[r].user}) > MAX_ACTIVE_LOANS
     THEN Finish(r)
     ELSE Goto(r, "lock_book")
  /\ UNCHANGED <<tables, locks, notifications, now>>

(* count_active_by_user takes no lock. *)
CountActiveByUser(r) ==
  /\ At(r, "create_loan", "count_active")
  /\ IF Cardinality({l \in ActiveLoans : loans[l].user = req[r].user}) >= MAX_ACTIVE_LOANS
     THEN Finish(r)
     ELSE Goto(r, "lock_book")
  /\ UNCHANGED <<tables, locks, notifications, now>>

(* Faulty variants: without with_for_update, and without the is_active      *)
(* filter.                                                                  *)
GetBookForUpdate_NoLock(r) ==
  books[req[r].book].is_active /\ UNCHANGED book_lock

GetBookForUpdate_AnyBook(r) ==
  /\ Free(book_lock, req[r].book, r)
  /\ book_lock' = [book_lock EXCEPT ![req[r].book] = r]

(* get_book_for_update: an inactive book is not found. *)
GetBookForUpdate(r) ==
  /\ Free(book_lock, req[r].book, r)
  /\ book_lock' = [book_lock EXCEPT ![req[r].book] = r]
  /\ books[req[r].book].is_active

(* Faulty variant: < 0 for <= 0. *)
CreateLoanLocksBook_OffByOne(r) ==
  /\ At(r, "create_loan", "lock_book")
  /\ GetBookForUpdate(r)
  /\ ~(books[req[r].book].available_copies < 0)
  /\ req' = [req EXCEPT ![r].pc = "commit", ![r].at = now,
                        ![r].book_row = books[req[r].book]]
  /\ UNCHANGED <<tables, loan_lock, notifications, now>>

CreateLoanLocksBook(r) ==
  /\ At(r, "create_loan", "lock_book")
  /\ \/ /\ GetBookForUpdate(r)
        /\ books[req[r].book].available_copies > 0
        /\ req' = [req EXCEPT ![r].pc = "commit", ![r].at = now,
                              ![r].book_row = books[req[r].book]]
        /\ UNCHANGED loan_lock
     \/ /\ Free(book_lock, req[r].book, r)
        /\ \/ ~books[req[r].book].is_active
           \/ books[req[r].book].available_copies <= 0
        /\ Rollback(r)
  /\ UNCHANGED <<tables, notifications, now>>

NewLoan(r) ==
  [user |-> req[r].user, book |-> req[r].book, loan_date |-> req[r].at,
   due_date |-> req[r].at + Days(LOAN_DAYS), returned_at |-> None,
   status |-> "ACTIVE", fine_amount |-> 0, fine_paid_amount |-> 0,
   renewal_count |-> 0]

(* book.available_copies is written from the instance the lock returned. *)
WriteAvailableCopies(r, change) ==
  books' = [books EXCEPT ![req[r].book].available_copies =
              req[r].book_row.available_copies + change]

CommitCreateLoan(r) ==
  /\ At(r, "create_loan", "commit")
  /\ loans' = Insert(loans, req[r].loan, NewLoan(r))
  /\ WriteAvailableCopies(r, -1)
  /\ EndTransaction(r)
  /\ Goto(r, "publish")
  /\ UNCHANGED <<users, reservations, notifications, now>>

-----------------------------------------------------------------------------
(* Return, cancel, renew and pay-fine all begin in the controller, which    *)
(* loads the loan (get_loan) for the ownership check, and go on with        *)
(* find_active_by_id_for_update in the service.                             *)

LockingOps == {"return_loan", "cancel_loan", "renew_loan", "pay_fine"}

(* Faulty variant: cancel_loan locks the book before the loan. *)
ReceiveLoanRequest_BookFirst(r, op, l) ==
  /\ CanStart(r, op)
  /\ l \in DOMAIN loans
  /\ req' = [req EXCEPT ![r] = [Idle EXCEPT !.op = op, !.pc = "lock_loan", !.loan = l]]
  /\ IF op = "cancel_loan"
     THEN /\ Free(book_lock, loans[l].book, r)
          /\ book_lock' = [book_lock EXCEPT ![loans[l].book] = r]
     ELSE UNCHANGED book_lock
  /\ UNCHANGED <<tables, loan_lock, notifications, now>>

ReceiveLoanRequest(r, op, l) ==
  /\ CanStart(r, op)
  /\ l \in DOMAIN loans
  /\ req' = [req EXCEPT ![r] = [Idle EXCEPT !.op = op, !.pc = "lock_loan", !.loan = l]]
  /\ UNCHANGED <<tables, locks, notifications, now>>

(* Faulty variants: without the status filter, and without with_for_update. *)
FindActiveByIdForUpdate_AnyStatus(r) ==
  /\ Free(loan_lock, req[r].loan, r)
  /\ loan_lock' = [loan_lock EXCEPT ![req[r].loan] = r]

FindActiveByIdForUpdate_NoLock(r) ==
  loans[req[r].loan].status = "ACTIVE" /\ UNCHANGED loan_lock

FindActiveByIdForUpdate(r) ==
  /\ Free(loan_lock, req[r].loan, r)
  /\ loans[req[r].loan].status = "ACTIVE"
  /\ loan_lock' = [loan_lock EXCEPT ![req[r].loan] = r]

(* Locks the loan and, if it is active and accepted, goes on with pc. *)
LockLoan(r, op, accepted, pc) ==
  /\ At(r, op, "lock_loan")
  /\ \/ /\ FindActiveByIdForUpdate(r)
        /\ accepted
        /\ req' = [req EXCEPT ![r].pc = pc, ![r].at = now,
                              ![r].loan_row = loans[req[r].loan],
                              ![r].book = loans[req[r].loan].book]
        /\ UNCHANGED book_lock
     \/ /\ Free(loan_lock, req[r].loan, r)
        /\ \/ loans[req[r].loan].status # "ACTIVE"
           \/ ~accepted
        /\ Rollback(r)
  /\ UNCHANGED <<tables, notifications, now>>

FineNow(l) == CalculateAmount(loans[l].due_date, now)

(* Faulty variant: any payment will do. *)
ReturnLoan_AnyPayment(r) ==
  LET l == req[r].loan IN
  LockLoan(r, "return_loan",
           ~(FineNow(l) > 0 /\ loans[l].fine_paid_amount = 0), "lock_book")

(* A late loan comes back only when its fine is paid. *)
ReturnLoan(r) ==
  LET l == req[r].loan IN
  LockLoan(r, "return_loan",
           ~(FineNow(l) > 0 /\ loans[l].fine_paid_amount < FineNow(l)), "lock_book")

CancelLoan(r) == LockLoan(r, "cancel_loan", TRUE, "lock_book")

(* Faulty variant: the fine is not compared with what was paid. *)
PayFine_AnyFine(r) == LockLoan(r, "pay_fine", TRUE, "commit")

PayFine(r) ==
  LET l == req[r].loan IN
  LockLoan(r, "pay_fine",
           FineNow(l) > 0 /\ FineNow(l) - loans[l].fine_paid_amount > 0, "commit")

(* Faulty variant: > for >=. *)
RenewLoan_OffByOne(r) ==
  LET l == req[r].loan IN
  LockLoan(r, "renew_loan",
           /\ CalculateDaysLate(loans[l].due_date, now) = 0
           /\ loans[l].renewal_count <= MAX_RENEWALS,
           "check_reservations")

RenewLoan(r) ==
  LET l == req[r].loan IN
  LockLoan(r, "renew_loan",
           /\ CalculateDaysLate(loans[l].due_date, now) = 0
           /\ loans[l].renewal_count < MAX_RENEWALS,
           "check_reservations")

(* return_loan and cancel_loan lock the book second; a book that was        *)
(* deleted meanwhile is not found and the loan stays as it is.              *)
ClosingLoanLocksBook(r) ==
  /\ req[r].op \in {"return_loan", "cancel_loan"} /\ req[r].pc = "lock_book"
  /\ \/ /\ GetBookForUpdate(r)
        /\ req' = [req EXCEPT ![r].pc = "commit", ![r].book_row = books[req[r].book]]
        /\ UNCHANGED loan_lock
     \/ /\ Free(book_lock, req[r].book, r)
        /\ ~books[req[r].book].is_active
        /\ Rollback(r)
  /\ UNCHANGED <<tables, notifications, now>>

(* Faulty variant: the fine is that of the commit, not of the check. *)
CommitReturnLoan_LaterFine(r) ==
  LET l == req[r].loan IN
  /\ At(r, "return_loan", "commit")
  /\ loans' = [loans EXCEPT ![l].status = "RETURNED", ![l].returned_at = now,
                            ![l].fine_amount = FineNow(l)]
  /\ WriteAvailableCopies(r, 1)
  /\ EndTransaction(r)
  /\ Goto(r, "publish")
  /\ UNCHANGED <<users, reservations, notifications, now>>

CommitReturnLoan(r) ==
  /\ At(r, "return_loan", "commit")
  /\ loans' = [loans EXCEPT
        ![req[r].loan].status = "RETURNED",
        ![req[r].loan].returned_at = req[r].at,
        ![req[r].loan].fine_amount = CalculateAmount(req[r].loan_row.due_date, req[r].at)]
  /\ WriteAvailableCopies(r, 1)
  /\ EndTransaction(r)
  /\ Goto(r, "publish")
  /\ UNCHANGED <<users, reservations, notifications, now>>

CommitCancelLoan(r) ==
  /\ At(r, "cancel_loan", "commit")
  /\ loans' = [loans EXCEPT ![req[r].loan].status = "CANCELLED",
                            ![req[r].loan].fine_amount = 0]
  /\ WriteAvailableCopies(r, 1)
  /\ EndTransaction(r)
  /\ Goto(r, "publish")
  /\ UNCHANGED <<users, reservations, notifications, now>>

CommitPayFine(r) ==
  LET fine == CalculateAmount(req[r].loan_row.due_date, req[r].at) IN
  /\ At(r, "pay_fine", "commit")
  /\ loans' = [loans EXCEPT ![req[r].loan].fine_amount = fine,
                            ![req[r].loan].fine_paid_amount = fine]
  /\ EndTransaction(r)
  /\ Finish(r)
  /\ UNCHANGED <<users, books, reservations, notifications, now>>

(* exists_active_for_book reads the reservations without a lock. *)
RenewalChecksReservations(r) ==
  /\ At(r, "renew_loan", "check_reservations")
  /\ \/ /\ \E v \in ActiveReservations : reservations[v].book = req[r].book
        /\ Rollback(r)
     \/ /\ \A v \in ActiveReservations : reservations[v].book # req[r].book
        /\ Goto(r, "commit")
        /\ UNCHANGED locks
  /\ UNCHANGED <<tables, notifications, now>>

(* Faulty variant: the new term starts today. *)
CommitRenewLoan_FromToday(r) ==
  /\ At(r, "renew_loan", "commit")
  /\ loans' = [loans EXCEPT
        ![req[r].loan].due_date = req[r].at + Days(RENEWAL_DAYS),
        ![req[r].loan].renewal_count = req[r].loan_row.renewal_count + 1]
  /\ EndTransaction(r)
  /\ Finish(r)
  /\ UNCHANGED <<users, books, reservations, notifications, now>>

CommitRenewLoan(r) ==
  /\ At(r, "renew_loan", "commit")
  /\ loans' = [loans EXCEPT
        ![req[r].loan].due_date = req[r].loan_row.due_date + Days(RENEWAL_DAYS),
        ![req[r].loan].renewal_count = req[r].loan_row.renewal_count + 1]
  /\ EndTransaction(r)
  /\ Finish(r)
  /\ UNCHANGED <<users, books, reservations, notifications, now>>

-----------------------------------------------------------------------------
(* PUT /loans/{id}: find_by_id takes no lock, so the status that is         *)
(* checked and the due_date that is replaced may both be out of date.       *)
UpdateLoan(r, l, due_date) ==
  /\ CanStart(r, "update_loan")
  /\ l \in ActiveLoans
  /\ due_date > loans[l].loan_date
  /\ req' = [req EXCEPT ![r] = [Idle EXCEPT
        !.op = "update_loan", !.pc = "commit", !.loan = l, !.arg = due_date,
        !.loan_row = loans[l]]]
  /\ UNCHANGED <<tables, locks, notifications, now>>

(* No UPDATE is sent when the instance did not change; else it waits for    *)
(* the row's lock and sets due_date alone.                                  *)
CommitUpdateLoan(r) ==
  /\ At(r, "update_loan", "commit")
  /\ IF req[r].arg = req[r].loan_row.due_date
     THEN UNCHANGED loans
     ELSE /\ Free(loan_lock, req[r].loan, r)
          /\ loans' = [loans EXCEPT ![req[r].loan].due_date = req[r].arg]
  /\ Finish(r)
  /\ UNCHANGED <<users, books, reservations, locks, notifications, now>>

(* After the commit the handler deletes cache keys and publishes.  The      *)
(* notification's foreign key waits while the loan row is FOR UPDATE.       *)
PublishLoanEvent(r) ==
  /\ req[r].op \in {"create_loan", "return_loan", "cancel_loan"} /\ req[r].pc = "publish"
  /\ Free(loan_lock, req[r].loan, r)
  /\ Notify(EventType[req[r].op], req[r].loan)
  /\ Finish(r)
  /\ UNCHANGED <<tables, locks, now>>

LoanServiceStep(r) ==
  \/ CountActiveByUser(r) \/ CreateLoanLocksBook(r) \/ CommitCreateLoan(r)
  \/ ReturnLoan(r) \/ CancelLoan(r) \/ PayFine(r) \/ RenewLoan(r)
  \/ ClosingLoanLocksBook(r) \/ CommitReturnLoan(r) \/ CommitCancelLoan(r)
  \/ CommitPayFine(r) \/ RenewalChecksReservations(r) \/ CommitRenewLoan(r)
  \/ CommitUpdateLoan(r) \/ PublishLoanEvent(r)

LoanServiceStart(r) ==
  \/ \E u \in Users, b \in Books, l \in LoanIds : CreateLoan(r, u, b, l)
  \/ \E op \in LockingOps, l \in LoanIds : ReceiveLoanRequest(r, op, l)
  \/ \E l \in LoanIds, due_date \in DueDates : UpdateLoan(r, l, due_date)
=============================================================================
