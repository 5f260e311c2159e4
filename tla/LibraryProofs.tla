---------------------------- MODULE LibraryProofs ----------------------------
(* Proofs about Library, for every value of its constants: the inductive    *)
(* invariant IInv, the types, and that handlers never deadlock on row       *)
(* locks.                                                                   *)
EXTENDS Library, TLAPS

-----------------------------------------------------------------------------
(* Lemmas about the helpers. *)

(* Fines are natural numbers: dates do not run backwards. *)
LEMMA FineType ==
  ASSUME NEW due \in Nat, NEW t \in Nat
  PROVE  CalculateDaysLate(due, t) \in Nat /\ CalculateAmount(due, t) \in Nat
BY TicksPerDayAssumption DEF CalculateDaysLate, CalculateAmount, Date, DAILY_FINE_AMOUNT

(* timedelta(days=n) is a natural number of ticks. *)
LEMMA DaysType ==
  ASSUME NEW n \in Nat
  PROVE  Days(n) \in Nat
BY TicksPerDayAssumption DEF Days

(* Goto changes the step of one request. *)
LEMMA GotoEffect ==
  ASSUME req \in [Requests -> Request], NEW r \in Requests,
         NEW pc \in {"idle", "count_active", "lock_loan", "lock_book",
                     "check_reservations", "find_existing", "commit", "publish"},
         Goto(r, pc)
  PROVE  /\ req' \in [Requests -> Request]
         /\ \A q \in Requests \ {r} : req'[q] = req[q]
         /\ req'[r].op = req[r].op /\ req'[r].pc = pc
         /\ req'[r].user = req[r].user /\ req'[r].book = req[r].book
         /\ req'[r].loan = req[r].loan /\ req'[r].reservation = req[r].reservation
         /\ req'[r].loan_row = req[r].loan_row /\ req'[r].book_row = req[r].book_row
         /\ req'[r].arg = req[r].arg /\ req'[r].at = req[r].at
<1>1. req[r] \in Request
  OBVIOUS
<1>2. req'[r] = [req[r] EXCEPT !.pc = pc] /\ \A q \in Requests \ {r} : req'[q] = req[q]
  BY DEF Goto
<1>3. req' \in [Requests -> Request]
  BY DEF Goto, Request
<1> QED
  BY <1>1, <1>2, <1>3 DEF Request

(* Finish empties the slot of one request. *)
LEMMA FinishEffect ==
  ASSUME req \in [Requests -> Request], NEW r \in Requests, Finish(r)
  PROVE  /\ req' \in [Requests -> Request]
         /\ req'[r] = Idle /\ \A q \in Requests \ {r} : req'[q] = req[q]
BY DEF Finish, Request, Idle

(* A transaction that ends gives up its locks and nobody else's. *)
LEMMA ReleaseEffect ==
  ASSUME TypeOK, NEW r \in Requests, EndTransaction(r)
  PROVE  /\ loan_lock' \in [LoanIds -> Requests \cup {None}]
         /\ book_lock' \in [Books -> Requests \cup {None}]
         /\ \A l \in LoanIds : loan_lock'[l] # r
         /\ \A b \in Books : book_lock'[b] # r
         /\ \A q \in Requests \ {r} :
              /\ \A l \in LoanIds : loan_lock'[l] = q <=> loan_lock[l] = q
              /\ \A b \in Books : book_lock'[b] = q <=> book_lock[b] = q
<1>1. /\ loan_lock' \in [LoanIds -> Requests \cup {None}]
      /\ book_lock' \in [Books -> Requests \cup {None}]
  BY DEF EndTransaction, TypeOK
<1> QED
  BY <1>1, DatabaseAssumption DEF EndTransaction, TypeOK

(* A row is stored under one id; the other rows stay. *)
LEMMA InsertEffect ==
  ASSUME NEW table, NEW id, NEW row
  PROVE  /\ DOMAIN Insert(table, id, row) = DOMAIN table \cup {id}
         /\ Insert(table, id, row)[id] = row
         /\ \A i \in DOMAIN table \ {id} : Insert(table, id, row)[i] = table[i]
BY DEF Insert

-----------------------------------------------------------------------------
(* The part of the invariant that a step of another request cannot disturb. *)

(* What holds of the requests that take no step, when the locks they hold   *)
(* stay theirs, the rows under those locks stay as they are and rows are    *)
(* only added, a loan only by the request that was to create it.            *)
LEMMA OthersUndisturbed ==
  ASSUME IInv, NEW r \in Requests, NEW q \in Requests \ {r},
         \A p \in Requests \ {r} : req'[p] = req[p],
         \A l \in LoanIds : loan_lock'[l] = q <=> loan_lock[l] = q,
         \A b \in Books : book_lock'[b] = q <=> book_lock[b] = q,
         DOMAIN loans \subseteq DOMAIN loans',
         \A l \in DOMAIN loans : loan_lock[l] = q => loans'[l] = loans[l],
         \A l \in DOMAIN loans' \ DOMAIN loans : CreatesLoan(r) /\ l = req[r].loan,
         \A b \in Books : book_lock[b] = q => books'[b] = books[b],
         DOMAIN reservations \subseteq DOMAIN reservations', now' = now,
         CreatesLoan(r)' => \/ CreatesLoan(r) /\ req'[r].loan = req[r].loan
                            \/ \A p \in Requests : req[p].loan # req'[r].loan
  PROVE  RequestInv(q)'
<1>1. RequestInv(q) /\ req'[q] = req[q]
  BY DEF IInv
<1>2. /\ HoldsLoan(q)' <=> HoldsLoan(q)
      /\ HoldsBook(q)' <=> HoldsBook(q)
      /\ \A p \in Requests \ {r} : CreatesLoan(p)' <=> CreatesLoan(p)
  BY DEF HoldsLoan, HoldsBook, CreatesLoan
<1>3. LocksMatch(q)'
  BY <1>1, <1>2 DEF RequestInv, LocksMatch
<1>4. LoanIsNew(q)'
  <2> SUFFICES ASSUME CreatesLoan(q)
               PROVE  /\ req[q].user \in Users /\ req[q].book \in Books
                      /\ req[q].loan \in LoanIds \ DOMAIN loans'
                      /\ \A p \in Requests \ {q} : CreatesLoan(p)' => req'[p].loan # req[q].loan
    BY <1>1, <1>2 DEF LoanIsNew
  <2>1. /\ req[q].user \in Users /\ req[q].book \in Books
        /\ req[q].loan \in LoanIds \ DOMAIN loans
        /\ \A p \in Requests \ {q} : CreatesLoan(p) => req[p].loan # req[q].loan
    BY <1>1 DEF RequestInv, LoanIsNew
  <2>2. req[q].loan \notin DOMAIN loans'
    BY <2>1
  <2>3. ASSUME NEW p \in Requests \ {q}, CreatesLoan(p)'
        PROVE  req'[p].loan # req[q].loan
    <3>1. CASE p = r
      BY <2>1, <2>3, <3>1
    <3>2. CASE p # r
      BY <1>2, <2>1, <2>3, <3>2
    <3> QED
      BY <3>1, <3>2
  <2> QED
    BY <2>1, <2>2, <2>3
<1>5. LoanIsStored(q)'
  BY <1>1 DEF RequestInv, LoanIsStored
<1>6. LoanIsCurrent(q)'
  <2> SUFFICES ASSUME HoldsLoan(q)
               PROVE  LoanIsCurrent(q)'
    BY <1>2 DEF LoanIsCurrent
  <2>1. req[q].loan \in DOMAIN loans
    BY <1>1 DEF RequestInv, LoanIsStored, HoldsLoan
  <2>2. loan_lock[req[q].loan] = q
    BY <1>1, <2>1 DEF RequestInv, LocksMatch, IInv, TypeOK
  <2>3. loans'[req[q].loan] = loans[req[q].loan]
    BY <2>1, <2>2
  <2> QED
    BY <1>1, <1>2, <2>3 DEF RequestInv, LoanIsCurrent
<1>7. BookIsCurrent(q)'
  <2>1. ASSUME HoldsBook(q)
        PROVE  books'[req[q].book] = books[req[q].book]
    <3>1. req[q].book \in Books
      <4>1. CASE req[q].op = "create_loan"
        BY <1>1, <2>1, <4>1 DEF RequestInv, LoanIsNew, CreatesLoan, HoldsBook
      <4>2. CASE req[q].op # "create_loan"
        <5>1. HoldsLoan(q) /\ req[q].loan \in DOMAIN loans
          BY <1>1, <2>1, <4>2 DEF HoldsBook, HoldsLoan, LockingOps, RequestInv, LoanIsStored
        <5> QED
          BY <1>1, <5>1 DEF RequestInv, LoanIsCurrent, IInv, TypeOK, Loan
      <4> QED
        BY <4>1, <4>2
    <3>2. book_lock[req[q].book] = q
      BY <1>1, <2>1, <3>1 DEF RequestInv, LocksMatch
    <3> QED
      BY <3>1, <3>2
  <2> QED
    BY <1>1, <1>2, <2>1 DEF RequestInv, BookIsCurrent
<1>8. ReservationIsKnown(q)'
  BY <1>1 DEF RequestInv, ReservationIsKnown
<1> QED
  BY <1>3, <1>4, <1>5, <1>6, <1>7, <1>8 DEF RequestInv

(* The frame for a step that changes no table. *)
LEMMA QuietStep ==
  ASSUME IInv, NEW r \in Requests, UNCHANGED <<tables, notifications, now>>,
         req' \in [Requests -> Request],
         \A q \in Requests \ {r} : req'[q] = req[q],
         loan_lock' \in [LoanIds -> Requests \cup {None}],
         book_lock' \in [Books -> Requests \cup {None}],
         \A q \in Requests \ {r} :
           /\ \A l \in LoanIds : loan_lock'[l] = q <=> loan_lock[l] = q
           /\ \A b \in Books : book_lock'[b] = q <=> book_lock[b] = q,
         CreatesLoan(r)' => \/ CreatesLoan(r) /\ req'[r].loan = req[r].loan
                            \/ \A p \in Requests : req[p].loan # req'[r].loan,
         RequestInv(r)'
  PROVE  IInv'
<1>1. TypeOK'
  BY DEF IInv, TypeOK, tables
<1>2. ASSUME NEW q \in Requests \ {r}
      PROVE  RequestInv(q)'
  <2>1. loans' = loans /\ books' = books /\ reservations' = reservations
    BY DEF tables
  <2> QED
    BY <2>1, OthersUndisturbed
<1> QED
  BY <1>1, <1>2 DEF IInv

(* An idle request that holds no lock satisfies the invariant. *)
LEMMA IdleRequest ==
  ASSUME NEW r \in Requests, req'[r] = Idle,
         \A l \in LoanIds : loan_lock'[l] # r,
         \A b \in Books : book_lock'[b] # r
  PROVE  RequestInv(r)'
<1>1. req'[r].op = None /\ req'[r].pc = "idle"
  BY DEF Idle
<1>2. ~HoldsLoan(r)' /\ ~HoldsBook(r)' /\ ~CreatesLoan(r)'
  BY <1>1 DEF HoldsLoan, HoldsBook, CreatesLoan
<1> QED
  BY <1>1, <1>2 DEF RequestInv, LocksMatch, LoanIsNew, LoanIsStored, LoanIsCurrent,
                    BookIsCurrent, ReservationIsKnown

-----------------------------------------------------------------------------
(* Steps that end a request. *)

(* A rollback keeps the invariant. *)
LEMMA RollbackInv ==
  ASSUME IInv, NEW r \in Requests, Rollback(r), UNCHANGED <<tables, notifications, now>>
  PROVE  IInv'
<1>1. EndTransaction(r) /\ Finish(r) /\ TypeOK /\ req \in [Requests -> Request]
  BY DEF Rollback, IInv, TypeOK
<1>2. /\ req' \in [Requests -> Request] /\ req'[r] = Idle
      /\ \A q \in Requests \ {r} : req'[q] = req[q]
  BY <1>1, FinishEffect
<1>3. RequestInv(r)'
  BY <1>1, <1>2, ReleaseEffect, IdleRequest
<1>4. ~CreatesLoan(r)'
  BY <1>2 DEF CreatesLoan, Idle
<1> QED
  BY <1>1, <1>2, <1>3, <1>4, ReleaseEffect, QuietStep

(* So does the end of a request that holds no lock and wrote nothing but a  *)
(* notification.                                                            *)
LEMMA FinishInv ==
  ASSUME IInv, NEW r \in Requests, Finish(r), UNCHANGED <<tables, locks, now>>,
         ~HoldsLoan(r), ~HoldsBook(r),
         notifications' \in [NotificationType \X (LoanIds \cup ReservationIds) -> Nat]
  PROVE  IInv'
<1>1. /\ req' \in [Requests -> Request] /\ req'[r] = Idle
      /\ \A q \in Requests \ {r} : req'[q] = req[q]
  BY FinishEffect DEF IInv, TypeOK
<1>2. /\ loan_lock' = loan_lock /\ book_lock' = book_lock
      /\ loans' = loans /\ books' = books /\ reservations' = reservations
  BY DEF tables, locks
<1>3. TypeOK'
  BY <1>1, <1>2 DEF IInv, TypeOK, tables
<1>4. RequestInv(r)'
  BY <1>1, <1>2, IdleRequest DEF IInv, RequestInv, LocksMatch
<1>5. ~CreatesLoan(r)'
  BY <1>1 DEF CreatesLoan, Idle
<1>6. \A q \in Requests \ {r} : RequestInv(q)'
  BY <1>1, <1>2, <1>5, OthersUndisturbed
<1> QED
  BY <1>3, <1>4, <1>6 DEF IInv

-----------------------------------------------------------------------------
(* Steps that start a request. *)

(* What a started request must satisfy for the invariant to hold. *)
LEMMA StartInv ==
  ASSUME IInv, NEW r \in Requests, NEW new \in Request, req[r].pc = "idle",
         req' = [req EXCEPT ![r] = new], UNCHANGED <<tables, locks, notifications, now>>,
         \/ new.pc \in {"count_active", "lock_loan", "find_existing"}
         \/ new.pc = "commit" /\ new.op \in {"update_loan", "update_book", "cancel_reservation"},
         new.op = "create_loan" =>
           /\ new.user \in Users /\ new.book \in Books /\ new.loan \in LoanIds \ DOMAIN loans
           /\ \A q \in Requests : req[q].loan # new.loan,
         new.op \in LockingOps \cup {"update_loan"} => new.loan \in DOMAIN loans,
         new.op = "update_loan" => new.arg \in DueDates,
         new.op = "update_book" =>
           /\ new.book \in Books /\ new.book_row \in Book /\ new.arg \in Copies
           /\ new.arg >= new.book_row.total_copies - new.book_row.available_copies,
         new.op = "create_reservation" =>
           new.user \in Users /\ new.book \in Books /\ new.reservation \in ReservationIds,
         new.op = "cancel_reservation" => new.reservation \in DOMAIN reservations
  PROVE  IInv'
<1>1. /\ req' \in [Requests -> Request]
      /\ req'[r] = new /\ \A q \in Requests \ {r} : req'[q] = req[q]
  BY DEF IInv, TypeOK
<1>2. /\ loan_lock' = loan_lock /\ book_lock' = book_lock
      /\ loans' = loans /\ books' = books /\ reservations' = reservations
      /\ UNCHANGED <<tables, notifications, now>>
  BY DEF tables, locks
<1>3. ~HoldsLoan(r) /\ ~HoldsBook(r) /\ ~HoldsLoan(r)' /\ ~HoldsBook(r)'
  BY <1>1 DEF HoldsLoan, HoldsBook, LockingOps
<1>4. RequestInv(r)'
  <2>1. LocksMatch(r)'
    BY <1>2, <1>3 DEF IInv, RequestInv, LocksMatch
  <2>2. LoanIsNew(r)'
    <3>1. ASSUME CreatesLoan(r)'
          PROVE  LoanIsNew(r)'
      <4>1. new.op = "create_loan"
        BY <1>1, <3>1 DEF CreatesLoan
      <4> QED
        BY <1>1, <1>2, <4>1 DEF LoanIsNew, CreatesLoan
    <3> QED
      BY <3>1 DEF LoanIsNew
  <2>3. LoanIsStored(r)'
    BY <1>1, <1>2 DEF LoanIsStored
  <2>4. LoanIsCurrent(r)'
    BY <1>3 DEF LoanIsCurrent
  <2>5. BookIsCurrent(r)'
    BY <1>1, <1>3 DEF BookIsCurrent
  <2>6. ReservationIsKnown(r)'
    BY <1>1, <1>2 DEF ReservationIsKnown
  <2> QED
    BY <2>1, <2>2, <2>3, <2>4, <2>5, <2>6 DEF RequestInv
<1>5. CreatesLoan(r)' => \A p \in Requests : req[p].loan # req'[r].loan
  BY <1>1 DEF CreatesLoan
<1> QED
  BY <1>1, <1>2, <1>4, <1>5, QuietStep DEF IInv, TypeOK

(* POST /loans *)
LEMMA CreateLoanInv ==
  ASSUME IInv, NEW r \in Requests, NEW u \in Users, NEW b \in Books, NEW l \in LoanIds,
         CreateLoan(r, u, b, l)
  PROVE  IInv'
<1> DEFINE new == [Idle EXCEPT !.op = "create_loan", !.pc = "count_active",
                               !.user = u, !.book = b, !.loan = l]
<1>1. /\ "create_loan" \in Operations /\ req[r].pc = "idle"
      /\ l \notin DOMAIN loans /\ \A q \in Requests : req[q].loan # l
      /\ req' = [req EXCEPT ![r] = new] /\ UNCHANGED <<tables, locks, notifications, now>>
  BY DEF CreateLoan, CanStart
<1>2. new \in Request
  BY <1>1 DEF Request, Idle
<1> QED
  BY <1>1, <1>2, StartInv DEF Idle, LockingOps, IInv, TypeOK

(* POST /loans/{id}/return, /cancel, /renew and /pay-fine *)
LEMMA ReceiveLoanRequestInv ==
  ASSUME IInv, NEW r \in Requests, NEW op \in LockingOps, NEW l \in LoanIds,
         ReceiveLoanRequest(r, op, l)
  PROVE  IInv'
<1> DEFINE new == [Idle EXCEPT !.op = op, !.pc = "lock_loan", !.loan = l]
<1>1. /\ op \in Operations /\ req[r].pc = "idle" /\ l \in DOMAIN loans
      /\ req' = [req EXCEPT ![r] = new] /\ UNCHANGED <<tables, locks, notifications, now>>
  BY DEF ReceiveLoanRequest, CanStart
<1>2. new \in Request
  BY <1>1 DEF Request, Idle
<1> QED
  BY <1>1, <1>2, StartInv DEF Idle, LockingOps, IInv, TypeOK

(* PUT /loans/{id} *)
LEMMA UpdateLoanInv ==
  ASSUME IInv, NEW r \in Requests, NEW l \in LoanIds, NEW due_date \in DueDates,
         UpdateLoan(r, l, due_date)
  PROVE  IInv'
<1> DEFINE new == [Idle EXCEPT !.op = "update_loan", !.pc = "commit", !.loan = l,
                               !.arg = due_date, !.loan_row = loans[l]]
<1>1. /\ "update_loan" \in Operations /\ req[r].pc = "idle" /\ l \in DOMAIN loans
      /\ req' = [req EXCEPT ![r] = new] /\ UNCHANGED <<tables, locks, notifications, now>>
  BY DEF UpdateLoan, CanStart, ActiveLoans
<1>2. new \in Request
  BY <1>1 DEF Request, Idle, IInv, TypeOK
<1> QED
  BY <1>1, <1>2, StartInv DEF Idle, LockingOps, IInv, TypeOK

(* PUT /books/{id} *)
LEMMA UpdateBookInv ==
  ASSUME IInv, NEW r \in Requests, NEW b \in Books, NEW n \in Copies,
         UpdateBook(r, b, n)
  PROVE  IInv'
<1> DEFINE new == [Idle EXCEPT !.op = "update_book", !.pc = "commit", !.book = b,
                               !.arg = n, !.book_row = books[b]]
<1>1. /\ "update_book" \in Operations /\ req[r].pc = "idle"
      /\ req' = [req EXCEPT ![r] = new] /\ UNCHANGED <<tables, locks, notifications, now>>
  BY DEF UpdateBook, CanStart
<1>2. new \in Request
  BY <1>1 DEF Request, Idle, IInv, TypeOK
<1>3. n >= books[b].total_copies - books[b].available_copies
  <2>1. books[b] \in Book /\ n \in Int
    BY DatabaseAssumption DEF IInv, TypeOK
  <2> QED
    BY <2>1 DEF UpdateBook, Book
<1>4. new.arg >= new.book_row.total_copies - new.book_row.available_copies
  BY <1>3 DEF Idle
<1> QED
  BY <1>1, <1>2, <1>4, StartInv DEF Idle, LockingOps, IInv, TypeOK

(* POST /reservations *)
LEMMA CreateReservationInv ==
  ASSUME IInv, NEW r \in Requests, NEW u \in Users, NEW b \in Books,
         NEW v \in ReservationIds,
         CreateReservation(r, u, b, v)
  PROVE  IInv'
<1> DEFINE new == [Idle EXCEPT !.op = "create_reservation", !.pc = "find_existing",
                               !.user = u, !.book = b, !.reservation = v]
<1>1. /\ "create_reservation" \in Operations /\ req[r].pc = "idle"
      /\ req' = [req EXCEPT ![r] = new] /\ UNCHANGED <<tables, locks, notifications, now>>
  BY DEF CreateReservation, CanStart
<1>2. new \in Request
  BY <1>1 DEF Request, Idle
<1> QED
  BY <1>1, <1>2, StartInv DEF Idle, LockingOps, IInv, TypeOK

(* POST /reservations/{id}/cancel *)
LEMMA CancelReservationInv ==
  ASSUME IInv, NEW r \in Requests, NEW v \in ReservationIds,
         CancelReservation(r, v)
  PROVE  IInv'
<1> DEFINE new == [Idle EXCEPT !.op = "cancel_reservation", !.pc = "commit",
                               !.reservation = v]
<1>1. /\ "cancel_reservation" \in Operations /\ req[r].pc = "idle"
      /\ v \in DOMAIN reservations
      /\ req' = [req EXCEPT ![r] = new] /\ UNCHANGED <<tables, locks, notifications, now>>
  BY DEF CancelReservation, CanStart, ActiveReservations
<1>2. new \in Request
  BY <1>1 DEF Request, Idle
<1> QED
  BY <1>1, <1>2, StartInv DEF Idle, LockingOps, IInv, TypeOK

-----------------------------------------------------------------------------
(* Steps that read or lock and change no table. *)

(* The count of active loans takes no lock. *)
LEMMA CountActiveByUserInv ==
  ASSUME IInv, NEW r \in Requests, CountActiveByUser(r)
  PROVE  IInv'
<1>1. /\ req[r].op = "create_loan" /\ req[r].pc = "count_active"
      /\ UNCHANGED <<tables, locks, notifications, now>> /\ UNCHANGED <<tables, notifications, now>>
  BY DEF CountActiveByUser, At
<1>2. CASE Finish(r)
  BY <1>1, <1>2, FinishInv DEF HoldsLoan, HoldsBook, LockingOps, IInv, TypeOK
<1>3. CASE Goto(r, "lock_book")
  <2>1. /\ req' \in [Requests -> Request] /\ \A q \in Requests \ {r} : req'[q] = req[q]
        /\ req'[r].op = "create_loan" /\ req'[r].pc = "lock_book"
        /\ req'[r].user = req[r].user /\ req'[r].book = req[r].book /\ req'[r].loan = req[r].loan
    BY <1>1, <1>3, GotoEffect DEF IInv, TypeOK
  <2>2. loan_lock' = loan_lock /\ book_lock' = book_lock /\ loans' = loans
    BY <1>1 DEF tables, locks
  <2>3. /\ ~HoldsLoan(r) /\ ~HoldsBook(r) /\ ~HoldsLoan(r)' /\ ~HoldsBook(r)'
        /\ CreatesLoan(r)
    BY <1>1, <2>1 DEF HoldsLoan, HoldsBook, LockingOps, CreatesLoan
  <2>4. RequestInv(r)'
    <3>1. LocksMatch(r)'
      BY <2>2, <2>3 DEF IInv, RequestInv, LocksMatch
    <3>2. LoanIsNew(r)'
      <4>1. LoanIsNew(r)
        BY DEF IInv, RequestInv
      <4> QED
        BY <2>1, <2>2, <2>3, <4>1 DEF LoanIsNew, CreatesLoan
    <3> QED
      BY <2>1, <2>3, <3>1, <3>2 DEF RequestInv, LoanIsStored, LoanIsCurrent, BookIsCurrent,
                                    ReservationIsKnown, LockingOps
  <2> QED
    BY <1>1, <2>1, <2>2, <2>3, <2>4, QuietStep DEF IInv, TypeOK
<1> QED
  BY <1>2, <1>3 DEF CountActiveByUser

(* The find_active_by_user_and_book query takes none either. *)
LEMMA FindExistingReservationInv ==
  ASSUME IInv, NEW r \in Requests, FindExistingReservation(r)
  PROVE  IInv'
<1>1. /\ req[r].op = "create_reservation" /\ req[r].pc = "find_existing"
      /\ UNCHANGED <<tables, locks, notifications, now>> /\ UNCHANGED <<tables, notifications, now>>
  BY DEF FindExistingReservation, At
<1>2. CASE Finish(r)
  BY <1>1, <1>2, FinishInv DEF HoldsLoan, HoldsBook, LockingOps, IInv, TypeOK
<1>3. CASE Goto(r, "commit")
  <2>1. /\ req' \in [Requests -> Request] /\ \A q \in Requests \ {r} : req'[q] = req[q]
        /\ req'[r].op = "create_reservation" /\ req'[r].pc = "commit"
        /\ req'[r].user = req[r].user /\ req'[r].book = req[r].book
        /\ req'[r].reservation = req[r].reservation
    BY <1>1, <1>3, GotoEffect DEF IInv, TypeOK
  <2>2. loan_lock' = loan_lock /\ book_lock' = book_lock
    BY <1>1 DEF locks
  <2>3. /\ ~HoldsLoan(r) /\ ~HoldsBook(r) /\ ~HoldsLoan(r)' /\ ~HoldsBook(r)'
        /\ ~CreatesLoan(r)'
    BY <1>1, <2>1 DEF HoldsLoan, HoldsBook, LockingOps, CreatesLoan
  <2>4. RequestInv(r)'
    <3>1. LocksMatch(r)'
      BY <2>2, <2>3 DEF IInv, RequestInv, LocksMatch
    <3>2. ReservationIsKnown(r)'
      BY <1>1, <2>1 DEF IInv, RequestInv, ReservationIsKnown
    <3> QED
      BY <2>1, <2>3, <3>1, <3>2 DEF RequestInv, LoanIsNew, LoanIsStored, LoanIsCurrent,
                                    BookIsCurrent, LockingOps
  <2> QED
    BY <1>1, <2>1, <2>2, <2>3, <2>4, QuietStep DEF IInv, TypeOK
<1> QED
  BY <1>2, <1>3 DEF FindExistingReservation

(* exists_active_for_book keeps the lock of the loan. *)
LEMMA RenewalChecksReservationsInv ==
  ASSUME IInv, NEW r \in Requests, RenewalChecksReservations(r)
  PROVE  IInv'
<1>1. /\ req[r].op = "renew_loan" /\ req[r].pc = "check_reservations"
      /\ UNCHANGED <<tables, notifications, now>>
  BY DEF RenewalChecksReservations, At
<1>2. CASE Rollback(r)
  BY <1>1, <1>2, RollbackInv
<1>3. CASE Goto(r, "commit") /\ UNCHANGED locks
  <2>1. /\ req' \in [Requests -> Request] /\ \A q \in Requests \ {r} : req'[q] = req[q]
        /\ req'[r].op = "renew_loan" /\ req'[r].pc = "commit" /\ req'[r].at = req[r].at
        /\ req'[r].loan = req[r].loan /\ req'[r].loan_row = req[r].loan_row
        /\ req'[r].book = req[r].book
    BY <1>1, <1>3, GotoEffect DEF IInv, TypeOK
  <2>2. loan_lock' = loan_lock /\ book_lock' = book_lock /\ loans' = loans
    BY <1>1, <1>3 DEF tables, locks
  <2>3. /\ HoldsLoan(r) /\ ~HoldsBook(r) /\ HoldsLoan(r)' /\ ~HoldsBook(r)' /\ ~CreatesLoan(r)'
    BY <1>1, <2>1 DEF HoldsLoan, HoldsBook, LockingOps, CreatesLoan
  <2>4. RequestInv(r)'
    <3>1. LocksMatch(r)'
      BY <2>1, <2>2, <2>3 DEF IInv, RequestInv, LocksMatch
    <3>2. LoanIsStored(r)'
      BY <1>1, <2>1, <2>2 DEF IInv, RequestInv, LoanIsStored, LockingOps
    <3>3. LoanIsCurrent(r)'
      BY <1>1, <2>1, <2>2, <2>3 DEF IInv, RequestInv, LoanIsCurrent
    <3> QED
      BY <2>1, <2>3, <3>1, <3>2, <3>3 DEF RequestInv, LoanIsNew, BookIsCurrent, ReservationIsKnown
  <2> QED
    BY <1>1, <2>1, <2>2, <2>3, <2>4, QuietStep DEF IInv, TypeOK
<1> QED
  BY <1>2, <1>3 DEF RenewalChecksReservations

(* The lock of a loan goes to a request that found it active and accepted   *)
(* it; nobody else held it.                                                 *)
LEMMA LoanLockedInv ==
  ASSUME IInv, NEW r \in Requests, NEW op \in LockingOps,
         NEW pc \in {"lock_book", "check_reservations", "commit"},
         At(r, op, "lock_loan"), FindActiveByIdForUpdate(r),
         req' = [req EXCEPT ![r].pc = pc, ![r].at = now,
                            ![r].loan_row = loans[req[r].loan],
                            ![r].book = loans[req[r].loan].book],
         UNCHANGED <<tables, book_lock, notifications, now>>,
         op \in {"return_loan", "cancel_loan"} => pc = "lock_book",
         op = "return_loan" => FineNow(req[r].loan) <= loans[req[r].loan].fine_paid_amount,
         op = "pay_fine" => FineNow(req[r].loan) > loans[req[r].loan].fine_paid_amount,
         op = "renew_loan" => loans[req[r].loan].renewal_count < MAX_RENEWALS
  PROVE  IInv'
<1> DEFINE l == req[r].loan
<1>1. /\ req[r].op = op /\ req[r].pc = "lock_loan" /\ loan_lock[l] \in {None, r}
      /\ loans[l].status = "ACTIVE" /\ loan_lock' = [loan_lock EXCEPT ![l] = r]
  BY DEF At, FindActiveByIdForUpdate, Free
<1>2. l \in DOMAIN loans /\ l \in LoanIds /\ loans[l] \in Loan /\ now \in Nat
  BY <1>1 DEF IInv, RequestInv, LoanIsStored, TypeOK
<1>3. /\ loans' = loans /\ books' = books /\ reservations' = reservations
      /\ book_lock' = book_lock
      /\ UNCHANGED <<tables, notifications, now>>
  BY DEF tables
<1>4. /\ req' \in [Requests -> Request] /\ \A q \in Requests \ {r} : req'[q] = req[q]
      /\ req'[r].op = op /\ req'[r].pc = pc /\ req'[r].at = now /\ req'[r].loan = l
      /\ req'[r].loan_row = loans[l] /\ req'[r].book = loans[l].book
  <2>1. loans[l].book \in Books /\ req[r] \in Request
    BY <1>2 DEF IInv, TypeOK, Loan
  <2>2. /\ req'[r] = [req[r] EXCEPT !.pc = pc, !.at = now, !.loan_row = loans[l],
                                    !.book = loans[l].book]
        /\ \A q \in Requests \ {r} : req'[q] = req[q]
    BY DEF IInv, TypeOK
  <2>3. /\ req'[r] \in Request /\ req'[r].op = req[r].op /\ req'[r].pc = pc
        /\ req'[r].at = now /\ req'[r].loan = l /\ req'[r].loan_row = loans[l]
        /\ req'[r].book = loans[l].book
    <3> DEFINE new == [req[r] EXCEPT !.pc = pc, !.at = now, !.loan_row = loans[l],
                                     !.book = loans[l].book]
    <3>1. new \in Request
      BY <1>2, <2>1 DEF Request
    <3>2. /\ new.op = req[r].op /\ new.pc = pc /\ new.at = now /\ new.loan = l
          /\ new.loan_row = loans[l] /\ new.book = loans[l].book
      BY <1>2, <2>1 DEF Request
    <3> HIDE DEF new
    <3>3. req'[r] = new
      BY <2>2 DEF new
    <3> QED
      BY <3>1, <3>2, <3>3
  <2>4. req' \in [Requests -> Request]
    BY <2>2, <2>3 DEF IInv, TypeOK
  <2> QED
    BY <1>1, <2>2, <2>3, <2>4
<1>5. /\ \A i \in LoanIds : loan_lock'[i] = IF i = l THEN r ELSE loan_lock[i]
      /\ loan_lock' \in [LoanIds -> Requests \cup {None}]
  BY <1>1 DEF IInv, TypeOK
<1>6. \A q \in Requests \ {r} : \A i \in LoanIds : loan_lock'[i] = q <=> loan_lock[i] = q
  BY <1>1, <1>2, <1>5, DatabaseAssumption
<1>7. /\ HoldsLoan(r)' /\ ~HoldsLoan(r) /\ ~HoldsBook(r) /\ ~HoldsBook(r)' /\ ~CreatesLoan(r)'
  BY <1>1, <1>4 DEF HoldsLoan, HoldsBook, LockingOps, CreatesLoan
<1>8. RequestInv(r)'
  <2>1. LocksMatch(r)'
    <3>1. LocksMatch(r)
      BY DEF IInv, RequestInv
    <3> QED
      BY <1>2, <1>3, <1>4, <1>5, <1>7, <3>1 DEF LocksMatch
  <2>2. LoanIsStored(r)'
    BY <1>2, <1>3, <1>4 DEF LoanIsStored, LockingOps
  <2>3. LoanIsCurrent(r)'
    BY <1>1, <1>2, <1>3, <1>4 DEF LoanIsCurrent, FineNow
  <2> QED
    BY <1>4, <1>7, <2>1, <2>2, <2>3 DEF RequestInv, LoanIsNew, BookIsCurrent,
                                        ReservationIsKnown, LockingOps
<1> QED
  BY <1>3, <1>4, <1>5, <1>6, <1>7, <1>8, QuietStep DEF IInv, TypeOK

(* POST /loans/{id}/return: the fine of this instant is paid. *)
LEMMA ReturnLoanInv ==
  ASSUME IInv, NEW r \in Requests, ReturnLoan(r)
  PROVE  IInv'
<1> DEFINE l == req[r].loan
           accepted == ~(FineNow(l) > 0 /\ loans[l].fine_paid_amount < FineNow(l))
<1>1. At(r, "return_loan", "lock_loan") /\ UNCHANGED <<tables, notifications, now>>
  BY DEF ReturnLoan, LockLoan
<1>2. CASE /\ FindActiveByIdForUpdate(r) /\ accepted /\ UNCHANGED book_lock
           /\ req' = [req EXCEPT ![r].pc = "lock_book", ![r].at = now,
                                 ![r].loan_row = loans[l], ![r].book = loans[l].book]
  <2>1. loans[l] \in Loan /\ now \in Nat
    BY <1>1 DEF At, IInv, RequestInv, LoanIsStored, LockingOps, TypeOK
  <2>2. FineNow(l) \in Nat /\ loans[l].fine_paid_amount \in Nat
    BY <2>1, FineType DEF FineNow, Loan
  <2>3. FineNow(l) <= loans[l].fine_paid_amount
    BY <1>2, <2>2
  <2> QED
    BY <1>1, <1>2, <2>3, LoanLockedInv DEF LockingOps
<1>3. CASE Rollback(r)
  BY <1>1, <1>3, RollbackInv
<1> QED
  BY <1>2, <1>3 DEF ReturnLoan, LockLoan

(* POST /loans/{id}/cancel asks for no more than an active loan. *)
LEMMA CancelLoanInv ==
  ASSUME IInv, NEW r \in Requests, CancelLoan(r)
  PROVE  IInv'
<1> DEFINE l == req[r].loan
<1>1. At(r, "cancel_loan", "lock_loan") /\ UNCHANGED <<tables, notifications, now>>
  BY DEF CancelLoan, LockLoan
<1>2. CASE /\ FindActiveByIdForUpdate(r) /\ UNCHANGED book_lock
           /\ req' = [req EXCEPT ![r].pc = "lock_book", ![r].at = now,
                                 ![r].loan_row = loans[l], ![r].book = loans[l].book]
  BY <1>1, <1>2, LoanLockedInv DEF LockingOps
<1>3. CASE Rollback(r)
  BY <1>1, <1>3, RollbackInv
<1> QED
  BY <1>2, <1>3 DEF CancelLoan, LockLoan

(* POST /loans/{id}/pay-fine: part of the fine of this instant is unpaid. *)
LEMMA PayFineInv ==
  ASSUME IInv, NEW r \in Requests, PayFine(r)
  PROVE  IInv'
<1> DEFINE l == req[r].loan
           accepted == FineNow(l) > 0 /\ FineNow(l) - loans[l].fine_paid_amount > 0
<1>1. At(r, "pay_fine", "lock_loan") /\ UNCHANGED <<tables, notifications, now>>
  BY DEF PayFine, LockLoan
<1>2. CASE /\ FindActiveByIdForUpdate(r) /\ accepted /\ UNCHANGED book_lock
           /\ req' = [req EXCEPT ![r].pc = "commit", ![r].at = now,
                                 ![r].loan_row = loans[l], ![r].book = loans[l].book]
  <2>1. loans[l] \in Loan /\ now \in Nat
    BY <1>1 DEF At, IInv, RequestInv, LoanIsStored, LockingOps, TypeOK
  <2>2. FineNow(l) \in Nat /\ loans[l].fine_paid_amount \in Nat
    BY <2>1, FineType DEF FineNow, Loan
  <2>3. FineNow(l) > loans[l].fine_paid_amount
    BY <1>2, <2>2
  <2> QED
    BY <1>1, <1>2, <2>3, LoanLockedInv DEF LockingOps
<1>3. CASE Rollback(r)
  BY <1>1, <1>3, RollbackInv
<1> QED
  BY <1>2, <1>3 DEF PayFine, LockLoan

(* POST /loans/{id}/renew: a renewal is left. *)
LEMMA RenewLoanInv ==
  ASSUME IInv, NEW r \in Requests, RenewLoan(r)
  PROVE  IInv'
<1> DEFINE l == req[r].loan
<1>1. At(r, "renew_loan", "lock_loan") /\ UNCHANGED <<tables, notifications, now>>
  BY DEF RenewLoan, LockLoan
<1>2. CASE /\ FindActiveByIdForUpdate(r) /\ loans[l].renewal_count < MAX_RENEWALS
           /\ UNCHANGED book_lock
           /\ req' = [req EXCEPT ![r].pc = "check_reservations", ![r].at = now,
                                 ![r].loan_row = loans[l], ![r].book = loans[l].book]
  BY <1>1, <1>2, LoanLockedInv DEF LockingOps
<1>3. CASE Rollback(r)
  BY <1>1, <1>3, RollbackInv
<1> QED
  BY <1>2, <1>3 DEF RenewLoan, LockLoan

(* What get_book_for_update does to the locks. *)
LEMMA BookLockedEffect ==
  ASSUME IInv, NEW r \in Requests, GetBookForUpdate(r), req[r].book \in Books,
         UNCHANGED loan_lock
  PROVE  /\ loan_lock' \in [LoanIds -> Requests \cup {None}]
         /\ book_lock' \in [Books -> Requests \cup {None}]
         /\ \A b \in Books : book_lock'[b] = IF b = req[r].book THEN r ELSE book_lock[b]
         /\ \A q \in Requests \ {r} :
              /\ \A l \in LoanIds : loan_lock'[l] = q <=> loan_lock[l] = q
              /\ \A b \in Books : book_lock'[b] = q <=> book_lock[b] = q
<1>1. book_lock[req[r].book] \in {None, r} /\ book_lock' = [book_lock EXCEPT ![req[r].book] = r]
  BY DEF GetBookForUpdate, Free
<1>2. /\ \A b \in Books : book_lock'[b] = IF b = req[r].book THEN r ELSE book_lock[b]
      /\ book_lock' \in [Books -> Requests \cup {None}]
  BY <1>1 DEF IInv, TypeOK
<1>3. \A q \in Requests \ {r} : \A b \in Books : book_lock'[b] = q <=> book_lock[b] = q
  BY <1>1, <1>2, DatabaseAssumption
<1> QED
  BY <1>2, <1>3 DEF IInv, TypeOK

(* create_loan takes the lock of a book with a copy to lend. *)
LEMMA CreateLoanLocksBookInv ==
  ASSUME IInv, NEW r \in Requests, CreateLoanLocksBook(r)
  PROVE  IInv'
<1> DEFINE b == req[r].book
<1>1. /\ req[r].op = "create_loan" /\ req[r].pc = "lock_book"
      /\ UNCHANGED <<tables, notifications, now>>
  BY DEF CreateLoanLocksBook, At
<1>2. CASE /\ GetBookForUpdate(r) /\ books[b].available_copies > 0 /\ UNCHANGED loan_lock
           /\ req' = [req EXCEPT ![r].pc = "commit", ![r].at = now, ![r].book_row = books[b]]
  <2>1. CreatesLoan(r) /\ LoanIsNew(r) /\ b \in Books /\ books[b] \in Book /\ now \in Nat
    BY <1>1 DEF IInv, RequestInv, LoanIsNew, CreatesLoan, TypeOK
  <2>2. /\ req' \in [Requests -> Request] /\ \A q \in Requests \ {r} : req'[q] = req[q]
        /\ req'[r].op = "create_loan" /\ req'[r].pc = "commit" /\ req'[r].at = now
        /\ req'[r].book_row = books[b] /\ req'[r].loan = req[r].loan
        /\ req'[r].user = req[r].user /\ req'[r].book = b
    <3> DEFINE new == [req[r] EXCEPT !.pc = "commit", !.at = now, !.book_row = books[b]]
    <3>1. req[r] \in Request
      BY DEF IInv, TypeOK
    <3>2. new \in Request
      BY <2>1, <3>1 DEF Request
    <3>3. /\ new.op = req[r].op /\ new.pc = "commit" /\ new.at = now
          /\ new.book_row = books[b] /\ new.loan = req[r].loan
          /\ new.user = req[r].user /\ new.book = b
      BY <2>1, <3>1 DEF Request
    <3> HIDE DEF new
    <3>4. req'[r] = new /\ \A q \in Requests \ {r} : req'[q] = req[q]
      BY <1>2 DEF new, IInv, TypeOK
    <3>5. req' \in [Requests -> Request]
      BY <1>2, <3>2, <3>4 DEF IInv, TypeOK
    <3> QED
      BY <1>1, <3>3, <3>4, <3>5
  <2>3. /\ ~HoldsLoan(r) /\ ~HoldsBook(r) /\ ~HoldsLoan(r)' /\ HoldsBook(r)'
        /\ CreatesLoan(r)'
    BY <1>1, <2>2 DEF HoldsLoan, HoldsBook, LockingOps, CreatesLoan
  <2>4. loans' = loans /\ books' = books /\ loan_lock' = loan_lock
    BY <1>1, <1>2 DEF tables
  <2>5. RequestInv(r)'
    <3>1. LocksMatch(r)'
      <4>1. LocksMatch(r)
        BY DEF IInv, RequestInv
      <4> QED
        BY <1>2, <2>1, <2>2, <2>3, <2>4, <4>1, BookLockedEffect DEF LocksMatch
    <3>2. LoanIsNew(r)'
      BY <2>1, <2>2, <2>4 DEF LoanIsNew, CreatesLoan
    <3>3. BookIsCurrent(r)'
      BY <1>2, <2>1, <2>2, <2>4 DEF BookIsCurrent, GetBookForUpdate
    <3> QED
      BY <2>2, <2>3, <3>1, <3>2, <3>3 DEF RequestInv, LoanIsStored, LoanIsCurrent,
                                          ReservationIsKnown, LockingOps
  <2> QED
    BY <1>1, <1>2, <2>1, <2>2, <2>5, BookLockedEffect, QuietStep
<1>3. CASE Rollback(r)
  BY <1>1, <1>3, RollbackInv
<1> QED
  BY <1>2, <1>3 DEF CreateLoanLocksBook

(* return_loan and cancel_loan take the lock of the book of their loan. *)
LEMMA ClosingLoanLocksBookInv ==
  ASSUME IInv, NEW r \in Requests, ClosingLoanLocksBook(r)
  PROVE  IInv'
<1> DEFINE b == req[r].book
<1>1. /\ req[r].op \in {"return_loan", "cancel_loan"} /\ req[r].pc = "lock_book"
      /\ UNCHANGED <<tables, notifications, now>>
  BY DEF ClosingLoanLocksBook
<1>2. CASE /\ GetBookForUpdate(r) /\ UNCHANGED loan_lock
           /\ req' = [req EXCEPT ![r].pc = "commit", ![r].book_row = books[b]]
  <2>1. /\ HoldsLoan(r) /\ ~HoldsBook(r) /\ ~CreatesLoan(r)
        /\ LoanIsStored(r) /\ LoanIsCurrent(r) /\ req[r].loan \in DOMAIN loans
    BY <1>1 DEF HoldsLoan, HoldsBook, CreatesLoan, LockingOps, IInv, RequestInv, LoanIsStored
  <2>2. b \in Books /\ books[b] \in Book
    BY <2>1 DEF LoanIsCurrent, IInv, TypeOK, Loan
  <2>3. /\ req' \in [Requests -> Request] /\ \A q \in Requests \ {r} : req'[q] = req[q]
        /\ req'[r].op = req[r].op /\ req'[r].pc = "commit" /\ req'[r].at = req[r].at
        /\ req'[r].book_row = books[b] /\ req'[r].loan = req[r].loan
        /\ req'[r].loan_row = req[r].loan_row /\ req'[r].book = b
    <3> DEFINE new == [req[r] EXCEPT !.pc = "commit", !.book_row = books[b]]
    <3>1. req[r] \in Request
      BY DEF IInv, TypeOK
    <3>2. new \in Request
      BY <2>2, <3>1 DEF Request
    <3>3. /\ new.op = req[r].op /\ new.pc = "commit" /\ new.at = req[r].at
          /\ new.book_row = books[b] /\ new.loan = req[r].loan
          /\ new.loan_row = req[r].loan_row /\ new.book = b
      BY <2>2, <3>1 DEF Request
    <3> HIDE DEF new
    <3>4. req'[r] = new /\ \A q \in Requests \ {r} : req'[q] = req[q]
      BY <1>2 DEF new, IInv, TypeOK
    <3>5. req' \in [Requests -> Request]
      BY <1>2, <3>2, <3>4 DEF IInv, TypeOK
    <3> QED
      BY <3>3, <3>4, <3>5
  <2>4. HoldsLoan(r)' /\ HoldsBook(r)' /\ ~CreatesLoan(r)'
    BY <1>1, <2>3 DEF HoldsLoan, HoldsBook, LockingOps, CreatesLoan
  <2>5. loans' = loans /\ books' = books /\ loan_lock' = loan_lock
    BY <1>1, <1>2 DEF tables
  <2>6. RequestInv(r)'
    <3>1. LocksMatch(r)'
      <4>1. LocksMatch(r)
        BY DEF IInv, RequestInv
      <4> QED
        BY <1>2, <2>1, <2>2, <2>3, <2>4, <2>5, <4>1, BookLockedEffect DEF LocksMatch
    <3>2. LoanIsStored(r)'
      BY <1>1, <2>1, <2>3, <2>5 DEF LoanIsStored
    <3>3. LoanIsCurrent(r)'
      BY <1>1, <2>1, <2>3, <2>5 DEF LoanIsCurrent
    <3>4. BookIsCurrent(r)'
      BY <1>1, <1>2, <2>2, <2>3, <2>5 DEF BookIsCurrent, GetBookForUpdate
    <3> QED
      BY <1>1, <2>3, <2>4, <3>1, <3>2, <3>3, <3>4 DEF RequestInv, LoanIsNew, ReservationIsKnown
  <2> QED
    BY <1>1, <1>2, <2>2, <2>3, <2>4, <2>6, BookLockedEffect, QuietStep
<1>3. CASE Rollback(r)
  BY <1>1, <1>3, RollbackInv
<1> QED
  BY <1>2, <1>3 DEF ClosingLoanLocksBook

-----------------------------------------------------------------------------
(* Commits. *)

(* A handler that has committed and goes on to publish holds no lock.       *)
LEMMA PublishingRequest ==
  ASSUME NEW r \in Requests, req'[r].pc = "publish",
         \A l \in LoanIds : loan_lock'[l] # r,
         \A b \in Books : book_lock'[b] # r,
         req'[r].op \in {"create_loan", "return_loan", "cancel_loan"}
           => req'[r].loan \in DOMAIN loans',
         req'[r].op \in LockingOps => req'[r].loan \in DOMAIN loans',
         req'[r].op # "update_loan",
         req'[r].op \in {"create_reservation", "cancel_reservation"}
           => req'[r].reservation \in ReservationIds
  PROVE  RequestInv(r)'
<1>1. ~HoldsLoan(r)' /\ ~HoldsBook(r)' /\ ~CreatesLoan(r)'
  BY DEF HoldsLoan, HoldsBook, CreatesLoan
<1> QED
  BY <1>1 DEF RequestInv, LocksMatch, LoanIsNew, LoanIsStored, LoanIsCurrent,
              BookIsCurrent, ReservationIsKnown

(* The row lock a request holds is nobody else's. *)
LEMMA HeldLoan ==
  ASSUME IInv, NEW r \in Requests, HoldsLoan(r)
  PROVE  /\ req[r].loan \in DOMAIN loans /\ req[r].loan \in LoanIds
         /\ loan_lock[req[r].loan] = r
         /\ loans[req[r].loan] \in Loan /\ req[r].loan_row = loans[req[r].loan]
         /\ loans[req[r].loan].status = "ACTIVE"
         /\ req[r].book = loans[req[r].loan].book /\ req[r].book \in Books
         /\ req[r].at \in Nat /\ req[r].at <= MaxNow
<1>1. req[r].loan \in DOMAIN loans
  BY DEF HoldsLoan, IInv, RequestInv, LoanIsStored
<1>2. req[r].loan \in LoanIds /\ loans[req[r].loan] \in Loan
  BY <1>1 DEF IInv, TypeOK
<1>3. loan_lock[req[r].loan] = r
  BY <1>2 DEF IInv, RequestInv, LocksMatch
<1>4. /\ req[r].loan_row = loans[req[r].loan] /\ loans[req[r].loan].status = "ACTIVE"
      /\ req[r].book = loans[req[r].loan].book /\ req[r].at \in 0 .. now
  BY DEF IInv, RequestInv, LoanIsCurrent
<1>5. req[r].at \in Nat /\ req[r].at <= MaxNow
  BY <1>4, DatabaseAssumption DEF IInv, TypeOK
<1> QED
  BY <1>1, <1>2, <1>3, <1>4, <1>5 DEF Loan

(* So it is with the lock of a book. *)
LEMMA HeldBook ==
  ASSUME IInv, NEW r \in Requests, HoldsBook(r)
  PROVE  /\ req[r].book \in Books /\ book_lock[req[r].book] = r
         /\ req[r].book_row = books[req[r].book] /\ books[req[r].book] \in Book
<1>1. req[r].book \in Books
  <2>1. CASE req[r].op = "create_loan"
    BY <2>1 DEF HoldsBook, IInv, RequestInv, LoanIsNew, CreatesLoan
  <2>2. CASE req[r].op # "create_loan"
    <3>1. HoldsLoan(r)
      BY <2>2 DEF HoldsBook, HoldsLoan, LockingOps
    <3> QED
      BY <3>1, HeldLoan
  <2> QED
    BY <2>1, <2>2
<1> QED
  BY <1>1 DEF IInv, TypeOK, RequestInv, LocksMatch, BookIsCurrent

(* available_copies of the locked book is written, and nothing else. *)
LEMMA BookWritten ==
  ASSUME IInv, NEW r \in Requests, HoldsBook(r), NEW change \in Int,
         WriteAvailableCopies(r, change)
  PROVE  /\ books' \in [Books -> Book]
         /\ books'[req[r].book] = [books[req[r].book] EXCEPT !.available_copies = @ + change]
         /\ \A b \in Books : b # req[r].book => books'[b] = books[b]
<1> DEFINE b == req[r].book
           row == [books[b] EXCEPT !.available_copies = @ + change]
<1>1. b \in Books /\ req[r].book_row = books[b] /\ books[b] \in Book
  BY HeldBook
<1>2. row \in Book
  BY <1>1 DEF Book
<1>3. books' = [books EXCEPT ![b] = row]
  BY <1>1 DEF WriteAvailableCopies, Book, IInv, TypeOK
<1> HIDE DEF row
<1>4. /\ books' \in [Books -> Book] /\ books'[b] = row
      /\ \A i \in Books : i # b => books'[i] = books[i]
  BY <1>1, <1>2, <1>3 DEF IInv, TypeOK
<1> QED
  BY <1>4 DEF row

(* create_loan inserts its row and takes a copy. *)
LEMMA CommitCreateLoanInv ==
  ASSUME IInv, NEW r \in Requests, CommitCreateLoan(r)
  PROVE  IInv'
<1> DEFINE l == req[r].loan
<1>1. /\ req[r].op = "create_loan" /\ req[r].pc = "commit"
      /\ loans' = Insert(loans, l, NewLoan(r)) /\ WriteAvailableCopies(r, -1)
      /\ EndTransaction(r) /\ Goto(r, "publish")
      /\ UNCHANGED <<users, reservations, notifications, now>>
  BY DEF CommitCreateLoan, At
<1>2. HoldsBook(r) /\ CreatesLoan(r)
  BY <1>1 DEF HoldsBook, CreatesLoan
<1>3. /\ l \in LoanIds /\ l \notin DOMAIN loans
      /\ req[r].user \in Users /\ req[r].book \in Books /\ req[r].at \in Nat
  BY <1>1, <1>2 DEF IInv, RequestInv, LoanIsNew, BookIsCurrent
<1>4. NewLoan(r) \in Loan
  <2>1. req[r].at + Days(LOAN_DAYS) \in Nat
    BY <1>3, DaysType, DatabaseAssumption
  <2> QED
    BY <1>3, <2>1 DEF NewLoan, Loan, LoanStatus
<1>5. /\ DOMAIN loans' = DOMAIN loans \cup {l} /\ loans'[l] = NewLoan(r)
      /\ \A i \in DOMAIN loans : loans'[i] = loans[i]
      /\ loans' = [i \in DOMAIN loans \cup {l} |-> IF i = l THEN NewLoan(r) ELSE loans[i]]
  BY <1>1, <1>3 DEF Insert
<1>6. /\ books' \in [Books -> Book]
      /\ \A b \in Books : b # req[r].book => books'[b] = books[b]
  <2>1. -1 \in Int
    OBVIOUS
  <2> QED
    BY <1>1, <1>2, <2>1, BookWritten
<1>7. /\ req' \in [Requests -> Request] /\ \A q \in Requests \ {r} : req'[q] = req[q]
      /\ req'[r].op = "create_loan" /\ req'[r].pc = "publish" /\ req'[r].loan = l
  BY <1>1, GotoEffect DEF IInv, TypeOK
<1>8. TypeOK'
  <2>1. DOMAIN loans' \subseteq LoanIds /\ loans' \in [DOMAIN loans' -> Loan]
    BY <1>3, <1>4, <1>5 DEF IInv, TypeOK
  <2> QED
    BY <1>1, <1>6, <1>7, <2>1, ReleaseEffect DEF IInv, TypeOK
<1>9. RequestInv(r)'
  BY <1>1, <1>5, <1>7, ReleaseEffect, PublishingRequest DEF IInv, LockingOps
<1>10. ASSUME NEW q \in Requests \ {r}
       PROVE  RequestInv(q)'
  <2>1. \A b \in Books : book_lock[b] = q => books'[b] = books[b]
    BY <1>2, <1>6, HeldBook
  <2>2. ~CreatesLoan(r)'
    BY <1>7 DEF CreatesLoan
  <2>3. TypeOK
    BY DEF IInv
  <2> QED
    BY <1>1, <1>2, <1>5, <1>7, <2>1, <2>2, <2>3, ReleaseEffect, OthersUndisturbed
<1> QED
  BY <1>8, <1>9, <1>10 DEF IInv

(* The frame for a commit that changes the row of the loan it holds, and    *)
(* perhaps the book it holds.                                               *)
LEMMA LoanCommit ==
  ASSUME IInv, NEW r \in Requests, HoldsLoan(r), NEW row \in Loan,
         loans' = [loans EXCEPT ![req[r].loan] = row],
         books' \in [Books -> Book],
         books' = books \/ (HoldsBook(r) /\ \A b \in Books : b # req[r].book => books'[b] = books[b]),
         EndTransaction(r),
         UNCHANGED <<users, reservations, notifications, now>>,
         Finish(r) \/ Goto(r, "publish")
  PROVE  IInv'
<1> DEFINE l == req[r].loan
<1>1. l \in DOMAIN loans /\ loan_lock[l] = r
  BY HeldLoan
<1>2. /\ DOMAIN loans' = DOMAIN loans
      /\ \A i \in DOMAIN loans : i # l => loans'[i] = loans[i]
      /\ loans' \in [DOMAIN loans' -> Loan]
  BY <1>1 DEF IInv, TypeOK
<1>3. /\ req' \in [Requests -> Request] /\ \A q \in Requests \ {r} : req'[q] = req[q]
      /\ \/ req'[r] = Idle
         \/ req'[r].op = req[r].op /\ req'[r].pc = "publish" /\ req'[r].loan = l
  BY FinishEffect, GotoEffect DEF IInv, TypeOK
<1>4. TypeOK'
  BY <1>2, <1>3, ReleaseEffect DEF IInv, TypeOK
<1>5. RequestInv(r)'
  <2>1. CASE req'[r] = Idle
    BY <2>1, ReleaseEffect, IdleRequest DEF IInv
  <2>2. CASE req'[r].op = req[r].op /\ req'[r].pc = "publish" /\ req'[r].loan = l
    BY <1>1, <1>2, <2>2, ReleaseEffect, PublishingRequest DEF IInv, HoldsLoan, LockingOps
  <2> QED
    BY <1>3, <2>1, <2>2
<1>6. ASSUME NEW q \in Requests \ {r}
      PROVE  RequestInv(q)'
  <2>1. \A b \in Books : book_lock[b] = q => books'[b] = books[b]
    BY HeldBook
  <2>2. ~CreatesLoan(r)'
    BY <1>3 DEF CreatesLoan, Idle
  <2>3. TypeOK
    BY DEF IInv
  <2> QED
    BY <1>1, <1>2, <1>3, <2>1, <2>2, <2>3, ReleaseEffect, OthersUndisturbed
<1> QED
  BY <1>4, <1>5, <1>6 DEF IInv

(* A returned loan keeps its dates and records the fine of its return. *)
LEMMA CommitReturnLoanInv ==
  ASSUME IInv, NEW r \in Requests, CommitReturnLoan(r)
  PROVE  IInv'
<1> DEFINE l == req[r].loan
           fine == CalculateAmount(req[r].loan_row.due_date, req[r].at)
           row == [loans[l] EXCEPT !.status = "RETURNED", !.returned_at = req[r].at,
                                   !.fine_amount = fine]
<1>1. /\ req[r].op = "return_loan" /\ req[r].pc = "commit"
      /\ loans' = [loans EXCEPT ![l].status = "RETURNED", ![l].returned_at = req[r].at,
                                ![l].fine_amount = fine]
      /\ WriteAvailableCopies(r, 1) /\ EndTransaction(r) /\ Goto(r, "publish")
      /\ UNCHANGED <<users, reservations, notifications, now>>
  BY DEF CommitReturnLoan, At
<1>2. HoldsBook(r) /\ HoldsLoan(r)
  BY <1>1 DEF HoldsBook, HoldsLoan, LockingOps
<1>3. l \in DOMAIN loans /\ loans[l] \in Loan /\ req[r].loan_row = loans[l] /\ req[r].at \in Nat
  BY <1>2, HeldLoan
<1>4. fine \in Nat
  BY <1>3, FineType DEF Loan
<1> HIDE DEF fine
<1>5. row \in Loan
  BY <1>3, <1>4 DEF Loan, LoanStatus
<1>6. loans' = [loans EXCEPT ![l] = row]
  BY <1>1, <1>3 DEF IInv, TypeOK
<1>7. /\ books' \in [Books -> Book]
      /\ \A b \in Books : b # req[r].book => books'[b] = books[b]
  <2>1. 1 \in Int
    OBVIOUS
  <2> QED
    BY <1>1, <1>2, <2>1, BookWritten
<1> HIDE DEF row
<1> QED
  BY <1>1, <1>2, <1>5, <1>6, <1>7, LoanCommit

(* A cancelled loan costs nothing. *)
LEMMA CommitCancelLoanInv ==
  ASSUME IInv, NEW r \in Requests, CommitCancelLoan(r)
  PROVE  IInv'
<1> DEFINE l == req[r].loan
           row == [loans[l] EXCEPT !.status = "CANCELLED", !.fine_amount = 0]
<1>1. /\ req[r].op = "cancel_loan" /\ req[r].pc = "commit"
      /\ loans' = [loans EXCEPT ![l].status = "CANCELLED", ![l].fine_amount = 0]
      /\ WriteAvailableCopies(r, 1) /\ EndTransaction(r) /\ Goto(r, "publish")
      /\ UNCHANGED <<users, reservations, notifications, now>>
  BY DEF CommitCancelLoan, At
<1>2. HoldsBook(r) /\ HoldsLoan(r)
  BY <1>1 DEF HoldsBook, HoldsLoan, LockingOps
<1>3. l \in DOMAIN loans /\ loans[l] \in Loan
  BY <1>2, HeldLoan
<1>5. row \in Loan
  BY <1>3 DEF Loan, LoanStatus
<1>6. loans' = [loans EXCEPT ![l] = row]
  BY <1>1, <1>3 DEF IInv, TypeOK
<1>7. /\ books' \in [Books -> Book]
      /\ \A b \in Books : b # req[r].book => books'[b] = books[b]
  <2>1. 1 \in Int
    OBVIOUS
  <2> QED
    BY <1>1, <1>2, <2>1, BookWritten
<1> HIDE DEF row
<1> QED
  BY <1>1, <1>2, <1>5, <1>6, <1>7, LoanCommit

(* A payment settles the fine of its day. *)
LEMMA CommitPayFineInv ==
  ASSUME IInv, NEW r \in Requests, CommitPayFine(r)
  PROVE  IInv'
<1> DEFINE l == req[r].loan
           fine == CalculateAmount(req[r].loan_row.due_date, req[r].at)
           row == [loans[l] EXCEPT !.fine_amount = fine, !.fine_paid_amount = fine]
<1>1. /\ req[r].op = "pay_fine" /\ req[r].pc = "commit"
      /\ loans' = [loans EXCEPT ![l].fine_amount = fine, ![l].fine_paid_amount = fine]
      /\ EndTransaction(r) /\ Finish(r)
      /\ UNCHANGED <<users, books, reservations, notifications, now>>
  BY DEF CommitPayFine, At
<1>2. HoldsLoan(r)
  BY <1>1 DEF HoldsLoan, LockingOps
<1>3. l \in DOMAIN loans /\ loans[l] \in Loan /\ req[r].loan_row = loans[l] /\ req[r].at \in Nat
  BY <1>2, HeldLoan
<1>4. fine \in Nat
  BY <1>3, FineType DEF Loan
<1> HIDE DEF fine
<1>5. row \in Loan
  BY <1>3, <1>4 DEF Loan
<1>6. loans' = [loans EXCEPT ![l] = row]
  BY <1>1, <1>3 DEF IInv, TypeOK
<1>7. books' \in [Books -> Book]
  BY <1>1 DEF IInv, TypeOK
<1> HIDE DEF row
<1> QED
  BY <1>1, <1>2, <1>5, <1>6, <1>7, LoanCommit

(* A renewal moves the due date and is counted. *)
LEMMA CommitRenewLoanInv ==
  ASSUME IInv, NEW r \in Requests, CommitRenewLoan(r)
  PROVE  IInv'
<1> DEFINE l == req[r].loan
           due == req[r].loan_row.due_date + Days(RENEWAL_DAYS)
           count == req[r].loan_row.renewal_count + 1
           row == [loans[l] EXCEPT !.due_date = due, !.renewal_count = count]
<1>1. /\ req[r].op = "renew_loan" /\ req[r].pc = "commit"
      /\ loans' = [loans EXCEPT ![l].due_date = due, ![l].renewal_count = count]
      /\ EndTransaction(r) /\ Finish(r)
      /\ UNCHANGED <<users, books, reservations, notifications, now>>
  BY DEF CommitRenewLoan, At
<1>2. HoldsLoan(r)
  BY <1>1 DEF HoldsLoan, LockingOps
<1>3. l \in DOMAIN loans /\ loans[l] \in Loan /\ req[r].loan_row = loans[l]
  BY <1>2, HeldLoan
<1>4. due \in Nat /\ count \in Nat
  BY <1>3, DaysType, DatabaseAssumption DEF Loan
<1> HIDE DEF due, count
<1>5. row \in Loan
  BY <1>3, <1>4 DEF Loan
<1>6. loans' = [loans EXCEPT ![l] = row]
  BY <1>1, <1>3 DEF IInv, TypeOK
<1>7. books' \in [Books -> Book]
  BY <1>1 DEF IInv, TypeOK
<1> HIDE DEF row
<1> QED
  BY <1>1, <1>2, <1>5, <1>6, <1>7, LoanCommit

(* The frame for a step of a request that holds no row lock, ends or goes   *)
(* on to publish, and writes only rows nobody holds.                        *)
LEMMA UnlockedCommit ==
  ASSUME IInv, NEW r \in Requests, ~HoldsLoan(r), ~HoldsBook(r),
         UNCHANGED <<users, locks, notifications, now>>,
         DOMAIN loans' = DOMAIN loans, loans' \in [DOMAIN loans' -> Loan],
         \A l \in DOMAIN loans : loans'[l] = loans[l] \/ loan_lock[l] = None,
         books' \in [Books -> Book],
         \A b \in Books : books'[b] = books[b] \/ book_lock[b] = None,
         DOMAIN reservations \subseteq DOMAIN reservations',
         DOMAIN reservations' \subseteq ReservationIds,
         reservations' \in [DOMAIN reservations' -> Reservation],
         \/ Finish(r)
         \/ /\ Goto(r, "publish")
            /\ req[r].op \in {"create_reservation", "cancel_reservation"}
            /\ req[r].reservation \in ReservationIds
  PROVE  IInv'
<1>1. /\ req' \in [Requests -> Request] /\ \A q \in Requests \ {r} : req'[q] = req[q]
      /\ \/ req'[r] = Idle
         \/ /\ req'[r].op = req[r].op /\ req'[r].pc = "publish"
            /\ req'[r].op \in {"create_reservation", "cancel_reservation"}
            /\ req'[r].reservation \in ReservationIds
  BY FinishEffect, GotoEffect DEF IInv, TypeOK
<1>2. loan_lock' = loan_lock /\ book_lock' = book_lock
  BY DEF locks
<1>3. /\ \A l \in LoanIds : loan_lock[l] # r
      /\ \A b \in Books : book_lock[b] # r
  BY DEF IInv, RequestInv, LocksMatch
<1>4. TypeOK'
  BY <1>1, <1>2 DEF IInv, TypeOK
<1>5. RequestInv(r)'
  <2>1. CASE req'[r] = Idle
    BY <1>2, <1>3, <2>1, IdleRequest
  <2>2. CASE /\ req'[r].pc = "publish"
             /\ req'[r].op \in {"create_reservation", "cancel_reservation"}
             /\ req'[r].reservation \in ReservationIds
    BY <1>2, <1>3, <2>2, PublishingRequest DEF LockingOps
  <2> QED
    BY <1>1, <2>1, <2>2
<1>6. ASSUME NEW q \in Requests \ {r}
      PROVE  RequestInv(q)'
  <2>1. /\ \A l \in DOMAIN loans : loan_lock[l] = q => loans'[l] = loans[l]
        /\ \A b \in Books : book_lock[b] = q => books'[b] = books[b]
    BY DatabaseAssumption
  <2>2. ~CreatesLoan(r)'
    BY <1>1 DEF CreatesLoan, Idle
  <2> QED
    BY <1>1, <1>2, <2>1, <2>2, OthersUndisturbed
<1> QED
  BY <1>4, <1>5, <1>6 DEF IInv

(* update_loan sets a due date, waiting for the row's lock. *)
LEMMA CommitUpdateLoanInv ==
  ASSUME IInv, NEW r \in Requests, CommitUpdateLoan(r)
  PROVE  IInv'
<1> DEFINE l == req[r].loan
           row == [loans[l] EXCEPT !.due_date = req[r].arg]
<1>1. /\ req[r].op = "update_loan" /\ req[r].pc = "commit" /\ Finish(r)
      /\ UNCHANGED <<users, books, reservations, locks, notifications, now>>
      /\ \/ loans' = loans
         \/ /\ loan_lock[l] \in {None, r}
            /\ loans' = [loans EXCEPT ![l].due_date = req[r].arg]
  BY DEF CommitUpdateLoan, At, Free
<1>2. ~HoldsLoan(r) /\ ~HoldsBook(r) /\ loan_lock[l] # r
  <2>1. ~HoldsLoan(r) /\ ~HoldsBook(r)
    BY <1>1 DEF HoldsLoan, HoldsBook, LockingOps
  <2>2. l \in LoanIds
    BY <1>1 DEF IInv, RequestInv, LoanIsStored, TypeOK
  <2> QED
    BY <2>1, <2>2 DEF IInv, RequestInv, LocksMatch
<1>3. l \in DOMAIN loans /\ loans[l] \in Loan /\ req[r].arg \in Nat
  BY <1>1, DatabaseAssumption DEF IInv, RequestInv, LoanIsStored, TypeOK
<1>4. row \in Loan
  BY <1>3 DEF Loan
<1>5. loans' = loans \/ (loan_lock[l] = None /\ loans' = [loans EXCEPT ![l] = row])
  BY <1>1, <1>2, <1>3 DEF IInv, TypeOK
<1> HIDE DEF row
<1>6. /\ DOMAIN loans' = DOMAIN loans /\ loans' \in [DOMAIN loans' -> Loan]
      /\ \A i \in DOMAIN loans : loans'[i] = loans[i] \/ loan_lock[i] = None
  BY <1>3, <1>4, <1>5 DEF IInv, TypeOK
<1> QED
  BY <1>1, <1>2, <1>6, UnlockedCommit DEF IInv, TypeOK

(* update_book writes both columns, waiting for the row's lock. *)
LEMMA CommitUpdateBookInv ==
  ASSUME IInv, NEW r \in Requests, CommitUpdateBook(r)
  PROVE  IInv'
<1> DEFINE b == req[r].book
           total == req[r].arg
           available == req[r].book_row.available_copies + (total - req[r].book_row.total_copies)
           row == [books[b] EXCEPT !.total_copies = total, !.available_copies = available]
<1>1. /\ req[r].op = "update_book" /\ req[r].pc = "commit" /\ Finish(r)
      /\ UNCHANGED <<users, loans, reservations, locks, notifications, now>>
      /\ \/ books' = books
         \/ /\ book_lock[b] \in {None, r}
            /\ books' = [books EXCEPT ![b].total_copies = total, ![b].available_copies = available]
  BY DEF CommitUpdateBook, At, Free
<1>2. b \in Books /\ books[b] \in Book /\ req[r].book_row \in Book /\ total \in Int
  BY <1>1, DatabaseAssumption DEF IInv, RequestInv, BookIsCurrent, TypeOK
<1>3. ~HoldsLoan(r) /\ ~HoldsBook(r) /\ book_lock[b] # r
  <2>1. ~HoldsLoan(r) /\ ~HoldsBook(r)
    BY <1>1 DEF HoldsLoan, HoldsBook, LockingOps
  <2> QED
    BY <1>2, <2>1 DEF IInv, RequestInv, LocksMatch
<1>4. available \in Int
  BY <1>2 DEF Book
<1> HIDE DEF total, available
<1>5. row \in Book
  BY <1>2, <1>4 DEF Book
<1>6. books' = books \/ (book_lock[b] = None /\ books' = [books EXCEPT ![b] = row])
  BY <1>1, <1>2, <1>3 DEF IInv, TypeOK
<1> HIDE DEF row
<1>7. /\ books' \in [Books -> Book]
      /\ \A i \in Books : books'[i] = books[i] \/ book_lock[i] = None
  BY <1>2, <1>5, <1>6 DEF IInv, TypeOK
<1> QED
  BY <1>1, <1>3, <1>7, UnlockedCommit DEF IInv, TypeOK

(* A reservation is inserted. *)
LEMMA CommitCreateReservationInv ==
  ASSUME IInv, NEW r \in Requests, CommitCreateReservation(r)
  PROVE  IInv'
<1> DEFINE v == req[r].reservation
           row == [user |-> req[r].user, book |-> req[r].book, status |-> "ACTIVE"]
<1>1. /\ req[r].op = "create_reservation" /\ req[r].pc = "commit" /\ Goto(r, "publish")
      /\ UNCHANGED <<users, books, loans, locks, notifications, now>>
      /\ reservations' = Insert(reservations, v, row)
  BY DEF CommitCreateReservation, At
<1>2. req[r].user \in Users /\ req[r].book \in Books /\ v \in ReservationIds
  BY <1>1 DEF IInv, RequestInv, ReservationIsKnown
<1>3. row \in Reservation
  BY <1>2 DEF Reservation
<1> HIDE DEF row
<1>4. /\ DOMAIN reservations' = DOMAIN reservations \cup {v}
      /\ reservations' \in [DOMAIN reservations' -> Reservation]
  BY <1>1, <1>3 DEF Insert, IInv, TypeOK
<1>5. ~HoldsLoan(r) /\ ~HoldsBook(r)
  BY <1>1 DEF HoldsLoan, HoldsBook, LockingOps
<1> QED
  BY <1>1, <1>2, <1>4, <1>5, UnlockedCommit DEF IInv, TypeOK

(* A reservation is cancelled. *)
LEMMA CommitCancelReservationInv ==
  ASSUME IInv, NEW r \in Requests, CommitCancelReservation(r)
  PROVE  IInv'
<1> DEFINE v == req[r].reservation
<1>1. /\ req[r].op = "cancel_reservation" /\ req[r].pc = "commit" /\ Goto(r, "publish")
      /\ UNCHANGED <<users, books, loans, locks, notifications, now>>
      /\ reservations' = [reservations EXCEPT ![v].status = "CANCELLED"]
  BY DEF CommitCancelReservation, At
<1>2. v \in DOMAIN reservations /\ v \in ReservationIds
  BY <1>1 DEF IInv, RequestInv, ReservationIsKnown, TypeOK
<1>3. [reservations[v] EXCEPT !.status = "CANCELLED"] \in Reservation
  BY <1>2 DEF Reservation, IInv, TypeOK
<1>4. /\ DOMAIN reservations' = DOMAIN reservations
      /\ reservations' \in [DOMAIN reservations' -> Reservation]
  BY <1>1, <1>2, <1>3 DEF IInv, TypeOK
<1>5. ~HoldsLoan(r) /\ ~HoldsBook(r)
  BY <1>1 DEF HoldsLoan, HoldsBook, LockingOps
<1> QED
  BY <1>1, <1>2, <1>4, <1>5, UnlockedCommit DEF IInv, TypeOK

(* The notification is inserted after the commit, in no transaction that    *)
(* holds a lock.                                                            *)
LEMMA NotifyType ==
  ASSUME TypeOK, NEW type \in NotificationType, NEW id \in LoanIds \cup ReservationIds,
         Notify(type, id)
  PROVE  notifications' \in [NotificationType \X (LoanIds \cup ReservationIds) -> Nat]
BY DEF Notify, TypeOK

LEMMA PublishLoanEventInv ==
  ASSUME IInv, NEW r \in Requests, PublishLoanEvent(r)
  PROVE  IInv'
<1>1. /\ req[r].op \in {"create_loan", "return_loan", "cancel_loan"} /\ req[r].pc = "publish"
      /\ Notify(EventType[req[r].op], req[r].loan) /\ Finish(r) /\ UNCHANGED <<tables, locks, now>>
  BY DEF PublishLoanEvent
<1>2. req[r].loan \in LoanIds /\ TypeOK
  BY <1>1 DEF IInv, RequestInv, LoanIsStored, TypeOK
<1>3. EventType[req[r].op] \in NotificationType
  BY <1>1 DEF EventType, NotificationType
<1>4. notifications' \in [NotificationType \X (LoanIds \cup ReservationIds) -> Nat]
  BY <1>1, <1>2, <1>3, NotifyType
<1>5. ~HoldsLoan(r) /\ ~HoldsBook(r)
  BY <1>1 DEF HoldsLoan, HoldsBook
<1> QED
  BY <1>1, <1>4, <1>5, FinishInv

LEMMA PublishReservationEventInv ==
  ASSUME IInv, NEW r \in Requests, PublishReservationEvent(r)
  PROVE  IInv'
<1>1. /\ req[r].op \in {"create_reservation", "cancel_reservation"} /\ req[r].pc = "publish"
      /\ Notify(EventType[req[r].op], req[r].reservation) /\ Finish(r)
      /\ UNCHANGED <<tables, locks, now>>
  BY DEF PublishReservationEvent
<1>2. req[r].reservation \in ReservationIds /\ TypeOK
  BY <1>1 DEF IInv, RequestInv, ReservationIsKnown
<1>3. EventType[req[r].op] \in NotificationType
  BY <1>1 DEF EventType, NotificationType
<1>4. notifications' \in [NotificationType \X (LoanIds \cup ReservationIds) -> Nat]
  BY <1>1, <1>2, <1>3, NotifyType
<1>5. ~HoldsLoan(r) /\ ~HoldsBook(r)
  BY <1>1 DEF HoldsLoan, HoldsBook
<1> QED
  BY <1>1, <1>4, <1>5, FinishInv

-----------------------------------------------------------------------------
(* Steps of no request. *)

(* Deletions and the passing of time touch no request.                      *)
LEMMA EnvironmentInv ==
  ASSUME IInv, UNCHANGED <<loans, reservations, locks, req, notifications>>,
         users' \in [Users -> BOOLEAN], books' \in [Books -> Book], now' \in now .. MaxNow,
         \A b \in Books : books'[b] = books[b] \/ book_lock[b] = None
  PROVE  IInv'
<1>1. loan_lock' = loan_lock /\ book_lock' = book_lock
  BY DEF locks
<1>2. TypeOK'
  BY <1>1 DEF IInv, TypeOK
<1>3. ASSUME NEW r \in Requests
      PROVE  RequestInv(r)'
  <2>1. RequestInv(r)
    BY DEF IInv
  <2>2. LocksMatch(r)' /\ LoanIsNew(r)' /\ LoanIsStored(r)'
    BY <1>1, <2>1 DEF RequestInv, LocksMatch, LoanIsNew, LoanIsStored,
                      HoldsLoan, HoldsBook, CreatesLoan
  <2>3. 0 .. now \subseteq 0 .. now'
    BY DatabaseAssumption DEF IInv, TypeOK
  <2>4. LoanIsCurrent(r)'
    BY <2>1, <2>3 DEF RequestInv, LoanIsCurrent, HoldsLoan
  <2>5. HoldsBook(r) => books'[req[r].book] = books[req[r].book]
    BY HeldBook, DatabaseAssumption
  <2>6. BookIsCurrent(r)'
    BY <2>1, <2>5 DEF RequestInv, BookIsCurrent, HoldsBook
  <2>7. ReservationIsKnown(r)'
    BY <2>1 DEF RequestInv, ReservationIsKnown
  <2> QED
    BY <2>2, <2>6, <2>7, <2>4 DEF RequestInv
<1> QED
  BY <1>2, <1>3 DEF IInv

LEMMA DeleteBookInv ==
  ASSUME IInv, NEW b \in Books, DeleteBook(b)
  PROVE  IInv'
<1>1. /\ books' = [books EXCEPT ![b].is_active = FALSE] /\ book_lock[b] = None
      /\ UNCHANGED <<users, loans, reservations, locks, req, notifications, now>>
  BY DEF DeleteBook
<1>2. [books[b] EXCEPT !.is_active = FALSE] \in Book
  BY DEF Book, IInv, TypeOK
<1>3. /\ books' \in [Books -> Book]
      /\ \A i \in Books : books'[i] = books[i] \/ book_lock[i] = None
  BY <1>1, <1>2 DEF IInv, TypeOK
<1> QED
  BY <1>1, <1>3, EnvironmentInv DEF IInv, TypeOK

LEMMA DeleteUserInv ==
  ASSUME IInv, NEW u \in Users, DeleteUser(u)
  PROVE  IInv'
<1>1. /\ users' = [users EXCEPT ![u] = FALSE]
      /\ UNCHANGED <<books, loans, reservations, locks, req, notifications, now>>
  BY DEF DeleteUser
<1> QED
  BY <1>1, EnvironmentInv DEF IInv, TypeOK

LEMMA TickInv ==
  ASSUME IInv, Tick
  PROVE  IInv'
<1>1. now' = now + 1 /\ UNCHANGED <<tables, locks, req, notifications>>
  BY DEF Tick
<1>2. now' \in now .. MaxNow
  BY <1>1, DatabaseAssumption DEF Tick, IInv, TypeOK
<1> QED
  BY <1>1, <1>2, EnvironmentInv DEF IInv, TypeOK, tables

-----------------------------------------------------------------------------
(* The invariant. *)

LEMMA InitInv == Init => IInv
<1> SUFFICES ASSUME Init PROVE IInv
  OBVIOUS
<1> USE DEF Init, DatabaseInit
<1>1. req \in [Requests -> Request]
  BY DEF Idle, Request
<1>2. books \in [Books -> Book]
  <2>1. PICK total \in [Books -> Copies] :
          books = [b \in Books |-> [total_copies |-> total[b], available_copies |-> total[b],
                                    is_active |-> TRUE]]
    OBVIOUS
  <2>2. \A b \in Books : total[b] \in Int
    BY DatabaseAssumption
  <2> QED
    BY <2>1, <2>2 DEF Book
<1>3. loans = [l \in {} |-> None] /\ reservations = [v \in {} |-> None]
  OBVIOUS
<1>4. DOMAIN loans \subseteq LoanIds /\ loans \in [DOMAIN loans -> Loan]
  BY <1>3
<1>5. /\ DOMAIN reservations \subseteq ReservationIds
      /\ reservations \in [DOMAIN reservations -> Reservation]
  BY <1>3
<1>6. TypeOK
  BY <1>1, <1>2, <1>4, <1>5, DatabaseAssumption DEF TypeOK
<1>7. ASSUME NEW r \in Requests
      PROVE  RequestInv(r)
  <2>1. req[r].op = None /\ req[r].pc = "idle"
    BY DEF Idle
  <2>2. ~HoldsLoan(r) /\ ~HoldsBook(r) /\ ~CreatesLoan(r)
    BY <2>1 DEF HoldsLoan, HoldsBook, CreatesLoan
  <2>3. LocksMatch(r)
    BY <2>2, DatabaseAssumption DEF LocksMatch
  <2> QED
    BY <2>1, <2>2, <2>3 DEF RequestInv, LoanIsNew, LoanIsStored, LoanIsCurrent,
                            BookIsCurrent, ReservationIsKnown
<1> QED
  BY <1>6, <1>7 DEF IInv

LEMMA NextInv == IInv /\ [Next]_vars => IInv'
<1> SUFFICES ASSUME IInv, [Next]_vars PROVE IInv'
  OBVIOUS
<1>1. ASSUME NEW r \in Requests, LoanServiceStart(r) PROVE IInv'
  BY <1>1, CreateLoanInv, ReceiveLoanRequestInv, UpdateLoanInv DEF LoanServiceStart
<1>2. ASSUME NEW r \in Requests, ReservationServiceStart(r) PROVE IInv'
  BY <1>2, CreateReservationInv, CancelReservationInv DEF ReservationServiceStart
<1>3. ASSUME NEW r \in Requests, Start(r) PROVE IInv'
  BY <1>1, <1>2, <1>3, UpdateBookInv DEF Start
<1>4. ASSUME NEW r \in Requests, LoanServiceStep(r) PROVE IInv'
  BY <1>4, CountActiveByUserInv, CreateLoanLocksBookInv, CommitCreateLoanInv,
     ReturnLoanInv, CancelLoanInv, PayFineInv, RenewLoanInv, ClosingLoanLocksBookInv,
     CommitReturnLoanInv, CommitCancelLoanInv, CommitPayFineInv,
     RenewalChecksReservationsInv, CommitRenewLoanInv, CommitUpdateLoanInv,
     PublishLoanEventInv DEF LoanServiceStep
<1>5. ASSUME NEW r \in Requests, ReservationServiceStep(r) PROVE IInv'
  BY <1>5, FindExistingReservationInv, CommitCreateReservationInv,
     CommitCancelReservationInv, PublishReservationEventInv DEF ReservationServiceStep
<1>6. ASSUME NEW r \in Requests, RequestFails(r) PROVE IInv'
  BY <1>6, RollbackInv DEF RequestFails
<1>7. CASE UNCHANGED vars
  <2>1. UNCHANGED <<loans, reservations, locks, req, notifications>>
    BY <1>7 DEF vars, tables
  <2>2. users' = users /\ books' = books /\ now' = now
    BY <1>7 DEF vars, tables
  <2> QED
    BY <2>1, <2>2, EnvironmentInv DEF IInv, TypeOK
<1> QED
  BY <1>3, <1>4, <1>5, <1>6, <1>7, CommitUpdateBookInv, DeleteBookInv, DeleteUserInv, TickInv
     DEF Next, Step

(* IInv holds of every reachable state, for any numbers of users, books,    *)
(* loans and concurrent requests.                                           *)
THEOREM Invariance == Spec => []IInv
BY InitInv, NextInv, PTL DEF Spec

(* The tables hold rows of their types and every request is at a step of    *)
(* its handler, however the handlers interleave.                            *)
THEOREM TypeCorrect == Spec => []TypeOK
<1>1. IInv => TypeOK
  BY DEF IInv
<1> QED
  BY <1>1, Invariance, PTL

-----------------------------------------------------------------------------
(* Deadlock. *)

(* Locks are taken in one order, the loan before the book: who holds the    *)
(* lock of a book waits for nobody, and who is waited for because of a loan *)
(* waits, if at all, for the holder of a book.                              *)
LEMMA LockOrder ==
  ASSUME IInv, NEW r \in Requests, NEW q \in Requests, WaitsFor(r, q)
  PROVE  /\ ~HoldsBook(r)
         /\ HoldsLoan(r) => HoldsBook(q)
         /\ HoldsLoan(q) \/ HoldsBook(q)
<1>1. RequestInv(r) /\ RequestInv(q) /\ req[r] \in Request
  BY DEF IInv, TypeOK
<1>2. CASE /\ req[r].pc \in {"lock_loan", "publish"} /\ req[r].loan # None
           /\ loan_lock[req[r].loan] = q
  <2>1. ~HoldsBook(r) /\ ~HoldsLoan(r)
    BY <1>2 DEF HoldsBook, HoldsLoan
  <2>2. req[r].loan \in LoanIds
    BY <1>1, <1>2 DEF Request
  <2>3. HoldsLoan(q)
    BY <1>1, <1>2, <2>2 DEF RequestInv, LocksMatch
  <2> QED
    BY <2>1, <2>3
<1>3. CASE req[r].pc = "lock_book" /\ req[r].book # None /\ book_lock[req[r].book] = q
  <2>1. ~HoldsBook(r)
    BY <1>3 DEF HoldsBook
  <2>2. req[r].book \in Books
    BY <1>1, <1>3 DEF Request
  <2>3. HoldsBook(q)
    BY <1>1, <1>3, <2>2 DEF RequestInv, LocksMatch
  <2> QED
    BY <2>1, <2>3
<1>4. CASE At(r, "update_loan", "commit") /\ loan_lock[req[r].loan] = q
  <2>1. ~HoldsBook(r) /\ ~HoldsLoan(r)
    BY <1>4 DEF At, HoldsBook, HoldsLoan, LockingOps
  <2>2. req[r].loan \in LoanIds
    BY <1>1, <1>4 DEF At, RequestInv, LoanIsStored, IInv, TypeOK
  <2>3. HoldsLoan(q)
    BY <1>1, <1>4, <2>2 DEF RequestInv, LocksMatch
  <2> QED
    BY <2>1, <2>3
<1>5. CASE /\ req[r].op \in {"update_book", "create_reservation"} /\ req[r].pc = "commit"
           /\ book_lock[req[r].book] = q
  <2>1. ~HoldsBook(r) /\ ~HoldsLoan(r)
    BY <1>5 DEF HoldsBook, HoldsLoan, LockingOps
  <2>2. req[r].book \in Books
    BY <1>1, <1>5 DEF RequestInv, BookIsCurrent, ReservationIsKnown
  <2>3. HoldsBook(q)
    BY <1>1, <1>5, <2>2 DEF RequestInv, LocksMatch
  <2> QED
    BY <2>1, <2>3
<1> QED
  BY <1>2, <1>3, <1>4, <1>5 DEF WaitsFor

(* Handlers never wait for each other in a circle, however many there are   *)
(* and whatever rows they want.                                             *)
THEOREM DeadlockFree == Spec => []NoWaitCycle
<1>1. ASSUME IInv PROVE NoWaitCycle
  <2> SUFFICES ASSUME NEW group \in (SUBSET Requests) \ {{}}
               PROVE  \E r \in group : \A q \in group : ~WaitsFor(r, q)
    BY DEF NoWaitCycle
  <2>1. \A r, q \in group : WaitsFor(r, q) =>
          /\ ~HoldsBook(r)
          /\ HoldsLoan(r) => HoldsBook(q)
          /\ HoldsLoan(q) \/ HoldsBook(q)
    BY <1>1, LockOrder
  <2>2. CASE \E r \in group : HoldsBook(r)
    BY <2>1, <2>2
  <2>3. CASE (\E r \in group : HoldsLoan(r)) /\ \A r \in group : ~HoldsBook(r)
    BY <2>1, <2>3
  <2>4. CASE \A r \in group : ~HoldsLoan(r) /\ ~HoldsBook(r)
    <3>1. PICK r \in group : TRUE
      OBVIOUS
    <3> QED
      BY <2>1, <2>4, <3>1
  <2> QED
    BY <2>2, <2>3, <2>4
<1> QED
  BY <1>1, Invariance, PTL

====
