------------------------------- MODULE Library -------------------------------
(* The running application: requests to the loan, book and reservation      *)
(* services in every interleaving over one database, failing anywhere, as   *)
(* time passes.                                                             *)
EXTENDS LoanService, BookService, ReservationService

Init == DatabaseInit

(* The next step of the handler that serves r. *)
Step(r) == LoanServiceStep(r) \/ CommitUpdateBook(r) \/ ReservationServiceStep(r)

Start(r) ==
  \/ LoanServiceStart(r)
  \/ \E b \in Books, n \in Copies : UpdateBook(r, b, n)
  \/ ReservationServiceStart(r)

(* An exception, a lost database or Redis connection, or the death of the   *)
(* process: before the commit everything is rolled back, after it the       *)
(* event is never published.                                                *)
RequestFails(r) ==
  /\ "fail" \in Operations
  /\ req[r].pc # "idle"
  /\ Rollback(r)
  /\ UNCHANGED <<tables, notifications, now>>

Tick ==
  /\ now < MaxNow
  /\ now' = now + 1
  /\ UNCHANGED <<tables, locks, req, notifications>>

Next ==
  \/ \E r \in Requests : Start(r) \/ Step(r) \/ RequestFails(r)
  \/ \E b \in Books : DeleteBook(b)
  \/ \E u \in Users : DeleteUser(u)
  \/ Tick

Spec == Init /\ [][Next]_vars

(* The event loop runs every ready handler, and PostgreSQL grants a row     *)
(* lock in the order it was asked for, so a handler whose next step is      *)
(* enabled again and again is not passed over forever.                      *)
FairSpec == Spec /\ \A r \in Requests : SF_vars(Step(r))

-----------------------------------------------------------------------------
(* Types *)

(* Every table holds rows of its type and every request is at a step of its *)
(* handler, whatever its session has read.                                  *)
TypeOK ==
  /\ users \in [Users -> BOOLEAN]
  /\ books \in [Books -> Book]
  /\ DOMAIN loans \subseteq LoanIds /\ loans \in [DOMAIN loans -> Loan]
  /\ DOMAIN reservations \subseteq ReservationIds
  /\ reservations \in [DOMAIN reservations -> Reservation]
  /\ loan_lock \in [LoanIds -> Requests \cup {None}]
  /\ book_lock \in [Books -> Requests \cup {None}]
  /\ req \in [Requests -> Request]
  /\ notifications \in [NotificationType \X (LoanIds \cup ReservationIds) -> Nat]
  /\ now \in 0 .. MaxNow

-----------------------------------------------------------------------------
(* Safety *)

(* create_loan, return_loan and cancel_loan keep available_copies equal to  *)
(* total_copies less the active loans of the book, and lend no copy that is *)
(* not there, although each writes a value it computed from an earlier read *)
(* (update_book aside).  create_book accepts a negative total_copies.       *)
CopiesConserved ==
  \A b \in Books :
    /\ books[b].total_copies >= 0 => books[b].available_copies >= 0
    /\ books[b].total_copies - books[b].available_copies = Cardinality(OnLoan(b))

(* update_book writes what it computed from an unlocked read over what was  *)
(* lent meanwhile, so the copies do not add up then; but where total_copies *)
(* is not negative, it too leaves no less than nothing on the shelf, and    *)
(* nobody is lent a copy beyond that.                                       *)
NoCopyOverdrawn ==
  \A b \in Books : books[b].total_copies >= 0 => books[b].available_copies >= 0

(* The fine recorded on a returned loan is the one its lateness calls for,  *)
(* and it was paid before the copy was taken back, however the return       *)
(* interleaves with payments, renewals and other returns.                   *)
ReturnedLoansAreSettled ==
  \A l \in DOMAIN loans :
    loans[l].status = "RETURNED" =>
      /\ loans[l].fine_amount = CalculateAmount(loans[l].due_date, loans[l].returned_at)
      /\ loans[l].fine_amount <= loans[l].fine_paid_amount

(* update_loan can give a loan another due date at any time, after a        *)
(* payment and even after the return, so the recorded fine may be another   *)
(* than its dates call for; but what was recorded was paid.                 *)
RecordedFinesArePaid ==
  \A l \in DOMAIN loans :
    loans[l].status = "RETURNED" => loans[l].fine_amount <= loans[l].fine_paid_amount

(* No loan is renewed more than MAX_RENEWALS times, and each renewal it     *)
(* counts moved its due date: none is lost and none applied twice.          *)
RenewalsAccountedFor ==
  \A l \in DOMAIN loans :
    /\ loans[l].renewal_count <= MAX_RENEWALS
    /\ loans[l].due_date = loans[l].loan_date + Days(LOAN_DAYS)
                            + loans[l].renewal_count * Days(RENEWAL_DAYS)

(* A reader is told of each outcome at most once, and only when it is the   *)
(* outcome the committed loan has.                                          *)
LoanNotificationsTruthful ==
  \A l \in LoanIds :
    LET sent(type) == notifications[<<type, l>>]
        became(status) == l \in DOMAIN loans /\ loans[l].status = status
    IN
    /\ sent("LOAN_CREATED") <= 1
    /\ sent("LOAN_CREATED") = 1 => l \in DOMAIN loans
    /\ sent("LOAN_RETURNED") <= (IF became("RETURNED") THEN 1 ELSE 0)
    /\ sent("LOAN_CANCELLED") <= (IF became("CANCELLED") THEN 1 ELSE 0)

(* r waits for a row lock that q holds. *)
WaitsFor(r, q) ==
  /\ q # r
  /\ \/ req[r].pc \in {"lock_loan", "publish"} /\ req[r].loan # None
        /\ loan_lock[req[r].loan] = q
     \/ req[r].pc = "lock_book" /\ req[r].book # None
        /\ book_lock[req[r].book] = q
     \/ At(r, "update_loan", "commit") /\ loan_lock[req[r].loan] = q
     \/ req[r].op \in {"update_book", "create_reservation"} /\ req[r].pc = "commit"
        /\ book_lock[req[r].book] = q

(* Handlers that wait for row locks never wait for each other in a circle:  *)
(* in any group of requests one waits for nobody of the group.              *)
NoWaitCycle ==
  \A group \in (SUBSET Requests) \ {{}} :
    \E r \in group : \A q \in group : ~WaitsFor(r, q)

ReservationsOf(u, b) ==
  {v \in ActiveReservations : reservations[v].user = u /\ reservations[v].book = b}

(* The check for an existing reservation is read without a lock too: a user *)
(* ends up with no more active reservations of a book than requests that    *)
(* passed the check together.                                               *)
DuplicateReservationsBounded ==
  \A u \in Users, b \in Books :
    Cardinality(ReservationsOf(u, b)) <= Cardinality(Requests)

LoansOf(u) == {l \in ActiveLoans : loans[l].user = u}

(* The count of active loans is read without a lock, so concurrent requests *)
(* can pass it together; they can exceed the limit by no more than the      *)
(* requests that run beside the one within it.                              *)
OvershootBounded ==
  \A u \in Users :
    Cardinality(LoansOf(u)) <= MAX_ACTIVE_LOANS + Cardinality(Requests) - 1

(* cancel_reservation checks the status its controller has read: only the   *)
(* requests that found the reservation active together tell its reader that *)
(* it is cancelled, and nobody does again later.                            *)
CancellationsBounded ==
  \A v \in ReservationIds :
    notifications[<<"RESERVATION_CANCELLED", v>>] <=
      IF v \in DOMAIN reservations /\ reservations[v].status = "CANCELLED"
      THEN Cardinality(Requests) ELSE 0

-----------------------------------------------------------------------------
(* The inductive invariant: which request holds which row lock, and what    *)
(* the sessions of the requests in flight know.                             *)

HoldsLoan(r) ==
  req[r].op \in LockingOps /\ req[r].pc \in {"lock_book", "check_reservations", "commit"}

HoldsBook(r) ==
  req[r].op \in {"create_loan", "return_loan", "cancel_loan"} /\ req[r].pc = "commit"

(* r has locked the rows its step says, and no other.                       *)
LocksMatch(r) ==
  /\ \A l \in LoanIds : loan_lock[l] = r <=> HoldsLoan(r) /\ req[r].loan = l
  /\ \A b \in Books : book_lock[b] = r <=> HoldsBook(r) /\ req[r].book = b

CreatesLoan(r) ==
  req[r].op = "create_loan" /\ req[r].pc \in {"count_active", "lock_book", "commit"}

(* The loan create_loan will insert is new, and its alone. *)
LoanIsNew(r) ==
  CreatesLoan(r) =>
    /\ req[r].user \in Users /\ req[r].book \in Books
    /\ req[r].loan \in LoanIds \ DOMAIN loans
    /\ \A q \in Requests \ {r} : CreatesLoan(q) => req[q].loan # req[r].loan

(* A request on a loan names a stored row. *)
LoanIsStored(r) ==
  /\ req[r].op \in LockingOps \cup {"update_loan"} /\ req[r].pc # "idle"
       => req[r].loan \in DOMAIN loans
  /\ req[r].op \in {"create_loan", "return_loan", "cancel_loan"} /\ req[r].pc = "publish"
       => req[r].loan \in DOMAIN loans
  /\ req[r].op = "update_loan" /\ req[r].pc = "commit" => req[r].arg \in DueDates

(* While a request holds the lock of a loan, the instance it loaded is      *)
(* still the row, active, and has passed the checks of its handler.         *)
LoanIsCurrent(r) ==
  HoldsLoan(r) =>
    LET row == loans[req[r].loan] IN
    /\ req[r].loan_row = row /\ row.status = "ACTIVE"
    /\ req[r].book = row.book /\ req[r].at \in 0 .. now
    /\ req[r].op = "return_loan" =>
         CalculateAmount(row.due_date, req[r].at) <= row.fine_paid_amount
    /\ req[r].op = "pay_fine" =>
         CalculateAmount(row.due_date, req[r].at) > row.fine_paid_amount
    /\ req[r].op = "renew_loan" => row.renewal_count < MAX_RENEWALS

(* While a request holds the lock of a book, its instance is the row, and   *)
(* the book is not deleted.  An update of a book has compared the copies    *)
(* with those of its instance, whatever the row is meanwhile.               *)
BookIsCurrent(r) ==
  /\ HoldsBook(r) =>
       /\ req[r].book_row = books[req[r].book]
       /\ books[req[r].book].is_active
       /\ req[r].op = "create_loan" =>
            req[r].at \in Nat /\ req[r].book_row.available_copies > 0
  /\ req[r].op = "update_book" /\ req[r].pc = "commit" =>
       /\ req[r].book \in Books /\ req[r].book_row \in Book /\ req[r].arg \in Copies
       /\ req[r].arg >= req[r].book_row.total_copies - req[r].book_row.available_copies

ReservationIsKnown(r) ==
  /\ req[r].op = "create_reservation" /\ req[r].pc \in {"find_existing", "commit"} =>
       req[r].user \in Users /\ req[r].book \in Books /\ req[r].reservation \in ReservationIds
  /\ req[r].op \in {"create_reservation", "cancel_reservation"} /\ req[r].pc = "publish" =>
       req[r].reservation \in ReservationIds
  /\ req[r].op = "cancel_reservation" /\ req[r].pc = "commit" =>
       req[r].reservation \in DOMAIN reservations

(* All that holds of one request.                                           *)
RequestInv(r) ==
  /\ LocksMatch(r) /\ LoanIsNew(r) /\ LoanIsStored(r) /\ LoanIsCurrent(r)
  /\ BookIsCurrent(r) /\ ReservationIsKnown(r)

(* Whatever has interleaved, the rows have their types, locks are held by   *)
(* the requests whose step says so, and what a handler loaded under a lock  *)
(* is what is stored when it commits.                                       *)
IInv == TypeOK /\ \A r \in Requests : RequestInv(r)

-----------------------------------------------------------------------------
(* What else is inductive: how requests race to tell a reader, and past the *)
(* checks that take no lock.                                                *)

(* The states of a loan that op has brought about. *)
Outcomes == [create_loan |-> LoanStatus, return_loan |-> {"RETURNED"},
             cancel_loan |-> {"CANCELLED"}]

Outcome(op, l) == l \in DOMAIN loans /\ loans[l].status \in Outcomes[op]

(* The requests that have committed an outcome and are about to tell it.    *)
Telling(op, l) == {r \in Requests : At(r, op, "publish") /\ req[r].loan = l}

(* An outcome has been told, or will be, at most once, and not before.      *)
OutcomesInv ==
  \A op \in DOMAIN Outcomes, l \in LoanIds :
    notifications[<<EventType[op], l>>] + Cardinality(Telling(op, l)) <=
      IF Outcome(op, l) THEN 1 ELSE 0

(* The requests that have passed the count of active loans.                 *)
Lending(u) ==
  {r \in Requests : /\ req[r].op = "create_loan" /\ req[r].pc \in {"lock_book", "commit"}
                    /\ req[r].user = u}

CreatesReservation(r) ==
  req[r].op = "create_reservation" /\ req[r].pc \in {"find_existing", "commit"}

(* The reservation that is to be inserted is new, and the request's alone.  *)
ReservationIsNew(r) ==
  CreatesReservation(r) =>
    /\ req[r].reservation \notin DOMAIN reservations
    /\ \A q \in Requests \ {r} :
         CreatesReservation(q) => req[q].reservation # req[r].reservation

(* The requests that have found no reservation of the user and the book.    *)
Reserving(u, b) ==
  {r \in Requests : /\ At(r, "create_reservation", "commit")
                    /\ req[r].user = u /\ req[r].book = b}

(* The requests that have found the reservation active.                     *)
Cancelling(v) ==
  {r \in Requests : /\ req[r].op = "cancel_reservation" /\ req[r].pc \in {"commit", "publish"}
                    /\ req[r].reservation = v}

(* Once one of them has committed, nobody joins them.                       *)
CancellationsInv(v) ==
  LET told == notifications[<<"RESERVATION_CANCELLED", v>>] IN
  /\ told + Cardinality(Cancelling(v)) <= Cardinality(Requests)
  /\ told > 0 \/ (\E r \in Cancelling(v) : req[r].pc = "publish") =>
       v \in DOMAIN reservations /\ reservations[v].status = "CANCELLED"

(* What is stored and what has passed its check stay within the bounds: a   *)
(* request passes only while there is room, or nothing, stored.             *)
RacesInv ==
  /\ \A u \in Users :
       Cardinality(LoansOf(u)) + Cardinality(Lending(u))
         <= MAX_ACTIVE_LOANS + Cardinality(Requests) - 1
  /\ \A u \in Users, b \in Books :
       /\ IsFiniteSet(ReservationsOf(u, b))
       /\ Cardinality(ReservationsOf(u, b)) + Cardinality(Reserving(u, b)) <= Cardinality(Requests)
  /\ \A r \in Requests : ReservationIsNew(r)
  /\ \A v \in ReservationIds : CancellationsInv(v)

-----------------------------------------------------------------------------
(* Action properties *)

(* A loan that was returned or cancelled is history: no later commit        *)
(* reopens it, closes it again or changes its money or its dates.           *)
ClosedLoansAreFinal ==
  [][\A l \in DOMAIN loans :
       loans[l].status # "ACTIVE" => l \in DOMAIN loans' /\ loans'[l] = loans[l]]_vars

(* update_loan reads the status without a lock, so its commit may come      *)
(* after the loan was closed.  It then changes the due date and nothing     *)
(* else: not the outcome, the money or the copies.                          *)
ClosedLoansAreOnlyRedated ==
  [][\A l \in DOMAIN loans :
       loans[l].status # "ACTIVE" =>
         loans'[l] = [loans[l] EXCEPT !.due_date = loans'[l].due_date]]_vars

(* What was paid is never taken from the books: pay_fine writes the fine as *)
(* the amount paid, and with two payments on their way, or a later due date *)
(* set meanwhile, that could be less than was paid before.                  *)
PaymentsAreKept ==
  [][\A l \in DOMAIN loans :
       /\ l \in DOMAIN loans'
       /\ loans'[l].fine_paid_amount >= loans[l].fine_paid_amount]_vars

(* Deleting a book strands its loans: return_loan and cancel_loan do not    *)
(* find an inactive book, and a deletion waits for those that already have, *)
(* so from then on its active loans stay active.                            *)
LoansOfDeletedBooksStayOpen ==
  [][\A l \in ActiveLoans :
       ~books[loans[l].book].is_active => loans'[l].status = "ACTIVE"]_vars

-----------------------------------------------------------------------------
(* What the documents, messages and tests of the repository say, and the    *)
(* code does not do when requests overlap.                                  *)

(* README: a user has at most three active loans.  create_loan counts them  *)
(* before it takes any lock.                                                *)
LoanLimit ==
  \A u \in Users :
    Cardinality(LoansOf(u)) <= MAX_ACTIVE_LOANS

(* update_book's message: total_copies is not below the copies on loan.  It *)
(* compares and computes from an unlocked read.                             *)
TotalCoversLoans ==
  \A b \in Books : Cardinality(OnLoan(b)) <= books[b].total_copies

-----------------------------------------------------------------------------
(* The tables implement the ledger. *)

Stock == [b \in Books |-> books[b].total_copies]

Shelf == [b \in Books |-> books[b].available_copies]

Entry(row) ==
  [book |-> row.book, status |-> row.status, fine |-> row.fine_amount,
   paid |-> row.fine_paid_amount, renewals |-> row.renewal_count]

Entries == [l \in DOMAIN loans |-> Entry(loans[l])]

Ledger == INSTANCE LendingLedger WITH
  MaxRenewals <- MAX_RENEWALS,
  Money <- 0 .. DAILY_FINE_AMOUNT * MaxNow,
  stock <- Stock, shelf <- Shelf, ledger <- Entries

(* Whatever requests interleave or fail, the rows of books and loans change *)
(* as if each operation took place at one instant, its commit.              *)
ImplementsLedger == Ledger!Spec

-----------------------------------------------------------------------------
(* Liveness *)

(* Every request is answered: no handler waits for a lock forever. *)
EveryRequestEnds == \A r \in Requests : req[r].pc # "idle" ~> req[r].pc = "idle"
=============================================================================
