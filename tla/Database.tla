------------------------------ MODULE Database ------------------------------
(* The PostgreSQL tables the services share, their row locks, and the       *)
(* in-flight HTTP requests with what their sessions have read.              *)
(*                                                                          *)
(* Every await of a handler is a point where another request can run, so a  *)
(* handler is a sequence of steps: one per SELECT whose result it uses      *)
(* later, one per commit.  Transactions are READ COMMITTED: a plain SELECT  *)
(* sees the last committed rows and takes no lock, SELECT ... FOR UPDATE    *)
(* waits for the row's lock, evaluates its WHERE clause on the committed    *)
(* row and keeps the lock until the transaction ends, and an UPDATE of a    *)
(* row another transaction has locked waits too.                            *)
EXTENDS Integers, FiniteSets, FineCalculator

CONSTANTS
  Users, Books, LoanIds, ReservationIds,  \* primary keys
  Requests,                               \* slots for concurrent requests
  None,
  Operations,                             \* endpoints in use; "fail" for failures
  MAX_ACTIVE_LOANS, LOAN_DAYS, RENEWAL_DAYS, MAX_RENEWALS,
  Copies,                                 \* total_copies clients may set
  DueDates,                               \* due_date values clients may set
  MaxNow                                  \* bound on the clock

Endpoints == {"create_loan", "return_loan", "cancel_loan", "renew_loan", "pay_fine",
              "update_loan", "update_book", "delete_book", "delete_user",
              "create_reservation", "cancel_reservation"}

ASSUME DatabaseAssumption ==
  /\ IsFiniteSet(LoanIds) /\ IsFiniteSet(Requests)
  /\ LoanIds \cap ReservationIds = {}
  /\ Operations \subseteq Endpoints \cup {"fail"}
  /\ None \notin Requests \cup Endpoints
  /\ {MAX_ACTIVE_LOANS, LOAN_DAYS, RENEWAL_DAYS, MAX_RENEWALS, MaxNow} \subseteq Nat
  /\ Copies \subseteq Int /\ DueDates \subseteq Nat

VARIABLES
  users,          \* users.is_active
  books,          \* rows of books
  loans,          \* rows of loans, a function whose domain is the stored ids
  reservations,   \* rows of reservations, likewise
  loan_lock,      \* the request whose transaction locked the row, or None
  book_lock,
  req,            \* what each request is doing
  notifications,  \* how many rows of each type name a loan or reservation
  now             \* datetime.utcnow()

tables == <<users, books, loans, reservations>>
locks == <<loan_lock, book_lock>>
vars == <<tables, locks, req, notifications, now>>

-----------------------------------------------------------------------------
(* Rows *)

Book == [total_copies: Int, available_copies: Int, is_active: BOOLEAN]

LoanStatus == {"ACTIVE", "RETURNED", "CANCELLED"}

Loan == [user: Users, book: Books, loan_date: Nat, due_date: Nat,
         returned_at: Nat \cup {None}, status: LoanStatus,
         fine_amount: Nat, fine_paid_amount: Nat, renewal_count: Nat]

(* FULFILLED, the third value of the enum, is assigned nowhere. *)
Reservation == [user: Users, book: Books, status: {"ACTIVE", "CANCELLED"}]

NotificationType == {"LOAN_CREATED", "LOAN_RETURNED", "LOAN_CANCELLED",
                     "RESERVATION_CREATED", "RESERVATION_CANCELLED"}

(* db.add(row) and commit *)
Insert(table, id, row) ==
  [i \in DOMAIN table \cup {id} |-> IF i = id THEN row ELSE table[i]]

ActiveLoans == {l \in DOMAIN loans : loans[l].status = "ACTIVE"}
OnLoan(b) == {l \in ActiveLoans : loans[l].book = b}
ActiveReservations == {v \in DOMAIN reservations : reservations[v].status = "ACTIVE"}

-----------------------------------------------------------------------------
(* Requests.  loan_row and book_row are the ORM instances the session has   *)
(* loaded: an assignment in Python and the UPDATE that flushes it compute   *)
(* new column values from them, never from the row as it then is.           *)

Request ==
  [op: Operations \cup {None},
   pc: {"idle", "count_active", "lock_loan", "lock_book", "check_reservations",
        "find_existing", "commit", "publish"},
   user: Users \cup {None}, book: Books \cup {None}, loan: LoanIds \cup {None},
   reservation: ReservationIds \cup {None},
   arg: DueDates \cup Copies \cup {None},
   loan_row: Loan \cup {None}, book_row: Book \cup {None}, at: Nat \cup {None}]

Idle == [op |-> None, pc |-> "idle", user |-> None, book |-> None, loan |-> None,
         reservation |-> None, arg |-> None, loan_row |-> None,
         book_row |-> None, at |-> None]

At(r, op, pc) == req[r].op = op /\ req[r].pc = pc

CanStart(r, op) == op \in Operations /\ req[r].pc = "idle"

Goto(r, pc) == req' = [req EXCEPT ![r].pc = pc]

Finish(r) == req' = [req EXCEPT ![r] = Idle]

(* Faulty variant: the lock of the book outlives the transaction. *)
EndTransaction_KeepsBook(r) ==
  /\ loan_lock' = [l \in LoanIds |-> IF loan_lock[l] = r THEN None ELSE loan_lock[l]]
  /\ UNCHANGED book_lock

(* COMMIT or ROLLBACK: every row lock of the transaction goes. *)
EndTransaction(r) ==
  /\ loan_lock' = [l \in LoanIds |-> IF loan_lock[l] = r THEN None ELSE loan_lock[l]]
  /\ book_lock' = [b \in Books |-> IF book_lock[b] = r THEN None ELSE book_lock[b]]

(* An exception before commit: the session is closed without a commit. *)
Rollback(r) == EndTransaction(r) /\ Finish(r)

(* A row lock is free for r when nobody else holds it. *)
Free(lock, id, r) == lock[id] \in {None, r}

(* bus.publish runs the one notification handler of the event, which        *)
(* inserts a row in the request's own session and commits.                  *)
EventType == [create_loan |-> "LOAN_CREATED", return_loan |-> "LOAN_RETURNED",
              cancel_loan |-> "LOAN_CANCELLED",
              create_reservation |-> "RESERVATION_CREATED",
              cancel_reservation |-> "RESERVATION_CANCELLED"]

Notify(type, id) == notifications' = [notifications EXCEPT ![<<type, id>>] = @ + 1]

DatabaseInit ==
  /\ users = [u \in Users |-> TRUE]
  /\ \E total \in [Books -> Copies] :
       books = [b \in Books |-> [total_copies |-> total[b],
                                 available_copies |-> total[b],
                                 is_active |-> TRUE]]
  /\ loans = [l \in {} |-> None]
  /\ reservations = [v \in {} |-> None]
  /\ loan_lock = [l \in LoanIds |-> None]
  /\ book_lock = [b \in Books |-> None]
  /\ req = [r \in Requests |-> Idle]
  /\ notifications = [n \in NotificationType \X (LoanIds \cup ReservationIds) |-> 0]
  /\ now = 0
=============================================================================
