----------------------------- MODULE LedgerProofs -----------------------------
(* Proof that lending conserves the copies of every book, that no more are  *)
(* lent than there are, and that the tables implement the ledger: each      *)
(* commit is one of its operations, and every other step a stutter.         *)
EXTENDS LoanProofs, FiniteSetTheorems

(* The number of loans of a book is a number. *)
LEMMA OnLoanFinite ==
  ASSUME TypeOK, NEW b \in Books
  PROVE  IsFiniteSet(OnLoan(b)) /\ Cardinality(OnLoan(b)) \in Nat
<1>1. OnLoan(b) \subseteq LoanIds
  BY DEF OnLoan, ActiveLoans, TypeOK
<1> QED
  BY <1>1, DatabaseAssumption, FS_Subset, FS_CardinalityType

(* A step leaves the copies of a book alone unless it is one of four        *)
(* commits.                                                                 *)
LEMMA BookWriters ==
  ASSUME [Next]_vars, TypeOK, NEW b \in Books
  PROVE  \/ /\ books'[b].total_copies = books[b].total_copies
            /\ books'[b].available_copies = books[b].available_copies
         \/ \E r \in Requests : \/ CommitCreateLoan(r) \/ CommitReturnLoan(r)
                                \/ CommitCancelLoan(r) \/ CommitUpdateBook(r)
<1>1. CASE UNCHANGED vars
  BY <1>1 DEF vars, tables
<1>2. ASSUME NEW r \in Requests, Start(r) PROVE books' = books
  BY <1>2 DEF Start, LoanServiceStart, CreateLoan, ReceiveLoanRequest, UpdateLoan, UpdateBook,
     ReservationServiceStart, CreateReservation, CancelReservation, tables
<1>3. ASSUME NEW r \in Requests, ReservationServiceStep(r) \/ RequestFails(r)
      PROVE  books' = books
  BY <1>3 DEF ReservationServiceStep, FindExistingReservation, CommitCreateReservation,
     CommitCancelReservation, PublishReservationEvent, RequestFails, tables
<1>4. ASSUME NEW r \in Requests, LoanServiceStep(r)
      PROVE  \/ books' = books
             \/ CommitCreateLoan(r) \/ CommitReturnLoan(r) \/ CommitCancelLoan(r)
  BY <1>4 DEF LoanServiceStep, CountActiveByUser, CreateLoanLocksBook, ReturnLoan, CancelLoan,
     PayFine, RenewLoan, LockLoan, ClosingLoanLocksBook, RenewalChecksReservations,
     PublishLoanEvent, CommitPayFine, CommitRenewLoan, CommitUpdateLoan, tables
<1>5. ASSUME NEW d \in Books, DeleteBook(d)
      PROVE  /\ books'[b].total_copies = books[b].total_copies
             /\ books'[b].available_copies = books[b].available_copies
  BY <1>5 DEF DeleteBook, TypeOK, Book
<1>6. CASE (\E u \in Users : DeleteUser(u)) \/ Tick
  BY <1>6 DEF DeleteUser, Tick, tables
<1> QED
  BY <1>1, <1>2, <1>3, <1>4, <1>5, <1>6 DEF Next, Step

(* Where update_book is not called, no request is about to commit it. *)
LEMMA NoBookUpdate ==
  ASSUME IInv, "update_book" \notin Operations
  PROVE  \A r \in Requests : ~CommitUpdateBook(r)
<1>1. None # "update_book"
  BY DatabaseAssumption DEF Endpoints
<1>2. \A r \in Requests : req[r].op \in Operations \cup {None}
  BY DEF IInv, TypeOK, Request
<1> QED
  BY <1>1, <1>2 DEF CommitUpdateBook, At

(* Nothing but lending and closing opens or closes a loan. *)
LEMMA OnLoanKept ==
  ASSUME IInv, [Next]_vars, NEW b \in Books,
         \A r \in Requests : ~(CommitCreateLoan(r) \/ CommitReturnLoan(r) \/ CommitCancelLoan(r))
  PROVE  OnLoan(b)' = OnLoan(b)
<1>1. ASSUME NEW r \in Requests, CommitPayFine(r) \/ CommitRenewLoan(r) \/ CommitUpdateLoan(r)
      PROVE  /\ DOMAIN loans' = DOMAIN loans
             /\ \A l \in DOMAIN loans : /\ loans'[l].status = loans[l].status
                                        /\ loans'[l].book = loans[l].book
  <2>1. \A l \in DOMAIN loans : loans[l] \in Loan
    BY DEF IInv, TypeOK
  <2>2. loans \in [DOMAIN loans -> Loan]
    BY DEF IInv, TypeOK
  <2> QED
    BY <1>1, <2>1, <2>2 DEF CommitPayFine, CommitRenewLoan, CommitUpdateLoan, Loan
<1>2. /\ DOMAIN loans' = DOMAIN loans
      /\ \A l \in DOMAIN loans : /\ loans'[l].status = loans[l].status
                                 /\ loans'[l].book = loans[l].book
  BY <1>1, LoanWriters
<1> QED
  BY <1>2 DEF OnLoan, ActiveLoans

(* One copy out for one loan opened. *)
LEMMA LendConserves ==
  ASSUME IInv, CopiesConserved, NEW r \in Requests, CommitCreateLoan(r)
  PROVE  CopiesConserved'
<1> DEFINE l == req[r].loan
<1>1. HoldsBook(r) /\ CreatesLoan(r) /\ loans' = Insert(loans, l, NewLoan(r))
      /\ WriteAvailableCopies(r, -1)
  BY DEF CommitCreateLoan, At, HoldsBook, CreatesLoan
<1>2. l \in LoanIds \ DOMAIN loans /\ req[r].book \in Books /\ TypeOK
  BY <1>1 DEF IInv, RequestInv, LoanIsNew
<1> PICK c \in Books : c = req[r].book
  BY <1>2
<1>3. books[c].available_copies > 0 /\ books[c] \in Book
  <2>1. req[r].book_row = books[c] /\ req[r].op = "create_loan"
    BY <1>1, HeldBook DEF CreatesLoan
  <2> QED
    BY <1>1, <1>2, <2>1 DEF IInv, RequestInv, BookIsCurrent, TypeOK
<1>4. /\ \A b \in Books : b # c => books'[b] = books[b]
      /\ books'[c] = [books[c] EXCEPT !.available_copies = @ + -1]
  <2>1. -1 \in Int
    OBVIOUS
  <2> QED
    BY <1>1, <2>1, BookWritten
<1>5. /\ books'[c].total_copies = books[c].total_copies
      /\ books'[c].available_copies = books[c].available_copies - 1
  BY <1>3, <1>4 DEF Book
<1>6. OnLoan(c)' = OnLoan(c) \cup {l} /\ \A b \in Books : b # c => OnLoan(b)' = OnLoan(b)
  <2>1. /\ DOMAIN loans' = DOMAIN loans \cup {l}
        /\ loans'[l].status = "ACTIVE" /\ loans'[l].book = c
        /\ \A i \in DOMAIN loans : loans'[i] = loans[i]
    BY <1>1, <1>2 DEF Insert, NewLoan
  <2>2. ASSUME NEW b \in Books
        PROVE  OnLoan(b)' = IF b = c THEN OnLoan(b) \cup {l} ELSE OnLoan(b)
    BY <1>2, <2>1 DEF OnLoan, ActiveLoans
  <2> QED
    BY <1>2, <2>2
<1>7. Cardinality(OnLoan(c)') = Cardinality(OnLoan(c)) + 1
  <2>1. l \notin OnLoan(c)
    BY <1>2 DEF OnLoan, ActiveLoans
  <2> QED
    BY <1>2, <1>6, <2>1, OnLoanFinite, FS_AddElement
<1> SUFFICES ASSUME NEW b \in Books
             PROVE  /\ books'[b].total_copies >= 0 => books'[b].available_copies >= 0
                    /\ books'[b].total_copies - books'[b].available_copies =
                         Cardinality(OnLoan(b)')
  BY DEF CopiesConserved
<1>8. CASE b = c
  <2>1. /\ books[c].total_copies \in Int /\ books[c].available_copies \in Int
        /\ Cardinality(OnLoan(c)) \in Nat
    BY <1>2, <1>3, OnLoanFinite DEF Book
  <2>2. books[c].total_copies - books[c].available_copies = Cardinality(OnLoan(c))
    BY <1>2 DEF CopiesConserved
  <2> QED
    BY <1>3, <1>5, <1>7, <1>8, <2>1, <2>2
<1>9. CASE b # c
  BY <1>4, <1>6, <1>9 DEF CopiesConserved
<1> QED
  BY <1>8, <1>9

(* One copy back for one loan closed. *)
LEMMA CloseConserves ==
  ASSUME IInv, CopiesConserved, NEW r \in Requests, CommitReturnLoan(r) \/ CommitCancelLoan(r)
  PROVE  CopiesConserved'
<1> DEFINE l == req[r].loan
<1>1. HoldsBook(r) /\ HoldsLoan(r) /\ WriteAvailableCopies(r, 1) /\ TypeOK
  BY DEF CommitReturnLoan, CommitCancelLoan, At, HoldsBook, HoldsLoan, LockingOps, IInv
<1>2. /\ l \in DOMAIN loans /\ loans[l] \in Loan /\ loans[l].status = "ACTIVE"
      /\ loans[l].book = req[r].book /\ req[r].book \in Books /\ books[req[r].book] \in Book
  BY <1>1, HeldLoan, HeldBook
<1> PICK c \in Books : c = req[r].book
  BY <1>2
<1>3. /\ \A b \in Books : b # c => books'[b] = books[b]
      /\ books'[c] = [books[c] EXCEPT !.available_copies = @ + 1]
  <2>1. 1 \in Int
    OBVIOUS
  <2> QED
    BY <1>1, <2>1, BookWritten
<1>4. /\ books'[c].total_copies = books[c].total_copies
      /\ books'[c].available_copies = books[c].available_copies + 1
  BY <1>2, <1>3 DEF Book
<1>5. /\ DOMAIN loans' = DOMAIN loans /\ loans'[l].status # "ACTIVE"
      /\ \A i \in DOMAIN loans : i # l => loans'[i] = loans[i]
  BY <1>2 DEF CommitReturnLoan, CommitCancelLoan, Loan
<1>6. OnLoan(c)' = OnLoan(c) \ {l} /\ \A b \in Books : b # c => OnLoan(b)' = OnLoan(b)
  <2>1. ASSUME NEW b \in Books
        PROVE  OnLoan(b)' = IF b = c THEN OnLoan(b) \ {l} ELSE OnLoan(b)
    BY <1>2, <1>5 DEF OnLoan, ActiveLoans
  <2> QED
    BY <1>2, <2>1
<1>7. Cardinality(OnLoan(c)') = Cardinality(OnLoan(c)) - 1
  <2>1. l \in OnLoan(c)
    BY <1>2 DEF OnLoan, ActiveLoans
  <2>2. IsFiniteSet(OnLoan(c))
    BY <1>1, OnLoanFinite
  <2>3. Cardinality(OnLoan(c) \ {l}) = Cardinality(OnLoan(c)) - 1
    BY <2>1, <2>2, FS_RemoveElement
  <2> QED
    BY <1>6, <2>3
<1> SUFFICES ASSUME NEW b \in Books
             PROVE  /\ books'[b].total_copies >= 0 => books'[b].available_copies >= 0
                    /\ books'[b].total_copies - books'[b].available_copies =
                         Cardinality(OnLoan(b)')
  BY DEF CopiesConserved
<1>8. CASE b = c
  <2>1. /\ books[c].total_copies \in Int /\ books[c].available_copies \in Int
        /\ Cardinality(OnLoan(c)) \in Nat
    BY <1>1, <1>2, OnLoanFinite DEF Book
  <2>2. /\ books[c].total_copies - books[c].available_copies = Cardinality(OnLoan(c))
        /\ books[c].total_copies >= 0 => books[c].available_copies >= 0
    BY <1>2 DEF CopiesConserved
  <2> QED
    BY <1>4, <1>7, <1>8, <2>1, <2>2
<1>9. CASE b # c
  BY <1>3, <1>6, <1>9 DEF CopiesConserved
<1> QED
  BY <1>8, <1>9

(* The loans of a book and its missing copies are as many and, where        *)
(* total_copies is not negative, no copy is lent that is not there, whatever *)
(* returns, cancellations, deletions and failures interleave (PUT           *)
(* /books/{id} aside).                                                      *)
THEOREM CopiesAreConserved ==
  ASSUME "update_book" \notin Operations
  PROVE  Spec => []CopiesConserved
<1>1. ASSUME Init PROVE CopiesConserved
  <2>1. PICK total \in [Books -> Copies] :
          books = [b \in Books |-> [total_copies |-> total[b], available_copies |-> total[b],
                                    is_active |-> TRUE]]
    BY <1>1 DEF Init, DatabaseInit
  <2>2. \A b \in Books : total[b] \in Int
    BY DatabaseAssumption
  <2>3. \A b \in Books : OnLoan(b) = {}
    BY <1>1 DEF Init, DatabaseInit, OnLoan, ActiveLoans
  <2> QED
    <3>1. ASSUME NEW b \in Books
          PROVE  /\ books[b].total_copies = total[b] /\ books[b].available_copies = total[b]
                 /\ Cardinality(OnLoan(b)) = 0
      BY <2>1, <2>3, FS_EmptySet
    <3> QED
      BY <2>2, <3>1 DEF CopiesConserved
<1>2. ASSUME IInv, CopiesConserved, [Next]_vars PROVE CopiesConserved'
  <2>1. \A r \in Requests : ~CommitUpdateBook(r)
    BY <1>2, NoBookUpdate
  <2>2. CASE \E r \in Requests : CommitCreateLoan(r)
    BY <1>2, <2>2, LendConserves
  <2>3. CASE \E r \in Requests : CommitReturnLoan(r) \/ CommitCancelLoan(r)
    BY <1>2, <2>3, CloseConserves
  <2>4. CASE \A r \in Requests :
               ~(CommitCreateLoan(r) \/ CommitReturnLoan(r) \/ CommitCancelLoan(r))
    <3>1. \A b \in Books : OnLoan(b)' = OnLoan(b)
      BY <1>2, <2>4, OnLoanKept
    <3>2. \A b \in Books : /\ books'[b].total_copies = books[b].total_copies
                           /\ books'[b].available_copies = books[b].available_copies
      BY <1>2, <2>1, <2>4, BookWriters DEF IInv
    <3> QED
      BY <1>2, <3>1, <3>2 DEF CopiesConserved
  <2> QED
    BY <2>2, <2>3, <2>4
<1>3. IInv /\ CopiesConserved /\ [Next]_vars => CopiesConserved'
  BY <1>2
<1> QED
  BY <1>1, <1>3, Invariance, PTL DEF Spec

-----------------------------------------------------------------------------
(* With PUT /books/{id} as well, no shelf holds less than nothing. *)

(* A copy is taken from the shelf by a request that has it locked and found *)
(* one there.                                                               *)
LEMMA ShelfOfWriter ==
  ASSUME IInv, NoCopyOverdrawn, NEW b \in Books, NEW r \in Requests,
         CommitCreateLoan(r) \/ CommitReturnLoan(r) \/ CommitCancelLoan(r)
  PROVE  books'[b].total_copies >= 0 => books'[b].available_copies >= 0
<1>1. /\ HoldsBook(r) /\ req[r].book \in Books /\ books[b] \in Book
      /\ req[r].book_row = books[req[r].book]
  <2>1. HoldsBook(r)
    BY DEF CommitCreateLoan, CommitReturnLoan, CommitCancelLoan, At, HoldsBook
  <2> QED
    BY <2>1, HeldBook DEF IInv, TypeOK
<1>2. PICK change \in {-1, 1} :
        /\ WriteAvailableCopies(r, change)
        /\ change = -1 => req[r].op = "create_loan"
  BY DEF CommitCreateLoan, CommitReturnLoan, CommitCancelLoan, At
<1>3. change \in Int
  BY <1>2
<1>4. CASE b # req[r].book
  <2>1. books'[b] = books[b]
    BY <1>1, <1>2, <1>3, <1>4, BookWritten
  <2> QED
    BY <2>1 DEF NoCopyOverdrawn
<1>5. CASE b = req[r].book
  <2>1. books'[b] = [books[b] EXCEPT !.available_copies = @ + change]
    BY <1>1, <1>2, <1>3, <1>5, BookWritten
  <2>2. /\ books'[b].total_copies = books[b].total_copies
        /\ books'[b].available_copies = books[b].available_copies + change
        /\ books[b].total_copies \in Int /\ books[b].available_copies \in Int
    BY <1>1, <2>1 DEF Book
  <2>3. change = -1 => books[b].available_copies > 0
    BY <1>1, <1>2, <1>5 DEF IInv, RequestInv, BookIsCurrent
  <2>4. books[b].total_copies >= 0 => books[b].available_copies >= 0
    BY DEF NoCopyOverdrawn
  <2> QED
    BY <1>2, <2>2, <2>3, <2>4
<1> QED
  BY <1>4, <1>5

(* An update writes the copies its instance had, less those that its own    *)
(* comparison took to be on loan: nothing less than zero.                   *)
LEMMA ShelfOfUpdate ==
  ASSUME IInv, NoCopyOverdrawn, NEW b \in Books, NEW r \in Requests, CommitUpdateBook(r)
  PROVE  books'[b].total_copies >= 0 => books'[b].available_copies >= 0
<1> DEFINE row == req[r].book_row
           total == req[r].arg
           available == row.available_copies + (total - row.total_copies)
<1>1. /\ req[r].book \in Books /\ row \in Book /\ total \in Int
      /\ total >= row.total_copies - row.available_copies
  BY DatabaseAssumption DEF CommitUpdateBook, At, IInv, RequestInv, BookIsCurrent
<1>2. available >= 0
  BY <1>1 DEF Book
<1>3. \/ books' = books
      \/ books' = [books EXCEPT ![req[r].book].total_copies = total,
                                ![req[r].book].available_copies = available]
  BY DEF CommitUpdateBook
<1> HIDE DEF total, available
<1>4. CASE books' = books
  BY <1>4 DEF NoCopyOverdrawn
<1>5. CASE books' = [books EXCEPT ![req[r].book].total_copies = total,
                                  ![req[r].book].available_copies = available]
  <2>1. CASE b = req[r].book
    <3>1. books'[b].available_copies = available
      BY <1>1, <1>5, <2>1 DEF IInv, TypeOK, Book
    <3> QED
      BY <1>2, <3>1
  <2>2. CASE b # req[r].book
    <3>1. books'[b] = books[b]
      BY <1>1, <1>5, <2>2 DEF IInv, TypeOK
    <3> QED
      BY <3>1 DEF NoCopyOverdrawn
  <2> QED
    BY <2>1, <2>2
<1> QED
  BY <1>3, <1>4, <1>5

(* Where total_copies is not negative, nobody is lent a copy that is not on *)
(* the shelf, also while PUT /books/{id} writes over what was lent meanwhile. *)
THEOREM CopiesAreNotOverdrawn == Spec => []NoCopyOverdrawn
<1>1. Init => NoCopyOverdrawn
  <2> SUFFICES ASSUME Init, NEW b \in Books
               PROVE  books[b].total_copies >= 0 => books[b].available_copies >= 0
    BY DEF NoCopyOverdrawn
  <2>1. books[b].available_copies = books[b].total_copies
    BY DEF Init, DatabaseInit
  <2> QED
    BY <2>1
<1>2. ASSUME IInv, NoCopyOverdrawn, [Next]_vars, NEW b \in Books
      PROVE  books'[b].total_copies >= 0 => books'[b].available_copies >= 0
  <2>1. CASE /\ books'[b].total_copies = books[b].total_copies
             /\ books'[b].available_copies = books[b].available_copies
    BY <1>2, <2>1 DEF NoCopyOverdrawn
  <2> QED
    BY <1>2, <2>1, BookWriters, ShelfOfWriter, ShelfOfUpdate DEF IInv
<1>3. IInv /\ NoCopyOverdrawn /\ [Next]_vars => NoCopyOverdrawn'
  BY <1>2 DEF NoCopyOverdrawn
<1> QED
  BY <1>1, <1>3, Invariance, PTL DEF Spec

-----------------------------------------------------------------------------
(* The tables implement the ledger. *)

(* A fine is within the money of the ledger. *)
LEMMA FineIsMoney ==
  ASSUME NEW due \in Nat, NEW t \in 0 .. MaxNow
  PROVE  CalculateAmount(due, t) \in 0 .. DAILY_FINE_AMOUNT * MaxNow
<1>1. Date(due) \in Nat /\ Date(t) \in Nat /\ Date(t) <= t
  <2>1. \A n \in Nat, d \in Nat \ {0} : n \div d \in Nat /\ n \div d <= n
    OBVIOUS
  <2> QED
    BY <2>1, TicksPerDayAssumption, DatabaseAssumption DEF Date
<1>2. CalculateDaysLate(due, t) \in Nat /\ CalculateDaysLate(due, t) <= t
  BY <1>1, FineType DEF CalculateDaysLate
<1> QED
  BY <1>2, DatabaseAssumption DEF CalculateAmount, DAILY_FINE_AMOUNT

(* Writing one row of loans writes one entry of the ledger. *)
LEMMA EntrySet ==
  ASSUME NEW l, NEW entry, DOMAIN loans' = DOMAIN loans \cup {l},
         \A i \in DOMAIN loans : i # l => loans'[i] = loans[i],
         Entry(loans'[l]) = entry
  PROVE  Ledger!Set(l, entry)
BY DEF Ledger!Set, Entries

(* Copies move when available_copies changes by as many. *)
LEMMA ShelfMove ==
  ASSUME TypeOK, NEW b \in Books, NEW change \in Int,
         \A i \in Books : i # b => books'[i] = books[i],
         books'[b] = [books[b] EXCEPT !.available_copies = @ + change]
  PROVE  Ledger!Move(b, change)
<1>1. books[b] \in Book
  BY DEF TypeOK
<1>2. /\ books'[b].total_copies = books[b].total_copies
      /\ books'[b].available_copies = books[b].available_copies + change
  BY <1>1 DEF Book
<1>3. Stock' = Stock
  BY <1>2 DEF Stock
<1>4. Shelf' = [Shelf EXCEPT ![b] = @ + change]
  BY <1>2 DEF Shelf
<1> QED
  BY <1>3, <1>4 DEF Ledger!Move

(* The row a request has locked is an open entry of the ledger. *)
LEMMA HeldEntry ==
  ASSUME IInv, NEW r \in Requests, HoldsLoan(r)
  PROVE  /\ req[r].loan \in LoanIds /\ Ledger!Open(req[r].loan)
         /\ Entries[req[r].loan] = Entry(loans[req[r].loan])
         /\ loans[req[r].loan] \in Loan /\ req[r].loan \in DOMAIN loans
         /\ req[r].loan_row = loans[req[r].loan]
         /\ req[r].book = loans[req[r].loan].book
         /\ req[r].at \in 0 .. MaxNow
         /\ CalculateAmount(loans[req[r].loan].due_date, req[r].at)
              \in 0 .. DAILY_FINE_AMOUNT * MaxNow
<1>1. /\ req[r].loan \in DOMAIN loans /\ req[r].loan_row = loans[req[r].loan]
      /\ loans[req[r].loan] \in Loan /\ loans[req[r].loan].status = "ACTIVE"
      /\ req[r].book = loans[req[r].loan].book
  BY HeldLoan
<1>2. req[r].loan \in LoanIds
  BY <1>1 DEF IInv, TypeOK
<1>3. Entries[req[r].loan] = Entry(loans[req[r].loan])
  BY <1>1 DEF Entries
<1>4. Ledger!Open(req[r].loan)
  BY <1>1, <1>3 DEF Ledger!Open, Entries, Entry
<1>5. req[r].at \in 0 .. MaxNow
  BY DatabaseAssumption DEF IInv, RequestInv, LoanIsCurrent, TypeOK
<1> QED
  BY <1>1, <1>2, <1>3, <1>4, <1>5, FineIsMoney DEF Loan

(* The entry of a loan that is closed, field by field. *)
LEMMA ClosedEntry ==
  ASSUME NEW row, NEW status, NEW fine
  PROVE  [Entry(row) EXCEPT !.status = status, !.fine = fine] =
           [book |-> row.book, status |-> status, fine |-> fine,
            paid |-> row.fine_paid_amount, renewals |-> row.renewal_count]
<1> DEFINE ended == [Entry(row) EXCEPT !.status = status]
<1>1. ended = [book |-> row.book, status |-> status, fine |-> row.fine_amount,
               paid |-> row.fine_paid_amount, renewals |-> row.renewal_count]
  BY DEF Entry
<1>2. [Entry(row) EXCEPT !.status = status, !.fine = fine] = [ended EXCEPT !.fine = fine]
  OBVIOUS
<1> HIDE DEF ended
<1> QED
  BY <1>1, <1>2

(* The entry of a loan whose fine is paid, field by field. *)
LEMMA PaidEntry ==
  ASSUME NEW row, NEW fine
  PROVE  [Entry(row) EXCEPT !.fine = fine, !.paid = fine] =
           [book |-> row.book, status |-> row.status, fine |-> fine,
            paid |-> fine, renewals |-> row.renewal_count]
<1> DEFINE fined == [Entry(row) EXCEPT !.fine = fine]
<1>1. fined = [book |-> row.book, status |-> row.status, fine |-> fine,
               paid |-> row.fine_paid_amount, renewals |-> row.renewal_count]
  BY DEF Entry
<1>2. [Entry(row) EXCEPT !.fine = fine, !.paid = fine] = [fined EXCEPT !.paid = fine]
  OBVIOUS
<1> HIDE DEF fined
<1> QED
  BY <1>1, <1>2

(* The copy of a loan that is closed comes back. *)
LEMMA CopyBack ==
  ASSUME IInv, NEW r \in Requests, HoldsBook(r), WriteAvailableCopies(r, 1)
  PROVE  Ledger!Move(req[r].book, 1)
<1> PICK c \in Books : c = req[r].book
  BY HeldBook
<1>1. 1 \in Int
  OBVIOUS
<1>2. /\ \A b \in Books : b # c => books'[b] = books[b]
      /\ books'[c] = [books[c] EXCEPT !.available_copies = @ + 1]
  BY <1>1, BookWritten
<1>3. TypeOK
  BY DEF IInv
<1>4. Ledger!Move(c, 1)
  BY <1>1, <1>2, <1>3, ShelfMove
<1> QED
  BY <1>4

(* create_loan lends. *)
LEMMA LendImplements ==
  ASSUME IInv, NEW r \in Requests, CommitCreateLoan(r)
  PROVE  Ledger!Next
<1> DEFINE l == req[r].loan
<1>1. HoldsBook(r) /\ CreatesLoan(r) /\ loans' = Insert(loans, l, NewLoan(r))
      /\ WriteAvailableCopies(r, -1) /\ req[r].op = "create_loan"
  BY DEF CommitCreateLoan, At, HoldsBook, CreatesLoan
<1>2. l \in LoanIds \ DOMAIN loans /\ req[r].book \in Books /\ TypeOK
  BY <1>1 DEF IInv, RequestInv, LoanIsNew
<1> PICK c \in Books : c = req[r].book
  BY <1>2
<1>3. Shelf[c] > 0
  <2>1. req[r].book_row = books[c] /\ req[r].book_row.available_copies > 0
    BY <1>1 DEF IInv, RequestInv, BookIsCurrent
  <2> QED
    BY <2>1 DEF Shelf
<1>4. Ledger!Move(c, -1)
  <2>1. -1 \in Int
    OBVIOUS
  <2>2. /\ \A b \in Books : b # c => books'[b] = books[b]
        /\ books'[c] = [books[c] EXCEPT !.available_copies = @ + -1]
    BY <1>1, <2>1, BookWritten
  <2> QED
    BY <1>2, <2>1, <2>2, ShelfMove
<1>5. Ledger!Set(l, [book |-> c, status |-> "ACTIVE", fine |-> 0, paid |-> 0, renewals |-> 0])
  <2>1. /\ DOMAIN loans' = DOMAIN loans \cup {l}
        /\ \A i \in DOMAIN loans : i # l => loans'[i] = loans[i]
        /\ loans'[l] = NewLoan(r)
    BY <1>1 DEF Insert
  <2>2. Entry(loans'[l]) =
          [book |-> c, status |-> "ACTIVE", fine |-> 0, paid |-> 0, renewals |-> 0]
    BY <2>1 DEF Entry, NewLoan
  <2> QED
    BY <2>1, <2>2, EntrySet
<1>6. l \notin DOMAIN Entries
  BY <1>2 DEF Entries
<1>7. Ledger!Lend(l, c)
  BY <1>3, <1>4, <1>5, <1>6 DEF Ledger!Lend
<1> QED
  BY <1>2, <1>7 DEF Ledger!Next

(* return_loan takes the copy back, with its fine paid. *)
LEMMA ReturnImplements ==
  ASSUME IInv, NEW r \in Requests, CommitReturnLoan(r)
  PROVE  Ledger!Next
<1> DEFINE l == req[r].loan
           row == loans[l]
           fine == CalculateAmount(row.due_date, req[r].at)
           new == [row EXCEPT !.status = "RETURNED", !.returned_at = req[r].at,
                              !.fine_amount = fine]
<1>1. HoldsBook(r) /\ HoldsLoan(r) /\ WriteAvailableCopies(r, 1) /\ req[r].op = "return_loan"
  BY DEF CommitReturnLoan, At, HoldsBook, HoldsLoan, LockingOps
<1>2. /\ l \in LoanIds /\ Ledger!Open(l) /\ Entries[l] = Entry(row) /\ row \in Loan
      /\ l \in DOMAIN loans /\ req[r].loan_row = row /\ req[r].book = row.book
      /\ fine \in 0 .. DAILY_FINE_AMOUNT * MaxNow
  BY <1>1, HeldEntry
<1>3. loans' = [loans EXCEPT ![l] = new]
  BY <1>2 DEF CommitReturnLoan, IInv, TypeOK
<1>4. fine <= Entries[l].paid
  BY <1>1, <1>2 DEF IInv, RequestInv, LoanIsCurrent, Entry
<1>5. Entry(new) = [Entries[l] EXCEPT !.status = "RETURNED", !.fine = fine]
  <2>1. /\ new.book = row.book /\ new.status = "RETURNED" /\ new.fine_amount = fine
        /\ new.fine_paid_amount = row.fine_paid_amount /\ new.renewal_count = row.renewal_count
    BY <1>2 DEF Loan
  <2>2. Entry(new) = [book |-> row.book, status |-> "RETURNED", fine |-> fine,
                      paid |-> row.fine_paid_amount, renewals |-> row.renewal_count]
    BY <2>1 DEF Entry
  <2>3. [Entry(row) EXCEPT !.status = "RETURNED", !.fine = fine] =
          [book |-> row.book, status |-> "RETURNED", fine |-> fine,
           paid |-> row.fine_paid_amount, renewals |-> row.renewal_count]
    <3> HIDE DEF row, fine
    <3> QED
      BY ClosedEntry, Zenon
  <2>4. Entries[l] = Entry(row)
    BY <1>2
  <2> HIDE DEF l, row, new
  <2> QED
    BY <2>2, <2>3, <2>4
<1>6. Ledger!Set(l, [Entries[l] EXCEPT !.status = "RETURNED", !.fine = fine])
  BY <1>2, <1>3, <1>5, EntrySet
<1>7. Ledger!Move(Entries[l].book, 1)
  BY <1>1, <1>2, CopyBack DEF Entry
<1>8. Ledger!TakeBack(l)
  BY <1>2, <1>4, <1>6, <1>7 DEF Ledger!TakeBack
<1> QED
  BY <1>2, <1>8 DEF Ledger!Next

(* cancel_loan voids the loan. *)
LEMMA CancelImplements ==
  ASSUME IInv, NEW r \in Requests, CommitCancelLoan(r)
  PROVE  Ledger!Next
<1> DEFINE l == req[r].loan
           row == loans[l]
           new == [row EXCEPT !.status = "CANCELLED", !.fine_amount = 0]
<1>1. HoldsBook(r) /\ HoldsLoan(r) /\ WriteAvailableCopies(r, 1)
  BY DEF CommitCancelLoan, At, HoldsBook, HoldsLoan, LockingOps
<1>2. /\ l \in LoanIds /\ Ledger!Open(l) /\ Entries[l] = Entry(row) /\ row \in Loan
      /\ l \in DOMAIN loans /\ req[r].book = row.book
  BY <1>1, HeldEntry
<1>3. loans' = [loans EXCEPT ![l] = new]
  BY <1>2 DEF CommitCancelLoan, IInv, TypeOK
<1>4. Entry(new) = [Entries[l] EXCEPT !.status = "CANCELLED", !.fine = 0]
  <2>1. /\ new.book = row.book /\ new.status = "CANCELLED" /\ new.fine_amount = 0
        /\ new.fine_paid_amount = row.fine_paid_amount /\ new.renewal_count = row.renewal_count
    BY <1>2 DEF Loan
  <2>2. Entry(new) = [book |-> row.book, status |-> "CANCELLED", fine |-> 0,
                      paid |-> row.fine_paid_amount, renewals |-> row.renewal_count]
    BY <2>1 DEF Entry
  <2>3. [Entry(row) EXCEPT !.status = "CANCELLED", !.fine = 0] =
          [book |-> row.book, status |-> "CANCELLED", fine |-> 0,
           paid |-> row.fine_paid_amount, renewals |-> row.renewal_count]
    <3> HIDE DEF row
    <3> QED
      BY ClosedEntry, Zenon
  <2>4. Entries[l] = Entry(row)
    BY <1>2
  <2> HIDE DEF l, row, new
  <2> QED
    BY <2>2, <2>3, <2>4
<1>5. Ledger!Set(l, [Entries[l] EXCEPT !.status = "CANCELLED", !.fine = 0])
  BY <1>2, <1>3, <1>4, EntrySet
<1>6. Ledger!Move(Entries[l].book, 1)
  BY <1>1, <1>2, CopyBack DEF Entry
<1>7. Ledger!Void(l)
  BY <1>2, <1>5, <1>6 DEF Ledger!Void
<1> QED
  BY <1>2, <1>7 DEF Ledger!Next

(* pay_fine pays, and leaves the books alone. *)
LEMMA PayImplements ==
  ASSUME IInv, NEW r \in Requests, CommitPayFine(r)
  PROVE  Ledger!Next
<1> DEFINE l == req[r].loan
           row == loans[l]
           fine == CalculateAmount(row.due_date, req[r].at)
           new == [row EXCEPT !.fine_amount = fine, !.fine_paid_amount = fine]
<1>1. HoldsLoan(r) /\ req[r].op = "pay_fine" /\ books' = books
  BY DEF CommitPayFine, At, HoldsLoan, LockingOps
<1>2. /\ l \in LoanIds /\ Ledger!Open(l) /\ Entries[l] = Entry(row) /\ row \in Loan
      /\ l \in DOMAIN loans /\ req[r].loan_row = row
      /\ fine \in 0 .. DAILY_FINE_AMOUNT * MaxNow
  BY <1>1, HeldEntry
<1>3. loans' = [loans EXCEPT ![l] = new]
  BY <1>2 DEF CommitPayFine, IInv, TypeOK
<1>4. fine > Entries[l].paid
  BY <1>1, <1>2 DEF IInv, RequestInv, LoanIsCurrent, Entry
<1>5. Entry(new) = [Entries[l] EXCEPT !.fine = fine, !.paid = fine]
  <2>1. /\ new.book = row.book /\ new.status = row.status /\ new.fine_amount = fine
        /\ new.fine_paid_amount = fine /\ new.renewal_count = row.renewal_count
    BY <1>2 DEF Loan
  <2>2. Entry(new) = [book |-> row.book, status |-> row.status, fine |-> fine,
                      paid |-> fine, renewals |-> row.renewal_count]
    BY <2>1 DEF Entry
  <2>3. [Entry(row) EXCEPT !.fine = fine, !.paid = fine] =
          [book |-> row.book, status |-> row.status, fine |-> fine,
           paid |-> fine, renewals |-> row.renewal_count]
    <3> HIDE DEF row, fine
    <3> QED
      BY PaidEntry, Zenon
  <2>4. Entries[l] = Entry(row)
    BY <1>2
  <2> HIDE DEF l, row, new
  <2> QED
    BY <2>2, <2>3, <2>4
<1>6. Ledger!Set(l, [Entries[l] EXCEPT !.fine = fine, !.paid = fine])
  BY <1>2, <1>3, <1>5, EntrySet
<1>7. UNCHANGED <<Stock, Shelf>>
  BY <1>1 DEF Stock, Shelf
<1>8. Ledger!Pay(l)
  BY <1>2, <1>4, <1>6, <1>7 DEF Ledger!Pay
<1> QED
  BY <1>2, <1>8 DEF Ledger!Next

(* renew_loan renews, and leaves the books alone. *)
LEMMA RenewImplements ==
  ASSUME IInv, NEW r \in Requests, CommitRenewLoan(r)
  PROVE  Ledger!Next
<1> DEFINE l == req[r].loan
           row == loans[l]
           new == [row EXCEPT !.due_date = row.due_date + Days(RENEWAL_DAYS),
                              !.renewal_count = row.renewal_count + 1]
<1>1. HoldsLoan(r) /\ req[r].op = "renew_loan" /\ books' = books
  BY DEF CommitRenewLoan, At, HoldsLoan, LockingOps
<1>2. /\ l \in LoanIds /\ Ledger!Open(l) /\ Entries[l] = Entry(row) /\ row \in Loan
      /\ l \in DOMAIN loans /\ req[r].loan_row = row
  BY <1>1, HeldEntry
<1>3. loans' = [loans EXCEPT ![l] = new]
  BY <1>2 DEF CommitRenewLoan, IInv, TypeOK
<1>4. Entries[l].renewals < MAX_RENEWALS
  BY <1>1, <1>2 DEF IInv, RequestInv, LoanIsCurrent, Entry
<1>5. Entry(new) = [Entries[l] EXCEPT !.renewals = @ + 1]
  <2>1. /\ new.book = row.book /\ new.status = row.status /\ new.fine_amount = row.fine_amount
        /\ new.fine_paid_amount = row.fine_paid_amount /\ new.renewal_count = row.renewal_count + 1
    BY <1>2 DEF Loan
  <2> HIDE DEF new
  <2> QED
    BY <1>2, <2>1 DEF Entry
<1>6. Ledger!Set(l, [Entries[l] EXCEPT !.renewals = @ + 1])
  BY <1>2, <1>3, <1>5, EntrySet
<1>7. UNCHANGED <<Stock, Shelf>>
  BY <1>1 DEF Stock, Shelf
<1>8. Ledger!Renew(l)
  BY <1>2, <1>4, <1>6, <1>7 DEF Ledger!Renew
<1> QED
  BY <1>2, <1>8 DEF Ledger!Next

(* A step that is none of these commits, nor that of update_book, leaves    *)
(* the ledger alone.                                                        *)
LEMMA OthersStutter ==
  ASSUME IInv, [Next]_vars,
         \A r \in Requests :
           ~ \/ CommitCreateLoan(r) \/ CommitReturnLoan(r) \/ CommitCancelLoan(r)
             \/ CommitPayFine(r) \/ CommitRenewLoan(r) \/ CommitUpdateBook(r)
  PROVE  UNCHANGED <<Stock, Shelf, Entries>>
<1>1. Stock' = Stock /\ Shelf' = Shelf
  <2>1. \A b \in Books : /\ books'[b].total_copies = books[b].total_copies
                         /\ books'[b].available_copies = books[b].available_copies
    BY BookWriters DEF IInv
  <2> QED
    BY <2>1 DEF Stock, Shelf
<1>2. DOMAIN loans' = DOMAIN loans /\ \A l \in DOMAIN loans : Entry(loans'[l]) = Entry(loans[l])
  <2>1. ASSUME NEW r \in Requests, CommitUpdateLoan(r)
        PROVE  /\ DOMAIN loans' = DOMAIN loans
               /\ \A l \in DOMAIN loans : Entry(loans'[l]) = Entry(loans[l])
    <3>1. \/ loans' = loans
          \/ loans' = [loans EXCEPT ![req[r].loan].due_date = req[r].arg]
      BY <2>1 DEF CommitUpdateLoan
    <3>2. \A l \in DOMAIN loans : loans[l] \in Loan
      BY DEF IInv, TypeOK
    <3> QED
      BY <3>1, <3>2 DEF Entry, Loan
  <2> QED
    BY <2>1, LoanWriters
<1>3. Entries' = Entries
  BY <1>2 DEF Entries
<1> QED
  BY <1>1, <1>3

(* Whatever requests interleave or fail, the rows of books and loans change *)
(* as if each operation took place at one instant, its commit (PUT          *)
(* /books/{id} aside, whose unlocked read is not one of the ledger's).      *)
THEOREM LedgerIsImplemented ==
  ASSUME "update_book" \notin Operations
  PROVE  Spec => ImplementsLedger
<1>1. Init => Ledger!Init
  BY DEF Init, DatabaseInit, Ledger!Init, Stock, Shelf, Entries
<1>2. IInv /\ [Next]_vars => [Ledger!Next]_<<Stock, Shelf, Entries>>
  <2> SUFFICES ASSUME IInv, [Next]_vars
               PROVE  Ledger!Next \/ UNCHANGED <<Stock, Shelf, Entries>>
    OBVIOUS
  <2>1. \A r \in Requests : ~CommitUpdateBook(r)
    BY NoBookUpdate
  <2>2. CASE \A r \in Requests :
               ~ \/ CommitCreateLoan(r) \/ CommitReturnLoan(r) \/ CommitCancelLoan(r)
                 \/ CommitPayFine(r) \/ CommitRenewLoan(r)
    BY <2>1, <2>2, OthersStutter
  <2> QED
    BY <2>2, LendImplements, ReturnImplements, CancelImplements, PayImplements, RenewImplements
<1> QED
  BY <1>1, <1>2, Invariance, PTL DEF Spec, ImplementsLedger, Ledger!Spec
=============================================================================
