CONSTANTS
  u1 = u1 u2 = u2 b1 = b1 b2 = b2 l1 = l1 l2 = l2 l3 = l3
  v1 = v1 v2 = v2 v3 = v3 r1 = r1 r2 = r2 r3 = r3
  None = None
  Users = {u1}
  Books = {b1}
  LoanIds = {l1}
  ReservationIds = {v1}
  Requests = {r1, r2}
  Operations = {"create_loan", "return_loan", "cancel_loan", "renew_loan", "pay_fine", "update_loan", "update_book", "delete_book", "create_reservation"}
  Copies = {0, 1}
  DueDates = {1}
  TicksPerDay = 1
  MAX_ACTIVE_LOANS = 3
  LOAN_DAYS = 0
  RENEWAL_DAYS = 1
  MAX_RENEWALS = 1
  MaxNow = 1
SPECIFICATION FairSpec
INVARIANTS
  IInv
  NoWaitCycle
  RecordedFinesArePaid
  NoCopyOverdrawn
PROPERTIES
  PaymentsAreKept
  LoansOfDeletedBooksStayOpen
  ClosedLoansAreOnlyRedated
  EveryRequestEnds
CHECK_DEADLOCK FALSE
