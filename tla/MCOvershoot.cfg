CONSTANTS
  u1 = u1 u2 = u2 b1 = b1 b2 = b2 l1 = l1 l2 = l2 l3 = l3
  v1 = v1 v2 = v2 v3 = v3 r1 = r1 r2 = r2 r3 = r3
  None = None
  Users = {u1}
  Books = {b1}
  LoanIds = {l1, l2, l3}
  ReservationIds = {v1, v2, v3}
  Requests = {r1, r2}
  Operations = {"create_loan", "cancel_loan", "create_reservation", "cancel_reservation"}
  Copies = {1, 2, 3}
  DueDates = {}
  TicksPerDay = 1
  MAX_ACTIVE_LOANS = 1
  LOAN_DAYS = 1
  RENEWAL_DAYS = 1
  MAX_RENEWALS = 1
  MaxNow = 0
SPECIFICATION Spec
SYMMETRY Symmetry
CHECK_DEADLOCK FALSE
INVARIANTS
  OvershootBounded
  DuplicateReservationsBounded
  CancellationsBounded
  RacesInv
