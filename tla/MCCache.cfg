CONSTANTS
  a1 = a1 b1 = b1 b2 = b2 l1 = l1 l2 = l2 u1 = u1 p1 = p1
  r1 = r1 r2 = r2
  None = None
  Authors = {a1}
  Users = {u1}
  Books = {b1, b2}
  InitialBooks = {b1}
  LoanIds = {l1, l2}
  InitialLoans = {l1}
  Pages = {p1}
  Requests = {r1, r2}
  Operations = {"get_book", "list_books", "get_loan", "list_loans", "list_user_loans", "create_book", "update_book", "delete_book", "update_author", "delete_author", "create_loan", "return_loan", "cancel_loan", "pay_fine", "renew_loan", "update_loan", "delete_user", "fail"}
  MaxWrites = 2
SPECIFICATION FairSpec
INVARIANTS
  IInv
  StaleEntriesAccountedFor
  OrphansWereInsertedMeanwhile
PROPERTIES
  DeletionsAreFinal
  CacheConverges
CHECK_DEADLOCK FALSE
