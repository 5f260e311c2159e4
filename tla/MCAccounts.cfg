CONSTANTS
  u1 = u1 u2 = u2 u3 = u3 e1 = e1 e2 = e2 n1 = n1 r1 = r1 r2 = r2
  None = None
  UserIds = {u1, u2, u3}
  InitialUsers = {u1}
  Emails = {e1, e2}
  Names = {n1}
  MaxTokens = 2
  Requests = {r1, r2}
SYMMETRY Symmetry
SPECIFICATION Spec
INVARIANTS
  TypeOK
  EmailsUnique
  RevocationIsImmediate
PROPERTIES
  DeletedUsersStayDeleted
  RolesChangeByOrder
  LockoutIsPermanent
