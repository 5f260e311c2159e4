CONSTANTS
  l1 = l1 l2 = l2 r1 = r1 r2 = r2
  None = None
  LoanIds = {l1, l2}
  Runs = {r1, r2}
  DueDates = {0, 5}
  PoolLimit = 2
  TicksPerDay = 2
  MaxChanges = 1
  MaxNow = 2
SPECIFICATION FairSpec
INVARIANT DailyRun
