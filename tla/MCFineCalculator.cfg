CONSTANTS
  TicksPerDay = 4
  MaxTime = 20
SPECIFICATION Spec
INVARIANT DaysLateCountMidnights
PROPERTY FineGrowsByTheDay
CHECK_DEADLOCK FALSE
