CONSTANTS
  timer = timer
  byhand = byhand
  t1 = t1
  Ticks = {timer, byhand}
  Timer = timer
  Tasks = {t1}
  LastDay = 2
  Moments = 1
  Deadlines <- MCDeadlines
  MaxFaults = 1
  MaxHand = 1
SPECIFICATION FairSpec
INVARIANTS
  TypeOK
  MarkedDayIsWarned
  WarnedAgainIsPaidFor
PROPERTIES
  OwedIsWarned
  WarningsAreCarried
CHECK_DEADLOCK FALSE
