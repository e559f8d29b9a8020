CONSTANTS
  timer = timer
  byhand = byhand
  t1 = t1
  Ticks = {timer, byhand}
  Timer = timer
  Tasks = {t1}
  LastDay = 1
  Moments = 1
  Deadlines <- MCDeadlines
  MaxFaults = 0
  MaxHand = 0
SPECIFICATION Spec
INVARIANT EveryDueTaskIsNamed
CHECK_DEADLOCK FALSE
