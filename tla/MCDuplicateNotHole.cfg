CONSTANTS
  Records = {r1, r2}
  Carriers = {c1, c2}
  NoOne = NoOne
  RETAIN = 1
  PER_READ = 1
  PER_WRITE = 1
  PER_PAGE = 1
  MaxChanges = 3
  MaxFaults = 1
  MaxTurned = 0
  MaxSetups = 1
SPECIFICATION Spec
INVARIANTS ADuplicateNotAHole
CHECK_DEADLOCK FALSE
