CONSTANTS
  Records = {r1, r2}
  Carriers = {c1, c2}
  NoOne = NoOne
  RETAIN = 2
  PER_READ = 1
  PER_WRITE = 1
  PER_PAGE = 1
  MaxChanges = 2
  MaxFaults = 1
  MaxTurned = 1
  MaxSetups = 1
SPECIFICATION FairSpec
PROPERTIES StuckRowsGo
CHECK_DEADLOCK FALSE
