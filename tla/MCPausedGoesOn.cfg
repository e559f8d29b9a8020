CONSTANTS
  t1 = t1
  t2 = t2
  none = none
  Runs = {1, 2, 3}
  Tasks = {t1, t2}
  NoTask = none
  Spots <- MCSpots
  Entry = "take"
  Kind <- MCKind
  ActionOf <- MCActionOf
  OneAtATime = {"take", "work"}
  Exits <- MCExits
  Line <- MCLine
  MaxConcurrent = 2
  MaxOutside = 2
SPECIFICATION Spec
INVARIANT
  PausedGoesOn
SYMMETRY Symm
CHECK_DEADLOCK FALSE
