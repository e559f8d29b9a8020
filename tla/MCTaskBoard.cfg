CONSTANTS
  d1 = d1
  d2 = d2
  p1 = p1
  p2 = p2
  t1 = t1
  t2 = t2
  t3 = t3
  Inbox = Inbox
  Tasks = {t1, t2, t3}
  Decisions = {}
  Projects = {p1, p2}
  MaxTime = 1
  MaxAccept = 1
SPECIFICATION Spec
SYMMETRY Symmetry
INVARIANTS
  Acyclic
  TaskEdgesSound
  DraftIsSecret
CHECK_DEADLOCK FALSE
