CONSTANTS
  d1 = d1
  d2 = d2
  p1 = p1
  p2 = p2
  t1 = t1
  t2 = t2
  t3 = t3
  Inbox = Inbox
  Tasks = {t1}
  Decisions = {d1, d2}
  Projects = {p1, p2}
  MaxTime = 2
  MaxAccept = 2
SPECIFICATION Spec
SYMMETRY Symmetry
VIEW Seen
INVARIANTS
  UnsettledGroundIsDated
  StampsAgree
  EdgesSound
PROPERTY RejectedForGood
CHECK_DEADLOCK FALSE
