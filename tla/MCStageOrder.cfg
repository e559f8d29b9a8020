CONSTANTS
  t1 = t1
  d1 = d1
  v1 = v1
  v2 = v2
  v3 = v3
  p1 = p1
  p2 = p2
  Tasks = {t1}
  Decisions = {d1}
  Values = {v1, v2, v3}
  Closers = {p1, p2}
  Nobody = Nobody
  Shapes <- MCShapes
  MaxTime = 2
SPECIFICATION Spec
SYMMETRY Alike
VIEW Seen
INVARIANTS
  RequiredOffers
  OneAnswer
  SomebodyCanGoOn
  ReopenedIsReported
  NoReleaseUnsaid
PROPERTY AnswerKept
CHECK_DEADLOCK FALSE
