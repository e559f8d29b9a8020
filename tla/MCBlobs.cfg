CONSTANTS
  p1 = p1
  p2 = p2
  p3 = p3
  a = a
  r1 = r1
  Nothing = Nothing
  Icon = Icon
  Procs = {p1, p2, p3}
  Contents = {a}
  Rows = {r1}
  MaxRestores = 1
SPECIFICATION Spec
SYMMETRY Alike
VIEW Seen
INVARIANTS
  TypeOK
  BytesStay
  InFlightKept
  SweptClean
CHECK_DEADLOCK FALSE
