SPECIFICATION Spec
CONSTANTS
  None = None
  p1 = p1
  p2 = p2
  s1 = s1
  s2 = s2
  old = old
  x = x
  o1 = o1
  o2 = o2
  Proc = {p1, p2}
  Source = {s1, s2, old}
  Option = {o1, o2}
  Offered = {o1, o2}
  Grant <- MCGrant
  Report <- MCReport
PROPERTIES
  RefusedBecauseItChanged
CHECK_DEADLOCK FALSE
