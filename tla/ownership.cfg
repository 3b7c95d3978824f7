SPECIFICATION Spec
CONSTANTS
  None = None
  t1 = t1
  t2 = t2
  n1 = n1
  g1 = g1
  g2 = g2
  g3 = g3
  p1 = p1
  p2 = p2
  Thread = {t1, t2}
  Name = {n1}
  Parallel = {}
  Prefixed = {n1}
  Properties <- EitherWay
  Pluggable = {n1}
  Contested = {n1}
  Enumerator = {t1, t2}
  Gen = {g1, g2, g3}
  Port = {p1, p2}
SYMMETRY Symmetry
VIEW View
INVARIANTS
  TypeOK
  SoleOwner
  DeviceExclusive
  ClosedIsReleased
  NoLostWakeup
PROPERTIES
  OwnershipIsALease
