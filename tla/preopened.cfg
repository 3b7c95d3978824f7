SPECIFICATION Spec
CONSTANTS
  A = A
  B = B
  C = C
  p1 = p1
  p2 = p2
  p3 = p3
  slow = slow
  normal = normal
  NULL = NULL
  None = None
  Name = {A, B, C}
  Node = {p1, p2, p3}
  FD = {3, 4, 5}
  Line = {"DTR"}
  Params = {slow}
  Default = normal
SYMMETRY Symmetry
INVARIANTS
  KeptDescriptors
  ListSound
PROPERTIES
  CarefulSettingsAreKept
CHECK_DEADLOCK FALSE
