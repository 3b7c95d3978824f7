SPECIFICATION FairSpec
CONSTANTS
  None = None
  a = a
  b = b
  c = c
  Process = {a, b, c}
  Mortal = {a, b, c}
  Starved = {}
  Garbage = {"running", "dead", "own"}
INVARIANTS
  TypeOK
  SettledHolderKeepsLock
PROPERTIES
  SettledIsALease
  StaleLockIsRemoved
