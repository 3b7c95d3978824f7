SPECIFICATION FairSpec
CONSTANTS
  None = None
  c = c
  u = u
  m1 = m1
  m2 = m2
  Control = {c}
  User = {u}
  Monitor = {m1, m2}
  Kind = {"write", "flush", "readArray"}
  ListenerCalls = {"io"}
  Patient = TRUE
  Interrupted = {c}
  CarefulNotify = TRUE
INVARIANTS
  ListenerServed
  NoOrphanLoop
PROPERTIES
  CloseEnds
  PollingEnds
