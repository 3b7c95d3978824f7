SPECIFICATION FairSpec
CONSTANTS
  None = None
  t1 = t1
  t2 = t2
  n1 = n1
  n2 = n2
  g1 = g1
  p1 = p1
  p2 = p2
  Thread = {t1, t2}
  Name = {n1, n2}
  Parallel = {n2}
  Prefixed = {n1, n2}
  Properties <- NoFile
  Pluggable = {}
  Contested = {n1}
  Enumerator = {}
  Gen = {g1}
  Port = {p1, p2}
PROPERTIES
  OpenEnds
  CloseReleases
