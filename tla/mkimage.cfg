SPECIFICATION Spec
CONSTANTS
  p = p
  q = q
  Missing = Missing
  NoHeader = NoHeader
  Path = {p, q}
  Content <- FileContents
  Command <- Commands
  LongBytes = 4
  AddrSpace = 65536
  Time = 0
  MaxRuns = 2
  MaxChanges = 1
  Masks = {{0}, {7}}
  Spots = {1, 8, 9, 14, 22}
INVARIANTS
  AcceptedIsWhole
  FilesFound
  DamageRefused
  CrcIsRemainder
CHECK_DEADLOCK FALSE
