SPECIFICATION FairSpec
CONSTANTS
  Line = {"CTS"}
  ErrorKind = {"FE"}
  Switched = {"data"}
  Beginning <- Beginnings
  MaxFifo = 1
  Wrap = 2
  MaxLength = 3
  Lengths = {2, 3}
  Threshold = 3
  HasTimeout = TRUE
  Iterations = 2
  Kind = {"array", "terminated"}
  Overlap = FALSE
INVARIANTS
  FlagsAgree
  BufferKept
  ThresholdKept
PROPERTIES
  ToldIsCurrent
  DataIsAnnounced
  ReadEnds
