SPECIFICATION FairSpec
CONSTANTS
  Order <- Imx8Order
  MayFail = TRUE
  MayRepart = TRUE
  MaxLosses = 3
  MaxUnsaved = 2
INVARIANTS
  TypeOK
  NewUbootFirst
  StageTwoOnce
PROPERTIES
  InstallEnds
CHECK_DEADLOCK FALSE
