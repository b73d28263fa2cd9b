SPECIFICATION Spec
CONSTANTS
  MaxDepth = 5
  MaxDraws = 1
  Holders = {"call"}
INVARIANTS
  IInv
  PanicStaysInRust
  LandsWhereAimed
  ErrorsAreNotLost
  MainConditionsKept
  RngSavedUnlessJumped
