SPECIFICATION Spec
CONSTANTS
  p1 = p1
  p2 = p2
  p3 = p3
  Signer = {p1, p2, p3}
  Q = 5
  Degree = 1
  Base = 2
  MaxParts = 4
  Name <- MCName
  MaxParties = 4
INVARIANTS
  SetupNamesParties
  ThresholdIsTwoThirds
  IndicesPointBack
  SecretsAddUpToKey
  SecretIsProduct
  SharesFreed
  PrintedAfterAllParts
  NilPrintsIfEnough
CHECK_DEADLOCK FALSE
