SPECIFICATION Spec
CONSTANTS
  p1 = p1
  p2 = p2
  p3 = p3
  Party = {p1, p2, p3}
  Beneficiary = {p1, p2, p3}
  Rounds = 2
  ReceiverLimit = 3
  FinishKeepsOutput = TRUE
  PollTicks = 1
  MinuteTicks = 2
  Faults = {"receiver", "send"}
  MaxFaults = 1
INVARIANTS
  NothingLost
  EarlyLeaverAlone
  AllContributed
  RestMeansFinished
SYMMETRY Symmetry
CHECK_DEADLOCK FALSE
