SPECIFICATION Spec
CONSTANTS
  p1 = p1
  p2 = p2
  Party = {p1, p2}
  Beneficiary = {p1, p2}
  Rounds = 2
  ReceiverLimit = 2
  FinishKeepsOutput = TRUE
  PollTicks = 1
  MinuteTicks = 2
  Faults = {"stall"}
  MaxFaults = 1
INVARIANTS
  NilMeansSigned
CHECK_DEADLOCK FALSE
