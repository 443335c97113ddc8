SPECIFICATION FairSpec
CONSTANTS
  p1 = p1
  p2 = p2
  p3 = p3
  Party = {p1, p2}
  Beneficiary = {p1, p2}
  Rounds = 1
  ReceiverLimit = 2
  FinishKeepsOutput = TRUE
  PollTicks = 1
  MinuteTicks = 2
  Faults = {"finish"}
  MaxFaults = 1
PROPERTIES
  OutboundStopsToo
CHECK_DEADLOCK FALSE
