SPECIFICATION FairSpec
CONSTANTS
  p1 = p1
  p2 = p2
  p3 = p3
  Party = {p1, p2}
  Beneficiary = {p1, p2}
  Rounds = 1
  ReceiverLimit = 2
  FinishKeepsOutput = TRUE
  PollTicks = 1
  MinuteTicks = 2
  Faults = {"receiver", "send"}
  MaxFaults = 1
PROPERTIES
  InboundEnds
CHECK_DEADLOCK FALSE
