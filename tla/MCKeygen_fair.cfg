SPECIFICATION FairSpec
CONSTANTS
  p1 = p1
  p2 = p2
  p3 = p3
  Party = {p1, p2}
  Beneficiary = {p1, p2}
  Rounds = 2
  ReceiverLimit = 2
  FinishKeepsOutput = TRUE
  PollTicks = 1
  MinuteTicks = 2
  Faults = {"get", "delete", "redeliver"}
  MaxFaults = 2
INVARIANTS
  TimeoutNeedsStall
PROPERTIES
  SomebodyFinishes
  AllReturnOrLeftUnsent
  FlagStopsProcess
CHECK_DEADLOCK FALSE
