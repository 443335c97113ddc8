SPECIFICATION FairSpec
CONSTANTS
  p1 = p1
  p2 = p2
  p3 = p3
  OldCommittee = {p1, p2}
  NewCommittee = {p1, p2}
  Party = {p1, p2}
  Beneficiary = {p1, p2}
  Rounds = 2
  ReceiverLimit = 2
  FinishKeepsOutput = TRUE
  PollTicks = 1
  MinuteTicks = 2
  Faults = {}
  MaxFaults = 0
PROPERTIES
  KeySurvives
CHECK_DEADLOCK FALSE
