SPECIFICATION Spec
CONSTANTS
  p1 = p1
  p2 = p2
  p3 = p3
  OldCommittee = {p1, p2}
  NewCommittee = {p2, p3}
  Party = {p1, p2, p3}
  Beneficiary = {p2, p3}
  Rounds = 2
  ReceiverLimit = 2
  FinishKeepsOutput = TRUE
  PollTicks = 1
  MinuteTicks = 2
  Faults = {"save", "finish", "crash"}
  MaxFaults = 1
INVARIANTS
  KeySafeUntilLast
  LeaverStays
  NothingLost
  KeyshareOutlivesLoops
CHECK_DEADLOCK FALSE
