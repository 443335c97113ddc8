SPECIFICATION Spec
CONSTANTS
  p1 = p1
  p2 = p2
  p3 = p3
  Party = {p1, p2}
  Beneficiary = {p1, p2}
  Rounds = 3
  ReceiverLimit = 2
  FinishKeepsOutput = TRUE
  PollTicks = 1
  MinuteTicks = 2
  Faults = {"get", "delete", "deleteLost", "output", "receiver", "send", "redeliver", "input", "finish", "save", "stall", "crash"}
  MaxFaults = 3
INVARIANTS
  TypeOK
  AppliedAtMostOnce
  NoUseAfterFree
  NothingLost
  NilMeansSaved
PROPERTIES
  ImplementsBarrier
  ErrorKeepsWaiting
SYMMETRY Symmetry
CHECK_DEADLOCK FALSE
