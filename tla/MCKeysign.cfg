SPECIFICATION Spec
CONSTANTS
  p1 = p1
  p2 = p2
  Party = {p1, p2}
  Beneficiary = {p1, p2}
  Rounds = 2
  ReceiverLimit = 2
  FinishKeepsOutput = TRUE
  PollTicks = 1
  MinuteTicks = 2
  Faults = {"get", "delete", "deleteLost", "output", "receiver", "send", "redeliver", "input", "finish", "stall", "crash"}
  MaxFaults = 2
INVARIANTS
  TypeOK
  EcdsaNilMeansAllSigned
  KeyshareOutlivesSession
PROPERTIES
  ImplementsBarrier
SYMMETRY Symmetry
CHECK_DEADLOCK FALSE
