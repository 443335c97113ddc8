SPECIFICATION FairSpec
CONSTANTS
  p1 = p1
  p2 = p2
  p3 = p3
  t1 = t1
  t2 = t2
  Party = {p1, p2, p3}
  Leaders = {p1}
  OldCommittee = {p1, p2}
  NewCommittee = {p1, p3}
  Operations = {"keygen", "migrate", "keysign", "reshare"}
  Texts = {t1, t2}
  Faults = {"request", "answer", "local"}
  MaxFaults = 1
INVARIANTS
  TypeOK
  OneSetup
  SameText
  StartedComplete
  StuckMeansFailed
PROPERTIES
  ImplementsGathering
  EverybodyOpens
  StartReleases
CHECK_DEADLOCK FALSE
