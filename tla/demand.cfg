SPECIFICATION FairSpec
CONSTANTS
  s1 = s1
  s2 = s2
  c1 = c1
  c2 = c2
  Slots = {s1}
  Cdcs = {c1, c2}
  NoCount = NoCount
  MaxNeed = 2
  MaxChanges = 2
  MaxFaults = 1
  StreamMaxLen = 1
  Lines <- OneLine
  MaxSeats = 1
  MaxInbox = 1
INVARIANTS
  TypeOK
  PricedWithNewDemand
  BeliefIsDelivered
PROPERTIES
  DemandArrives
  RiseIsAnswered
