SPECIFICATION Spec
CONSTANTS
  j1 = j1
  j2 = j2
  s1 = s1
  h1 = h1
  h2 = h2
  h3 = h3
  Jobs = {j1, j2}
  Slots = {s1}
  Holds = {h1, h2}
  NoHold = NoHold
  Needed = 2
  ErrorLimit = 1
  DrainLimit = 1
  Stubborn = {}
  Unreadable = {}
  DryJobs = {j2}
  LostReplies = TRUE
SYMMETRY HoldSymmetry
INVARIANT TypeOK
INVARIANT NoHoldForgotten
INVARIANT OneOrphanPerSlot
PROPERTY ImplementsCustody
