SPECIFICATION FairSpec
CONSTANTS
  j1 = j1
  j2 = j2
  s1 = s1
  h1 = h1
  h2 = h2
  h3 = h3
  Jobs = {j1}
  Slots = {s1}
  Holds = {h1, h2, h3}
  NoHold = NoHold
  Needed = 1
  ErrorLimit = 2
  DrainLimit = 2
  Stubborn = {h2}
  Unreadable = {h3}
  DryJobs = {}
  LostReplies = FALSE
PROPERTY ImplementsCustody
PROPERTY ReleasesWorkedOff
