SPECIFICATION Spec
CONSTANTS
  sp = sp
  en = en
  bf = bf
  j1 = j1
  j2 = j2
  Clients = {sp, en, bf}
  NoClient = NoClient
  Spawner = sp
  Enricher = en
  Invalidators = {bf}
  Jobs = {j1, j2}
  MaxLogins = 5
  MaxKills = 2
  MaxFaults = 1
  LeaseExpires = FALSE
SYMMETRY JobSymmetry
INVARIANT TypeOK
INVARIANT LoginsAreOwed
PROPERTY HealthyTokenKept
PROPERTY DeathReportKept
