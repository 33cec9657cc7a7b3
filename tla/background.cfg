SPECIFICATION FairSpec
CONSTANTS
  a1 = a1
  a2 = a2
  sp = sp
  en = en
  j1 = j1
  Replicas = {1, 2, 3}
  Attempts = 2
  Instants = {1, 2, 3}
  Target = 2
  PageSize = 2
  MaxRows = 4
  MaxShifts = 1
  Ticketless = {1, 2, 3, 4}
  Unnumbered = {1}
  Unknown = {2}
  RepairLimit = 3
  MaxHiccups = 2
  Withdrawals = {1, 2}
  Refused = {1}
  PageLimit = 1
  MaxPages = 2
  MaxFlips = 1
  MaxOutages = 1
  Sold = {1, 2}
  Terminators = {a1, a2}
  Exposed = {2}
  Vague = {1}
  Priceless = {1}
  BackfillMax = 2
  MaxMishaps = 1
  Trips = {1}
  Enrichers = {a1, a2}
  MaxToken = 2
  MaxDemands = 1
  MaxSlips = 1
  EnrichMaxLen = 1
  Dates = {1, 2}
  Pollers = {a1, a2}
  MaxStreams = 1
  MaxBoost = 1
  MaxLight = 1
  ShardSize = 1
  CronEvery = 2
  MinGeneration = 2
  PolleeLife = 4
  MaxTurns = 2
  MaxErrors = 1
  Clients = {sp, en}
  NoClient = NoClient
  Spawner = sp
  Enricher = en
  Invalidators = {}
  Jobs = {j1}
  MaxLogins = 6
  MaxKills = 1
  MaxFaults = 1
CHECK_DEADLOCK FALSE
INVARIANTS
  BackgroundTypeOK
  NeverBlocked
  SignalKept
  AbsentIsDefinitive
  CleanListDecided
  ParkedForCause
  ReportedRefundIsMade
  WatchKept
PROPERTIES
  ReplicasEnd
  BacklogRepaired
  SweepsUnderSwitch
  WithdrawalsHandled
  MoneyRecorded
  LoginArrives
  SessionRecovers
