\* The facade on clean sessions: faults and restarts, then calm; it stops only where it crashed.
SPECIFICATION FairSpec
CONSTANTS
  t = t
  u = u
  m1 = m1
  c1 = c1
  ClientIds = {c1}
  Topics = {t, u}
  QoSLevels = {0, 1}
  Refusals = {"BAD_CREDENTIALS"}
  InMsgs = {m1}
  CleanSession = TRUE
  None = None
  MaxSubs = 2
  Filters = {t, u}
  LevelsOf <- MCLevelsOf
  Stored <- MCStored
  Disciplined = TRUE
  BeginChecked = FALSE
  PowerCycles = TRUE
  CalmComes = TRUE
INVARIANTS
  TypeOK
  TableMatchesWanted
  SubscriptionsRestored
  NoVerdictWhileConnected
  CrashNeedsFailedBegin
PROPERTIES
  Recovers
CHECK_DEADLOCK FALSE
