\* Persistent sessions, restarts, and filters that do not fit into the table.
SPECIFICATION Spec
CONSTANTS
  t = t
  u = u
  m1 = m1
  c1 = c1
  ClientIds = {c1, c2}
  Topics = {t, u}
  QoSLevels = {0, 1}
  Refusals = {"BAD_CREDENTIALS"}
  InMsgs = {}
  CleanSession = FALSE
  None = None
  MaxSubs = 2
  Filters = {t, u}
  LevelsOf <- MCLevelsOf
  Stored <- MCStoredCut
  Disciplined = FALSE
  BeginChecked = TRUE
  PowerCycles = TRUE
  CalmComes = FALSE
INVARIANTS
  KeptSubscribed
