\* A sketch goes on after begin() failed to join WiFi.
SPECIFICATION Spec
CONSTANTS
  t = t
  u = u
  m1 = m1
  c1 = c1
  ClientIds = {c1}
  Topics = {}
  QoSLevels = {0, 1}
  Refusals = {"BAD_CREDENTIALS"}
  InMsgs = {}
  CleanSession = TRUE
  None = None
  MaxSubs = 2
  Filters = {}
  LevelsOf <- MCLevelsOf
  Stored <- MCStored
  Disciplined = TRUE
  BeginChecked = FALSE
  PowerCycles = FALSE
  CalmComes = FALSE
INVARIANTS
  ClientHasNetwork
