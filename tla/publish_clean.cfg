\* Outbound messages of every QoS on clean sessions.
SPECIFICATION Spec
CONSTANTS
  p0 = p0
  p1 = p1
  p2 = p2
  q2 = q2
  i0 = i0
  i1 = i1
  i2 = i2
  t1 = t1
  Msgs = {p0, p1, p2}
  InMsgs = {}
  Topics = {}
  NoMsg = NoMsg
  OutQoS <- MCOutQoS
  InQoS <- MCInQoS
  MaxPacketId = 1
  CleanSession = TRUE
  MaxQueue = 2
  KeepAlive = TRUE
  DropOverflow = FALSE
  Oversized = {}
  Duplicates = TRUE
  PowerCycles = TRUE
INVARIANTS
  TypeOK
  ConnectedMeansAttached
  AckedMeansAccepted
  AckForCurrentCommand
  PongPendingMirrorsLink
PROPERTIES
  ImplementsContract
  ImplementsDelivery
