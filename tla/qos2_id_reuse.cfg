\* A QoS 2 publish is swallowed under a reused packet id of a persistent session.
SPECIFICATION Spec
CONSTANTS
  p0 = p0
  p1 = p1
  p2 = p2
  q2 = q2
  i0 = i0
  i1 = i1
  i2 = i2
  t1 = t1
  Msgs = {p2, q2}
  InMsgs = {}
  Topics = {}
  NoMsg = NoMsg
  OutQoS <- MCOutQoS
  InQoS <- MCInQoS
  MaxPacketId = 2
  CleanSession = FALSE
  MaxQueue = 2
  KeepAlive = FALSE
  DropOverflow = FALSE
  Oversized = {}
  Duplicates = FALSE
  PowerCycles = TRUE
INVARIANTS
  AckedMeansAccepted
