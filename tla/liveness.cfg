\* Progress on clean sessions: keep alive, a dropped oversized QoS 0 flood, a QoS 2 message.
SPECIFICATION FairSpec
CONSTANTS
  p0 = p0
  p1 = p1
  p2 = p2
  q2 = q2
  i0 = i0
  i1 = i1
  i2 = i2
  t1 = t1
  Msgs = {}
  InMsgs = {i0, i2}
  Topics = {t1}
  NoMsg = NoMsg
  OutQoS <- MCOutQoS
  InQoS <- MCInQoS
  MaxPacketId = 1
  CleanSession = TRUE
  MaxQueue = 1
  KeepAlive = TRUE
  DropOverflow = TRUE
  Oversized = {i0}
  Duplicates = FALSE
  PowerCycles = FALSE
PROPERTIES
  MethodReturns
  DeadLinkFound
  InboundCompletes
  ImplementsContract
