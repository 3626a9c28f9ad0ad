\* A QoS 2 message is redelivered to the callback after a reconnect.
SPECIFICATION Spec
CONSTANTS
  p0 = p0
  p1 = p1
  p2 = p2
  q2 = q2
  i0 = i0
  i1 = i1
  i2 = i2
  t1 = t1
  Msgs = {}
  InMsgs = {i2}
  Topics = {t1}
  NoMsg = NoMsg
  OutQoS <- MCOutQoS
  InQoS <- MCInQoS
  MaxPacketId = 2
  CleanSession = FALSE
  MaxQueue = 2
  KeepAlive = FALSE
  DropOverflow = FALSE
  Oversized = {}
  Duplicates = FALSE
  PowerCycles = FALSE
INVARIANTS
  QoS2DeliveredOnce
