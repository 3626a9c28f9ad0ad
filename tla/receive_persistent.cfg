\* Inbound messages on a persistent session, between subscribe() and unsubscribe().
SPECIFICATION Spec
CONSTANTS
  p0 = p0
  p1 = p1
  p2 = p2
  q2 = q2
  i0 = i0
  i1 = i1
  i2 = i2
  t1 = t1
  Msgs = {}
  InMsgs = {i0, i1, i2}
  Topics = {t1}
  NoMsg = NoMsg
  OutQoS <- MCOutQoS
  InQoS <- MCInQoS
  MaxPacketId = 1
  CleanSession = FALSE
  MaxQueue = 2
  KeepAlive = FALSE
  DropOverflow = FALSE
  Oversized = {}
  Duplicates = FALSE
  PowerCycles = FALSE
INVARIANTS
  DoneMeansDelivered
  HandshakeUnderway
  PacketIdsNonZero
PROPERTIES
  SubscriptionHonoured
  ImplementsDelivery
