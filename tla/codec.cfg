\* Every kind of packet, cut anywhere and followed by anything.
SPECIFICATION Spec
CONSTANTS
  Base = 5
  MaxLen = 2
  None = None
  Requests <- MCRequests
  Rooms <- MCRooms
  Stale <- MCStale
  AnyBytes <- MCAnyBytes
  MaxCount = 2
INVARIANTS
  LengthIsTrue
  PeerUnderstands
  DecodeInvertsEncode
  DecodedIsThere
CHECK_DEADLOCK FALSE
