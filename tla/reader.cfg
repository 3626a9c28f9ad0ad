\* Packets that fit exactly, do not fit, or are none, cut into any portions.
SPECIFICATION FairSpec
CONSTANTS
  Base = 3
  MaxLen = 2
  None = None
  Streams <- MCStreams
  BufSizes = {2, 6}
INVARIANTS
  ReaderTypeOK
  InStep
  InsideBuffer
  BufferHoldsPacket
PROPERTIES
  ImplementsChannel
  ReadReturns
CHECK_DEADLOCK FALSE
