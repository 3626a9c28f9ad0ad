\* Streams of up to three bytes, given up, failed and filled up.
SPECIFICATION Spec
CONSTANTS
  a = a
  b = b
  t = t
  u = u
  StreamTopics = {t, u}
  Sizes = {0, 1, 3}
  Chunks <- MCChunks
  Blank = Blank
  None = None
INVARIANTS
  StreamInsideBlock
  PublishedAsWritten
  OneBlock
