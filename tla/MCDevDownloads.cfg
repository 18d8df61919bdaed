CONSTANTS
  BufSize = 8
  FlashLen = 12
  Chunk = 3
  MaxPrinted = 25
  Sizes = {0, 1, 3, 4, 6, 12, 13}
  Offs = {0, 1, 3, 4, 12}
SPECIFICATION Spec
INVARIANTS
  SendsUpToSize
PROPERTIES
  DownloadsEnd
  LogIsTransferred
CHECK_DEADLOCK FALSE
