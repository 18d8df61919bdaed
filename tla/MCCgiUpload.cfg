CONSTANTS
  PageLen = 3
  EraseLen = 6
  SectorLen = 12
  MaxLen = 14
SPECIFICATION FairSpec
INVARIANTS
  RenamedIsBody
  FlashErrorIsDeviceFault
PROPERTIES
  CallReturns
  UploadIsAtomic
CHECK_DEADLOCK FALSE
