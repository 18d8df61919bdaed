CONSTANTS
  PageLen = 2
  EraseLen = 4
  SectorLen = 4
  MaxLen = 3
SPECIFICATION Spec
INVARIANTS
  RenamedOnlyIfWritten
CHECK_DEADLOCK FALSE
