SPECIFICATION PageSpec
CONSTANTS
  NumSlots = 3
  Junk = Junk
  Names <- MCNames
  Temp <- MCTemp
  NameSize = 7
  MaxClicks = 4
INVARIANT TableTrue
PROPERTY UploadSettles
CHECK_DEADLOCK FALSE
