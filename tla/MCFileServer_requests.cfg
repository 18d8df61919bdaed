CONSTANTS
  NumSlots = 3
  Junk = junk
  Broken = broken
  Conns = {1, 2}
  Uploaders = {1, 2}
  Downloaders = {2}
  Listers = {2}
  Deleters = {1}
  Names = {"__upload_temp_file__.tmp", "b.gb"}
  TempName = "__upload_temp_file__.tmp"
  TempNames = {"__upload_temp_file__.tmp"}
  AppNames = {}
  short = short
  long = long
  Bodies = {short, long}
  BodyLen <- MCBodyLen
  MaxBlocks = 2
  PowerCuts = TRUE
SPECIFICATION FairSpec
INVARIANTS
  IndexComplete
  DownloadFaithful
  BlocksAccounted
PROPERTIES
  RequestsEnd
