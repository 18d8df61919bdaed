CONSTANTS
  NumSlots = 3
  Junk = junk
  Broken = broken
  Conns = {1, 2}
  Uploaders = {1}
  Downloaders = {}
  Listers = {}
  Deleters = {2}
  Names = {"__upload_temp_file__.tmp", "__x.tmp", "a.app", "b.gb"}
  TempName = "__upload_temp_file__.tmp"
  TempNames = {"__upload_temp_file__.tmp", "__x.tmp"}
  AppNames = {"a.app"}
  short = short
  long = long
  Bodies = {short, long}
  BodyLen <- MCBodyLen
  MaxBlocks = 2
  PowerCuts = TRUE
SPECIFICATION Spec
INVARIANTS
  PublishedComplete
  NvsHasFile
PROPERTIES
  CleanAfterBoot
