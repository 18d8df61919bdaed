CONSTANTS
  Apps = {gnuboy, smsplus}
  NoApp = none
  Blocks = 3
  FullPolls = 3
  LockPolls = 3
SPECIFICATION FairSpec
INVARIANTS
  ErasedUnlessFailed
PROPERTIES
  CalibratedWhenFull
  ButtonLeavesCharging
  UnlockResumesApp
  LockEnds
