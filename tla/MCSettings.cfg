CONSTANTS
  MaxChannel = 3
  DefChannel = 2
  MaxLevel = 15
  Step = 10
SPECIFICATION Spec
INVARIANTS
  StoredChannelStarts
  SettingsInEffect
PROPERTIES
  StoredAsShown
