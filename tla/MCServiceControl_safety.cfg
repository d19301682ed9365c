SPECIFICATION FairSpec
CONSTANTS
  Platforms = {"windows", "linux", "macos"}
  Builds = {b1, b2}
  NoImage = none
  SettleAttempts = 3
  MaxTrouble = 3
PROPERTIES
  ActiveIsTrue
  NeverLeftDown
