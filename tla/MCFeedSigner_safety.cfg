SPECIFICATION FairSpec
CONSTANTS
  Channels = {"stable", "nightly"}
  Components = {"node", "app"}
  Listed <- MCListed
  Last <- MCLast
  Platforms = {"linux", "macos"}
  Variants = {"headless"}
  Ships <- MCShips
  Exempt <- MCExempt
  Build <- MCBuild
  Runner = "linux"
  Floors <- MCFloors
  Absent = Absent
  TTL = 4
  Period = 2
  MaxRun = 1
  MaxTrouble = 1
INVARIANTS ServedIsWhole HeartbeatKeepsItFresh NoBaseGoesBack
PROPERTY ReleaseReachesHost
