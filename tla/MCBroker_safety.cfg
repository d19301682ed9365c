SPECIFICATION FairSpec
CONSTANTS
  Missing = Missing
  Empty = Empty
  Mixed = Mixed
  Platform = "windows"
  Consoles = {console}
  Daemon = daemon
  Channels = {"stable", "nightly"}
  Default = "stable"
  Adopts = "nightly"
  Offers <- MCOffers
  FloorOf <- MCFloorOf
  Legacies = {8}
  Edits <- MCEdits
  Others = {"run", "dry", "rollback"}
  MaxCommands = 2
  MaxQuits = 1
PROPERTIES
  MarksOnlyAdvance
  RollbackKeepsFloor
  PauseHonored
  MirrorCatchesUp
