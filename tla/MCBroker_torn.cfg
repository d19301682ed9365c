SPECIFICATION Spec
CONSTANTS
  Missing = Missing
  Empty = Empty
  Mixed = Mixed
  Platform = "unix"
  Consoles = {laptop, remote}
  Daemon = daemon
  Channels = {"stable", "nightly"}
  Default = "stable"
  Adopts = "nightly"
  Offers <- MCOffers
  FloorOf <- MCFloorOf
  Legacies = {0}
  Edits <- MCEdits
  Others = {}
  MaxCommands = 2
  MaxQuits = 0
INVARIANT
  ConfigStaysReadable
