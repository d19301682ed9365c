SPECIFICATION FairSpec
CONSTANTS
  Platforms = {"windows", "linux", "macos"}
  Operators = {console}
  Drivers = {driver}
  Daemon = daemon
  Roots <- OneLooseLeg
  MaxCommands = 2
  MaxFaults = 1
  MaxKills = 1
  MaxOutside = 1
INVARIANTS
  OptOutNotFought
PROPERTIES
  RemovalIsRecorded
  NeverRegistersFromLooseRoot
  OptOutWithdrawnForCause
  Healed
