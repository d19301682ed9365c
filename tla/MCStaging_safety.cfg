SPECIFICATION FairSpec
CONSTANTS
  Components <- MCComponents
  Platform = "unix"
  Workers = {1, 2}
  NoWorker = 0
  NoManifest = NoManifest
  Manifests <- MCManifests
  Newest <- MCNewest
  Length <- MCLength
  Hosts <- MCHosts
  Before <- MCBefore
  Now = 1
  MaxTrouble = 2
INVARIANTS
  TypeOK
PROPERTIES
  InstallsWhatItVerified
  InstallsWhatLoads
  LeftoversAreHarmless
  UpdateLands
