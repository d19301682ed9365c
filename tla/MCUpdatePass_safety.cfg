SPECIFICATION Spec
CONSTANTS
  Components <- MCComponents
  Beacon <- beacon
  Evidence <- MCEvidence
  MaxWidth = 2
  Width <- MCWidth
  Services = {"dig-node"}
  Native = {"dig-node"}
  Manifests <- MCManifests
  Foreign <- MCForeign
  Newest <- MCNewest
  NoManifest = NoManifest
  Times = {1}
  Mute <- MCMute
  Unloadable = {"dig-app"}
  InitDisk <- MCFreshDisk
  InitRecorded <- MCFreshRecorded
  MaxFaults = 2
  MaxCrashes = 1
INVARIANTS
  RollbackRestoresSet
  InstalledIsWhole
  DeferralLosesNothing
  LeftAlone
  ServicesComeBack
  RestoreNeverRefused
  PrimaryAgedTruly
PROPERTIES
  AdvanceMeansApplied
  NeverBelowFloor
  BeaconLast
  OverrideLeavesNoTrace
