SPECIFICATION Spec
CONSTANTS
  Components <- MCComponents
  Beacon <- beacon
  Evidence <- MCEvidence
  MaxWidth = 2
  Width <- MCWidth
  Services = {"dig-node"}
  Native = {"dig-node"}
  Manifests <- MCManifests
  Foreign = {}
  Newest <- MCNewest
  NoManifest = NoManifest
  Times = {1}
  Mute <- MCMute
  Unloadable = {"dig-app"}
  InitDisk <- MCInitDisk
  InitRecorded <- MCInitRecorded
  MaxFaults = 2
  MaxCrashes = 1
INVARIANT
  TargetNeverMissing
