CONSTANTS
  Deps <- MCDeps
  Home <- MCHome
  MaxVersions = 1
  MaxPushes = 1
  MaxCrashes = 1
SPECIFICATION Spec
INVARIANTS
  LockFollowsManifest
  LockTruthful
  NoLostPublish
PROPERTIES
  BuildMatchesLock
