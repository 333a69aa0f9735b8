\* The guided script over all prompt sequences: modes, revisions, loaded files.
CONSTANTS
  d1 = d1
  d2 = d2
  u1 = u1
  u2 = u2
  None = None
  Disks <- MCDisks
  Users <- MCUsers
  Layouts <- MCLayouts
  LoadedConfigs <- MCLoadedConfigs
  Environments <- MCEnvironments
SPECIFICATION Spec
INVARIANTS
  InstallsWhatWasConfirmed
  OptionsMatchConfiguration
  SnapshotsNeverFollowTheHooks
PROPERTY
  ModifiesOnlyWithConsent
