\* Twenty-one layouts and machines, two starts of archinstall on each.
CONSTANTS
  sda = sda
  sdb = sdb
  usb = usb
  vg = vg
  old = old
  root = root
  home = home
  Names = {sda, sdb, usb, vg, old, root, home}
  Nowhere = Nowhere
  Scenarios <- MCScenarios
  MaxAttempts = 2
SPECIFICATION Spec
INVARIANTS
  MountedAsRequested
  ClosedAtHandover
  SoundLayoutsAreNotRefused
PROPERTIES
  KeptPartitionsUntouched
  SetupEnds
\* Every attempt may have ended, or wait for a volume for ever.
CHECK_DEADLOCK FALSE
