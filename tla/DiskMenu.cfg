CONSTANTS
  None = None
  Disks = {"sda", "sdb"}
  SizeOf <- MCSizes
  ManualTables <- MCTables
  ManualMounts = {"/boot"}
  Mounted <- MCMounted
  MaxLayouts = 3
SPECIFICATION Spec
INVARIANTS
  EncryptionFits
  WholeGroupEncrypted
  SuggestionsAreEncryptedAsSelected
  VolumesFit
CHECK_DEADLOCK FALSE
