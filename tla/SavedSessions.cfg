SPECIFICATION Spec
CONSTANTS
  sda = sda
  sdb = sdb
  None = None
  Devices <- AllDevices
  Layouts <- AllLayouts
  Runs <- AllRuns
  Earlier <- AllEarlier
  Kernels <- OneKernel
  Keys <- MCKeys
  Plain = {packages}
  Uefi = TRUE
  MaxSessions = 2
  MaxEdits = 3
INVARIANTS
  CompleteWhenStarted
  SilentRerunsAreComplete
  ReloadKeepsTheAnswers
  LoadedFilesAreStable
  PasswordKeepsEncryption
CHECK_DEADLOCK FALSE
