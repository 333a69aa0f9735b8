\* Two starts of archinstall on one live medium.
CONSTANTS
  None = None
  Requests <- MCRequests
  MaxAttempts = 2
SPECIFICATION Spec
INVARIANTS
  TrustedAtTheEnd
  UpgradeMeetsTrustedRepositories
  ImageIsCurrent
  GrantRevoked
  HomeRepaired
PROPERTY
  UnattendedEnds
\* Both attempts may have ended.
CHECK_DEADLOCK FALSE
