CONSTANTS
  Calls = {o1, o2}
  MaxCreds = 3
  MaxFaults = 1
SPECIFICATION Spec
CONSTRAINT FewRevisions
ACTION_CONSTRAINT AgainOnlyInHand
INVARIANTS NeverRevokedUnderfoot NoStrayAuthority DisconnectedIsClear
PROPERTIES PhasesAreRetryable
CHECK_DEADLOCK FALSE
