CONSTANTS
  Faults <- MCNoFaults
  UserNsEntries <- MCEmptyUserNs
SPECIFICATION Spec
CHECK_DEADLOCK FALSE
INVARIANT NewUsernsMapped
