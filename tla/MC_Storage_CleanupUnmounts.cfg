CONSTANTS
  Requests <- MCRequests
  Faults <- MCNoFaults
SPECIFICATION Spec
PROPERTY CleanupUnmounts
