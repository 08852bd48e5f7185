CONSTANTS
  Requests <- MCRequests
  Faults <- MCAllFaults
SPECIFICATION Spec
INVARIANT ReadOnlyHonoured
