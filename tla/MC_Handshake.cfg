CONSTANTS
  Faults <- MCAllFaults
  UserNsEntries <- MCAgreedUserNs
SPECIFICATION Spec
CHECK_DEADLOCK FALSE
INVARIANTS
  IdMapsInUserns
  SetupBeforeContinue
  NewUsernsMapped
  InStep
  HooksBeforeExec
PROPERTIES
  HooksWhileChildWaits
  Terminates
  ImplementsStart
