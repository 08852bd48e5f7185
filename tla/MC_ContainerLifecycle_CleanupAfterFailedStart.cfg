CONSTANTS
  a = a
  b = b
  p1 = p1
  p2 = p2
  Ids <- MCIds
  Pids <- MCPids
  MaxClock <- MCMaxClock
  Foreign = TRUE
  Faults <- MCAllFaults
SYMMETRY MCSymmetry
SPECIFICATION Spec
PROPERTY CleanupAfterFailedStart
