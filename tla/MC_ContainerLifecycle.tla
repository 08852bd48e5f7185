------------------------- MODULE MC_ContainerLifecycle -------------------------
(* Small instances of the CLI lifecycle for TLC.                           *)
EXTENDS ContainerLifecycle, TLC

CONSTANTS a, b, p1, p2

MCIds == {a, b}
MCPids == {p1, p2}
\* Four process starts: enough for two runs, an exit and a foreign process
\* (or a second container) taking the freed PID.
MCMaxClock == 4
MCAllFaults == FaultKinds
MCNoFaults == {}
MCSymmetry == Permutations(MCIds) \cup Permutations(MCPids)
=============================================================================
