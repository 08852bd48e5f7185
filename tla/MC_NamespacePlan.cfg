CONSTANTS
  Kinds <- MCKinds
SPECIFICATION Spec
\* Resolution ends: the parent goes on to start the child.
CHECK_DEADLOCK FALSE
INVARIANT SandboxResolvesAsPlanned
