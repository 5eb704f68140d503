\* Expected to be violated: see SpecClaims.PchEdgesAfterCompileEdges.
CONSTANTS
  NoError = NoError
  Target <- MCTarget
  IsInputGraph <- MCIsInputGraph

SPECIFICATION Spec

INVARIANT PchEdgesAfterCompileEdges

\* The run stops for good once the driver has reported.
CHECK_DEADLOCK FALSE
