\* Expected to be violated: see SpecClaims.NoEdgeForCollidingSources.
CONSTANTS
  NoError = NoError
  Target <- MCTarget
  IsInputGraph <- MCIsInputGraph

SPECIFICATION Spec

INVARIANT NoEdgeForCollidingSources

\* The run stops for good once the driver has reported.
CHECK_DEADLOCK FALSE
