\* Expected to be violated: see SpecClaims.UniqueOutputPaths.
CONSTANTS
  NoError = NoError
  Target <- MCTarget
  IsInputGraph <- MCIsInputGraph

SPECIFICATION Spec

INVARIANT UniqueOutputPaths

\* The run stops for good once the driver has reported.
CHECK_DEADLOCK FALSE
