\* Expected to be violated: see SpecClaims.UniqueObjectInputs.
CONSTANTS
  NoError = NoError
  Target <- MCTarget
  IsInputGraph <- MCIsInputGraph

SPECIFICATION Spec

INVARIANT UniqueObjectInputs

\* The run stops for good once the driver has reported.
CHECK_DEADLOCK FALSE
