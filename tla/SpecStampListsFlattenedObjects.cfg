\* Expected to be violated: see SpecClaims.StampListsFlattenedObjects.
CONSTANTS
  NoError = NoError
  Target <- MCTarget
  IsInputGraph <- MCIsInputGraph

SPECIFICATION Spec

INVARIANT StampListsFlattenedObjects

\* The run stops for good once the driver has reported.
CHECK_DEADLOCK FALSE
