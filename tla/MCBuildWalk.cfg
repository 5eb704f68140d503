\* The dependency walk and the link lines it gives, on four targets.
CONSTANTS
  NoError = NoError
  Target <- MCTarget
  IsInputGraph <- MCIsInputGraph

SPECIFICATION Spec

INVARIANT WalkMatchesReference

\* The run stops for good once the driver has reported.
CHECK_DEADLOCK FALSE
