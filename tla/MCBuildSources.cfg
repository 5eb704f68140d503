\* Source classification, duplicate-object detection and the shared
\* failure state, over every pair of source lists.
CONSTANTS
  NoError = NoError
  Target <- MCTarget
  IsInputGraph <- MCIsInputGraph

SPECIFICATION Spec

INVARIANT TypeOK
INVARIANT FailureIffCollision

PROPERTY AllTargetsWritten

\* The run stops for good once the driver has reported.
CHECK_DEADLOCK FALSE
