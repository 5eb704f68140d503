\* The model reproduces the expected output of every unit test it covers,
\* and the step-level writers implement the atomic ones.
CONSTANTS
  NoError = NoError
  Target <- MCTarget
  IsInputGraph <- MCIsInputGraph

SPECIFICATION Spec

INVARIANT MatchesUnitTests

PROPERTY ImplementsAtomicWriter

\* The run stops for good once the driver has reported.
CHECK_DEADLOCK FALSE
