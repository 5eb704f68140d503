\* Expected to be violated: see SpecClaims.EmptyExtensionMeansNoExtension.
CONSTANTS
  NoError = NoError
  Target <- MCTarget
  IsInputGraph <- MCIsInputGraph

SPECIFICATION Spec

INVARIANT EmptyExtensionMeansNoExtension

\* The run stops for good once the driver has reported.
CHECK_DEADLOCK FALSE
