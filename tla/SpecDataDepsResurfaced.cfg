\* Expected to be violated: see SpecClaims.DataDepsResurfaced.
CONSTANTS
  NoError = NoError
  Target <- MCTarget
  IsInputGraph <- MCIsInputGraph

SPECIFICATION Spec

INVARIANT DataDepsResurfaced

\* The run stops for good once the driver has reported.
CHECK_DEADLOCK FALSE
