\* Dependency flattening, absorption and edge-graph ordering over every
\* three-target graph.
CONSTANTS
  NoError = NoError
  Target <- MCTarget
  IsInputGraph <- MCIsInputGraph

SPECIFICATION Spec

INVARIANT WalkMatchesReference
INVARIANT ArchiveAbsorption
INVARIANT DataDepsOrdered
INVARIANT NoDanglingInputs


\* The run stops for good once the driver has reported.
CHECK_DEADLOCK FALSE
