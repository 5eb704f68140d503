\* Precompiled-header compiles and the compiles that depend on them, one
\* label written in two toolchains, and the consistency of the written
\* ninja graph with both.
CONSTANTS
  NoError = NoError
  Target <- MCTarget
  IsInputGraph <- MCIsInputGraph

SPECIFICATION Spec

INVARIANT PrecompiledHeaderDeps
INVARIANT NoDanglingInputs
INVARIANT ToolchainOutputsDisjoint

\* The run stops for good once the driver has reported.
CHECK_DEADLOCK FALSE
