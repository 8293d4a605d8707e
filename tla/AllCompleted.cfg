SPECIFICATION Spec
CONSTANTS
  Scripts <- MCScripts
INVARIANT AllCompleted
\* The shell stops after its message, the scripts when they end.
CHECK_DEADLOCK FALSE
