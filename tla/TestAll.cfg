SPECIFICATION Spec
CONSTANTS
  Scripts <- MCScripts
INVARIANT StartedOrReported
PROPERTY PresentScriptsRun
PROPERTY ShellEnds
\* The shell stops after its message, the scripts when they end.
CHECK_DEADLOCK FALSE
