SPECIFICATION Spec
CONSTANTS
  NoBuffer = NoBuffer
  Unread = Unread
  MaxCalls = 3
  MetaFiles <- MCMetaFiles
  DataFiles <- MCDataFiles
INVARIANT LoadExact
INVARIANT NothingLost
PROPERTY LoadReturns
\* A reader that has been destroyed, or whose program has exited, does nothing.
CHECK_DEADLOCK FALSE
