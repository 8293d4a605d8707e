SPECIFICATION LZOSpec
CONSTANTS
  M2_MAX_OFFSET = 6
  M3_MAX_OFFSET = 30
  M3_MAX_LEN = 10
  M4_MAX_LEN = 8
  RunByte = 16
  FirstRunMax = 30
  ChunkSize = 70
  SkipShift = 3
  FreshLengths = {0, 5, 16, 26}
  Periods = {1, 3, 7, 20}
  RepeatLengths = {0, 13, 40, 61}
  MiddleLengths = {0, 1, 17, 25}
  CopyLengths = {0, 7, 20}
  TailLengths = {0, 2, 18, 22}
  HashSize = 13
  Hash <- MCHash
  Pages <- MCPages
INVARIANT LZOTypeOK
INVARIANT LowBitsFree
PROPERTY LZOImplementsCodec
\* The decoder returns.
CHECK_DEADLOCK FALSE
