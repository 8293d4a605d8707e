SPECIFICATION LZ4Spec
CONSTANTS
  MINMATCH = 2
  WILDCOPYLENGTH = 4
  LASTLITERALS = 2
  ML_MASK = 3
  RUN_MASK = 7
  SkipTrigger = 2
  BlockSlack = 8
  MaxSize = 9
  FreshLengths = {0, 5, 50}
  Periods = {1, 3, 5, 9}
  RepeatLengths = {0, 6, 60}
  CopyLengths = {0, 5, 20}
  TailLengths = {2, 6, 40}
  HashSize = 11
  Junk = Junk
  Hash <- MCHash
  Pages <- MCPages
INVARIANT LZ4TypeOK
INVARIANT PrefixEncoded
INVARIANT AssertionsHold
PROPERTY ImplementsCodec
\* The decoder returns.
CHECK_DEADLOCK FALSE
