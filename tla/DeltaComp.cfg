SPECIFICATION Spec
CONSTANTS
  BaseBits = 9
  LowBits = 3
  LogBases = 1
  ByteBits = 3
  CountBits = 3
  PageBytes = 8
  PageWords = 2
  InputPages = 4
  Traces <- MCTraces
  Garbage = Garbage
INVARIANT DeltaTypeOK
INVARIANT ScanFaithful
INVARIANT TopBasesBest
INVARIANT StreamExact
INVARIANT StreamDecodes
INVARIANT SizeExact
INVARIANT PagesSuffice
PROPERTY DeltaEnds
\* The program stops after the last group of pages.
CHECK_DEADLOCK FALSE
