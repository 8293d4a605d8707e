SPECIFICATION MainSpec
CONSTANTS
  p1 = p1
  p2 = p2
  a = a
  b = b
  bad = bad
  NoPage = NoPage
  Uninit = Uninit
  Skipped = Skipped
  Corrupt = Corrupt
  Null = Null
  SlotSizes = {3}
  IntBits = 5
  LongBits = 7
  Kb = 4
  DefaultSlotSize = 3
  Pfn <- MCPfn
  Uid <- MCUid
  Data <- MCData
  CompressedSize <- MCCompressedSize
  Rejected <- MCRejected
  Traces <- MCTraces
  Replays <- MCReplays
  MetaFiles <- MCMetaFiles
  DataFiles <- MCDataFiles
  ReplayFiles <- MCReplayFiles
  ArgVectors <- MCArgVectors
INVARIANT LastDecides
INVARIANT StatusExplained
INVARIANT RestoredFromFile
PROPERTY RegionMeasures
PROPERTY ProgramEnds
\* The programs exit.
CHECK_DEADLOCK FALSE
