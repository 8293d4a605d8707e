SPECIFICATION Spec
CONSTANTS
  p1 = p1
  p2 = p2
  u1 = u1
  a = a
  b = b
  oversize = oversize
  bad = bad
  NoPage = NoPage
  Uninit = Uninit
  Skipped = Skipped
  Corrupt = Corrupt
  SlotSizes = {0, 2, 3}
  Pfn <- MCPfn
  Uid <- MCUid
  Data <- MCData
  CompressedSize <- MCCompressedSize
  Rejected <- MCRejected
  Traces <- MCTraces
  Replays <- MCReplays
INVARIANT EveryPageStored
\* The program stops after the last record or on an error.
CHECK_DEADLOCK FALSE
