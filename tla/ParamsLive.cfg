\* Two single registers on a bus that loses nothing, with late answers.
SPECIFICATION FairSpec
CONSTANTS
  Width <- NarrowWidth
  Keys <- TwoKeys
  Writable = {1}
  ChunkMax = 2
  QueueMax = 3
  Lossy = FALSE
  MaxTimeouts = 1
  AutoModes = {FALSE}
  MaxOps = 2
  MaxSlots = 0
CHECK_DEADLOCK FALSE
PROPERTIES
  TableReadEnds
  Refreshed
