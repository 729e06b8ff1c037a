\* Two parameters in two chunks, a lossy bus, a queue of two requests.
SPECIFICATION Spec
CONSTANTS
  Width <- TwoWidth
  Keys <- TwoKeys
  Writable = {1}
  ChunkMax = 2
  QueueMax = 2
  Lossy = TRUE
  MaxTimeouts = 1
  AutoModes = {TRUE, FALSE}
  MaxOps = 2
  MaxSlots = 1
CHECK_DEADLOCK FALSE
INVARIANTS
  TypeOK
  Paced
  AccountedFor
PROPERTIES
  ReadsWholeTable
