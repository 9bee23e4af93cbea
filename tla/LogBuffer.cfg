SPECIFICATION LiveSpec
CONSTANTS
  MaxBatch = 2
  PendingBatches = 2
  ChannelSize = 2
  MaxLines = 12
INVARIANTS
  TypeOK
  NothingUnaccounted
PROPERTIES
  GapsAreReported
  Drains
