SPECIFICATION EnvelopeSpec
CONSTANTS
  Chunk <- MiB
  MinBucket <- Bucket
  TagBytes = 16
  MaxFile <- FileLimit
  MaxTransfer <- TransferLimit
  MaxMeta = 4096
  Sources <- Boundaries
  None = None
INVARIANTS SealingFits OpensToSource
CHECK_DEADLOCK FALSE
