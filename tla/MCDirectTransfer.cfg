CONSTANTS
  Total = 6
  HeaderBytes = 1
  RecordBytes = 3
  Room = 2
  Window = 3
  AckEvery = 2
  HighWater = 1
  LowWater = 1
SPECIFICATION FairSpec
INVARIANTS IInv HonestTransfers
PROPERTIES Settles DeliveryPromise
