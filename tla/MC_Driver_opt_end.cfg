\* A 2-sector device followed by a 4-sector one: opt.end keeps the first
\* device's capacity.
CONSTANTS
  ByteBase <- MCByteBase
  CdbSz = 10
  Fua = FALSE
  Dpo = FALSE
  Retries = 0
  CoeLevels = {0}
  Pdts = {0}
  MaxUas = 2
  MaxAborted = 2
  ReadLongDefInc = 8
  BlockSizes = {512}
  Starts = {0}
  MaxBlocks = 2
  MaxCalls = 1
  Bad = {3}
  Faults <- MCFaults
  Offsets <- MCOffsets
  Devices <- MCDevicesGrowing
  Sectors = 2
  Start = 0
  DefBlockSize = 512
  MinReserved = 4096
  ReservedSizes <- MCReservedSizes
SPECIFICATION DSpec
CONSTRAINT CountersBound
CHECK_DEADLOCK FALSE
INVARIANTS PassCoversDevice
