\* One device whose every read succeeds: the while(1) loop re-reads the
\* first window for ever.
CONSTANTS
  ByteBase <- MCByteBase
  CdbSz = 10
  Fua = FALSE
  Dpo = FALSE
  Retries = 0
  CoeLevels = {0}
  Pdts = {0}
  MaxUas = 2
  MaxAborted = 2
  ReadLongDefInc = 8
  BlockSizes = {512}
  Starts = {0}
  MaxBlocks = 2
  MaxCalls = 1
  Bad = {3}
  Faults <- MCFaultsNone
  Offsets <- MCOffsets
  Devices <- MCDevicesOne
  Sectors = 2
  Start = 0
  DefBlockSize = 512
  MinReserved = 4096
  ReservedSizes <- MCReservedSizes
SPECIFICATION DSpec
CONSTRAINT CountersBound
CHECK_DEADLOCK FALSE
PROPERTIES PassCompletes
