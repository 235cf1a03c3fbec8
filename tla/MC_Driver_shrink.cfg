\* ENOMEM on a 4096-byte sector device: the window shrinks to 1 block
\* and seek advances by 1 while sector advances by opt.sectors.
CONSTANTS
  ByteBase <- MCByteBase
  CdbSz = 10
  Fua = FALSE
  Dpo = FALSE
  Retries = 0
  CoeLevels = {0}
  Pdts = {0}
  MaxUas = 2
  MaxAborted = 2
  ReadLongDefInc = 8
  BlockSizes = {512}
  Starts = {0}
  MaxBlocks = 2
  MaxCalls = 1
  Bad = {3}
  Faults <- MCFaults
  Offsets <- MCOffsets
  Devices <- MCDevicesMixed
  Sectors = 2
  Start = 0
  DefBlockSize = 512
  MinReserved = 4096
  ReservedSizes <- MCReservedSizes
SPECIFICATION DSpec
CONSTRAINT CountersBound
CHECK_DEADLOCK FALSE
INVARIANTS SeekTracksSector
