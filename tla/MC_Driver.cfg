\* read_verify_device over a 4096-byte and a 512-byte device, with the
\* engine as main configures it (oflag: cdbsz 10, coe 0, retries 0).
CONSTANTS
  ByteBase <- MCByteBase
  CdbSz = 10
  Fua = FALSE
  Dpo = FALSE
  Retries = 0
  CoeLevels = {0}
  Pdts = {0}
  MaxUas = 2
  MaxAborted = 2
  ReadLongDefInc = 8
  BlockSizes = {512}
  Starts = {0}
  MaxBlocks = 2
  MaxCalls = 1
  Bad = {3}
  Faults <- MCFaults
  Offsets <- MCOffsets
  Devices <- MCDevicesMixed
  Sectors = 2
  Start = 1
  DefBlockSize = 512
  MinReserved = 4096
  ReservedSizes <- MCReservedSizes
SPECIFICATION DSpec
CONSTRAINT CountersBound
INVARIANTS ReadWithinDevice WindowFitsBuffer DTypeOK
CHECK_DEADLOCK FALSE
