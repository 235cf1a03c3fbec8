\* 10-byte commands (the program's default) on a device larger than the
\* 4-byte start-block field can address: a read at LBA 256 (2^32 unscaled).
CONSTANTS
  ByteBase <- MCByteBase
  CdbSz = 10
  Fua = FALSE
  Dpo = FALSE
  Retries = 0
  CoeLevels = {0}
  Pdts = {0}
  MaxUas = 2
  MaxAborted = 2
  ReadLongDefInc = 8
  BlockSizes = {512}
  Starts = {256}
  MaxBlocks = 2
  MaxCalls = 1
  Bad = {}
  Faults = {}
  Offsets = {8}
SPECIFICATION Spec
INVARIANT ReturnedBlocksValid
CHECK_DEADLOCK FALSE
