\* 16-byte commands, READ LONG recovery on a disk, a bad block at LBA 256
\* (2^32 unscaled) just past two good blocks.
CONSTANTS
  ByteBase <- MCByteBase
  CdbSz = 16
  Fua = FALSE
  Dpo = FALSE
  Retries = 0
  CoeLevels = {2}
  Pdts = {0}
  MaxUas = 2
  MaxAborted = 2
  ReadLongDefInc = 8
  BlockSizes = {512}
  Starts = {254}
  MaxBlocks = 3
  MaxCalls = 1
  Bad = {256}
  Faults = {}
  Offsets = {8}
SPECIFICATION Spec
INVARIANT ReturnedBlocksValid
CHECK_DEADLOCK FALSE
