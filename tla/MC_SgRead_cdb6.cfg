\* 6-byte commands at the top of their 21-bit (here 3-bit) address space,
\* so that a read that would pass the last addressable block fails to build
\* (SYNTAX), and a block size too small for READ LONG.
CONSTANTS
  ByteBase <- MCByteBase
  CdbSz = 6
  Fua = FALSE
  Dpo = FALSE
  Retries = 1
  CoeLevels = {0, 2}
  Pdts = {0}
  MaxUas = 2
  MaxAborted = 2
  ReadLongDefInc = 8
  BlockSizes = {16, 512}
  Starts = {6}
  MaxBlocks = 3
  MaxCalls = 2
  Bad = {7}
  Faults = {"other"}
  Offsets = {8}
SPECIFICATION Spec
INVARIANTS  ReturnedBlocksValid
 
CHECK_DEADLOCK FALSE
