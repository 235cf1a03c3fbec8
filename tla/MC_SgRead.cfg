\* The engine as read_verify_device configures it (10-byte commands) with
\* every continue-on-error level, a disk and an MMC device, one bad block.
CONSTANTS
  ByteBase <- MCByteBase
  CdbSz = 10
  Fua = FALSE
  Dpo = FALSE
  Retries = 1
  CoeLevels = {0, 1, 2}
  Pdts = {0, 5}
  MaxUas = 2
  MaxAborted = 2
  ReadLongDefInc = 8
  BlockSizes = {512}
  Starts = {1}
  MaxBlocks = 3
  MaxCalls = 2
  Bad = {2}
  Faults <- MCFaults
  Offsets <- MCOffsets
SPECIFICATION Spec
INVARIANTS TypeOK ReturnedBlocksValid NoOverrun 
PROPERTIES Termination ImplementsContract 
CHECK_DEADLOCK FALSE
