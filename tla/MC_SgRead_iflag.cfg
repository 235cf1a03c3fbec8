\* The engine with the flags of the ENOMEM retry of read_verify_device:
\* iflag, all zero (cdbsz 0, coe 0), over block sizes and starts.
CONSTANTS
  ByteBase <- MCByteBase
  CdbSz = 0
  Fua = FALSE
  Dpo = FALSE
  Retries = 1
  CoeLevels = {0, 1}
  Pdts = {0, 5}
  MaxUas = 2
  MaxAborted = 2
  ReadLongDefInc = 8
  BlockSizes = {512, 4096}
  Starts = {0, 1}
  MaxBlocks = 3
  MaxCalls = 3
  Bad = {1}
  Faults <- MCFaults
  Offsets <- MCOffsets
SPECIFICATION Spec
INVARIANTS BadSizeIsSyntax

CHECK_DEADLOCK FALSE
