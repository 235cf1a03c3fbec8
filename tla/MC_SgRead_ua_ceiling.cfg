\* A device that keeps reporting UNIT ATTENTION across two calls.
CONSTANTS
  ByteBase <- MCByteBase
  CdbSz = 10
  Fua = FALSE
  Dpo = FALSE
  Retries = 1
  CoeLevels = {0}
  Pdts = {0}
  MaxUas = 2
  MaxAborted = 2
  ReadLongDefInc = 8
  BlockSizes = {512}
  Starts = {1}
  MaxBlocks = 1
  MaxCalls = 2
  Bad = {}
  Faults = {"ua"}
  Offsets = {8}
SPECIFICATION Spec
INVARIANT CeilingsNonNegative
CHECK_DEADLOCK FALSE
