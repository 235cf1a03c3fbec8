------------------------------ MODULE MC_Driver ------------------------------
(***************************************************************************)
(* Model-checking instance of Driver.  opt.sectors is scaled from 128 to  *)
(* 2 blocks and MIN_RESERVED_SIZE from 8192 to 4096 bytes, so that a       *)
(* 4096-byte sector device shrinks a window on ENOMEM (1 block fits) and  *)
(* a 512-byte one does not (8 fit), as 8192 does against 128 blocks.      *)
(***************************************************************************)
EXTENDS Driver

MCByteBase == 4
\* A 4096-byte sector device followed by a 512-byte one, 6 sectors each
MCDevicesMixed == << [cap |-> 6, ssz |-> 4096], [cap |-> 6, ssz |-> 512] >>
\* Two devices with the same 4096-byte sector size
MCDevicesSameSize == << [cap |-> 4, ssz |-> 4096], [cap |-> 4, ssz |-> 4096] >>
\* A small device followed by a larger one
MCDevicesGrowing == << [cap |-> 2, ssz |-> 512], [cap |-> 4, ssz |-> 512] >>
\* One device
MCDevicesOne == << [cap |-> 4, ssz |-> 512] >>
\* The reserved sizes SG_GET_RESERVED_SIZE may report: none, and 4 blocks of
\* 4096 bytes
MCReservedSizes == {0, 16384}
\* Unit attention, ENOMEM and EIO: the faults the pass loop treats apart
MCFaults == {"ua", "enomem", "eio"}
\* No fault: every read succeeds
MCFaultsNone == {}
MCOffsets == {8}

\* The engine's error counters only count (no branch of sg_read reads
\* them), so bounding them cuts no control path off.
CountersBound == recoveredErrs + unrecoveredErrs + numRetries + readLongs <= 2
=============================================================================
