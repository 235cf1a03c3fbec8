------------------------------- MODULE Driver -------------------------------
(***************************************************************************)
(* The pass loop read_verify_device of src/sg_dd.c, composed with the      *)
(* read-recovery engine SgRead that it calls.  main calls it once per      *)
(* device named on the command line, in order; each call opens the        *)
(* device, reads its capacity, and walks windows of opt.sectors blocks     *)
(* from opt.start to opt.end, calling sg_read for each window inside a     *)
(* while(1) loop, with the ENOMEM shrink-and-retry of the code.            *)
(*                                                                         *)
(* The driver's globals persist from one device to the next: blk_sz (set   *)
(* from a device's capacity only when it differs) and opt.end (set from    *)
(* the first device's capacity only while it is 0).  The engine's globals  *)
(* (the ceilings, the counters) persist across every window and device.   *)
(* The engine runs with the flags the driver gives it: oflag, whose coe    *)
(* and retries are never set (0), and whose cdbsz is DEF_SCSI_CDBSZ.       *)
(***************************************************************************)
EXTENDS SgRead, Sequences

CONSTANTS
  Devices,        \* the devices named on the command line: [cap, ssz] records
  Sectors,        \* opt.sectors, the window length (-n, default 128)
  Start,          \* opt.start (--start, default 0)
  DefBlockSize,   \* DEF_BLOCK_SIZE, the initial blk_sz
  MinReserved,    \* MIN_RESERVED_SIZE
  ReservedSizes   \* what SG_GET_RESERVED_SIZE may report

ASSUME DriverAssumption ==
  /\ Devices \in Seq([cap : Nat, ssz : Nat \ {0}]) /\ Len(Devices) > 0
  /\ Sectors \in Nat \ {0} /\ Start \in Nat
  /\ DefBlockSize \in Nat \ {0}
  /\ MinReserved \in Nat \ {0} /\ ReservedSizes \subseteq Nat

VARIABLES
  dpc,            \* control point of main / read_verify_device
  dev,            \* index of the device being processed
  blkSz,          \* the global blk_sz
  bps,            \* stats->bytes_per_sector
  bufBytes,       \* bytes allocated for sector_data (bytes_to_process)
  optEnd,         \* the global opt.end
  sector, seek,   \* the for loop's sector and the read position seek
  stp,            \* sectors_to_process
  dres            \* res of read_verify_device

dvars == <<dpc, dev, blkSz, bps, bufBytes, optEnd, sector, seek, stp, dres>>
allVars == <<vars, dvars>>

DLabels == {"Open", "Window", "Call", "Wait", "Check", "PassEnd", "Done", "Exit"}

MaxOf(a, b) == IF a >= b THEN a ELSE b

DInit ==
  /\ Init
  /\ dpc = "Open" /\ dev = 1
  /\ blkSz = DefBlockSize /\ bps = DefBlockSize /\ bufBytes = 0
  /\ optEnd = 0 /\ sector = 0 /\ seek = 0 /\ stp = 0 /\ dres = "OK"

\* main moves to the next device once read_verify_device has returned.
NextDevice ==
  /\ dev' = dev + 1
  /\ dpc' = IF dev = Len(Devices) THEN "Done" ELSE "Open"

\* open_of fails: read_verify_device returns -outfd at once.
OpenFails ==
  /\ dpc = "Open"
  /\ dres' = "OTHER"
  /\ NextDevice
  /\ UNCHANGED <<blkSz, bps, bufBytes, optEnd, sector, seek, stp>>
  /\ UNCHANGED vars

\* Mutant: bytes_per_sector is left at DEF_BLOCK_SIZE when blk_sz changes.
SetSizesKeepBps(capOk, d) ==
  IF capOk /\ blkSz # d.ssz
  THEN blkSz' = d.ssz /\ bps' = DefBlockSize
  ELSE blkSz' = blkSz /\ bps' = DefBlockSize

\* bytes_per_sector starts at DEF_BLOCK_SIZE; blk_sz and bytes_per_sector
\* follow the capacity's block length only when it differs from blk_sz.
SetSizes(capOk, d) ==
  IF capOk /\ blkSz # d.ssz
  THEN blkSz' = d.ssz /\ bps' = d.ssz
  ELSE blkSz' = blkSz /\ bps' = DefBlockSize

\* The device is opened (its pdt from INQUIRY) and its capacity is read, or
\* the read capacity fails (out_num_sect = -1, which also stands for a
\* device that is not an sg device).  A capacity below opt.end ends the
\* process with exit(-2); otherwise opt.end is set if still 0, and an
\* opt.start past it ends the process too.  Then the window buffer of
\* opt.sectors * bytes_per_sector bytes is allocated and the single pass
\* starts at opt.start.
OpenDevice ==
  /\ dpc = "Open"
  /\ \E capOk \in BOOLEAN, p \in Pdts :
       LET numSect == IF capOk THEN Devices[dev].cap ELSE -1
           tooBig  == optEnd > numSect
           end     == IF optEnd = 0 THEN numSect ELSE optEnd
       IN  /\ SetSizes(capOk, Devices[dev])
           /\ pdt' = p
           /\ optEnd' = IF tooBig THEN optEnd ELSE end
           /\ IF tooBig \/ Start > end
              THEN /\ dpc' = "Exit"
                   /\ UNCHANGED <<bufBytes, sector, seek, stp, dres>>
              ELSE /\ bufBytes' = Sectors * bps'
                   /\ sector' = Start /\ seek' = Start /\ stp' = Sectors
                   /\ dres' = "OK"
                   /\ dpc' = "Window"
  /\ UNCHANGED dev
  /\ UNCHANGED <<pc, blocks, fromBlock, bs, xferred, lba, blks, retriesTmp,
                 ioAddr, res, ret, nl, buf, blksRead, result, coe, maxUas,
                 maxAborted, counters, overrun, calls>>

\* sectors_to_process clamped to the sectors left before opt.end
Clamped == IF sector + stp > optEnd THEN optEnd - sector ELSE stp

\* the clamp leaves no sector: break
NothingLeft == sector + stp > optEnd /\ optEnd - sector = 0

\* The for loop ends: sector passed opt.end, or no sector is left.
WindowEnd ==
  /\ dpc = "Window"
  /\ sector > optEnd \/ NothingLeft
  /\ stp' = IF sector <= optEnd THEN Clamped ELSE stp
  /\ dpc' = "PassEnd"
  /\ UNCHANGED <<dev, blkSz, bps, bufBytes, optEnd, sector, seek, dres>>
  /\ UNCHANGED vars

\* Mutant: the window is not clamped to opt.end.
WindowStartNoClamp ==
  /\ dpc = "Window"
  /\ sector <= optEnd
  /\ dpc' = "Call"
  /\ UNCHANGED <<dev, blkSz, bps, bufBytes, optEnd, sector, seek, stp, dres>>
  /\ UNCHANGED vars

\* A window of sectors_to_process blocks is to be read.
WindowStart ==
  /\ dpc = "Window"
  /\ sector <= optEnd /\ ~NothingLeft
  /\ stp' = Clamped
  /\ dpc' = "Call"
  /\ UNCHANGED <<dev, blkSz, bps, bufBytes, optEnd, sector, seek, dres>>
  /\ UNCHANGED vars

\* res = sg_read(outfd, sector_data, sectors_to_process, seek, blk_sz,
\* &oflag, &diop, &blks_readp) with blks_readp = 0.
ReadCall ==
  /\ dpc = "Call" /\ pc = "Idle"
  /\ blocks' = stp /\ fromBlock' = seek /\ bs' = blkSz
  /\ xferred' = 0 /\ lba' = seek /\ blks' = stp
  /\ retriesTmp' = Retries /\ ret' = "OK" /\ blksRead' = 0
  /\ buf' = [i \in Idx |-> Stale]
  /\ calls' = 1
  /\ pc' = "Loop"
  /\ dpc' = "Wait"
  /\ UNCHANGED <<ioAddr, res, nl, result, coe, pdt, maxUas, maxAborted,
                 counters, overrun>>
  /\ UNCHANGED <<dev, blkSz, bps, bufBytes, optEnd, sector, seek, stp, dres>>

\* sg_read has returned its result.
ReadReturned ==
  /\ dpc = "Wait" /\ pc = "Idle"
  /\ dres' = result
  /\ dpc' = "Check"
  /\ UNCHANGED <<dev, blkSz, bps, bufBytes, optEnd, sector, seek, stp>>
  /\ UNCHANGED vars

\* The for loop's step after the while loop: seek += sectors_to_process.
NextWindow(n) ==
  /\ seek' = seek + n
  /\ sector' = sector + Sectors
  /\ dpc' = "Window"

\* first = 0; the while(1) loop reads the same window again.
ReadAgain ==
  /\ dpc = "Check" /\ dres = "OK"
  /\ dpc' = "Call"
  /\ UNCHANGED <<dev, blkSz, bps, bufBytes, optEnd, sector, seek, stp, dres>>
  /\ UNCHANGED vars

\* if (res) break: a failure, or ENOMEM whose SG_GET_RESERVED_SIZE ioctl
\* fails, leaves the while loop with res as it is.
WindowFailed ==
  /\ dpc = "Check" /\ dres # "OK"
  /\ NextWindow(stp)
  /\ UNCHANGED <<dev, blkSz, bps, bufBytes, optEnd, stp, dres>>
  /\ UNCHANGED vars



\* ENOMEM: buf_sz from SG_GET_RESERVED_SIZE, at least MIN_RESERVED_SIZE;
\* when fewer blocks fit, sectors_to_process shrinks and sg_read is called
\* again with &iflag.  iflag.cdbsz is 0, so that call always returns
\* SG_LIB_SYNTAX_ERROR without a transfer (SgReadProofs!BadCdbSizeIsSyntax).
\* res is then non-zero and the while loop is left.
Shrink ==
  /\ dpc = "Check" /\ dres = "ENOMEM"
  /\ \E rs \in ReservedSizes :
       LET per == (MaxOf(rs, MinReserved) + blkSz - 1) \div blkSz IN
       /\ stp' = IF per < stp THEN per ELSE stp
       /\ dres' = IF per < stp THEN "SYNTAX" ELSE dres
       /\ NextWindow(stp')
  /\ UNCHANGED <<dev, blkSz, bps, bufBytes, optEnd>>
  /\ UNCHANGED vars

\* Mutant: main stops at the last device without checking it.
PassEndAlwaysNext ==
  /\ dpc = "PassEnd"
  /\ dev' = dev + 1 /\ dpc' = "Open"
  /\ UNCHANGED <<blkSz, bps, bufBytes, optEnd, sector, seek, stp, dres>>
  /\ UNCHANGED vars

\* After the single pass (opt.passes = 1; bRetryerror is never set, so the
\* retry branch is dead) the device is closed and main moves on.
PassEnd ==
  /\ dpc = "PassEnd"
  /\ NextDevice
  /\ UNCHANGED <<blkSz, bps, bufBytes, optEnd, sector, seek, stp, dres>>
  /\ UNCHANGED vars

DriverStep ==
  \/ OpenFails \/ OpenDevice \/ WindowEnd \/ WindowStart \/ ReadCall
  \/ ReadReturned \/ ReadAgain \/ WindowFailed \/ Shrink \/ PassEnd

\* A step of the sg_read call in progress
EngineStep == Engine /\ UNCHANGED dvars

DNext == DriverStep \/ EngineStep

\* Both run on the one thread of the process: every enabled step is taken.
DSpec == DInit /\ [][DNext]_allVars /\ WF_allVars(DriverStep) /\ WF_allVars(EngineStep)

-----------------------------------------------------------------------------
(* Properties *)

DTypeOK ==
  /\ dpc \in DLabels /\ dev \in 1..(Len(Devices) + 1)
  /\ blkSz \in Nat \ {0} /\ bps \in Nat \ {0} /\ bufBytes \in Nat
  /\ optEnd \in Int /\ sector \in Nat /\ seek \in Nat /\ stp \in Nat
  /\ dres \in Results

\* Every window the driver hands to sg_read is non-empty and lies inside
\* the device: the clamp to opt.end and the ENOMEM shrink keep the read
\* within the sectors the capacity query reported.
ReadWithinDevice ==
  dpc = "Call" => 0 < stp /\ seek + stp <= Devices[dev].cap

\* Every window sg_read transfers fits the sector_data buffer allocated for
\* the device: sectors_to_process * blk_sz <= bytes_to_process.
WindowFitsBuffer == dpc = "Call" => stp * blkSz <= bufBytes

\* The read position seek and the loop's sector stay equal, so that the
\* window read is the window the loop (and its progress report) is at.
SeekTracksSector == dpc = "Call" => seek = sector

\* Each device's pass runs to the end of that device (spec section 1:
\* every addressable sector is read).
PassCoversDevice == dpc = "Window" => optEnd = Devices[dev].cap

\* The run over the devices ends.
PassCompletes == <>(dpc \in {"Done", "Exit"})

=============================================================================
