------------------------------- MODULE SgRead -------------------------------
(***************************************************************************)
(* The block read-recovery engine of src/sg_dd.c: sg_read_low (one SG_IO   *)
(* READ and the classification of its sense data) and sg_read (the loop    *)
(* that turns fallible transfers into one logical read of `blocks` blocks  *)
(* from `from_block`, with retries, the re-read of the blocks before a     *)
(* medium error, and zero-fill or READ LONG recovery of the bad block      *)
(* under continue-on-error).                                               *)
(*                                                                         *)
(* The caller issues calls one after the other (at most MaxCalls); the     *)
(* process-wide state of the code (the unit-attention and aborted-command *)
(* ceilings, the error counters, read_long_blk_inc and ifp->coe) persists  *)
(* across calls.  The device is an adversary restricted only by its media: *)
(* a range holding no block of Bad reads clean or recovered, a range       *)
(* holding one may fail with a medium error, and any command may meet one  *)
(* of the transient conditions in Faults.                                  *)
(*                                                                         *)
(* The buffer holds, per block, Stale (nothing this call read), Zero, or   *)
(* the LBA whose data the device put there (by READ or by READ LONG).      *)
(***************************************************************************)
EXTENDS Integers, Cdb

CONSTANTS
  CdbSz,          \* ifp->cdbsz
  Fua, Dpo,       \* ifp->fua, ifp->dpo
  Retries,        \* ifp->retries: retries_tmp at the start of each call
  CoeLevels,      \* possible values of ifp->coe when the session starts
  Pdts,           \* possible peripheral device types (ifp->pdt)
  MaxUas,         \* MAX_UNIT_ATTENTIONS, the initial max_uas
  MaxAborted,     \* MAX_ABORTED_CMDS, the initial max_aborted
  ReadLongDefInc, \* READ_LONG_DEF_BLK_INC, the initial read_long_blk_inc
  BlockSizes,     \* the bs arguments a caller passes
  Starts,         \* the from_block arguments a caller passes
  MaxBlocks,      \* the largest blocks argument (size of the buffer)
  MaxCalls,       \* bound on the number of calls of sg_read
  Bad,            \* the unreadable LBAs of the medium
  Faults,         \* the transient conditions the device may report
  Offsets         \* the length offsets a READ LONG may report with ILI

ASSUME ConstantsAssumption ==
  /\ CdbSz \in Int /\ Fua \in BOOLEAN /\ Dpo \in BOOLEAN
  /\ Retries \in Nat
  /\ CoeLevels \subseteq Nat /\ CoeLevels # {}
  /\ Pdts \subseteq Nat /\ Pdts # {}
  /\ MaxUas \in Int /\ MaxAborted \in Int /\ ReadLongDefInc \in Int
  /\ BlockSizes \subseteq Nat \ {0} /\ BlockSizes # {}
  /\ Starts \subseteq Nat /\ Starts # {}
  /\ MaxBlocks \in Nat \ {0} /\ MaxCalls \in Nat
  /\ Bad \subseteq Nat
  /\ Faults \subseteq {"ua", "aborted", "not_ready", "other", "illegal",
                       "enomem", "eio"}
  /\ Offsets \subseteq Int

VARIABLES
  pc,              \* control point of sg_read; "Idle" between calls
  blocks, fromBlock, bs,   \* arguments of the current call
  xferred, lba, blks,      \* the loop's locals
  retriesTmp,      \* retries_tmp
  ioAddr,          \* io_addr
  res,             \* the value sg_read_low last returned
  ret,             \* ret
  nl,              \* nl, the corrected READ LONG length
  buf,             \* the caller's buffer
  blksRead,        \* *blks_readp
  result,          \* the value the last call returned
  coe, pdt,        \* ifp->coe, ifp->pdt
  maxUas, maxAborted,      \* process-wide ceilings
  recoveredErrs, unrecoveredErrs, numRetries, readLongs,
  readLongBlkInc,  \* read_long_blk_inc
  overrun,         \* ghost: a write fell outside the caller's blocks
  calls            \* ghost: calls made so far

vars == <<pc, blocks, fromBlock, bs, xferred, lba, blks, retriesTmp, ioAddr,
          res, ret, nl, buf, blksRead, result, coe, pdt, maxUas, maxAborted,
          recoveredErrs, unrecoveredErrs, numRetries, readLongs,
          readLongBlkInc, overrun, calls>>

-----------------------------------------------------------------------------
(* Values *)

Idx == 0..(MaxBlocks - 1)
Stale == [src |-> "stale", lba |-> 0]
Zero == [src |-> "zero", lba |-> 0]
Data == [src : {"dev", "long"}, lba : Nat]
Contents == [src : {"stale", "zero", "dev", "long"}, lba : Nat]

\* Return values of sg_read_low and sg_read (0 is "OK", -1 "EIO", -2 "ENOMEM")
Results == {"OK", "SYNTAX", "UA", "ABORTED", "MEDIUM_INFO", "MEDIUM",
            "NOT_READY", "OTHER", "ENOMEM", "EIO"}

Labels == {"Idle", "Loop", "Main", "Prefix", "PrefixDone", "Coe",
           "ReadLong", "ReadLong2"}

\* The minimum read_long length and block size the code accepts
MinLong == 32

-----------------------------------------------------------------------------
(* The device *)

Answer(k, v, vd, asc, ili) ==
  [kind |-> k, info |-> v, valid |-> vd, asc64 |-> asc, ili |-> ili]

Rng(a, n) == a..(a + n - 1)

\* The answers to a READ of n blocks at device address a: sense data
\* reduced to its category, its information field and the VALID bit, and
\* for ILLEGAL REQUEST the MMC "illegal mode for this track" and ILI bits.
\* A medium error reports a bad block of the range (with or without the
\* VALID bit), no block, or - a misreport - the block just past the range.
ReadableAnswers(a) ==
  {Answer("clean", 0, FALSE, FALSE, FALSE)}
  \cup {Answer("recovered", v, v # 0, FALSE, FALSE) : v \in {0, a}}

MediumAnswers(a, n) ==
  {Answer("medium", b, vd, FALSE, FALSE) : b \in Rng(a, n) \cap Bad, vd \in BOOLEAN}
  \cup {Answer("medium", a + n, TRUE, FALSE, FALSE),
        Answer("medium", 0, FALSE, FALSE, FALSE)}

FaultAnswers == {Answer(k, 0, FALSE, FALSE, FALSE) : k \in Faults \ {"illegal"}}

IllegalAnswers(a) ==
  IF "illegal" \in Faults
  THEN {Answer("illegal", v, FALSE, asc, ili) :
          v \in {0, a}, asc \in BOOLEAN, ili \in BOOLEAN}
  ELSE {}

DeviceAnswers(a, n) ==
  (IF Rng(a, n) \cap Bad = {} THEN ReadableAnswers(a) ELSE MediumAnswers(a, n))
  \cup FaultAnswers \cup IllegalAnswers(a)

\* sg_read_low builds the command first: a build failure never reaches the
\* device ("none"); otherwise the device reads what the command says.
Answers(n, at) ==
  IF BuildFails(CdbSz, n, at, Fua, Dpo)
  THEN {Answer("none", 0, FALSE, FALSE, FALSE)}
  ELSE LET cdb == BuildCdb(CdbSz, n, at, FALSE, Fua, Dpo)
       IN  DeviceAnswers(CdbStart(cdb), CdbBlocks(CdbSz, cdb))

\* The device address a READ of n blocks at `at` really reads.
DevAddr(n, at) == CdbStart(BuildCdb(CdbSz, n, at, FALSE, Fua, Dpo))

-----------------------------------------------------------------------------
(* sg_read_low: classification of one completion *)

\* Mutant: a command that cannot be built is reported as an EIO (-1).
ClassifyBuildEio(r) ==
  CASE r.kind \in {"clean", "recovered"} -> "OK"
    [] r.kind \in {"none", "eio"} -> "EIO"
    [] OTHER -> "OTHER"

Classify(r) ==
  CASE r.kind \in {"clean", "recovered"} -> "OK"
    [] r.kind = "none"      -> "SYNTAX"
    [] r.kind = "enomem"    -> "ENOMEM"
    [] r.kind = "eio"       -> "EIO"
    [] r.kind = "ua"        -> "UA"
    [] r.kind = "aborted"   -> "ABORTED"
    [] r.kind = "not_ready" -> "NOT_READY"
    [] r.kind = "medium"    ->
         IF r.valid \/ (pdt = 5 /\ r.info > 0) THEN "MEDIUM_INFO" ELSE "MEDIUM"
    [] r.kind = "illegal" /\ pdt = 5 /\ r.asc64 ->
         IF r.ili /\ r.info > 0 THEN "MEDIUM_INFO" ELSE "MEDIUM"
    [] OTHER -> "OTHER"

\* io_addr as sg_get_sense_info_fld leaves it
IoAddrAfter(r, old) ==
  IF \/ r.kind \in {"recovered", "medium"}
     \/ r.kind = "illegal" /\ pdt = 5 /\ r.asc64 /\ r.ili
  THEN r.info ELSE old

RecoveredDelta(r) == IF r.kind = "recovered" THEN 1 ELSE 0

UnrecoveredDelta(r) ==
  IF r.kind \in {"medium", "not_ready", "illegal", "other"} THEN 1 ELSE 0

\* Mutant: the transfer length is one block too long (dxfer_len off by bs).
TransferPastEnd(b, at, n, a, r) ==
  CASE Classify(r) = "OK" ->
         [i \in Idx |-> IF at <= i /\ i <= at + n
                        THEN [src |-> "dev", lba |-> a + (i - at)] ELSE b[i]]
    [] Classify(r) \in {"SYNTAX", "ENOMEM", "EIO"} -> b
    [] OTHER -> [i \in Idx |-> IF at <= i /\ i < at + n THEN Stale ELSE b[i]]

\* The buffer after a READ of n blocks into position `at` from address a:
\* device data on success, untouched when the ioctl never ran, and
\* anything (Stale) after a failed transfer.
Transfer(b, at, n, a, r) ==
  CASE Classify(r) = "OK" ->
         [i \in Idx |-> IF at <= i /\ i < at + n
                        THEN [src |-> "dev", lba |-> a + (i - at)] ELSE b[i]]
    [] Classify(r) \in {"SYNTAX", "ENOMEM", "EIO"} -> b
    [] OTHER -> [i \in Idx |-> IF at <= i /\ i < at + n THEN Stale ELSE b[i]]

\* memset(bp + lo, 0, n * bs)
ZeroFill(b, lo, n) == [i \in Idx |-> IF lo <= i /\ i < lo + n THEN Zero ELSE b[i]]


-----------------------------------------------------------------------------
(* sg_read *)

counters == <<recoveredErrs, unrecoveredErrs, numRetries, readLongs,
              readLongBlkInc>>
args == <<blocks, fromBlock, bs, calls>>

Init ==
  /\ pc = "Idle"
  /\ blocks = 0 /\ fromBlock = 0 /\ bs = 0
  /\ xferred = 0 /\ lba = 0 /\ blks = 0 /\ retriesTmp = 0 /\ ioAddr = 0
  /\ res = "OK" /\ ret = "OK" /\ nl = 0
  /\ buf = [i \in Idx |-> Stale]
  /\ blksRead = 0 /\ result = "OK"
  /\ coe \in CoeLevels /\ pdt \in Pdts
  /\ maxUas = MaxUas /\ maxAborted = MaxAborted
  /\ recoveredErrs = 0 /\ unrecoveredErrs = 0 /\ numRetries = 0
  /\ readLongs = 0 /\ readLongBlkInc = ReadLongDefInc
  /\ overrun = FALSE /\ calls = 0

\* return r, after *blks_readp = count
Return(r, count) == pc' = "Idle" /\ result' = r /\ blksRead' = count

\* return r, leaving *blks_readp as the caller set it
ReturnKeep(r) == pc' = "Idle" /\ result' = r /\ UNCHANGED blksRead

\* Mutant: err_out zeroes the whole call's blocks from bp (bs * blocks)
\* instead of the blks of the current transfer.
ErrOutWholeCall(c, mayCoe, r, n) ==
  IF c # 0
  THEN /\ buf' = ZeroFill(buf, xferred, blocks)
       /\ overrun' = (overrun \/ xferred + blocks > blocks)
       /\ Return(IF mayCoe THEN "OK" ELSE r, xferred + n)
  ELSE /\ ReturnKeep(r)
       /\ UNCHANGED <<buf, overrun>>

\* The err_out label with n = blks: under coe zero the n blocks at bp and
\* fudge the count; return 0 when may_coe, else r.
ErrOut(c, mayCoe, r, n) ==
  IF c # 0
  THEN /\ buf' = ZeroFill(buf, xferred, n)
       /\ overrun' = (overrun \/ xferred + n > blocks)
       /\ Return(IF mayCoe THEN "OK" ELSE r, xferred + n)
  ELSE /\ ReturnKeep(r)
       /\ UNCHANGED <<buf, overrun>>

\* The caller (read_verify_device) calls sg_read with a fresh blks_readp = 0.
Call ==
  /\ pc = "Idle"
  /\ calls < MaxCalls
  /\ \E n \in 1..MaxBlocks, f \in Starts, s \in BlockSizes :
       /\ blocks' = n /\ fromBlock' = f /\ bs' = s
       /\ xferred' = 0 /\ lba' = f /\ blks' = n
  /\ retriesTmp' = Retries
  /\ ret' = "OK"
  /\ blksRead' = 0
  /\ buf' = [i \in Idx |-> Stale]
  /\ calls' = calls + 1
  /\ pc' = "Loop"
  /\ UNCHANGED <<ioAddr, res, nl, result, coe, pdt, maxUas, maxAborted,
                 counters, overrun>>

\* The for loop ends: every block was transferred or substituted.
LoopExit ==
  /\ pc = "Loop"
  /\ blocks - xferred <= 0
  /\ Return("OK", xferred)
  /\ UNCHANGED <<args, xferred, lba, blks, retriesTmp, ioAddr, res, ret, nl,
                 buf, coe, pdt, maxUas, maxAborted, counters, overrun>>

\* res = sg_read_low(bp, blks, lba) for the whole remaining range.
ReadLow ==
  /\ pc = "Loop"
  /\ blocks - xferred > 0
  /\ LET n == blocks - xferred IN
     \E r \in Answers(n, lba) :
       /\ blks' = n
       /\ res' = Classify(r)
       /\ ioAddr' = IoAddrAfter(r, 0)
       /\ recoveredErrs' = recoveredErrs + RecoveredDelta(r)
       /\ unrecoveredErrs' = unrecoveredErrs + UnrecoveredDelta(r)
       /\ buf' = Transfer(buf, xferred, n, DevAddr(n, lba), r)
  /\ pc' = "Main"
  /\ UNCHANGED <<args, xferred, lba, retriesTmp, ret, nl, blksRead, result,
                 coe, pdt, maxUas, maxAborted, numRetries, readLongs,
                 readLongBlkInc, overrun>>

\* case 0: the whole remaining range was read.
MainOk ==
  /\ pc = "Main" /\ res = "OK"
  /\ Return("OK", xferred + blks)
  /\ UNCHANGED <<args, xferred, lba, blks, retriesTmp, ioAddr, res, ret, nl,
                 buf, coe, pdt, maxUas, maxAborted, counters, overrun>>

\* case -2 (ENOMEM) and SG_LIB_CAT_NOT_READY: returned as they are.
MainStop ==
  /\ pc = "Main" /\ res \in {"ENOMEM", "NOT_READY"}
  /\ ReturnKeep(res)
  /\ UNCHANGED <<args, xferred, lba, blks, retriesTmp, ioAddr, res, ret, nl,
                 buf, coe, pdt, maxUas, maxAborted, counters, overrun>>

\* SG_LIB_CAT_ABORTED_COMMAND: if (--max_aborted > 0) repeat, else return.
MainAborted ==
  /\ pc = "Main" /\ res = "ABORTED"
  /\ maxAborted' = maxAborted - 1
  /\ IF maxAborted - 1 > 0
     THEN pc' = "Loop" /\ UNCHANGED <<result, blksRead>>
     ELSE ReturnKeep("ABORTED")
  /\ UNCHANGED <<args, xferred, lba, blks, retriesTmp, ioAddr, res, ret, nl,
                 buf, coe, pdt, maxUas, counters, overrun>>

\* Mutant: a unit attention is retried without consuming max_uas.
MainUnitAttentionNoCeiling ==
  /\ pc = "Main" /\ res = "UA"
  /\ pc' = "Loop"
  /\ UNCHANGED <<result, blksRead, maxUas>>
  /\ UNCHANGED <<args, xferred, lba, blks, retriesTmp, ioAddr, res, ret, nl,
                 buf, coe, pdt, maxAborted, counters, overrun>>

\* SG_LIB_CAT_UNIT_ATTENTION: if (--max_uas > 0) repeat, else return.
MainUnitAttention ==
  /\ pc = "Main" /\ res = "UA"
  /\ maxUas' = maxUas - 1
  /\ IF maxUas - 1 > 0
     THEN pc' = "Loop" /\ UNCHANGED <<result, blksRead>>
     ELSE ReturnKeep("UA")
  /\ UNCHANGED <<args, xferred, lba, blks, retriesTmp, ioAddr, res, ret, nl,
                 buf, coe, pdt, maxAborted, counters, overrun>>

\* Mutant: retry while retries_tmp >= 0 (one retry too many).
MainRetryOffByOne ==
  /\ pc = "Main" /\ res \in {"MEDIUM_INFO", "MEDIUM", "OTHER"}
  /\ retriesTmp >= 0
  /\ retriesTmp' = retriesTmp - 1
  /\ numRetries' = numRetries + 1
  /\ unrecoveredErrs' = IF unrecoveredErrs > 0 THEN unrecoveredErrs - 1
                                                ELSE unrecoveredErrs
  /\ ret' = IF res = "MEDIUM_INFO" THEN "MEDIUM" ELSE ret
  /\ pc' = "Loop"
  /\ UNCHANGED <<args, xferred, lba, blks, ioAddr, res, nl, buf, blksRead,
                 result, coe, pdt, maxUas, maxAborted, recoveredErrs,
                 readLongs, readLongBlkInc, overrun>>

\* Mutant: a retry that does not consume retries_tmp.
MainRetryNoBudget ==
  /\ pc = "Main" /\ res \in {"MEDIUM_INFO", "MEDIUM", "OTHER"}
  /\ retriesTmp > 0
  /\ numRetries' = numRetries
  /\ unrecoveredErrs' = IF unrecoveredErrs > 0 THEN unrecoveredErrs - 1
                                                ELSE unrecoveredErrs
  /\ ret' = IF res = "MEDIUM_INFO" THEN "MEDIUM" ELSE ret
  /\ pc' = "Loop"
  /\ UNCHANGED <<args, xferred, lba, blks, ioAddr, res, nl, buf, blksRead,
                 result, coe, pdt, maxUas, maxAborted, recoveredErrs,
                 readLongs, readLongBlkInc, overrun, retriesTmp>>

\* The retry shared by MEDIUM_HARD_WITH_INFO and the default case: one
\* unit of retries_tmp, one retry counted, the unrecovered error undone.
MainRetry ==
  /\ pc = "Main" /\ res \in {"MEDIUM_INFO", "MEDIUM", "OTHER"}
  /\ retriesTmp > 0
  /\ retriesTmp' = retriesTmp - 1
  /\ numRetries' = numRetries + 1
  /\ unrecoveredErrs' = IF unrecoveredErrs > 0 THEN unrecoveredErrs - 1
                                                ELSE unrecoveredErrs
  /\ ret' = IF res = "MEDIUM_INFO" THEN "MEDIUM" ELSE ret
  /\ pc' = "Loop"
  /\ UNCHANGED <<args, xferred, lba, blks, ioAddr, res, nl, buf, blksRead,
                 result, coe, pdt, maxUas, maxAborted, recoveredErrs,
                 readLongs, readLongBlkInc, overrun>>

\* MEDIUM_HARD (no lba) and other categories with no retry left: err_out,
\* with may_coe set for MEDIUM_HARD only.
MainGiveUp ==
  /\ pc = "Main" /\ res \in {"MEDIUM", "OTHER"}
  /\ retriesTmp <= 0
  /\ ret' = res
  /\ ErrOut(coe, res = "MEDIUM", res, blks)
  /\ UNCHANGED <<args, xferred, lba, blks, retriesTmp, ioAddr, res, nl, coe,
                 pdt, maxUas, maxAborted, counters>>

\* SG_LIB_SYNTAX_ERROR: ifp->coe = 0 (for the rest of the run), err_out.
MainSyntax ==
  /\ pc = "Main" /\ res = "SYNTAX"
  /\ coe' = 0
  /\ ret' = "SYNTAX"
  /\ ErrOut(0, FALSE, "SYNTAX", blks)
  /\ UNCHANGED <<args, xferred, lba, blks, retriesTmp, ioAddr, res, nl, pdt,
                 maxUas, maxAborted, counters>>

\* case -1: err_out.
MainEio ==
  /\ pc = "Main" /\ res = "EIO"
  /\ ret' = "EIO"
  /\ ErrOut(coe, FALSE, "EIO", blks)
  /\ UNCHANGED <<args, xferred, lba, blks, retriesTmp, ioAddr, res, nl, coe,
                 pdt, maxUas, maxAborted, counters>>

\* MEDIUM_HARD_WITH_INFO, no retry left, io_addr outside [lba, lba+blks):
\* may_coe = true; goto err_out.
MediumOutOfRange ==
  /\ pc = "Main" /\ res = "MEDIUM_INFO"
  /\ retriesTmp <= 0
  /\ ioAddr < lba \/ ioAddr >= lba + blks
  /\ ret' = "MEDIUM"
  /\ ErrOut(coe, TRUE, "MEDIUM", blks)
  /\ UNCHANGED <<args, xferred, lba, blks, retriesTmp, ioAddr, res, nl, coe,
                 pdt, maxUas, maxAborted, counters>>

\* Mutant: blks = io_addr - lba - 1 (off by one below the bad block).
MediumInRangeOffByOne ==
  /\ pc = "Main" /\ res = "MEDIUM_INFO"
  /\ retriesTmp <= 0
  /\ lba <= ioAddr /\ ioAddr < lba + blks
  /\ ret' = "MEDIUM"
  /\ blks' = ioAddr - lba - 1
  /\ pc' = IF ioAddr - lba - 1 > 0 THEN "Prefix" ELSE "Coe"
  /\ UNCHANGED <<args, xferred, lba, retriesTmp, ioAddr, res, nl, buf,
                 blksRead, result, coe, pdt, maxUas, maxAborted, counters,
                 overrun>>

\* Mutant: the blocks before the bad one are taken from the failed
\* transfer instead of being read again.
MediumInRangeNoReread ==
  /\ pc = "Main" /\ res = "MEDIUM_INFO"
  /\ retriesTmp <= 0
  /\ lba <= ioAddr /\ ioAddr < lba + blks
  /\ ret' = "MEDIUM"
  /\ blks' = ioAddr - lba
  /\ xferred' = xferred + (ioAddr - lba)
  /\ pc' = "Coe"
  /\ UNCHANGED <<args, lba, retriesTmp, ioAddr, res, nl, buf,
                 blksRead, result, coe, pdt, maxUas, maxAborted, counters,
                 overrun>>

\* MEDIUM_HARD_WITH_INFO, no retry left, io_addr in range: blks becomes the
\* number of good blocks before it, re-read next unless there are none.
MediumInRange ==
  /\ pc = "Main" /\ res = "MEDIUM_INFO"
  /\ retriesTmp <= 0
  /\ lba <= ioAddr /\ ioAddr < lba + blks
  /\ ret' = "MEDIUM"
  /\ blks' = ioAddr - lba
  /\ pc' = IF ioAddr - lba > 0 THEN "Prefix" ELSE "Coe"
  /\ UNCHANGED <<args, xferred, lba, retriesTmp, ioAddr, res, nl, buf,
                 blksRead, result, coe, pdt, maxUas, maxAborted, counters,
                 overrun>>

\* res = sg_read_low(bp, blks, lba) for the blocks before the medium error.
ReadPrefix ==
  /\ pc = "Prefix"
  /\ \E r \in Answers(blks, lba) :
       /\ res' = Classify(r)
       /\ ioAddr' = IoAddrAfter(r, ioAddr)
       /\ recoveredErrs' = recoveredErrs + RecoveredDelta(r)
       /\ unrecoveredErrs' = unrecoveredErrs + UnrecoveredDelta(r)
       /\ buf' = Transfer(buf, xferred, blks, DevAddr(blks, lba), r)
  /\ pc' = "PrefixDone"
  /\ UNCHANGED <<args, xferred, lba, blks, retriesTmp, ret, nl, blksRead,
                 result, coe, pdt, maxUas, maxAborted, numRetries, readLongs,
                 readLongBlkInc, overrun>>

\* case 0 of the second switch: xferred += blks.
PrefixOk ==
  /\ pc = "PrefixDone" /\ res = "OK"
  /\ xferred' = xferred + blks
  /\ pc' = "Coe"
  /\ UNCHANGED <<args, lba, blks, retriesTmp, ioAddr, res, ret, nl, buf,
                 blksRead, result, coe, pdt, maxUas, maxAborted, counters,
                 overrun>>

\* case -1: ifp->coe = 0; err_out.
PrefixEio ==
  /\ pc = "PrefixDone" /\ res = "EIO"
  /\ coe' = 0
  /\ ret' = "EIO"
  /\ ErrOut(0, FALSE, "EIO", blks)
  /\ UNCHANGED <<args, xferred, lba, blks, retriesTmp, ioAddr, res, nl, pdt,
                 maxUas, maxAborted, counters>>

\* ENOMEM ("again, unexpected": returned as -1), NOT_READY, UNIT_ATTENTION
\* and ABORTED_COMMAND: returned at once, with no ceiling consumed.
PrefixStop ==
  /\ pc = "PrefixDone" /\ res \in {"ENOMEM", "NOT_READY", "UA", "ABORTED"}
  /\ ReturnKeep(IF res = "ENOMEM" THEN "EIO" ELSE res)
  /\ UNCHANGED <<args, xferred, lba, blks, retriesTmp, ioAddr, res, ret, nl,
                 buf, coe, pdt, maxUas, maxAborted, counters, overrun>>

\* A medium error (ret = MEDIUM_HARD), a syntax error or anything else: err_out.
PrefixFail ==
  /\ pc = "PrefixDone" /\ res \in {"MEDIUM_INFO", "MEDIUM", "SYNTAX", "OTHER"}
  /\ LET r == IF res = "MEDIUM_INFO" THEN "MEDIUM" ELSE res IN
       /\ ret' = r
       /\ ErrOut(coe, FALSE, r, blks)
  /\ UNCHANGED <<args, xferred, lba, blks, retriesTmp, ioAddr, res, nl, coe,
                 pdt, maxUas, maxAborted, counters>>

\* if (0 == ifp->coe): give up at the bad block, reporting the good ones.
CoeStop ==
  /\ pc = "Coe" /\ coe = 0
  /\ Return(ret, xferred)
  /\ UNCHANGED <<args, xferred, lba, blks, retriesTmp, ioAddr, res, ret, nl,
                 buf, coe, pdt, maxUas, maxAborted, counters, overrun>>

\* if (bs < 32) return -1
CoeSmallBs ==
  /\ pc = "Coe" /\ coe # 0
  /\ bs < MinLong
  /\ ReturnKeep("EIO")
  /\ UNCHANGED <<args, xferred, lba, blks, retriesTmp, ioAddr, res, ret, nl,
                 buf, coe, pdt, maxUas, maxAborted, counters, overrun>>

\* Mutant: bp is not advanced past the re-read blocks (bp += blks * bs
\* dropped), so the memset lands on the first of them.
CoeZeroNoBpAdvance ==
  /\ pc = "Coe" /\ coe # 0
  /\ bs >= MinLong
  /\ pdt # 0 \/ coe < 2 \/ ~(ioAddr < UintMax)
  /\ buf' = [buf EXCEPT ![xferred - blks] = Zero]
  /\ overrun' = (overrun \/ xferred >= blocks)
  /\ xferred' = xferred + 1
  /\ lba' = lba + blks + 1
  /\ pc' = "Loop"
  /\ UNCHANGED <<args, blks, retriesTmp, ioAddr, res, ret, nl, blksRead,
                 result, coe, pdt, maxUas, maxAborted, counters>>

\* The bad block is zeroed: a non-disk device, coe < 2, or an io_addr
\* READ LONG (10) cannot address; then ++xferred, ++lba.
CoeZero ==
  /\ pc = "Coe" /\ coe # 0
  /\ bs >= MinLong
  /\ pdt # 0 \/ coe < 2 \/ ~(ioAddr < UintMax)
  /\ buf' = [buf EXCEPT ![xferred] = Zero]
  /\ overrun' = (overrun \/ xferred >= blocks)
  /\ xferred' = xferred + 1
  /\ lba' = lba + blks + 1
  /\ pc' = "Loop"
  /\ UNCHANGED <<args, blks, retriesTmp, ioAddr, res, ret, nl, blksRead,
                 result, coe, pdt, maxUas, maxAborted, counters>>

\* Disk, coe >= 2 and io_addr < UINT_MAX: try READ LONG on the bad block.
CoeReadLong ==
  /\ pc = "Coe" /\ coe # 0
  /\ bs >= MinLong
  /\ pdt = 0 /\ coe >= 2 /\ ioAddr < UintMax
  /\ lba' = lba + blks
  /\ pc' = "ReadLong"
  /\ UNCHANGED <<args, xferred, blks, retriesTmp, ioAddr, res, ret, nl, buf,
                 blksRead, result, coe, pdt, maxUas, maxAborted, counters,
                 overrun>>

\* The bad block gets v (memcpy of READ LONG data, or memset 0); then
\* ++xferred, bp += bs, ++lba.
Advance(v) ==
  /\ buf' = [buf EXCEPT ![xferred] = v]
  /\ overrun' = (overrun \/ xferred >= blocks)
  /\ xferred' = xferred + 1
  /\ lba' = lba + 1
  /\ pc' = "Loop"

\* What READ LONG (10) returns: its lba argument is an unsigned int.
LongData == [src |-> "long", lba |-> lba % B4]

\* sg_memalign fails: return -1.
ReadLongHeapFail ==
  /\ pc = "ReadLong"
  /\ ReturnKeep("EIO")
  /\ UNCHANGED <<args, xferred, lba, blks, retriesTmp, ioAddr, res, ret, nl,
                 buf, coe, pdt, maxUas, maxAborted, counters, overrun>>

\* The first READ LONG, of bs + read_long_blk_inc bytes, succeeds.
ReadLongOk ==
  /\ pc = "ReadLong"
  /\ readLongs' = readLongs + 1
  /\ Advance(LongData)
  /\ UNCHANGED <<args, blks, retriesTmp, ioAddr, res, ret, nl, blksRead,
                 result, coe, pdt, maxUas, maxAborted, recoveredErrs,
                 unrecoveredErrs, numRetries, readLongBlkInc>>

\* It fails (invalid opcode, bad field, not ready, unit attention, aborted
\* command or other), or it reports ILLEGAL_REQ_WITH_INFO with a length nl
\* the code rejects (below 32 or beyond the 2*bs buffer, see
\* ReadLongAdjust): either way ok stays false and the block is zeroed.
ReadLongFail ==
  /\ pc = "ReadLong"
  /\ Advance(Zero)
  /\ UNCHANGED <<args, blks, retriesTmp, ioAddr, res, ret, nl, blksRead,
                 result, coe, pdt, maxUas, maxAborted, counters>>

\* Mutant: nl is checked against 32 only, not against the 2*bs buffer.
ReadLongAdjustNoUpperBound ==
  /\ pc = "ReadLong"
  /\ \E off \in Offsets :
       LET n2 == bs + readLongBlkInc - off IN
       /\ n2 >= MinLong
       /\ readLongBlkInc' = n2 - bs
       /\ nl' = n2
  /\ pc' = "ReadLong2"
  /\ UNCHANGED <<args, xferred, lba, blks, retriesTmp, ioAddr, res, ret, buf,
                 blksRead, result, coe, pdt, maxUas, maxAborted, recoveredErrs,
                 unrecoveredErrs, numRetries, readLongs, overrun>>

\* ILLEGAL_REQ_WITH_INFO with an acceptable nl: remember it in the
\* process-wide read_long_blk_inc and issue a second READ LONG of nl bytes.
ReadLongAdjust ==
  /\ pc = "ReadLong"
  /\ \E off \in Offsets :
       LET n2 == bs + readLongBlkInc - off IN
       /\ n2 >= MinLong /\ n2 <= bs * 2
       /\ readLongBlkInc' = n2 - bs
       /\ nl' = n2
  /\ pc' = "ReadLong2"
  /\ UNCHANGED <<args, xferred, lba, blks, retriesTmp, ioAddr, res, ret, buf,
                 blksRead, result, coe, pdt, maxUas, maxAborted, recoveredErrs,
                 unrecoveredErrs, numRetries, readLongs, overrun>>

\* The second READ LONG succeeds.
ReadLong2Ok ==
  /\ pc = "ReadLong2"
  /\ readLongs' = readLongs + 1
  /\ Advance(LongData)
  /\ UNCHANGED <<args, blks, retriesTmp, ioAddr, res, ret, nl, blksRead,
                 result, coe, pdt, maxUas, maxAborted, recoveredErrs,
                 unrecoveredErrs, numRetries, readLongBlkInc>>

\* The second READ LONG fails: the block is zeroed.
ReadLong2Fail ==
  /\ pc = "ReadLong2"
  /\ Advance(Zero)
  /\ UNCHANGED <<args, blks, retriesTmp, ioAddr, res, ret, nl, blksRead,
                 result, coe, pdt, maxUas, maxAborted, counters>>

\* Every step of a call of sg_read
Engine ==
  \/ LoopExit \/ ReadLow
  \/ MainOk \/ MainStop \/ MainAborted \/ MainUnitAttention \/ MainRetry
  \/ MainGiveUp \/ MainSyntax \/ MainEio \/ MediumOutOfRange \/ MediumInRange
  \/ ReadPrefix \/ PrefixOk \/ PrefixEio \/ PrefixStop \/ PrefixFail
  \/ CoeStop \/ CoeSmallBs \/ CoeZero \/ CoeReadLong
  \/ ReadLongHeapFail \/ ReadLongOk \/ ReadLongFail
  \/ ReadLongAdjust \/ ReadLong2Ok \/ ReadLong2Fail

Next == Call \/ Engine

\* sg_read runs on the caller's thread until it returns: each step of a
\* call is taken (the SG_IO ioctl returns within its 60 s timeout).
Spec == Init /\ [][Next]_vars /\ WF_vars(Engine)

-----------------------------------------------------------------------------
(* Properties *)

TypeOK ==
  /\ pc \in Labels
  /\ blocks \in 0..MaxBlocks /\ fromBlock \in Nat /\ bs \in Nat
  /\ xferred \in 0..MaxBlocks /\ lba \in Nat /\ blks \in 0..MaxBlocks
  /\ retriesTmp \in 0..Retries /\ ioAddr \in Nat
  /\ res \in Results /\ ret \in Results /\ nl \in Int
  /\ buf \in [Idx -> Contents]
  /\ blksRead \in 0..MaxBlocks /\ result \in Results
  /\ coe \in Nat /\ pdt \in Nat
  /\ maxUas \in Int /\ maxAborted \in Int
  /\ recoveredErrs \in Nat /\ unrecoveredErrs \in Nat
  /\ numRetries \in Nat /\ readLongs \in Nat /\ readLongBlkInc \in Int
  /\ overrun \in BOOLEAN /\ calls \in 0..MaxCalls

\* The contract of sg_read (spec section 3): when a call has returned, the
\* count it reports is at most the blocks asked for, a 0 return means all
\* of them, and every block it reports holds either zeros or the data of
\* exactly its own LBA, read by READ or recovered by READ LONG.  This is
\* what the re-read of the blocks before a medium error, the io_addr range
\* check and the zero-fill of err_out must together achieve.
ReturnedBlocksValid ==
  pc = "Idle" /\ calls > 0 =>
    /\ blksRead <= blocks
    /\ result = "OK" => blksRead = blocks
    /\ \A i \in 0..(blksRead - 1) :
         \/ buf[i] = Zero
         \/ buf[i] \in Data /\ buf[i].lba = fromBlock + i

\* No write of sg_read (device transfer, memset or memcpy) ever lands
\* beyond the blocks the caller's buffer holds for this call.
NoOverrun == ~overrun

\* Every READ LONG asks for no more bytes than the 2*bs buffer sg_read
\* allocates for it (the first with bs + read_long_blk_inc, the second
\* with nl).
ReadLongFits ==
  /\ pc = "ReadLong" => bs + readLongBlkInc <= 2 * bs
  /\ pc = "ReadLong2" => nl <= 2 * bs

\* Once the cursor (xferred, with bp = buff + xferred * bs) has passed a
\* block, no later step of the same call writes it again: not a retry, not
\* the re-read of the blocks before a medium error, not err_out's memset
\* and not the coe path's zeros or READ LONG copy.  A block read good is
\* never replaced, not even by zeros (which ReturnedBlocksValid allows).
SettledBlocksKept ==
  [][pc # "Idle" => \A i \in 0..(xferred - 1) : buf'[i] = buf[i]]_vars

\* The process-wide unit-attention and aborted-command ceilings reach zero
\* at most and never go negative (spec section 8).
CeilingsNonNegative == maxUas >= 0 /\ maxAborted >= 0

\* Every call of sg_read returns, whatever the device answers: each retry
\* consumes retries_tmp or a process-wide ceiling.
Termination == [](pc # "Idle" => <>(pc = "Idle"))

\* With a command size the builder rejects, as with the &iflag that
\* read_verify_device passes on its ENOMEM retry (iflag.cdbsz is 0), every
\* call of sg_read returns SG_LIB_SYNTAX_ERROR and leaves the caller's
\* buffer untouched: that retry can never read the shrunk window.
BadSizeIsSyntax ==
  CdbSz \notin CdbSizes =>
    (pc = "Idle" /\ calls > 0 => result = "SYNTAX" /\ buf = [i \in Idx |-> Stale])

\* sg_read implements its contract (module ReadContract): between Call and
\* the return nothing the caller can see changes, and each call returns
\* with a count, a result and buffer contents the contract allows, and no
\* slot past the blocks asked for written.  The caller sees the buffer and
\* *blks_readp only after the return; until then they are what Call left.
callerBusy == pc # "Idle"
callerBuf == IF pc = "Idle" THEN buf ELSE [i \in Idx |-> Stale]
callerBlksRead == IF pc = "Idle" THEN blksRead ELSE 0

Contract == INSTANCE ReadContract
  WITH busy <- callerBusy, buf <- callerBuf, blksRead <- callerBlksRead,
       ResultSet <- Results

ImplementsContract == Contract!CSpec

=============================================================================
