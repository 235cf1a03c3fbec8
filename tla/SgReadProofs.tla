---------------------------- MODULE SgReadProofs ----------------------------
(***************************************************************************)
(* Proofs about the read-recovery engine SgRead, for every value of the    *)
(* constants: sg_read's values keep their types, and no write of sg_read   *)
(* lands outside the caller's blocks.                                      *)
(*                                                                         *)
(* Neither holds step by step as stated: a step writes at xferred or over  *)
(* blks blocks from it, and the write is in bounds only because of where   *)
(* the loop stands when it reaches that step.  Cursor says where: at the   *)
(* loop head xferred <= blocks, after the whole-range read xferred + blks  *)
(* = blocks, around the re-read of the blocks before a bad one xferred +   *)
(* blks < blocks (the range check puts io_addr inside the range), and at   *)
(* the bad block itself xferred < blocks.                                  *)
(***************************************************************************)
EXTENDS SgRead, TLAPS

Cursor ==
  /\ pc = "Loop" => xferred <= blocks
  /\ pc = "Main" => xferred + blks = blocks
  /\ pc \in {"Prefix", "PrefixDone"} => xferred + blks < blocks
  /\ pc \in {"Coe", "ReadLong", "ReadLong2"} => xferred < blocks

IInv == TypeOK /\ Cursor /\ NoOverrun

-----------------------------------------------------------------------------
(* The device and the classifier *)

\* The widths of the command fields, in values, are positive.
LEMMA WidthsPositive ==
  /\ ByteBase \in Nat \ {0} /\ B2 \in Nat \ {0}
  /\ B4 \in Nat \ {0} /\ B8 \in Nat \ {0}
BY ByteBaseAssumption DEF B2, B4, B8

\* The start-block field of every command size holds at least one value, so
\* the address a built command carries is a natural number.
LEMMA FieldSizePositive ==
  ASSUME NEW sz \in CdbSizes
  PROVE  LbaFieldSize(sz) \in Nat \ {0} /\ CountFieldSize(sz) \in Nat \ {0}
<1>1. ByteBase \in Nat \ {0} /\ B2 \in Nat \ {0} /\ B4 \in Nat \ {0}
      /\ B8 \in Nat \ {0}
  BY WidthsPositive
<1>2. Lba6Mask + 1 \in Nat \ {0}
  <2>1. B3 \in Nat /\ B3 >= 8
    BY ByteBaseAssumption DEF B3, B2
  <2>. QED BY <2>1 DEF Lba6Mask
<1>. QED BY <1>1, <1>2 DEF LbaFieldSize, CountFieldSize, CdbSizes

\* When sg_build_scsi_cdb succeeds the device reads from a natural address,
\* a natural number of blocks.
LEMMA BuiltCommand ==
  ASSUME NEW n \in Nat, NEW at \in Nat,
         ~BuildFails(CdbSz, n, at, Fua, Dpo)
  PROVE  /\ DevAddr(n, at) \in Nat
         /\ CdbBlocks(CdbSz, BuildCdb(CdbSz, n, at, FALSE, Fua, Dpo)) \in Nat
<1>1. CdbSz \in CdbSizes
  BY DEF BuildFails
<1>2. LbaFieldSize(CdbSz) \in Nat \ {0} /\ CountFieldSize(CdbSz) \in Nat \ {0}
  BY <1>1, FieldSizePositive
<1>. QED BY <1>2, ByteBaseAssumption
         DEF DevAddr, CdbStart, CdbBlocks, BuildCdb

\* Every sense information field a device can report for a READ at a
\* natural address is a natural number.
LEMMA DeviceInfo ==
  ASSUME NEW a \in Nat, NEW m \in Nat, NEW r \in DeviceAnswers(a, m)
  PROVE  r.info \in Nat
<1>1. CASE r \in ReadableAnswers(a)
  BY <1>1 DEF ReadableAnswers, Answer
<1>2. CASE r \in MediumAnswers(a, m)
  <2>1. CASE \E b \in Rng(a, m) \cap Bad, vd \in BOOLEAN :
               r = Answer("medium", b, vd, FALSE, FALSE)
    <3>1. PICK b \in Rng(a, m) \cap Bad, vd \in BOOLEAN :
                 r = Answer("medium", b, vd, FALSE, FALSE)
      BY <2>1
    <3>2. b \in Nat
      BY <3>1, ConstantsAssumption
    <3>. QED BY <3>1, <3>2 DEF Answer
  <2>2. CASE r \in {Answer("medium", a + m, TRUE, FALSE, FALSE),
                    Answer("medium", 0, FALSE, FALSE, FALSE)}
    BY <2>2 DEF Answer
  <2>. QED BY <1>2, <2>1, <2>2 DEF MediumAnswers, Answer
<1>3. CASE r \in FaultAnswers
  BY <1>3 DEF FaultAnswers, Answer
<1>4. CASE r \in IllegalAnswers(a)
  BY <1>4 DEF IllegalAnswers, Answer
<1>. QED BY <1>1, <1>2, <1>3, <1>4 DEF DeviceAnswers

\* Every sense information field sg_read_low can read is a natural number,
\* and a command that could not be built never reaches the device.
LEMMA AnswerInfo ==
  ASSUME NEW n \in Nat, NEW at \in Nat, NEW r \in Answers(n, at)
  PROVE  /\ r.info \in Nat
         /\ BuildFails(CdbSz, n, at, Fua, Dpo) => r.kind = "none"
<1>1. CASE BuildFails(CdbSz, n, at, Fua, Dpo)
  BY <1>1 DEF Answers, Answer
<1>2. CASE ~BuildFails(CdbSz, n, at, Fua, Dpo)
  <2>1. /\ DevAddr(n, at) \in Nat
        /\ CdbBlocks(CdbSz, BuildCdb(CdbSz, n, at, FALSE, Fua, Dpo)) \in Nat
    BY <1>2, BuiltCommand
  <2>2. r \in DeviceAnswers(DevAddr(n, at),
                            CdbBlocks(CdbSz, BuildCdb(CdbSz, n, at, FALSE, Fua, Dpo)))
    BY <1>2 DEF Answers, DevAddr
  <2>. QED BY <1>2, <2>1, <2>2, DeviceInfo
<1>. QED BY <1>1, <1>2

\* sg_read_low returns one of its categories whatever the sense data.
LEMMA ClassifyType ==
  ASSUME NEW r
  PROVE  Classify(r) \in Results
BY DEF Classify, Results

\* io_addr stays a natural number after every completion.
LEMMA IoAddrType ==
  ASSUME NEW n \in Nat, NEW at \in Nat, NEW r \in Answers(n, at),
         NEW old \in Nat
  PROVE  IoAddrAfter(r, old) \in Nat
BY AnswerInfo DEF IoAddrAfter

\* A READ into the caller's buffer leaves buffer contents in it.
LEMMA TransferType ==
  ASSUME NEW b \in [Idx -> Contents], NEW at \in Nat, NEW n \in Nat,
         NEW l \in Nat, NEW r \in Answers(n, l)
  PROVE  Transfer(b, at, n, DevAddr(n, l), r) \in [Idx -> Contents]
<1>1. CASE BuildFails(CdbSz, n, l, Fua, Dpo)
  <2>1. Classify(r) = "SYNTAX"
    BY <1>1, AnswerInfo DEF Classify
  <2>. QED BY <2>1 DEF Transfer
<1>2. CASE ~BuildFails(CdbSz, n, l, Fua, Dpo)
  <2>1. DevAddr(n, l) \in Nat
    BY <1>2, BuiltCommand
  <2>. QED BY <2>1 DEF Transfer, Contents, Stale, Idx
<1>. QED BY <1>1, <1>2

-----------------------------------------------------------------------------
(* The inductive invariant *)

\* sg_read starts with every variable of its type, no write done.
LEMMA InitIInv == Init => IInv
<1> SUFFICES ASSUME Init PROVE IInv
  OBVIOUS
<1>1. buf \in [Idx -> Contents]
  BY DEF Init, Idx, Contents, Stale
<1>2. coe \in Nat /\ pdt \in Nat /\ maxUas \in Int /\ maxAborted \in Int
      /\ readLongBlkInc \in Int
  BY ConstantsAssumption DEF Init
<1>3. retriesTmp \in 0..Retries /\ calls \in 0..MaxCalls /\ blocks \in 0..MaxBlocks
      /\ xferred \in 0..MaxBlocks /\ blks \in 0..MaxBlocks /\ blksRead \in 0..MaxBlocks
  BY ConstantsAssumption DEF Init
<1>4. /\ pc = "Idle" /\ fromBlock = 0 /\ bs = 0 /\ lba = 0 /\ ioAddr = 0
      /\ res = "OK" /\ ret = "OK" /\ result = "OK" /\ nl = 0
      /\ recoveredErrs = 0 /\ unrecoveredErrs = 0 /\ numRetries = 0
      /\ readLongs = 0 /\ overrun = FALSE
  BY DEF Init
<1>5. pc \in Labels /\ res \in Results /\ ret \in Results /\ result \in Results
  BY <1>4 DEF Labels, Results
<1>6. /\ fromBlock \in Nat /\ bs \in Nat /\ lba \in Nat /\ ioAddr \in Nat
      /\ nl \in Int /\ recoveredErrs \in Nat /\ unrecoveredErrs \in Nat
      /\ numRetries \in Nat /\ readLongs \in Nat
  BY <1>4
<1>7. overrun \in BOOLEAN
  BY <1>4
<1>8. TypeOK
  BY <1>1, <1>2, <1>3, <1>5, <1>6, <1>7 DEF TypeOK
<1>9. Cursor /\ NoOverrun
  BY DEF Init, Cursor, NoOverrun
<1>. QED BY <1>8, <1>9 DEF IInv

\* Each step of sg_read, and each call of it, keeps IInv.
LEMMA NextIInv == IInv /\ [Next]_vars => IInv'
<1> SUFFICES ASSUME IInv, [Next]_vars PROVE IInv'
  OBVIOUS
<1>. USE ConstantsAssumption DEF IInv, TypeOK, Cursor, NoOverrun, Labels,
         Results, args, counters
<1>1. CASE Call
  BY <1>1 DEF Call, Idx, Contents, Stale
<1>2. CASE LoopExit
  BY <1>2 DEF LoopExit, Return
<1>3. CASE ReadLow
  <2>. DEFINE n == blocks - xferred
  <2>1. n \in Nat
    BY <1>3 DEF ReadLow
  <2>2. PICK r \in Answers(n, lba) :
          /\ blks' = n
          /\ res' = Classify(r)
          /\ ioAddr' = IoAddrAfter(r, 0)
          /\ recoveredErrs' = recoveredErrs + RecoveredDelta(r)
          /\ unrecoveredErrs' = unrecoveredErrs + UnrecoveredDelta(r)
          /\ buf' = Transfer(buf, xferred, n, DevAddr(n, lba), r)
    BY <1>3 DEF ReadLow
  <2>3. /\ Classify(r) \in Results
        /\ IoAddrAfter(r, 0) \in Nat
        /\ Transfer(buf, xferred, n, DevAddr(n, lba), r) \in [Idx -> Contents]
    BY <2>1, ClassifyType, IoAddrType, TransferType
  <2>. QED BY <1>3, <2>1, <2>2, <2>3 DEF ReadLow, RecoveredDelta, UnrecoveredDelta
<1>4. CASE MainOk
  BY <1>4 DEF MainOk, Return
<1>5. CASE MainStop
  BY <1>5 DEF MainStop, ReturnKeep
<1>6. CASE MainAborted
  BY <1>6 DEF MainAborted, ReturnKeep
<1>7. CASE MainUnitAttention
  BY <1>7 DEF MainUnitAttention, ReturnKeep
<1>8. CASE MainRetry
  BY <1>8 DEF MainRetry
<1>9. CASE MainGiveUp
  BY <1>9 DEF MainGiveUp, ErrOut, Return, ReturnKeep, ZeroFill, Idx, Contents, Zero
<1>10. CASE MainSyntax
  BY <1>10 DEF MainSyntax, ErrOut, ReturnKeep
<1>11. CASE MainEio
  BY <1>11 DEF MainEio, ErrOut, Return, ReturnKeep, ZeroFill, Idx, Contents, Zero
<1>12. CASE MediumOutOfRange
  BY <1>12 DEF MediumOutOfRange, ErrOut, Return, ReturnKeep, ZeroFill, Idx,
               Contents, Zero
<1>13. CASE MediumInRange
  BY <1>13 DEF MediumInRange
<1>14. CASE ReadPrefix
  <2>1. PICK r \in Answers(blks, lba) :
          /\ res' = Classify(r)
          /\ ioAddr' = IoAddrAfter(r, ioAddr)
          /\ recoveredErrs' = recoveredErrs + RecoveredDelta(r)
          /\ unrecoveredErrs' = unrecoveredErrs + UnrecoveredDelta(r)
          /\ buf' = Transfer(buf, xferred, blks, DevAddr(blks, lba), r)
    BY <1>14 DEF ReadPrefix
  <2>2. /\ Classify(r) \in Results
        /\ IoAddrAfter(r, ioAddr) \in Nat
        /\ Transfer(buf, xferred, blks, DevAddr(blks, lba), r) \in [Idx -> Contents]
    BY ClassifyType, IoAddrType, TransferType
  <2>. QED BY <1>14, <2>1, <2>2 DEF ReadPrefix, RecoveredDelta, UnrecoveredDelta
<1>15. CASE PrefixOk
  BY <1>15 DEF PrefixOk
<1>16. CASE PrefixEio
  BY <1>16 DEF PrefixEio, ErrOut, ReturnKeep
<1>17. CASE PrefixStop
  BY <1>17 DEF PrefixStop, ReturnKeep
<1>18. CASE PrefixFail
  BY <1>18 DEF PrefixFail, ErrOut, Return, ReturnKeep, ZeroFill, Idx, Contents, Zero
<1>19. CASE CoeStop
  BY <1>19 DEF CoeStop, Return
<1>20. CASE CoeSmallBs
  BY <1>20 DEF CoeSmallBs, ReturnKeep
<1>21. CASE CoeZero
  BY <1>21 DEF CoeZero, Idx, Contents, Zero
<1>22. CASE CoeReadLong
  BY <1>22 DEF CoeReadLong
<1>23. CASE ReadLongHeapFail
  BY <1>23 DEF ReadLongHeapFail, ReturnKeep
<1>24. CASE ReadLongOk
  BY <1>24, WidthsPositive DEF ReadLongOk, Advance, LongData, Idx, Contents
<1>25. CASE ReadLongFail
  BY <1>25 DEF ReadLongFail, Advance, Idx, Contents, Zero
<1>26. CASE ReadLongAdjust
  BY <1>26 DEF ReadLongAdjust
<1>27. CASE ReadLong2Ok
  BY <1>27, WidthsPositive DEF ReadLong2Ok, Advance, LongData, Idx, Contents
<1>28. CASE ReadLong2Fail
  BY <1>28 DEF ReadLong2Fail, Advance, Idx, Contents, Zero
<1>29. CASE UNCHANGED vars
  BY <1>29 DEF vars
<1>. QED BY <1>1, <1>2, <1>3, <1>4, <1>5, <1>6, <1>7, <1>8, <1>9, <1>10,
            <1>11, <1>12, <1>13, <1>14, <1>15, <1>16, <1>17, <1>18, <1>19,
            <1>20, <1>21, <1>22, <1>23, <1>24, <1>25, <1>26, <1>27, <1>28,
            <1>29 DEF Next, Engine

-----------------------------------------------------------------------------
(* The theorems *)

\* Every variable of sg_read keeps its type in every reachable state: the
\* retry budget stays within 0..ifp->retries, the transfer cursor and the
\* reported count within the caller's buffer, io_addr a natural number.
THEOREM TypeCorrect == Spec => []TypeOK
<1>1. IInv => TypeOK
  BY DEF IInv
<1>. QED BY <1>1, InitIInv, NextIInv, PTL DEF Spec

\* No transfer, memset of err_out or READ LONG copy of sg_read ever writes
\* beyond the blocks the caller asked for, for every command size, device
\* answer, retry budget and continue-on-error level.
THEOREM NoOverrunHolds == Spec => []NoOverrun
<1>1. IInv => NoOverrun
  BY DEF IInv
<1>. QED BY <1>1, InitIInv, NextIInv, PTL DEF Spec

-----------------------------------------------------------------------------
(* A command size the builder rejects (the &iflag retry) *)

\* Under a rejected command size no call gets past its first transfer: the
\* loop head is reached only fresh from Call, and the first switch only
\* with SG_LIB_SYNTAX_ERROR, with the caller's buffer still untouched.
SyntaxInv ==
  CdbSz \notin CdbSizes =>
    /\ pc \in {"Idle", "Loop", "Main"}
    /\ pc = "Loop" => xferred = 0 /\ blocks > 0
    /\ pc = "Main" => res = "SYNTAX"
    /\ pc \in {"Loop", "Main"} => buf = [i \in Idx |-> Stale]
    /\ pc = "Idle" /\ calls > 0 => result = "SYNTAX" /\ buf = [i \in Idx |-> Stale]

\* sg_read_low cannot build the command, so its only answer is the
\* SG_LIB_SYNTAX_ERROR return, which leaves the buffer as it was.
LEMMA BadSizeAnswer ==
  ASSUME CdbSz \notin CdbSizes, NEW n, NEW a, NEW r \in Answers(n, a),
         NEW b, NEW at, NEW m, NEW d
  PROVE  /\ Classify(r) = "SYNTAX"
         /\ Transfer(b, at, m, d, r) = b
<1>1. r = Answer("none", 0, FALSE, FALSE, FALSE)
  BY DEF Answers, BuildFails
<1>2. Classify(r) = "SYNTAX"
  BY <1>1 DEF Classify, Answer
<1>. QED BY <1>2 DEF Transfer

LEMMA NextSyntaxInv == IInv /\ SyntaxInv /\ [Next]_vars => SyntaxInv'
<1> SUFFICES ASSUME IInv, SyntaxInv, [Next]_vars, CdbSz \notin CdbSizes
             PROVE  SyntaxInv'
  BY DEF SyntaxInv
<1>. USE ConstantsAssumption DEF IInv, TypeOK, SyntaxInv, args, counters
<1>1. CASE Call
  BY <1>1 DEF Call
<1>2. CASE LoopExit
  BY <1>2 DEF LoopExit
<1>3. CASE ReadLow
  <2>1. PICK r \in Answers(blocks - xferred, lba) :
          /\ res' = Classify(r)
          /\ buf' = Transfer(buf, xferred, blocks - xferred,
                             DevAddr(blocks - xferred, lba), r)
    BY <1>3 DEF ReadLow
  <2>2. res' = "SYNTAX" /\ buf' = buf
    BY <2>1, BadSizeAnswer
  <2>. QED BY <1>3, <2>2 DEF ReadLow
<1>4. CASE MainSyntax
  BY <1>4 DEF MainSyntax, ErrOut, ReturnKeep
<1>5. CASE \/ MainOk \/ MainStop \/ MainAborted \/ MainUnitAttention
           \/ MainRetry \/ MainGiveUp \/ MainEio
  BY <1>5 DEF MainOk, MainStop, MainAborted, MainUnitAttention, MainRetry,
              MainGiveUp, MainEio
<1>6. CASE \/ MediumOutOfRange \/ MediumInRange \/ ReadPrefix \/ PrefixOk
           \/ PrefixEio \/ PrefixStop \/ PrefixFail
  BY <1>6 DEF MediumOutOfRange, MediumInRange, ReadPrefix, PrefixOk,
              PrefixEio, PrefixStop, PrefixFail
<1>7. CASE \/ CoeStop \/ CoeSmallBs \/ CoeZero \/ CoeReadLong
           \/ ReadLongHeapFail \/ ReadLongOk \/ ReadLongFail
           \/ ReadLongAdjust \/ ReadLong2Ok \/ ReadLong2Fail
  BY <1>7 DEF CoeStop, CoeSmallBs, CoeZero, CoeReadLong, ReadLongHeapFail,
              ReadLongOk, ReadLongFail, ReadLongAdjust, ReadLong2Ok,
              ReadLong2Fail
<1>8. CASE UNCHANGED vars
  BY <1>8 DEF vars
<1>. QED BY <1>1, <1>2, <1>3, <1>4, <1>5, <1>6, <1>7, <1>8 DEF Next, Engine

\* Every call of sg_read made with a command size the builder rejects (as
\* read_verify_device's ENOMEM retry with &iflag, cdbsz 0) returns
\* SG_LIB_SYNTAX_ERROR with the buffer untouched, for every device answer,
\* block size, start, retry budget and continue-on-error level.
THEOREM BadSizeIsSyntaxHolds == Spec => []BadSizeIsSyntax
<1>1. Init => SyntaxInv
  BY DEF Init, SyntaxInv
<1>2. SyntaxInv => BadSizeIsSyntax
  BY DEF SyntaxInv, BadSizeIsSyntax
<1>3. IInv /\ SyntaxInv /\ [][Next]_vars => [](IInv /\ SyntaxInv)
  BY NextIInv, NextSyntaxInv, PTL
<1>. QED BY <1>1, <1>2, <1>3, InitIInv, PTL DEF Spec


-----------------------------------------------------------------------------
(* READ LONG fits its buffer while the block size READ LONG meets is one *)

\* Every block size big enough for READ LONG is the same, and the initial
\* read_long_blk_inc (READ_LONG_DEF_BLK_INC, 8) is at most the smallest
\* such size.  The run readlong_bs breaks the first conjunct.
OneLongBlockSize ==
  /\ \A s, t \in BlockSizes : s >= MinLong /\ t >= MinLong => s = t
  /\ ReadLongDefInc <= MinLong

\* The learned increment never exceeds a block size READ LONG may meet;
\* inside a call bs is the caller's; the second READ LONG's length was
\* checked against the bs * 2 buffer.
LongInv ==
  /\ \A s \in BlockSizes : s >= MinLong => readLongBlkInc <= s
  /\ pc # "Idle" => bs \in BlockSizes
  /\ pc \in {"ReadLong", "ReadLong2"} => bs >= MinLong
  /\ pc = "ReadLong2" => nl <= 2 * bs


LEMMA InitLongInv == OneLongBlockSize /\ Init => LongInv
  BY ConstantsAssumption DEF OneLongBlockSize, Init, LongInv, MinLong

\* The steps that move to neither READ LONG leave the block size, the
\* increment and nl as they are.
LEMMA LongFrame ==
  ASSUME \/ LoopExit \/ ReadLow \/ MainOk \/ MainStop \/ MainAborted
         \/ MainUnitAttention \/ MainRetry \/ MainGiveUp \/ MainSyntax
         \/ MainEio \/ MediumOutOfRange \/ MediumInRange \/ ReadPrefix
         \/ PrefixOk \/ PrefixEio \/ PrefixStop \/ PrefixFail \/ CoeStop
         \/ CoeSmallBs \/ CoeZero \/ ReadLongHeapFail \/ ReadLongOk
         \/ ReadLongFail \/ ReadLong2Ok \/ ReadLong2Fail
  PROVE  /\ UNCHANGED <<bs, nl, readLongBlkInc>>
         /\ pc' \notin {"ReadLong", "ReadLong2"}
         /\ pc' # "Idle" => pc # "Idle"
<1>1. CASE \/ LoopExit \/ ReadLow \/ MainOk \/ MainStop \/ MainAborted
           \/ MainUnitAttention \/ MainRetry \/ MediumInRange \/ ReadPrefix
           \/ PrefixOk \/ PrefixStop \/ CoeStop \/ CoeSmallBs
  BY <1>1 DEF LoopExit, ReadLow, MainOk, MainStop, MainAborted,
              MainUnitAttention, MainRetry, MediumInRange, ReadPrefix,
              PrefixOk, PrefixStop, CoeStop, CoeSmallBs, Return, ReturnKeep,
              args, counters
<1>2. CASE \/ MainGiveUp \/ MainSyntax \/ MainEio \/ MediumOutOfRange
           \/ PrefixEio \/ PrefixFail
  BY <1>2 DEF MainGiveUp, MainSyntax, MainEio, MediumOutOfRange, PrefixEio,
              PrefixFail, ErrOut, Return, ReturnKeep, args, counters
<1>3. CASE \/ CoeZero \/ ReadLongHeapFail \/ ReadLongOk \/ ReadLongFail
           \/ ReadLong2Ok \/ ReadLong2Fail
  BY <1>3 DEF CoeZero, ReadLongHeapFail, ReadLongOk, ReadLongFail,
              ReadLong2Ok, ReadLong2Fail, Advance, ReturnKeep, args, counters
<1>. QED BY <1>1, <1>2, <1>3

LEMMA NextLongInv ==
  OneLongBlockSize /\ IInv /\ LongInv /\ [Next]_vars => LongInv'
<1> SUFFICES ASSUME OneLongBlockSize, IInv, LongInv, [Next]_vars
             PROVE  LongInv'
  OBVIOUS
<1>. USE DEF LongInv
<1>1. CASE Call
  BY <1>1 DEF Call, counters
<1>2. CASE CoeReadLong
  BY <1>2 DEF CoeReadLong, counters, args
<1>3. CASE ReadLongAdjust
  <2>1. PICK off \in Offsets :
          LET n2 == bs + readLongBlkInc - off IN
          /\ n2 >= MinLong /\ n2 <= bs * 2
          /\ readLongBlkInc' = n2 - bs
          /\ nl' = n2
    BY <1>3 DEF ReadLongAdjust
  <2>2. pc = "ReadLong" /\ pc' = "ReadLong2" /\ UNCHANGED bs
    BY <1>3 DEF ReadLongAdjust, args
  <2>3. bs \in BlockSizes /\ bs >= MinLong
    BY <2>2
  <2>4. \A s \in BlockSizes : s >= MinLong => s = bs
    BY <2>3 DEF OneLongBlockSize
  <2>5. bs \in Nat /\ readLongBlkInc \in Int /\ off \in Int
    BY ConstantsAssumption DEF IInv, TypeOK
  <2>. QED BY <2>1, <2>2, <2>3, <2>4, <2>5
<1>4. CASE Engine /\ ~CoeReadLong /\ ~ReadLongAdjust
  <2>1. /\ UNCHANGED <<bs, nl, readLongBlkInc>>
        /\ pc' \notin {"ReadLong", "ReadLong2"}
        /\ pc' # "Idle" => pc # "Idle"
    BY <1>4, LongFrame DEF Engine
  <2>. QED BY <2>1
<1>5. CASE UNCHANGED vars
  BY <1>5 DEF vars, counters
<1>. QED BY <1>1, <1>2, <1>3, <1>4, <1>5 DEF Next

\* READ LONG never asks for more bytes than the bs * 2 buffer sg_read
\* allocates for it (lines 894, 902, 913, 921), as long as every block size
\* READ LONG can meet is the same: the increment learned from an
\* ILLEGAL_REQ_WITH_INFO is checked against the bs it was learned under
\* only (the run readlong_bs shows two sizes overflow the buffer).
THEOREM ReadLongFitsHolds ==
  ASSUME OneLongBlockSize PROVE Spec => []ReadLongFits
<1>1. Init => IInv /\ LongInv
  BY InitIInv, InitLongInv
<1>2. IInv /\ LongInv /\ [Next]_vars => IInv' /\ LongInv'
  BY NextIInv, NextLongInv
<1>3. IInv /\ LongInv => ReadLongFits
  BY ConstantsAssumption DEF IInv, TypeOK, LongInv, ReadLongFits
<1>. QED BY <1>1, <1>2, <1>3, PTL DEF Spec

=============================================================================
