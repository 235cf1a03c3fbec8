------------------------- MODULE SgReadContractProofs -------------------------
(***************************************************************************)
(* sg_read keeps its contract (spec section 3, ReturnedBlocksValid) on    *)
(* every device whose blocks all have addresses below 2^32: there, every  *)
(* command the builder accepts reads exactly the LBA the loop asks for,   *)
(* and READ LONG (10)'s unsigned int argument holds the bad block's LBA.  *)
(* The runs cdb10_wrap and stale_ioaddr show that the bound is needed.    *)
(*                                                                         *)
(* ValidInv says what the loop has settled at each control point: lba     *)
(* tracks fromBlock + xferred, every slot below xferred holds zeros or its *)
(* own LBA's data, and a successful transfer has filled the slots it       *)
(* read.  The count and result a call returns then satisfy the contract.  *)
(***************************************************************************)
EXTENDS SgReadProofs

\* Every block a caller can ask for lies below 2^32 (B4 in ByteBase units).
AddressesFit == \A f \in Starts : f + MaxBlocks <= B4

\* Slot i of the caller's buffer holds zeros or the data of its own LBA.
Good(i) ==
  \/ buf[i] = Zero
  \/ buf[i] \in Data /\ buf[i].lba = fromBlock + i

ValidInv ==
  /\ pc # "Idle" => fromBlock \in Starts /\ blocks \in 1..MaxBlocks /\ blksRead = 0
  /\ pc \in {"Loop", "Main", "Prefix", "PrefixDone", "ReadLong", "ReadLong2"} =>
       lba = fromBlock + xferred
  /\ pc = "Coe" => lba + blks = fromBlock + xferred
  /\ pc \in {"Prefix", "PrefixDone"} => blks > 0
  /\ pc \in {"Prefix", "PrefixDone", "Coe", "ReadLong", "ReadLong2"} => ret = "MEDIUM"
  /\ pc # "Idle" => \A i \in 0..(xferred - 1) : Good(i)
  /\ pc \in {"Main", "PrefixDone"} /\ res = "OK" =>
       \A i \in xferred..(xferred + blks - 1) : Good(i)
  /\ ReturnedBlocksValid


-----------------------------------------------------------------------------
(* The operators the loop is built from *)

\* A command the builder accepts for a start block below 2^32 carries that
\* block exactly: the 6-byte builder fails beyond 21 bits, and the wider
\* fields hold 32 or 64 bits.
LEMMA DevAddrExact ==
  ASSUME NEW n \in Nat \ {0}, NEW at \in Nat, at < B4,
         ~BuildFails(CdbSz, n, at, Fua, Dpo)
  PROVE  DevAddr(n, at) = at
<1>1. DevAddr(n, at) = at % LbaFieldSize(CdbSz)
  BY DEF DevAddr, BuildCdb, CdbStart
<1>2. B4 \in Nat \ {0} /\ B8 \in Nat /\ B4 <= B8 /\ Lba6Mask \in Nat
  <2>1. B4 \in Nat \ {0} /\ B8 \in Nat /\ B4 <= B8
    BY WidthsPositive DEF B8
  <2>2. B3 \in Nat /\ B3 >= 8
    BY ByteBaseAssumption DEF B3, B2
  <2>. QED BY <2>1, <2>2 DEF Lba6Mask
<1>0. 6 # 10 /\ 6 # 12 /\ 6 # 16 /\ 10 # 12 /\ 10 # 16 /\ 12 # 16
  OBVIOUS
<1>3. CASE CdbSz = 6
  <2>1. at <= Lba6Mask
    BY <1>2, <1>3 DEF BuildFails
  <2>2. LbaFieldSize(CdbSz) = Lba6Mask + 1
    BY <1>0, <1>3, Zenon DEF LbaFieldSize
  <2>. QED BY <1>1, <1>2, <2>1, <2>2
<1>4. CASE CdbSz \in {10, 12}
  <2>1. LbaFieldSize(CdbSz) = B4
    BY <1>0, <1>4, Zenon DEF LbaFieldSize
  <2>. QED BY <1>1, <1>2, <2>1
<1>5. CASE CdbSz = 16
  <2>1. LbaFieldSize(16) = B8
    BY <1>0, Zenon DEF LbaFieldSize
  <2>2. LbaFieldSize(CdbSz) = B8
    BY <1>5, <2>1
  <2>. QED BY <1>1, <1>2, <2>2
<1>. QED BY <1>3, <1>4, <1>5 DEF BuildFails, CdbSizes

\* An answer sg_read_low classifies as 0 comes from a command that was built.
LEMMA OkAnswerBuilt ==
  ASSUME NEW n, NEW at, NEW r \in Answers(n, at), Classify(r) = "OK"
  PROVE  ~BuildFails(CdbSz, n, at, Fua, Dpo)
<1>. SUFFICES ASSUME BuildFails(CdbSz, n, at, Fua, Dpo) PROVE FALSE
  OBVIOUS
<1>1. r = Answer("none", 0, FALSE, FALSE, FALSE)
  BY DEF Answers
<1>2. Classify(r) = "SYNTAX"
  BY <1>1 DEF Classify, Answer
<1>. QED BY <1>2

\* A transfer leaves the buffer alone or rewrites the n slots from `at`:
\* with the data of addresses a, a + 1, ... on success, with Stale after a
\* failed transfer.
LEMMA TransferCases ==
  ASSUME NEW b, NEW at, NEW n, NEW a, NEW r
  PROVE  \/ /\ Classify(r) = "OK"
            /\ Transfer(b, at, n, a, r) =
                 [j \in Idx |-> IF at <= j /\ j < at + n
                                THEN [src |-> "dev", lba |-> a + (j - at)]
                                ELSE b[j]]
         \/ Classify(r) # "OK" /\ Transfer(b, at, n, a, r) = b
         \/ /\ Classify(r) # "OK"
            /\ Transfer(b, at, n, a, r) =
                 [j \in Idx |-> IF at <= j /\ j < at + n THEN Stale ELSE b[j]]
<1>1. CASE Classify(r) = "OK"
  BY <1>1, Zenon DEF Transfer
<1>2. CASE Classify(r) \in {"SYNTAX", "ENOMEM", "EIO"}
  BY <1>2, Zenon DEF Transfer
<1>3. CASE Classify(r) \notin {"OK", "SYNTAX", "ENOMEM", "EIO"}
  BY <1>3, Zenon DEF Transfer
<1>. QED BY <1>1, <1>2, <1>3

\* A READ of the n blocks from the cursor keeps the settled slots, and when
\* it succeeds the slots it read hold their own LBAs.
LEMMA ReadKeepsGood ==
  ASSUME TypeOK, AddressesFit, fromBlock \in Starts, blocks \in 1..MaxBlocks,
         NEW n \in Nat \ {0}, xferred + n <= blocks,
         lba = fromBlock + xferred,
         \A i \in 0..(xferred - 1) : Good(i),
         NEW r \in Answers(n, lba),
         buf' = Transfer(buf, xferred, n, DevAddr(n, lba), r),
         fromBlock' = fromBlock
  PROVE  /\ \A i \in 0..(xferred - 1) : Good(i)'
         /\ Classify(r) = "OK" => \A i \in xferred..(xferred + n - 1) : Good(i)'
<1>1. ASSUME NEW i \in 0..(xferred - 1) PROVE Good(i)'
  <2>1. i \in Idx /\ ~(xferred <= i /\ i < xferred + n)
    BY ConstantsAssumption DEF Idx, TypeOK
  <2>2. Transfer(buf, xferred, n, DevAddr(n, lba), r)[i] = buf[i]
    BY <2>1, TransferCases
  <2>3. buf'[i] = buf[i]
    BY <2>2
  <2>. QED BY <2>3 DEF Good
<1>2. ASSUME Classify(r) = "OK", NEW i \in xferred..(xferred + n - 1)
      PROVE  Good(i)'
  <2>0. xferred \in Nat /\ lba \in Nat /\ fromBlock + MaxBlocks <= B4
    BY DEF TypeOK, AddressesFit
  <2>1. lba < B4
    BY <2>0, ConstantsAssumption, WidthsPositive
  <2>2. DevAddr(n, lba) = lba
    BY <1>2, <2>0, <2>1, OkAnswerBuilt, DevAddrExact
  <2>3. i \in Idx /\ xferred <= i /\ i < xferred + n
    BY ConstantsAssumption DEF Idx, TypeOK
  <2>4. Transfer(buf, xferred, n, lba, r)[i] =
          [src |-> "dev", lba |-> lba + (i - xferred)]
    BY <1>2, <2>3, TransferCases
  <2>5. buf'[i] = [src |-> "dev", lba |-> lba + (i - xferred)]
    BY <2>2, <2>4
  <2>6. lba + (i - xferred) \in Nat /\ lba + (i - xferred) = fromBlock + i
    BY <2>0, <2>3, ConstantsAssumption
  <2>7. buf'[i] \in Data /\ buf'[i].lba = fromBlock + i
    BY <2>5, <2>6 DEF Data
  <2>. QED BY <2>7 DEF Good
<1>. QED BY <1>1, <1>2


\* Writing zeros or the data of its own LBA into the slot at the cursor and
\* moving the cursor past it keeps every slot below the cursor settled.
LEMMA AdvanceKeepsGood ==
  ASSUME TypeOK, xferred < blocks, blocks <= MaxBlocks,
         \A i \in 0..(xferred - 1) : Good(i),
         NEW v, v = Zero \/ (v \in Data /\ v.lba = fromBlock + xferred),
         buf' = [buf EXCEPT ![xferred] = v],
         xferred' = xferred + 1, fromBlock' = fromBlock
  PROVE  \A i \in 0..(xferred' - 1) : Good(i)'
<1>1. xferred \in Idx
  BY ConstantsAssumption DEF TypeOK, Idx
<1>2. ASSUME NEW i \in 0..(xferred' - 1) PROVE Good(i)'
  <2>1. CASE i = xferred
    BY <1>1, <2>1 DEF Good, TypeOK
  <2>2. CASE i # xferred
    <3>1. i \in 0..(xferred - 1) /\ buf'[i] = buf[i]
      BY <1>1, <2>2 DEF TypeOK
    <3>. QED BY <3>1 DEF Good
  <2>. QED BY <2>1, <2>2
<1>. QED BY <1>2

\* The err_out label returns from a state where every slot below the cursor
\* is settled: zero-filling the current blks and fudging the count, or
\* leaving *blks_readp at 0, it returns a count and result the contract
\* allows.  It returns 0 only with may_coe, after the whole remaining range.
LEMMA ErrOutValid ==
  ASSUME TypeOK, pc # "Idle", blksRead = 0,
         \A i \in 0..(xferred - 1) : Good(i),
         NEW c, NEW mayCoe \in BOOLEAN, NEW r, r # "OK",
         xferred + blks <= blocks, mayCoe => xferred + blks = blocks,
         ErrOut(c, mayCoe, r, blks),
         UNCHANGED <<blocks, fromBlock, xferred, blks>>
  PROVE  pc' = "Idle" /\ ReturnedBlocksValid'
<1>1. CASE c # 0
  <2>1. /\ buf' = ZeroFill(buf, xferred, blks)
        /\ pc' = "Idle"
        /\ result' = IF mayCoe THEN "OK" ELSE r
        /\ blksRead' = xferred + blks
    BY <1>1 DEF ErrOut, Return
  <2>2. ASSUME NEW i \in 0..(blksRead' - 1) PROVE Good(i)'
    <3>1. i \in Idx
      BY <2>1, ConstantsAssumption DEF TypeOK, Idx
    <3>2. CASE i < xferred
      BY <2>1, <3>1, <3>2 DEF ZeroFill, Good, TypeOK
    <3>3. CASE i >= xferred
      BY <2>1, <3>1, <3>3 DEF ZeroFill, Good, TypeOK
    <3>. QED BY <3>2, <3>3 DEF TypeOK
  <2>. QED BY <2>1, <2>2 DEF ReturnedBlocksValid, Good, TypeOK
<1>2. CASE c = 0
  <2>1. pc' = "Idle" /\ result' = r /\ blksRead' = 0
    BY <1>2 DEF ErrOut, ReturnKeep
  <2>. QED BY <2>1 DEF ReturnedBlocksValid, TypeOK
<1>. QED BY <1>1, <1>2


-----------------------------------------------------------------------------
(* ValidInv is inductive on devices whose addresses fit *)

LEMMA InitValidInv == Init => ValidInv
  BY DEF Init, ValidInv, ReturnedBlocksValid

\* The steps that leave the buffer, the cursor and lba as they are and stay
\* inside the call keep every slot below the cursor settled.
LEMMA SameSlotsGood ==
  ASSUME \A i \in 0..(xferred - 1) : Good(i),
         UNCHANGED <<buf, fromBlock, xferred>>
  PROVE  \A i \in 0..(xferred' - 1) : Good(i)'
  BY DEF Good

LEMMA NextValidInv ==
  AddressesFit /\ IInv /\ ValidInv /\ [Next]_vars => ValidInv'
<1> SUFFICES ASSUME AddressesFit, IInv, ValidInv, [Next]_vars PROVE ValidInv'
  OBVIOUS
<1>. USE ConstantsAssumption DEF IInv, Cursor, ValidInv, args, counters
<1>1. CASE Call
  BY <1>1 DEF Call, ReturnedBlocksValid, TypeOK
<1>2. CASE LoopExit
  BY <1>2 DEF LoopExit, Return, ReturnedBlocksValid, Good, TypeOK
<1>3. CASE ReadLow
  <2>. DEFINE n == blocks - xferred
  <2>1. PICK r \in Answers(n, lba) :
          /\ blks' = n
          /\ res' = Classify(r)
          /\ buf' = Transfer(buf, xferred, n, DevAddr(n, lba), r)
    BY <1>3 DEF ReadLow
  <2>2. n \in Nat \ {0} /\ pc = "Loop" /\ pc' = "Main"
        /\ UNCHANGED <<blocks, fromBlock, xferred, lba, blksRead, ret>>
    BY <1>3 DEF ReadLow, TypeOK
  <2>3. /\ fromBlock \in Starts /\ blocks \in 1..MaxBlocks
        /\ xferred + n <= blocks /\ lba = fromBlock + xferred
        /\ \A i \in 0..(xferred - 1) : Good(i)
    BY <2>2 DEF TypeOK
  <2>4. /\ \A i \in 0..(xferred - 1) : Good(i)'
        /\ Classify(r) = "OK" => \A i \in xferred..(xferred + n - 1) : Good(i)'
    <3>. HIDE DEF n
    <3>. QED BY <2>1, <2>2, <2>3, ReadKeepsGood
  <2>. QED BY <2>1, <2>2, <2>4 DEF ReturnedBlocksValid, TypeOK
<1>4. CASE MainOk
  <2>1. pc = "Main" /\ res = "OK" /\ pc' = "Idle" /\ result' = "OK"
        /\ blksRead' = xferred + blks /\ UNCHANGED <<buf, blocks, fromBlock>>
    BY <1>4 DEF MainOk, Return
  <2>2. \A i \in 0..(xferred + blks - 1) : Good(i)'
    BY <2>1 DEF Good, TypeOK
  <2>. QED BY <2>1, <2>2 DEF ReturnedBlocksValid, Good, TypeOK
<1>5. CASE \/ MainStop \/ MainAborted \/ MainUnitAttention \/ PrefixStop
           \/ CoeSmallBs \/ ReadLongHeapFail
  <2>1. /\ UNCHANGED <<buf, blocks, fromBlock, xferred, lba, blks, ret, blksRead>>
        /\ pc \in {"Main", "PrefixDone", "Coe", "ReadLong"}
        /\ \/ pc' = "Loop" /\ pc = "Main"
           \/ pc' = "Idle" /\ result' # "OK"
    BY <1>5 DEF MainStop, MainAborted, MainUnitAttention, PrefixStop,
                CoeSmallBs, ReadLongHeapFail, ReturnKeep
  <2>2. \A i \in 0..(xferred' - 1) : Good(i)'
    BY <2>1, SameSlotsGood
  <2>. QED BY <2>1, <2>2 DEF ReturnedBlocksValid, TypeOK
<1>6. CASE MainRetry
  <2>1. pc = "Main" /\ pc' = "Loop"
        /\ UNCHANGED <<buf, blocks, fromBlock, xferred, lba, blksRead>>
    BY <1>6 DEF MainRetry
  <2>. QED BY <2>1, SameSlotsGood DEF ReturnedBlocksValid
<1>7. CASE \/ MainGiveUp \/ MainEio \/ MediumOutOfRange \/ MainSyntax
           \/ PrefixEio \/ PrefixFail
  <2>1. /\ pc \in {"Main", "PrefixDone"}
        /\ UNCHANGED <<blocks, fromBlock, xferred, blks>>
        /\ \E c, r : \E mayCoe \in BOOLEAN :
             /\ r # "OK"
             /\ mayCoe => pc = "Main"
             /\ ErrOut(c, mayCoe, r, blks)
    BY <1>7 DEF MainGiveUp, MainEio, MediumOutOfRange, MainSyntax,
                PrefixEio, PrefixFail
  <2>2. xferred + blks <= blocks /\ (pc = "Main" => xferred + blks = blocks)
    BY <2>1 DEF TypeOK
  <2>3. pc' = "Idle" /\ ReturnedBlocksValid'
    BY <2>1, <2>2, ErrOutValid DEF IInv
  <2>. QED BY <2>3 DEF ReturnedBlocksValid
<1>8. CASE MediumInRange
  <2>1. /\ pc = "Main" /\ lba <= ioAddr /\ ioAddr < lba + blks
        /\ blks' = ioAddr - lba /\ ret' = "MEDIUM"
        /\ pc' = IF ioAddr - lba > 0 THEN "Prefix" ELSE "Coe"
        /\ UNCHANGED <<buf, blocks, fromBlock, xferred, lba, blksRead>>
    BY <1>8 DEF MediumInRange
  <2>. QED BY <2>1, SameSlotsGood DEF ReturnedBlocksValid, TypeOK
<1>9. CASE ReadPrefix
  <2>1. PICK r \in Answers(blks, lba) :
          /\ res' = Classify(r)
          /\ buf' = Transfer(buf, xferred, blks, DevAddr(blks, lba), r)
    BY <1>9 DEF ReadPrefix
  <2>2. blks \in Nat \ {0} /\ pc = "Prefix" /\ pc' = "PrefixDone"
        /\ UNCHANGED <<blocks, fromBlock, xferred, lba, blks, blksRead, ret>>
    BY <1>9 DEF ReadPrefix, TypeOK
  <2>3. /\ \A i \in 0..(xferred - 1) : Good(i)'
        /\ Classify(r) = "OK" => \A i \in xferred..(xferred + blks - 1) : Good(i)'
    BY <2>1, <2>2, ReadKeepsGood DEF TypeOK
  <2>. QED BY <2>1, <2>2, <2>3 DEF ReturnedBlocksValid
<1>10. CASE PrefixOk
  <2>1. /\ pc = "PrefixDone" /\ res = "OK" /\ pc' = "Coe"
        /\ xferred' = xferred + blks
        /\ UNCHANGED <<buf, blocks, fromBlock, lba, blks, blksRead, ret>>
    BY <1>10 DEF PrefixOk
  <2>2. \A i \in 0..(xferred' - 1) : Good(i)'
    BY <2>1 DEF Good, TypeOK
  <2>. QED BY <2>1, <2>2 DEF ReturnedBlocksValid, TypeOK
<1>11. CASE CoeStop
  <2>1. /\ pc = "Coe" /\ pc' = "Idle" /\ result' = ret /\ blksRead' = xferred
        /\ UNCHANGED <<buf, blocks, fromBlock, xferred>>
    BY <1>11 DEF CoeStop, Return
  <2>2. \A i \in 0..(xferred' - 1) : Good(i)'
    BY <2>1, SameSlotsGood
  <2>. QED BY <2>1, <2>2 DEF ReturnedBlocksValid, Good, TypeOK
<1>12. CASE CoeZero
  <2>1. /\ pc = "Coe" /\ pc' = "Loop"
        /\ buf' = [buf EXCEPT ![xferred] = Zero]
        /\ xferred' = xferred + 1 /\ lba' = lba + blks + 1
        /\ UNCHANGED <<blocks, fromBlock, blksRead>>
    BY <1>12 DEF CoeZero
  <2>2. /\ xferred < blocks /\ blocks <= MaxBlocks
        /\ \A i \in 0..(xferred - 1) : Good(i)
    BY <2>1 DEF TypeOK
  <2>3. \A i \in 0..(xferred' - 1) : Good(i)'
    BY <2>1, <2>2, AdvanceKeepsGood
  <2>. QED BY <2>1, <2>3 DEF ReturnedBlocksValid, TypeOK
<1>13. CASE CoeReadLong
  <2>1. /\ pc = "Coe" /\ pc' = "ReadLong" /\ lba' = lba + blks
        /\ UNCHANGED <<buf, blocks, fromBlock, xferred, blksRead, ret>>
    BY <1>13 DEF CoeReadLong
  <2>. QED BY <2>1, SameSlotsGood DEF ReturnedBlocksValid, TypeOK
<1>14. CASE ReadLongOk \/ ReadLong2Ok
  <2>1. /\ pc \in {"ReadLong", "ReadLong2"} /\ pc' = "Loop"
        /\ buf' = [buf EXCEPT ![xferred] = LongData]
        /\ xferred' = xferred + 1 /\ lba' = lba + 1
        /\ UNCHANGED <<blocks, fromBlock, blksRead>>
    BY <1>14 DEF ReadLongOk, ReadLong2Ok, Advance
  <2>2. lba \in Nat /\ lba < B4 /\ B4 \in Nat \ {0}
    BY <2>1, WidthsPositive DEF AddressesFit, TypeOK
  <2>3. LongData \in Data /\ LongData.lba = fromBlock + xferred
    BY <2>1, <2>2 DEF LongData, Data
  <2>4. /\ xferred < blocks /\ blocks <= MaxBlocks
        /\ \A i \in 0..(xferred - 1) : Good(i)
    BY <2>1 DEF TypeOK
  <2>5. \A i \in 0..(xferred' - 1) : Good(i)'
    BY <2>1, <2>3, <2>4, AdvanceKeepsGood
  <2>. QED BY <2>1, <2>5 DEF ReturnedBlocksValid, TypeOK
<1>15. CASE ReadLongFail \/ ReadLong2Fail
  <2>1. /\ pc \in {"ReadLong", "ReadLong2"} /\ pc' = "Loop"
        /\ buf' = [buf EXCEPT ![xferred] = Zero]
        /\ xferred' = xferred + 1 /\ lba' = lba + 1
        /\ UNCHANGED <<blocks, fromBlock, blksRead>>
    BY <1>15 DEF ReadLongFail, ReadLong2Fail, Advance
  <2>2. /\ xferred < blocks /\ blocks <= MaxBlocks
        /\ \A i \in 0..(xferred - 1) : Good(i)
    BY <2>1 DEF TypeOK
  <2>3. \A i \in 0..(xferred' - 1) : Good(i)'
    BY <2>1, <2>2, AdvanceKeepsGood
  <2>. QED BY <2>1, <2>3 DEF ReturnedBlocksValid, TypeOK
<1>16. CASE ReadLongAdjust
  <2>1. /\ pc = "ReadLong" /\ pc' = "ReadLong2"
        /\ UNCHANGED <<buf, blocks, fromBlock, xferred, lba, blksRead, ret>>
    BY <1>16 DEF ReadLongAdjust
  <2>. QED BY <2>1, SameSlotsGood DEF ReturnedBlocksValid
<1>17. CASE UNCHANGED vars
  BY <1>17, SameSlotsGood DEF vars, ReturnedBlocksValid, Good
<1>. QED BY <1>1, <1>2, <1>3, <1>4, <1>5, <1>6, <1>7, <1>8, <1>9, <1>10,
            <1>11, <1>12, <1>13, <1>14, <1>15, <1>16, <1>17 DEF Next, Engine


\* sg_read's contract with its caller (read_verify_device): when a call
\* returns, *blks_readp never exceeds the blocks asked for, a 0 return
\* means all of them were read, and each block it reports holds either the
\* zeros err_out or the coe path wrote, or the data of its own LBA, read by
\* READ (sg_read_low) or by READ LONG. This holds for every configuration
\* whose addresses stay below 2^32; the runs cdb10_wrap and stale_ioaddr show
\* that above it the CDB fields and io_addr wrap and the claim fails.
THEOREM ReturnedBlocksValidHolds ==
  ASSUME AddressesFit PROVE Spec => []ReturnedBlocksValid
<1>1. Init => IInv /\ ValidInv
  BY InitIInv, InitValidInv
<1>2. IInv /\ ValidInv /\ [Next]_vars => IInv' /\ ValidInv'
  BY NextIInv, NextValidInv
<1>3. ValidInv => ReturnedBlocksValid
  BY DEF ValidInv
<1>. QED BY <1>1, <1>2, <1>3, PTL DEF Spec


-----------------------------------------------------------------------------
(* sg_read refines its contract (module ReadContract), in its safety part *)

\* While a call runs, the caller has made at least one; and no slot of its
\* buffer past the blocks it asked for has been written, during the call
\* or by its return.
CallInv ==
  /\ pc # "Idle" => calls > 0
  /\ \A i \in Idx : i >= blocks => buf[i] = Stale


\* A READ at [at, at + n) inside the blocks asked for leaves the slots past
\* them as they were.
LEMMA TransferKeepsTail ==
  ASSUME TypeOK, NEW at \in Nat, NEW n \in Nat, at + n <= blocks,
         \A i \in Idx : i >= blocks => buf[i] = Stale,
         NEW a, NEW r, buf' = Transfer(buf, at, n, a, r), blocks' = blocks
  PROVE  \A i \in Idx : i >= blocks' => buf'[i] = Stale
<1> SUFFICES ASSUME NEW i \in Idx, i >= blocks PROVE buf'[i] = Stale
  OBVIOUS
<1>1. ~(at <= i /\ i < at + n)
  BY DEF TypeOK, Idx
<1>2. Transfer(buf, at, n, a, r)[i] = buf[i]
  BY <1>1, TransferCases
<1>. QED BY <1>2

\* Zeros or READ LONG data written at a cursor below blocks leave the slots
\* past them as they were.
LEMMA AdvanceKeepsTail ==
  ASSUME TypeOK, xferred < blocks,
         \A i \in Idx : i >= blocks => buf[i] = Stale,
         NEW v, buf' = [buf EXCEPT ![xferred] = v], blocks' = blocks
  PROVE  \A i \in Idx : i >= blocks' => buf'[i] = Stale
  BY DEF TypeOK, Idx

\* err_out's memset of the blks at the cursor, inside the blocks asked for,
\* leaves the slots past them as they were.
LEMMA ZeroFillKeepsTail ==
  ASSUME TypeOK, xferred + blks <= blocks,
         \A i \in Idx : i >= blocks => buf[i] = Stale,
         buf' = ZeroFill(buf, xferred, blks), blocks' = blocks
  PROVE  \A i \in Idx : i >= blocks' => buf'[i] = Stale
  BY DEF TypeOK, Idx, ZeroFill

LEMMA InitCallInv == Init => CallInv
  BY DEF Init, CallInv

LEMMA NextCallInv == IInv /\ CallInv /\ [Next]_vars => CallInv'
<1> SUFFICES ASSUME IInv, CallInv, [Next]_vars PROVE CallInv'
  OBVIOUS
<1>. USE DEF IInv, Cursor, CallInv, args
<1>1. CASE Call
  BY <1>1 DEF Call, TypeOK
<1>2. CASE \/ LoopExit \/ MainOk \/ MainStop \/ MainAborted \/ MainUnitAttention
           \/ MainRetry \/ MediumInRange \/ PrefixOk \/ PrefixStop \/ CoeStop
           \/ CoeSmallBs \/ CoeReadLong \/ ReadLongHeapFail \/ ReadLongAdjust
  BY <1>2 DEF LoopExit, MainOk, MainStop, MainAborted, MainUnitAttention,
              MainRetry, MediumInRange, PrefixOk, PrefixStop, CoeStop,
              CoeSmallBs, CoeReadLong, ReadLongHeapFail, ReadLongAdjust
<1>7. CASE \/ MainGiveUp \/ MainSyntax \/ MainEio \/ MediumOutOfRange
           \/ PrefixEio \/ PrefixFail
  <2>1. /\ pc \in {"Main", "PrefixDone"} /\ pc' = "Idle"
        /\ UNCHANGED <<blocks, calls>>
        /\ buf' \in {buf, ZeroFill(buf, xferred, blks)}
    BY <1>7 DEF MainGiveUp, MainSyntax, MainEio, MediumOutOfRange,
                PrefixEio, PrefixFail, ErrOut, Return, ReturnKeep
  <2>2. xferred + blks <= blocks
    BY <2>1 DEF TypeOK
  <2>. QED BY <2>1, <2>2, ZeroFillKeepsTail
<1>3. CASE ReadLow
  <2>1. PICK r \in Answers(blocks - xferred, lba) :
          buf' = Transfer(buf, xferred, blocks - xferred,
                          DevAddr(blocks - xferred, lba), r)
    BY <1>3 DEF ReadLow
  <2>2. pc = "Loop" /\ xferred < blocks /\ UNCHANGED <<blocks, calls>>
    BY <1>3 DEF ReadLow, TypeOK
  <2>3. xferred \in Nat /\ blocks - xferred \in Nat
        /\ xferred + (blocks - xferred) <= blocks
    BY <2>2 DEF TypeOK
  <2>. QED BY <2>1, <2>2, <2>3, TransferKeepsTail
<1>4. CASE ReadPrefix
  <2>1. PICK r \in Answers(blks, lba) :
          buf' = Transfer(buf, xferred, blks, DevAddr(blks, lba), r)
    BY <1>4 DEF ReadPrefix
  <2>2. pc = "Prefix" /\ xferred + blks <= blocks /\ UNCHANGED <<blocks, calls>>
    BY <1>4 DEF ReadPrefix, TypeOK
  <2>3. xferred \in Nat /\ blks \in Nat
    BY DEF TypeOK
  <2>. QED BY <2>1, <2>2, <2>3, TransferKeepsTail
<1>5. CASE CoeZero \/ ReadLongOk \/ ReadLongFail \/ ReadLong2Ok \/ ReadLong2Fail
  <2>1. /\ pc \in {"Coe", "ReadLong", "ReadLong2"}
        /\ \E v : buf' = [buf EXCEPT ![xferred] = v]
        /\ UNCHANGED <<blocks, calls>>
    BY <1>5 DEF CoeZero, ReadLongOk, ReadLongFail, ReadLong2Ok,
                ReadLong2Fail, Advance
  <2>. QED BY <2>1, AdvanceKeepsTail
<1>6. CASE UNCHANGED vars
  BY <1>6 DEF vars
<1>. QED BY <1>1, <1>2, <1>3, <1>4, <1>5, <1>6, <1>7 DEF Next, Engine


\* Within a call the arguments stay as Call set them, and the result is
\* only written by the step that returns.
LEMMA EngineFrame ==
  Engine => /\ pc # "Idle"
            /\ UNCHANGED <<blocks, fromBlock, bs, calls>>
            /\ pc' # "Idle" => UNCHANGED result
<1>1. ASSUME \/ LoopExit \/ ReadLow \/ MainOk \/ MainStop \/ MainAborted
             \/ MainUnitAttention \/ MainRetry \/ MediumInRange \/ ReadPrefix
             \/ PrefixOk \/ PrefixStop \/ CoeStop \/ CoeSmallBs
      PROVE  /\ pc # "Idle"
             /\ UNCHANGED <<blocks, fromBlock, bs, calls>>
             /\ pc' # "Idle" => UNCHANGED result
  BY <1>1 DEF LoopExit, ReadLow, MainOk, MainStop, MainAborted,
              MainUnitAttention, MainRetry, MediumInRange, ReadPrefix,
              PrefixOk, PrefixStop, CoeStop, CoeSmallBs, Return, ReturnKeep,
              args
<1>2. ASSUME \/ MainGiveUp \/ MainSyntax \/ MainEio \/ MediumOutOfRange
             \/ PrefixEio \/ PrefixFail
      PROVE  /\ pc # "Idle"
             /\ UNCHANGED <<blocks, fromBlock, bs, calls>>
             /\ pc' # "Idle" => UNCHANGED result
  BY <1>2 DEF MainGiveUp, MainSyntax, MainEio, MediumOutOfRange, PrefixEio,
              PrefixFail, ErrOut, Return, ReturnKeep, args
<1>3. ASSUME \/ CoeZero \/ CoeReadLong \/ ReadLongHeapFail \/ ReadLongOk
             \/ ReadLongFail \/ ReadLongAdjust \/ ReadLong2Ok \/ ReadLong2Fail
      PROVE  /\ pc # "Idle"
             /\ UNCHANGED <<blocks, fromBlock, bs, calls>>
             /\ pc' # "Idle" => UNCHANGED result
  BY <1>3 DEF CoeZero, CoeReadLong, ReadLongHeapFail, ReadLongOk,
              ReadLongFail, ReadLongAdjust, ReadLong2Ok, ReadLong2Fail,
              Advance, ReturnKeep, args
<1>. QED BY <1>1, <1>2, <1>3 DEF Engine

LEMMA InitRefines == Init => Contract!CInit
  BY DEF Init, Contract!CInit, callerBusy, callerBuf, callerBlksRead,
         Contract!Slots, Contract!Untouched, Idx, Stale

\* Call is the contract's Begin; a step inside the call changes nothing the
\* caller sees; the step that returns is the contract's Complete.
LEMMA NextRefines ==
  ASSUME AddressesFit, IInv, ValidInv, CallInv, [Next]_vars,
         IInv', ValidInv', CallInv'
  PROVE  [Contract!CNext]_Contract!cvars
<1>1. CASE Call
  <2>1. Contract!Begin
    BY <1>1 DEF Call, Contract!Begin, callerBusy, callerBuf, callerBlksRead,
                Contract!Slots, Contract!Untouched, Idx, Stale
  <2>. QED BY <2>1 DEF Contract!CNext
<1>2. CASE Engine /\ pc' # "Idle"
  <2>1. pc # "Idle" /\ UNCHANGED <<blocks, fromBlock, bs, calls, result>>
    BY <1>2, EngineFrame
  <2>. QED BY <1>2, <2>1 DEF Contract!cvars, callerBusy, callerBuf,
                             callerBlksRead
<1>3. CASE Engine /\ pc' = "Idle"
  <2>1. pc # "Idle" /\ UNCHANGED <<blocks, fromBlock, bs, calls>>
    BY <1>3, EngineFrame
  <2>2. calls' > 0
    BY <2>1 DEF CallInv
  <2>3. /\ result' \in Results
        /\ blksRead' \in 0..blocks
        /\ result' = "OK" => blksRead' = blocks
        /\ buf' \in [Idx -> Contents]
        /\ \A i \in 0..(blksRead' - 1) :
             \/ buf'[i] = Zero
             \/ buf'[i] \in Data /\ buf'[i].lba = fromBlock + i
    <3>1. ReturnedBlocksValid' /\ TypeOK'
      BY DEF ValidInv, IInv
    <3>2. blksRead' <= blocks' /\ (result' = "OK" => blksRead' = blocks')
          /\ \A i \in 0..(blksRead' - 1) :
               \/ buf'[i] = Zero
               \/ buf'[i] \in Data /\ buf'[i].lba = fromBlock' + i
      BY <1>3, <2>2, <3>1 DEF ReturnedBlocksValid
    <3>3. blksRead' \in 0..blocks /\ (result' = "OK" => blksRead' = blocks)
      BY <2>1, <3>1, <3>2 DEF TypeOK
    <3>4. result' \in Results /\ buf' \in [Idx -> Contents]
      BY <3>1 DEF TypeOK
    <3>. QED BY <2>1, <3>2, <3>3, <3>4, Zenon
  <2>4. \A i \in Idx \ (0..(blocks - 1)) : buf'[i] = Stale
    BY <2>1 DEF CallInv, IInv, TypeOK, Idx
  <2>5. Contract!Complete
    BY <1>3, <2>1, <2>3, <2>4
       DEF Contract!Complete, callerBusy, callerBuf, callerBlksRead,
           Contract!Slots, Contract!SlotContents, Contract!Zeros,
           Contract!DeviceData, Contents, Zero, Data, Idx
  <2>. QED BY <2>5 DEF Contract!CNext
<1>4. CASE UNCHANGED vars
  BY <1>4 DEF vars, Contract!cvars, callerBusy, callerBuf, callerBlksRead
<1>. QED BY <1>1, <1>2, <1>3, <1>4 DEF Next

\* sg_read keeps the contract of module ReadContract at every step: the
\* caller's Call begins a contract call, the engine's steps inside the
\* call are invisible to the caller, and the step that returns (MainOk,
\* LoopExit, err_out, the coe path, or any early return) completes it
\* with a count, a result and buffer contents the contract allows and no
\* slot past the blocks asked for written. As ReturnedBlocksValidHolds,
\* for addresses below 2^32. That every call returns is ImplementsContract's
\* liveness half, checked by TLC only.
THEOREM ContractSafetyHolds ==
  ASSUME AddressesFit
  PROVE  Spec => Contract!CInit /\ [][Contract!CNext]_Contract!cvars
<1>1. Init => IInv /\ ValidInv /\ CallInv
  BY InitIInv, InitValidInv, InitCallInv
<1>2. IInv /\ ValidInv /\ CallInv /\ [Next]_vars =>
        IInv' /\ ValidInv' /\ CallInv'
  BY NextIInv, NextValidInv, NextCallInv
<1>3. IInv /\ ValidInv /\ CallInv /\ [Next]_vars /\
      IInv' /\ ValidInv' /\ CallInv' => [Contract!CNext]_Contract!cvars
  BY NextRefines
<1>4. Init => Contract!CInit
  BY InitRefines
<1>. QED BY <1>1, <1>2, <1>3, <1>4, PTL DEF Spec


-----------------------------------------------------------------------------
(* No step of a call rewrites a block below the cursor *)

\* The condition SettledBlocksKept asks of every step.
KeepsSettled == pc # "Idle" => \A i \in 0..(xferred - 1) : buf'[i] = buf[i]

LEMMA NextKeepsSettled == IInv /\ [Next]_vars => [KeepsSettled]_vars
<1> SUFFICES ASSUME IInv, [Next]_vars PROVE [KeepsSettled]_vars
  OBVIOUS
<1>. USE DEF IInv, KeepsSettled
<1>1. CASE Call
  BY <1>1 DEF Call
<1>2. CASE \/ LoopExit \/ MainOk \/ MainStop \/ MainAborted \/ MainUnitAttention
           \/ MainRetry \/ MediumInRange \/ PrefixOk \/ PrefixStop \/ CoeStop
           \/ CoeSmallBs \/ CoeReadLong \/ ReadLongHeapFail \/ ReadLongAdjust
  BY <1>2 DEF LoopExit, MainOk, MainStop, MainAborted, MainUnitAttention,
              MainRetry, MediumInRange, PrefixOk, PrefixStop, CoeStop,
              CoeSmallBs, CoeReadLong, ReadLongHeapFail, ReadLongAdjust
<1>3. CASE ReadLow \/ ReadPrefix
  <2>1. PICK n, a, r : buf' = Transfer(buf, xferred, n, a, r)
    BY <1>3 DEF ReadLow, ReadPrefix
  <2>2. ASSUME NEW i \in 0..(xferred - 1) PROVE buf'[i] = buf[i]
    <3>1. i \in Idx /\ ~(xferred <= i /\ i < xferred + n)
      BY ConstantsAssumption DEF TypeOK, Idx
    <3>2. Transfer(buf, xferred, n, a, r)[i] = buf[i]
      BY <3>1, TransferCases
    <3>. QED BY <2>1, <3>2
  <2>. QED BY <2>2
<1>4. CASE \/ MainGiveUp \/ MainSyntax \/ MainEio \/ MediumOutOfRange
           \/ PrefixEio \/ PrefixFail
  <2>1. buf' \in {buf, ZeroFill(buf, xferred, blks)}
    BY <1>4 DEF MainGiveUp, MainSyntax, MainEio, MediumOutOfRange,
                PrefixEio, PrefixFail, ErrOut
  <2>2. ASSUME NEW i \in 0..(xferred - 1) PROVE buf'[i] = buf[i]
    <3>1. i \in Idx /\ ~(xferred <= i /\ i < xferred + blks)
      BY ConstantsAssumption DEF TypeOK, Idx
    <3>2. ZeroFill(buf, xferred, blks)[i] = buf[i]
      BY <3>1 DEF ZeroFill
    <3>. QED BY <2>1, <3>2
  <2>. QED BY <2>2
<1>5. CASE CoeZero \/ ReadLongOk \/ ReadLongFail \/ ReadLong2Ok \/ ReadLong2Fail
  <2>1. \E v : buf' = [buf EXCEPT ![xferred] = v]
    BY <1>5 DEF CoeZero, ReadLongOk, ReadLongFail, ReadLong2Ok,
                ReadLong2Fail, Advance
  <2>. QED BY <2>1 DEF TypeOK
<1>6. CASE UNCHANGED vars
  BY <1>6 DEF vars
<1>. QED BY <1>1, <1>2, <1>3, <1>4, <1>5, <1>6 DEF Next, Engine

\* Within a call of sg_read, no retry, prefix re-read, err_out memset or
\* coe-path write ever lands below the cursor: bp = buff + xferred * bs is
\* kept in step with xferred by every advance (lines 865, 878, 968, 969).
\* For every value of the constants.
THEOREM SettledBlocksKeptHolds == Spec => SettledBlocksKept
<1>1. Init => IInv
  BY InitIInv
<1>2. IInv /\ [Next]_vars => IInv'
  BY NextIInv
<1>3. IInv /\ [Next]_vars => [KeepsSettled]_vars
  BY NextKeepsSettled
<1>. QED BY <1>1, <1>2, <1>3, PTL DEF Spec, SettledBlocksKept, KeepsSettled

=============================================================================
