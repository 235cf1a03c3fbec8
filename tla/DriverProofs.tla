---------------------------- MODULE DriverProofs ----------------------------
(***************************************************************************)
(* Proofs about read_verify_device (module Driver).                       *)
(***************************************************************************)
EXTENDS Driver, SgReadProofs, SequenceTheorems, TLAPS

\* Where the pass stands inside a device: the window lies before opt.end,
\* opt.end within the device's capacity, and seek never ahead of sector
\* (the ENOMEM shrink advances seek by less than opt.sectors).
WindowInv ==
  /\ dpc \in DLabels
  /\ dev \in 1..(Len(Devices) + 1)
  /\ blkSz \in Nat \ {0}
  /\ optEnd \in Nat /\ sector \in Nat /\ seek \in Nat /\ stp \in Nat
  /\ dpc \in {"Open", "Window", "Call", "Wait", "Check", "PassEnd"} =>
       dev \in 1..Len(Devices)
  /\ dpc \in {"Window", "Call", "Wait", "Check", "PassEnd"} =>
       /\ optEnd \in 0..Devices[dev].cap
       /\ seek <= sector
  /\ dpc \in {"Window", "Call", "Wait", "Check"} => stp \in 1..Sectors
  /\ dpc \in {"Call", "Wait", "Check"} => sector + stp <= optEnd

\* The return values sg_read_low, sg_read and read_verify_device pass
\* around are ones the code defines.
ResultsTyped == res \in Results /\ ret \in Results /\ result \in Results

\* The driver's own type invariant, over WindowInv.
DTypeInv ==
  /\ WindowInv /\ ResultsTyped
  /\ bps \in Nat \ {0} /\ bufBytes \in Nat /\ dres \in Results

\* The window blocks_per computed from a positive buffer size is non-empty.
LEMMA CeilPositive ==
  ASSUME NEW x \in Nat \ {0}, NEW b \in Nat \ {0}
  PROVE  (x + b - 1) \div b \in Nat \ {0}
  OBVIOUS

\* Each device named on the command line has a capacity and a positive
\* sector size.
LEMMA DeviceRecord ==
  ASSUME NEW i \in 1..Len(Devices)
  PROVE  Devices[i].cap \in Nat /\ Devices[i].ssz \in Nat \ {0}
<1>1. Devices[i] \in [cap : Nat, ssz : Nat \ {0}]
  BY DriverAssumption, ElementOfSeq
<1>. QED BY <1>1

\* The scalar constants of the pass loop
LEMMA DriverConstants ==
  /\ Sectors \in Nat \ {0} /\ Start \in Nat /\ DefBlockSize \in Nat \ {0}
  /\ MinReserved \in Nat \ {0} /\ ReservedSizes \subseteq Nat
  /\ Len(Devices) \in Nat \ {0}
  BY DriverAssumption

LEMMA DInitWindowInv == DInit => WindowInv
  BY DriverConstants DEF DInit, WindowInv, DLabels

LEMMA DNextWindowInv == WindowInv /\ [DNext]_allVars => WindowInv'
<1> SUFFICES ASSUME WindowInv, [DNext]_allVars PROVE WindowInv'
  OBVIOUS
<1>. USE DriverConstants DEF WindowInv, DLabels
<1>1. CASE OpenFails
  BY <1>1 DEF OpenFails, NextDevice
<1>2. CASE OpenDevice
  <2>1. PICK capOk \in BOOLEAN, p \in Pdts :
          LET numSect == IF capOk THEN Devices[dev].cap ELSE -1
              tooBig  == optEnd > numSect
              end     == IF optEnd = 0 THEN numSect ELSE optEnd
          IN  /\ SetSizes(capOk, Devices[dev])
              /\ optEnd' = IF tooBig THEN optEnd ELSE end
              /\ IF tooBig \/ Start > end
                 THEN /\ dpc' = "Exit"
                      /\ UNCHANGED <<bufBytes, sector, seek, stp, dres>>
                 ELSE /\ bufBytes' = Sectors * bps'
                      /\ sector' = Start /\ seek' = Start /\ stp' = Sectors
                      /\ dres' = "OK"
                      /\ dpc' = "Window"
    BY <1>2 DEF OpenDevice
  <2>2. dev \in 1..Len(Devices) /\ dev' = dev
    BY <1>2 DEF OpenDevice
  <2>3. Devices[dev].cap \in Nat /\ Devices[dev].ssz \in Nat \ {0}
    BY <2>2, DeviceRecord
  <2>4. blkSz' \in Nat \ {0}
    <3>1. CASE capOk /\ blkSz # Devices[dev].ssz
      BY <2>1, <2>3, <3>1 DEF SetSizes
    <3>2. CASE ~(capOk /\ blkSz # Devices[dev].ssz)
      BY <2>1, <3>2 DEF SetSizes
    <3>. QED BY <3>1, <3>2
  <2>5. optEnd' \in Nat
    BY <2>1, <2>3
  <2>6. CASE optEnd > IF capOk THEN Devices[dev].cap ELSE -1
    BY <2>1, <2>2, <2>4, <2>5, <2>6
  <2>7. CASE ~(optEnd > IF capOk THEN Devices[dev].cap ELSE -1)
    <3>1. optEnd' \in 0..Devices[dev].cap
      BY <2>1, <2>3, <2>7
    <3>. QED BY <2>1, <2>2, <2>4, <2>7, <3>1
  <2>. QED BY <2>6, <2>7
<1>3. CASE WindowEnd
  BY <1>3 DEF WindowEnd, Clamped, NothingLeft
<1>4. CASE WindowStart
  BY <1>4 DEF WindowStart, Clamped, NothingLeft
<1>5. CASE ReadCall
  BY <1>5 DEF ReadCall
<1>6. CASE ReadReturned
  BY <1>6 DEF ReadReturned
<1>7. CASE ReadAgain
  BY <1>7 DEF ReadAgain
<1>8. CASE WindowFailed
  BY <1>8 DEF WindowFailed, NextWindow
<1>9. CASE Shrink
  <2>1. PICK rs \in ReservedSizes :
          LET per == (MaxOf(rs, MinReserved) + blkSz - 1) \div blkSz IN
          /\ stp' = IF per < stp THEN per ELSE stp
          /\ NextWindow(stp')
    BY <1>9 DEF Shrink
  <2>2. PICK per \in Nat \ {0} :
          /\ stp' = IF per < stp THEN per ELSE stp
          /\ seek' = seek + stp' /\ sector' = sector + Sectors
          /\ dpc' = "Window"
    <3>1. MaxOf(rs, MinReserved) \in Nat \ {0}
      BY DEF MaxOf
    <3>2. (MaxOf(rs, MinReserved) + blkSz - 1) \div blkSz \in Nat \ {0}
      BY <3>1, CeilPositive
    <3>. QED BY <2>1, <3>2 DEF NextWindow
  <2>3. dpc = "Check" /\ dev \in 1..Len(Devices) /\ dev' = dev
        /\ blkSz' = blkSz /\ optEnd' = optEnd
    BY <1>9 DEF Shrink
  <2>4. Devices[dev].cap \in Nat
    BY <2>3, DeviceRecord
  <2>. QED BY <2>2, <2>3, <2>4
<1>10. CASE PassEnd
  BY <1>10 DEF PassEnd, NextDevice
<1>11. CASE EngineStep
  BY <1>11 DEF EngineStep, dvars
<1>12. CASE UNCHANGED allVars
  BY <1>12 DEF allVars, dvars
<1>. QED BY <1>1, <1>2, <1>3, <1>4, <1>5, <1>6, <1>7, <1>8, <1>9, <1>10,
            <1>11, <1>12 DEF DNext, DriverStep

\* Every window read_verify_device hands to sg_read is non-empty and lies
\* within the capacity the device reported, whatever the devices, their
\* sector sizes, the reserved sizes the ENOMEM path meets and the order of
\* failures: the clamp to opt.end and the shrink keep every read inside.
THEOREM ReadWithinDeviceHolds == DSpec => []ReadWithinDevice
<1>1. WindowInv => ReadWithinDevice
  <2> SUFFICES ASSUME WindowInv, dpc = "Call"
               PROVE  0 < stp /\ seek + stp <= Devices[dev].cap
    BY DEF ReadWithinDevice
  <2>1. dev \in 1..Len(Devices)
    BY DEF WindowInv
  <2>. QED BY <2>1, DeviceRecord DEF WindowInv
<1>. QED BY <1>1, DInitWindowInv, DNextWindowInv, PTL DEF DSpec


-----------------------------------------------------------------------------
(* Type correctness of the driver *)

\* Every step of sg_read leaves res, ret and result among its return values.
LEMMA EngineResultsTyped == ResultsTyped /\ Engine => ResultsTyped'
<1> SUFFICES ASSUME ResultsTyped, Engine PROVE ResultsTyped'
  OBVIOUS
<1>. USE DEF ResultsTyped, Results
<1>1. CASE LoopExit \/ MainOk \/ MainStop \/ MainAborted \/ MainUnitAttention
  BY <1>1 DEF LoopExit, MainOk, MainStop, MainAborted, MainUnitAttention,
              Return, ReturnKeep
<1>2. CASE ReadLow \/ ReadPrefix
  <2>1. (\E r : res' = Classify(r)) /\ UNCHANGED <<ret, result>>
    BY <1>2 DEF ReadLow, ReadPrefix
  <2>. QED BY <2>1, ClassifyType
<1>3. CASE MainRetry
  BY <1>3 DEF MainRetry
<1>4. CASE \/ MainGiveUp \/ MainSyntax \/ MainEio \/ MediumOutOfRange
           \/ PrefixEio \/ PrefixFail
  BY <1>4 DEF MainGiveUp, MainSyntax, MainEio, MediumOutOfRange, PrefixEio,
              PrefixFail, ErrOut, Return, ReturnKeep
<1>5. CASE MediumInRange \/ PrefixOk \/ PrefixStop \/ CoeStop \/ CoeSmallBs
  BY <1>5 DEF MediumInRange, PrefixOk, PrefixStop, CoeStop, CoeSmallBs,
              Return, ReturnKeep
<1>6. CASE \/ CoeZero \/ CoeReadLong \/ ReadLongHeapFail \/ ReadLongOk
           \/ ReadLongFail \/ ReadLongAdjust \/ ReadLong2Ok \/ ReadLong2Fail
  BY <1>6 DEF CoeZero, CoeReadLong, ReadLongHeapFail, ReadLongOk,
              ReadLongFail, ReadLongAdjust, ReadLong2Ok, ReadLong2Fail,
              ReturnKeep
<1>. QED BY <1>1, <1>2, <1>3, <1>4, <1>5, <1>6 DEF Engine

LEMMA DInitDTypeInv == DInit => DTypeInv
  BY DInitWindowInv, DriverConstants DEF DInit, Init, DTypeInv, ResultsTyped,
     Results

LEMMA DNextDTypeInv == DTypeInv /\ [DNext]_allVars => DTypeInv'
<1> SUFFICES ASSUME DTypeInv, [DNext]_allVars PROVE DTypeInv'
  OBVIOUS
<1>1. WindowInv'
  BY DNextWindowInv DEF DTypeInv
<1>. USE DriverConstants DEF DTypeInv, ResultsTyped
<1>2. CASE OpenFails
  BY <1>1, <1>2 DEF OpenFails, NextDevice, Results, vars
<1>3. CASE OpenDevice
  <2>1. PICK capOk \in BOOLEAN, p \in Pdts :
          LET numSect == IF capOk THEN Devices[dev].cap ELSE -1
              tooBig  == optEnd > numSect
              end     == IF optEnd = 0 THEN numSect ELSE optEnd
          IN  /\ SetSizes(capOk, Devices[dev])
              /\ IF tooBig \/ Start > end
                 THEN UNCHANGED <<bufBytes, dres>>
                 ELSE bufBytes' = Sectors * bps' /\ dres' = "OK"
    BY <1>3 DEF OpenDevice
  <2>2. dev \in 1..Len(Devices)
    BY <1>3 DEF OpenDevice, WindowInv
  <2>3. Devices[dev].ssz \in Nat \ {0}
    BY <2>2, DeviceRecord
  <2>4. bps' \in Nat \ {0}
    BY <2>1, <2>3 DEF SetSizes
  <2>5. bufBytes' \in Nat /\ dres' \in Results
    BY <2>1, <2>4 DEF Results
  <2>6. UNCHANGED <<res, ret, result>>
    BY <1>3 DEF OpenDevice
  <2>. QED BY <1>1, <2>4, <2>5, <2>6
<1>4. CASE ReadCall
  BY <1>1, <1>4 DEF ReadCall, Results
<1>5. CASE ReadReturned
  BY <1>1, <1>5 DEF ReadReturned, vars
<1>6. CASE Shrink
  BY <1>1, <1>6 DEF Shrink, NextWindow, Results, vars
<1>7. CASE WindowEnd \/ WindowStart \/ ReadAgain \/ WindowFailed \/ PassEnd
  BY <1>1, <1>7 DEF vars, WindowEnd, WindowStart, ReadAgain, WindowFailed, PassEnd,
                    NextWindow, NextDevice
<1>8. CASE EngineStep
  BY <1>1, <1>8, EngineResultsTyped DEF EngineStep, dvars
<1>9. CASE UNCHANGED allVars
  BY <1>1, <1>9 DEF allVars, vars, dvars
<1>. QED BY <1>2, <1>3, <1>4, <1>5, <1>6, <1>7, <1>8, <1>9 DEF DNext, DriverStep

\* read_verify_device and main keep every variable of the driver in its
\* type, whatever the devices and the answers: the device index stays
\* within the command line, blk_sz and bytes_per_sector positive, the
\* window counters natural, and res one of the values sg_read returns.
THEOREM DTypeCorrect == DSpec => []DTypeOK
<1>1. DTypeInv => DTypeOK
  BY DEF DTypeInv, WindowInv, DTypeOK
<1>. QED BY <1>1, DInitDTypeInv, DNextDTypeInv, PTL DEF DSpec


-----------------------------------------------------------------------------
(* The window buffer fits while no sector size but DEF_BLOCK_SIZE repeats *)

\* Every device's sector size is DEF_BLOCK_SIZE or differs from the sizes
\* of all the devices before it.  The run driver_same_size breaks it.
FreshSectorSizes ==
  \A i \in 1..Len(Devices) :
    \/ Devices[i].ssz = DefBlockSize
    \/ \A j \in 1..(i - 1) : Devices[j].ssz # Devices[i].ssz

\* The sizes blk_sz can hold once the first k devices were opened
SizesBefore(k) == {DefBlockSize} \cup {Devices[j].ssz : j \in 1..k}

\* blk_sz is a size seen so far, and within a pass bytes_per_sector is
\* blk_sz and the buffer holds opt.sectors of them.
BufInv ==
  /\ blkSz \in SizesBefore(IF dpc \in {"Open", "Done"} THEN dev - 1 ELSE dev)
  /\ dpc \in {"Window", "Call", "Wait", "Check", "PassEnd"} =>
       bps = blkSz /\ bufBytes = Sectors * bps


LEMMA DInitBufInv == DInit => BufInv
  BY DEF DInit, BufInv, SizesBefore

\* Opening a device keeps blk_sz a size seen so far, and when the pass
\* starts, bytes_per_sector is blk_sz: either blk_sz took the new size
\* and bytes_per_sector with it, or the size equals blk_sz, which is then
\* DEF_BLOCK_SIZE, the value bytes_per_sector was reset to.
LEMMA OpenDeviceBufInv ==
  ASSUME FreshSectorSizes, WindowInv, BufInv, OpenDevice
  PROVE  BufInv'
<1>1. PICK capOk \in BOOLEAN, p \in Pdts :
        LET numSect == IF capOk THEN Devices[dev].cap ELSE -1
            tooBig  == optEnd > numSect
            end     == IF optEnd = 0 THEN numSect ELSE optEnd
        IN  /\ SetSizes(capOk, Devices[dev])
            /\ IF tooBig \/ Start > end
               THEN dpc' = "Exit"
               ELSE bufBytes' = Sectors * bps' /\ dpc' = "Window"
  BY DEF OpenDevice
<1>2. dpc = "Open" /\ dev \in 1..Len(Devices) /\ dev' = dev
  <2>1. dpc = "Open" /\ dev' = dev
    BY DEF OpenDevice
  <2>. QED BY <2>1 DEF WindowInv
<1>3. blkSz \in SizesBefore(dev - 1) /\ optEnd \in Nat
  BY <1>2 DEF BufInv, WindowInv
<1>4. SizesBefore(dev - 1) \subseteq SizesBefore(dev)
  BY <1>2 DEF SizesBefore
<1>5. dpc' \in {"Exit", "Window"}
  BY <1>1
<1>6. CASE capOk /\ blkSz # Devices[dev].ssz
  <2>1. blkSz' = Devices[dev].ssz /\ bps' = blkSz'
    BY <1>1, <1>6 DEF SetSizes
  <2>2. blkSz' \in SizesBefore(dev)
    BY <1>2, <2>1 DEF SizesBefore
  <2>. QED BY <1>1, <1>2, <1>5, <2>1, <2>2 DEF BufInv
<1>7. CASE capOk /\ blkSz = Devices[dev].ssz
  <2>1. blkSz' = blkSz /\ bps' = DefBlockSize
    BY <1>1, <1>7 DEF SetSizes
  <2>2. blkSz = DefBlockSize
    <3>1. CASE blkSz = DefBlockSize
      BY <3>1
    <3>2. CASE blkSz # DefBlockSize
      <4>1. PICK j \in 1..(dev - 1) : Devices[j].ssz = blkSz
        BY <1>3, <3>2 DEF SizesBefore
      <4>. QED BY <1>2, <1>7, <4>1 DEF FreshSectorSizes
    <3>. QED BY <3>1, <3>2
  <2>. QED BY <1>1, <1>2, <1>3, <1>4, <1>5, <2>1, <2>2 DEF BufInv
<1>8. CASE ~capOk
  <2>1. blkSz' = blkSz /\ dpc' = "Exit"
    BY <1>1, <1>3, <1>8 DEF SetSizes
  <2>. QED BY <1>2, <1>3, <1>4, <2>1 DEF BufInv
<1>. QED BY <1>6, <1>7, <1>8

LEMMA DNextBufInv ==
  FreshSectorSizes /\ WindowInv /\ BufInv /\ [DNext]_allVars => BufInv'
<1> SUFFICES ASSUME FreshSectorSizes, WindowInv, BufInv, [DNext]_allVars
             PROVE  BufInv'
  OBVIOUS
<1>1. CASE OpenFails
  <2>1. dpc = "Open" /\ dev \in 1..Len(Devices) /\ dev' = dev + 1
        /\ dpc' \in {"Open", "Done"} /\ UNCHANGED blkSz
    BY <1>1 DEF OpenFails, NextDevice, WindowInv
  <2>. QED BY <2>1 DEF BufInv, SizesBefore
<1>2. CASE OpenDevice
  BY <1>2, OpenDeviceBufInv
<1>3. CASE PassEnd
  <2>1. dpc = "PassEnd" /\ dev' = dev + 1
        /\ dpc' \in {"Open", "Done"} /\ UNCHANGED blkSz
    BY <1>3, Zenon DEF PassEnd, NextDevice
  <2>2. blkSz \in SizesBefore(dev) /\ dev \in Nat
    BY <2>1 DEF BufInv, WindowInv
  <2>3. blkSz' \in SizesBefore(dev' - 1)
    BY <2>1, <2>2
  <2>. QED BY <2>1, <2>3 DEF BufInv
<1>4. CASE \/ WindowEnd \/ WindowStart \/ ReadCall \/ ReadReturned
           \/ ReadAgain \/ WindowFailed \/ Shrink
  <2>1. /\ dpc \in {"Window", "Call", "Wait", "Check"}
        /\ dpc' \in {"Window", "Call", "Wait", "Check", "PassEnd"}
        /\ UNCHANGED <<dev, blkSz, bps, bufBytes>>
    BY <1>4 DEF WindowEnd, WindowStart, ReadCall, ReadReturned, ReadAgain,
                WindowFailed, Shrink, NextWindow
  <2>. QED BY <2>1 DEF BufInv
<1>5. CASE EngineStep \/ UNCHANGED allVars
  BY <1>5 DEF EngineStep, allVars, dvars, BufInv
<1>. QED BY <1>1, <1>2, <1>3, <1>4, <1>5 DEF DNext, DriverStep

\* Every window read_verify_device hands to sg_read fits the sector_data
\* buffer allocated for the device (lines 1455-1460, 1497), for every list
\* of devices in which no sector size other than DEF_BLOCK_SIZE comes back
\* after another: then bytes_per_sector always equals blk_sz when the pass
\* starts.  The run driver_same_size shows the overflow when one does.
THEOREM WindowFitsBufferHolds ==
  ASSUME FreshSectorSizes PROVE DSpec => []WindowFitsBuffer
<1>1. DInit => WindowInv /\ BufInv
  BY DInitWindowInv, DInitBufInv
<1>2. WindowInv /\ BufInv /\ [DNext]_allVars => WindowInv' /\ BufInv'
  BY DNextWindowInv, DNextBufInv
<1>3. WindowInv /\ BufInv => WindowFitsBuffer
  <2> SUFFICES ASSUME WindowInv, BufInv, dpc = "Call"
               PROVE  stp * blkSz <= bufBytes
    BY DEF WindowFitsBuffer
  <2>1. stp \in 1..Sectors /\ blkSz \in Nat \ {0}
        /\ bufBytes = Sectors * blkSz
    BY DEF WindowInv, BufInv
  <2>. QED BY <2>1, DriverConstants
<1>. QED BY <1>1, <1>2, <1>3, PTL DEF DSpec

=============================================================================
