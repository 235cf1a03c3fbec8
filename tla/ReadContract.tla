---------------------------- MODULE ReadContract ----------------------------
(***************************************************************************)
(* What one call of sg_read promises its caller (spec section 3), as one  *)
(* atomic step: the call returns a result and a count of at most the       *)
(* blocks asked for, all of them when it returns 0; every counted block    *)
(* holds zeros or the data of its own LBA; and no slot of the caller's     *)
(* buffer past the blocks asked for is touched.  The arguments stay fixed  *)
(* while the call runs, and every call returns.                            *)
(***************************************************************************)
EXTENDS Naturals

CONSTANTS MaxBlocks, BlockSizes, Starts, MaxCalls, ResultSet

VARIABLES busy, blocks, fromBlock, bs, buf, blksRead, result, calls

cvars == <<busy, blocks, fromBlock, bs, buf, blksRead, result, calls>>

Slots == 0..(MaxBlocks - 1)
Untouched == [src |-> "stale", lba |-> 0]
Zeros == [src |-> "zero", lba |-> 0]
DeviceData == [src : {"dev", "long"}, lba : Nat]
SlotContents == [src : {"stale", "zero", "dev", "long"}, lba : Nat]

CInit ==
  /\ ~busy
  /\ blocks = 0 /\ fromBlock = 0 /\ bs = 0
  /\ buf = [i \in Slots |-> Untouched]
  /\ blksRead = 0 /\ result = "OK" /\ calls = 0

\* The caller asks for n blocks from block f of size s, with *blks_readp = 0
\* and a buffer it has not yet read into.
Begin ==
  /\ ~busy /\ calls < MaxCalls
  /\ \E n \in 1..MaxBlocks, f \in Starts, s \in BlockSizes :
       blocks' = n /\ fromBlock' = f /\ bs' = s
  /\ buf' = [i \in Slots |-> Untouched]
  /\ blksRead' = 0
  /\ calls' = calls + 1
  /\ busy' = TRUE
  /\ UNCHANGED result

\* The call returns, keeping its promise.
Complete ==
  /\ busy /\ ~busy'
  /\ result' \in ResultSet
  /\ blksRead' \in 0..blocks
  /\ result' = "OK" => blksRead' = blocks
  /\ buf' \in [Slots -> SlotContents]
  /\ \A i \in 0..(blksRead' - 1) :
       \/ buf'[i] = Zeros
       \/ buf'[i] \in DeviceData /\ buf'[i].lba = fromBlock + i
  /\ \A i \in Slots \ (0..(blocks - 1)) : buf'[i] = buf[i]
  /\ UNCHANGED <<blocks, fromBlock, bs, calls>>

CNext == Begin \/ Complete

\* Complete is enabled whenever a call is in progress, so weak fairness of
\* Complete amounts to: every call returns.
CSpec == CInit /\ [][CNext]_cvars /\ [](busy => <>~busy)
=============================================================================
