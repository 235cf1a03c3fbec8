# Verification of the read-verify pass and block read-recovery engine of `sg_dd.c`

This directory holds TLA+ models of `src/sg_dd.c`, the TLC runs that check
them, and the TLAPS proofs about them. The models cover the engine that reads
ranges of blocks from a SCSI generic device and recovers from device errors
along the way, and the pass of `read_verify_device` that drives it over every
device named on the command line.

## 1. The system

| Part | Code | What it does |
|---|---|---|
| Command descriptor builder | `sg_build_scsi_cdb`, 481-552 | A pure function. It builds a READ(6/10/12/16) command, or fails for a bad size, a 6-byte request beyond 256 blocks or the 21-bit address space, fua/dpo on a 6-byte command, or a 10-byte count beyond 16 bits. |
| Transfer executor and classifier | `sg_read_low`, 561-705 | Builds the command, then issues the SG_IO ioctl, retrying EINTR, EAGAIN and EBUSY without bound. Maps ENOMEM to -2 and other errors to -1. Classifies the sense data: clean, recovered, UA, aborted, medium with or without an LBA, not ready, MMC illegal-mode, other. It writes `io_addr` and bumps the process-wide counters. |
| Recovery controller | `sg_read`, 713-991 | The loop that turns those transfers into one read of `blocks` blocks. It covers retries (per-call `retries_tmp`, process-wide `max_uas` and `max_aborted`), the range check on the medium error's LBA, and the re-read of the blocks before it. Under `coe` the bad block is zero-filled or recovered by READ LONG (10), with the process-wide adaptive `read_long_blk_inc`. On failure the `err_out` path zero-fills and fudges the count. |
| Pass loop | `read_verify_device`, 1408-1606, and `main`'s device loop, 1753-1756 | Opens each device, reads its capacity and sector size, sizes a buffer, then calls `sg_read` over successive windows of `opt.sectors` sectors from `opt.start` to `opt.end`, clamping the last window and shrinking the window on ENOMEM. |
| Plumbing | `main`, `open_of`, `scsi_read_capacity`, `dd_filetype`, statistics and signal handlers | Options, device opening, capacity, reporting. |

Everything runs on one thread. State shared across calls of `sg_read` is
process-wide, and is the source of several of the findings below:

- the ceilings `max_uas` (10) and `max_aborted` (256);
- the counters `recovered_errs`, `unrecovered_errs`, `num_retries` and `read_longs`;
- `read_long_blk_inc` (8);
- the flags `ifp->coe` and `ifp->pdt`. The code clears `ifp->coe` for the rest of the run on a syntax error and on an EIO during the prefix re-read.

## 2. Modules

- **`Cdb`** models `sg_build_scsi_cdb`.
  - `BuildFails` is the disjunction of the function's `return 1` conditions.
  - `BuildCdb` gives the command by what it carries: the opcode, the byte-1 bits, and the start-block and count fields. Each field is taken modulo its width, as the `sg_put_unaligned_be*` stores truncate it.
  - `CdbStart` and `CdbBlocks` decode what a device reads. For a 6-byte command, a count of 0 means 256.
  - Byte widths are in units of `ByteBase` values: 256 in the code, 4 in the runs. A run can then start beyond a 32-bit field (`B4` = 256) or the 21-bit mask (`Lba6Mask` = 7).
- **`SgRead`** models `sg_read_low` and `sg_read` together.
  - `pc` is the control point of `sg_read`: `Idle` between calls, `Loop` at the for-loop head, `Main` after the first switch, `Prefix` and `PrefixDone` around the prefix re-read, `Coe` at the `xferred += blks` line, and `ReadLong` and `ReadLong2` for the two READ LONG commands.
  - Each case of each switch is one action:
    - first switch: `MainOk`, `MainStop`, `MainAborted`, `MainUnitAttention`, `MainRetry`, `MainGiveUp`, `MainSyntax`, `MainEio`;
    - range check: `MediumOutOfRange`, `MediumInRange`;
    - prefix re-read: `ReadPrefix`, `PrefixOk`, `PrefixEio`, `PrefixStop`, `PrefixFail`;
    - coe: `CoeStop`, `CoeSmallBs`, `CoeZero`, `CoeReadLong`;
    - READ LONG: `ReadLongHeapFail`, `ReadLongOk`, `ReadLongFail`, `ReadLongAdjust`, `ReadLong2Ok`, `ReadLong2Fail`.
  - The `err_out` label is the operator `ErrOut`, used by every action that jumps to it.
  - One `sg_read_low` call is one step (`ReadLow`, `ReadPrefix`). Its answer is drawn from `Answers`:
    - `SYNTAX` when the builder fails;
    - otherwise what a device can answer at the address the command really carries. A range with no block of `Bad` reads clean or recovered. A range with a bad block fails with a medium error naming that block, no block, or the block just past the range. Any command may also meet a fault in `Faults`.
  - The buffer holds, per block, `Stale`, `Zero` or the LBA whose data the device put there. This is the datum the properties need: did the block get the right LBA?
  - `Call` is the caller. It passes fresh arguments and `blks_readp = 0`, up to `MaxCalls` calls, so the process-wide state carries over between calls.
- **`ReadContract`** is the abstract specification of one `sg_read` call, as its caller sees it (spec §3). `Begin` passes the arguments; `Complete` is one atomic step that returns a result and a count of at most the request (all of it on 0), puts zeros or the block's own LBA's data in every counted slot, and leaves every slot past the request alone. Every call returns.
  - `SgRead` implements it under the mapping `callerBusy == pc # "Idle"`, with the buffer and count the caller sees (`callerBuf`, `callerBlksRead`) those of the last return while a call is in progress. `ImplementsContract == Contract!CSpec` is a property of the engine run, so every engine step is a `Begin`, a `Complete` or a stutter of the contract.
- **`Driver`** models `read_verify_device` and `main`'s loop over the devices, composed with `SgRead`.
  - Its own variables are `dpc` (the control point), `dev` (the device index), the global `blk_sz` (`blkSz`) and `stats->bytes_per_sector` (`bps`), the buffer size `bufBytes`, the global `opt.end` (`optEnd`), and `sector`, `seek`, `stp` (`sectors_to_process`) and `dres` (`res`).
  - Actions: `OpenFails` (open_of fails, 1425-1430), `OpenDevice` (read capacity with its retry as a choice `capOk`, the update of `blk_sz` and `bytes_per_sector` in `SetSizes`, the two `exit(-2)` checks, the buffer size and the pass set-up), `WindowEnd`/`WindowStart` (the for-loop head and the clamp, whose `break` happens only when the clamped count is 0), `ReadCall` (the `sg_read` call hands the window to the engine, which then runs its own actions), `ReadReturned`, `ReadAgain` (the `while (1)` loop's next iteration after success), `WindowFailed` (the `if (res) break` and `seek += sectors_to_process`), `Shrink` (the ENOMEM path: `SG_GET_RESERVED_SIZE` as a choice from `ReservedSizes`, the `MIN_RESERVED_SIZE` floor, the retry with `&iflag`, whose result is always SYNTAX), and `PassEnd` (the pass ends; `bRetryerror` is never set, so the pass retry is dead code; the next device follows).
  - `DSpec` interleaves the driver's steps with the engine's: the driver waits in `Wait` while `pc # "Idle"`.
  - The options main leaves are constants: `Sectors` (`-n`), `Start` (`--start`), `opt.end = 0` (the `e` case of the option switch has neither a short nor a long option), one pass, and `oflag.cdbsz = 10`.
- **`MC_SgRead`** gives TLC the scaled `ByteBase` and the sets it cannot write in a cfg (negative offsets).
- **`MC_Driver`** gives TLC the device lists of the driver runs.
- **`SgReadProofs`**, **`SgReadContractProofs`** and **`DriverProofs`** hold the TLAPS proofs (section 5).

## 3. Properties and runs

| Property | What it says |
|---|---|
| `TypeOK` | The type invariant. It includes: the retry budget within `0..Retries`, and the cursor and the reported count within the buffer. |
| `ReturnedBlocksValid` | The contract of spec §3. After a call, the reported count is at most the request, a 0 return reports all blocks, and every reported block is zero or holds *its own* LBA's data. |
| `NoOverrun` | No transfer, `err_out` memset or READ LONG copy lands outside the caller's blocks. A ghost flag records any such write. |
| `ReadLongFits` | Each READ LONG asks for no more than the `bs*2` buffer holds. |
| `CeilingsNonNegative` | `max_uas` and `max_aborted` never go below zero (spec §8). |
| `Termination` | Every call returns. |
| `ImplementsContract` | The engine implements `ReadContract` under the refinement mapping. |
| `SettledBlocksKept` | An action property: no step of a call writes a block below the cursor `xferred`. Neither a retry, nor the prefix re-read, nor `err_out`'s memset, nor the coe path's zeros or READ LONG copy may touch it. `ReturnedBlocksValid` cannot see a good block replaced by zeros; this property can. |
| `BadSizeIsSyntax` | With a command size the builder rejects, every completed call returns SYNTAX and has written nothing. |
| `DTypeOK` | The driver's type invariant. |
| `ReadWithinDevice` | Every window handed to `sg_read` is non-empty and ends within the device's reported capacity. |
| `WindowFitsBuffer` | Every window handed to `sg_read` fits the buffer allocated for it. |
| `SeekTracksSector` | The LBA read (`seek`) is the sector the loop counts (`sector`). |
| `PassCoversDevice` | Each device's pass runs to that device's own capacity. |
| `PassCompletes` | The run ends: every device's pass completes or the program exits. |

Passing runs:

- **`MC_SgRead.cfg` (engine), 246,236 states.**
  - Setup: 10-byte commands, every fault, `coe` ∈ {0,1,2}, `pdt` ∈ {0,5}, one retry, ceilings of 2, one bad block in a 3-block window, and two calls.
  - It reaches:
    - the prefix re-read and READ LONG with and without adjustment;
    - the out-of-range medium LBA;
    - the MMC illegal-request path;
    - exhaustion of both ceilings across the calls.
- **`MC_SgRead_cdb6.cfg` (cdb6), 3,350 states.**
  - Setup: 6-byte commands at the 21-bit limit, and block sizes 16 and 512.
  - It reaches build failures (`MainSyntax`, SYNTAX in the prefix), `CoeSmallBs` and `coe` being cleared.
- **`MC_SgRead.cfg` also checks `ImplementsContract` and `SettledBlocksKept`.**
  - A mutant whose transfer fills one slot past the request is caught by the contract's action.
  - A mutant of `CoeZero` that drops `bp += blks * bs` (line 878) zeroes the first re-read block instead of the bad one. `SettledBlocksKept` catches it.
- **`MC_SgRead_iflag.cfg` (iflag), 268 states.** `CdbSz = 0`, the size the shrink retry passes; every fault, both coe levels, two block sizes, three calls. `BadSizeIsSyntax` holds.
- **`MC_Driver.cfg` (driver), 6,732 states.**
  - Setup: two devices of 6 blocks with sector sizes 4096 then 512, `opt.sectors` = 2, `opt.start` = 1, reserved sizes 0 and 16384 against a floor of 4096, faults UA, ENOMEM and EIO, one call per window.
  - It reaches every driver action: open failure, both outcomes of read capacity, the exits, the clamp of the last window (from sector 5, to one sector), the shrink both taken and not taken, the window failure and the next device.
  - `CountersBound` keeps the process-wide counters at 2: they only count and no driver guard reads them.

The bounds are chosen so that each path can happen:

- three blocks give a non-empty prefix before a bad block, and a block after it;
- two calls let process-wide state cross a call boundary;
- one retry exercises both the retry and the give-up branches.

Every property of the passing runs has a mutant of the mapped code that TLC
catches. The mutants (an off-by-one split, a missing prefix re-read, an
over-long `err_out` fill, a missing `bs*2` check, a UA retry without its
ceiling, an off-by-one retry, a retry without budget, an off-by-one 6-byte
bound, and a coe memset without the `bp` advance) are listed in `PROJECT.json`.

Violation runs: each is a disagreement between the code and spec.md.

| Run | Property | What the code does |
|---|---|---|
| `ua_ceiling` | `CeilingsNonNegative` | `--max_uas > 0` keeps decrementing past zero across calls (line 760, and line 748 for aborted commands). |
| `readlong_bs` | `ReadLongFits` | `read_long_blk_inc` adapted under bs 512 is reused under bs 64. READ LONG then asks for 472 bytes into a 128-byte buffer (lines 894, 902). `read_verify_device` resets `blk_sz` per device (line 1460), so this is reachable with two devices of different sector sizes in one run. |
| `cdb10_wrap` | `ReturnedBlocksValid` | The 10-byte builder truncates the start block to 32 bits without failing (line 524). The default cdbsz is 10, so a disk beyond 2^32 blocks is read at the wrong LBA and reported as good. |
| `stale_ioaddr` | `ReturnedBlocksValid` | The READ LONG guard tests `io_addr` (line 887), which the prefix re-read may have overwritten (line 620). READ LONG (10) then reads `lba mod 2^32` into the bad block's slot. |
| `driver_while` | `PassCompletes` | The `while (1)` around `sg_read` (line 1539) leaves only on failure: on a healthy device the first window is read forever. |
| `driver_shrink` | `SeekTracksSector` | The ENOMEM retry passes `&iflag`, whose cdbsz is 0 (line 1562), so it always fails; `seek` then advances by the shrunk count while `sector` advances by `opt.sectors`, and later windows read the wrong LBAs. |
| `driver_opt_end` | `PassCoversDevice` | `opt.end` is set from the first device and kept (line 1473): a larger second device is read only up to the first one's capacity. |
| `driver_same_size` | `WindowFitsBuffer` | `bytes_per_sector` is reset to 512 per device and updated only when the sector size differs from the previous device's (line 1455): two 4096-byte devices in a row give the second a buffer of `opt.sectors*512` bytes for transfers of `opt.sectors*4096`, a heap overflow. |

## 4. Fairness

`Spec` assumes weak fairness of `Engine`, the steps inside a call, and none
of `Call`. The justification:

- `sg_read` runs on the caller's thread with no suspension point but the ioctl, which returns within its 60 s `DEF_TIMEOUT`. So a call that can take a step does.
- Whether the caller calls again is the caller's choice.
- The EINTR/EAGAIN/EBUSY loop of `sg_read_low` is outside this fairness: one ioctl is one step. See the hazard at line 597.

`DSpec` assumes weak fairness of the driver's steps and of the engine's
(`EngineStep`). The driver calls `sg_read` and continues on the same thread,
so whenever one of them can step it does. With these, `driver_while` shows a
lasso in which every step is fair and the pass still never ends.

The contract states termination as `[](busy => <>~busy)`. `Complete` is
enabled whenever `busy` holds, so this is what weak fairness of `Complete`
gives.

## 5. Proofs (`SgReadProofs`, `SgReadContractProofs`, `DriverProofs`)

TLAPS proves these theorems for every value of the constants that satisfies
the assumptions (`ByteBaseAssumption` and `ConstantsAssumption` in `SgRead`,
`DriverAssumption` in `Driver`):

- `TypeCorrect: Spec => []TypeOK`;
- `NoOverrunHolds: Spec => []NoOverrun`;
- `BadSizeIsSyntaxHolds: Spec => []BadSizeIsSyntax`;
- `SettledBlocksKeptHolds: Spec => SettledBlocksKept` (the action property);
- `ReadWithinDeviceHolds: DSpec => []ReadWithinDevice`;
- `DTypeCorrect: DSpec => []DTypeOK`.

Two more theorems have one extra hypothesis, `AddressesFit`: every start block
plus `MaxBlocks` is at most `B4` (2^32 in the code).

- `ReturnedBlocksValidHolds: AddressesFit => (Spec => []ReturnedBlocksValid)`;
- `ContractSafetyHolds: AddressesFit => (Spec => Contract!CInit /\ [][Contract!CNext]_Contract!cvars)`, the safety part of `ImplementsContract`.

The hypothesis is necessary: the runs `cdb10_wrap` and `stale_ioaddr` violate
`ReturnedBlocksValid` beyond 2^32. It is also what the engine run satisfies.

Neither `TypeOK` nor `NoOverrun` is inductive alone. A step writes at
`xferred`, or over `blks` blocks from it, and the write is in bounds only
because of where the loop stands. The strengthening `IInv == TypeOK /\ Cursor
/\ NoOverrun` adds `Cursor`:

- `xferred <= blocks` at the loop head;
- `xferred + blks = blocks` after the whole-range read;
- `xferred + blks < blocks` around the prefix re-read, because the range check puts `io_addr` in `[lba, lba+blks)`;
- `xferred < blocks` at the bad block.

TLC checked `IInv` as an invariant of the engine model before the proof was
written. `InitIInv` and `NextIInv` (one step per action) rest on these lemmas:

- `FieldSizePositive`, `WidthsPositive`: the field widths are positive;
- `BuiltCommand`: a built command carries a natural address;
- `DeviceInfo`, `AnswerInfo`: every sense information field is a natural number, and a failed build never reaches the device;
- `ClassifyType`, `IoAddrType`, `TransferType`: the classifier, the `io_addr` update and a transfer keep their types.

`BadSizeIsSyntax` rests on `SyntaxInv`: under a rejected size the call never
leaves `Loop` and `Main` with `xferred = 0`, `Main` always holds `res = SYNTAX`,
and the buffer stays untouched. Lemma `BadSizeAnswer` shows every answer to a
rejected build is SYNTAX and its transfer changes nothing. This is why the
shrink retry of `read_verify_device` can never succeed, for every device.

`ReadWithinDevice` rests on `WindowInv` in `DriverProofs`: from the for-loop
head on, `opt.end` lies within the current device's capacity (the first
`exit(-2)` check), `seek <= sector` (the shrink moves `seek` by less), the
window count is in `1..opt.sectors`, and from the call to its check
`sector + stp <= opt.end` (the clamp). `seek <= sector` is what carries the
bound from the counted sector to the LBA read. The step proof has one case per
action; the shrink case uses lemma `CeilPositive` (a ceiling of a positive size
is positive). The composed engine steps leave the driver's variables alone.

`ReturnedBlocksValid` is not inductive either: it speaks only of `Idle`
states. `SgReadContractProofs` carries it through a call with `ValidInv`, checked
by TLC on the engine and cdb6 runs before the proof:

- during a call the arguments are those `Call` set, and `blksRead = 0`;
- `lba = fromBlock + xferred` at every point where `lba` is the cursor's LBA; at the bad block, `lba + blks` is;
- `ret = MEDIUM` from the range check on, and the prefix is non-empty while it is re-read;
- every slot below the cursor is `Good`: zero, or the data of its own LBA;
- after a successful read, so are the slots it read.

The step proof has one case per action. It rests on these lemmas:

- `DevAddrExact`: below 2^32, a command that builds carries its start block exactly. `OkAnswerBuilt`: a successful answer means the command was built.
- `TransferCases`: a transfer either writes the device's data at `[at, at+n)`, or leaves the buffer alone, or leaves stale contents there.
- `ReadKeepsGood` and `AdvanceKeepsGood`: a read or a one-block write at the cursor keeps the settled slots and settles the new ones.
- `ErrOutValid`: `err_out` returns a count and buffer the contract allows.

`ContractSafetyHolds` adds `CallInv`: a call in progress has `calls > 0`, and
no slot past `blocks` is ever written (`TransferKeepsTail`,
`ZeroFillKeepsTail`, `AdvanceKeepsTail`). `NextRefines` then maps each step:

- `Call` is `Begin`;
- an engine step that stays inside the call changes none of the contract's variables (`EngineFrame`);
- the step that returns is `Complete`, by `ValidInv'` and `CallInv'`.

`SettledBlocksKeptHolds` needs only `IInv`: every write of a step starts at
`xferred`.

`DTypeCorrect` rests on `DTypeInv`, which is `WindowInv` plus the types of
`bps`, `bufBytes` and `dres`. It adds `ResultsTyped`: `res`, `ret` and `result`
stay among sg_read's return values. `SgRead!TypeOK` cannot be used there,
because the driver hands sg_read windows of `opt.sectors` blocks, not
`MaxBlocks`.

Two findings become theorems under exactly the hypothesis their violating
run breaks:

- `ReadLongFitsHolds: OneLongBlockSize => (Spec => []ReadLongFits)`. `OneLongBlockSize` says every block size of at least 32 bytes (the smallest for which READ LONG runs) is the same, and `READ_LONG_DEF_BLK_INC` is at most 32. The engine and cdb6 runs satisfy it; `readlong_bs` breaks it and overflows the `bs * 2` buffer.
- `WindowFitsBufferHolds: FreshSectorSizes => (DSpec => []WindowFitsBuffer)`. `FreshSectorSizes` says each device's sector size is `DEF_BLOCK_SIZE` or differs from the sizes of all the devices before it. The driver run satisfies it; `driver_same_size` breaks it and overflows `sector_data`.

`ReadLongFits` rests on `LongInv`. Its conjuncts are:

- the learned `read_long_blk_inc` never exceeds a block size of 32 bytes or more;
- inside a call, `bs` is one of `BlockSizes`, and on the READ LONG path it is at least 32;
- the second READ LONG's length is at most `bs * 2`.

The step proof has cases for `Call`, for the two actions that enter or adjust READ LONG, and for every other engine step (lemma `LongFrame`). It also uses `IInv`.

`WindowFitsBuffer` rests on `BufInv`. `blk_sz` is always `DEF_BLOCK_SIZE` or the sector size of a device opened so far (`SizesBefore`). From the for-loop head to the pass end, `bytes_per_sector = blk_sz` and the buffer is `opt.sectors * bytes_per_sector`. Lemma `OpenDeviceBufInv` covers the open step:

- when `blk_sz` changes, `bytes_per_sector` changes with it;
- when the size equals `blk_sz`, `FreshSectorSizes` makes it `DEF_BLOCK_SIZE`, the value `bytes_per_sector` was reset to.

TLC checked `LongInv` on the engine and cdb6 runs, and `BufInv` on the driver run and on a fresh `<<512, 4096, 512>>` list, before the proofs.

Only model-checked:

- **`Termination`, `PassCompletes`, and the liveness half of `ImplementsContract`** (`[](busy => <>~busy)`). Liveness under fairness and ENABLED are beyond TLAPS.
- **The findings' violating configurations.** `ReadLongFits` across two long block sizes, `WindowFitsBuffer` for a sector size that recurs after a different one, and `ReturnedBlocksValid` above 2^32 (see `cdb10_wrap` and `stale_ioaddr`) are false there; TLC exhibits each counterexample.

## 6. Not modelled

- **`sg_write`.** It has no live call site.
- **The direct-I/O hint.** It changes how the kernel moves data, not which data a call returns; `read_verify_device` passes an uninitialized `diop`, whose two values give the same step.
- **Allocation failure and the 32-bit wrap of `bytes_to_process` (1497-1498).** The model allocates the computed size; the wrap needs sector sizes above 4096 with products near 2^32.
- **Inside `open_of`, `scsi_read_capacity`, inquiry; option parsing, statistics and signal handlers.** They are I/O and formatting; only their outcomes enter `Driver`. A signal only makes the ioctl return EINTR, which is retried.
- **The clearing of `coe` (line 785).** It is modelled in `SgRead`, but in this program no option sets `oflag.coe`, so it is 0 in every call `read_verify_device` makes.
