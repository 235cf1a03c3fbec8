------------------------------ MODULE MC_SgRead ------------------------------
(***************************************************************************)
(* Model-checking instance of SgRead.  A byte is scaled down to 4 values   *)
(* (ByteBase), so a 4-byte field holds 0..255 and a 6-byte command         *)
(* addresses 0..7 and moves at most 4 blocks; block sizes, READ LONG       *)
(* lengths and offsets keep the code's values.                             *)
(***************************************************************************)
EXTENDS SgRead

MCByteBase == 4
\* Every fault the device can report
MCFaults == {"ua", "aborted", "not_ready", "other", "illegal", "enomem", "eio"}
\* ILI offsets giving nl = bs + 8 - off: accepted (512, 528), too short
\* (-80 < 32) and too long (1120 > 2 * 512)
MCOffsets == {8, -8, 600, -600}
\* An ILI offset giving nl = 512 + 8 + 400 = 920 <= 2 * 512: accepted,
\* leaving read_long_blk_inc = 408 for the next call
MCOffsetsLong == {-400}
=============================================================================
