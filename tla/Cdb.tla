-------------------------------- MODULE Cdb --------------------------------
(***************************************************************************)
(* The SCSI READ/WRITE command descriptor builder sg_build_scsi_cdb of     *)
(* src/sg_dd.c.  The builder is a pure function from (cdb size,            *)
(* direction, block count, start block, fua, dpo) to either a build        *)
(* failure or the command bytes.  The bytes are modelled by what they      *)
(* carry: the opcode, the option bits of byte 1, and the start-block and   *)
(* block-count fields, each holding its argument modulo the width of the   *)
(* field, exactly as the big-endian stores of the code truncate it.        *)
(*                                                                         *)
(* Field widths are counted in bytes of ByteBase values (256 in the code), *)
(* so that a model run can scale a byte down and still reach the values   *)
(* beyond a field's width.                                                 *)
(***************************************************************************)
EXTENDS Integers

CONSTANT ByteBase   \* number of values of one byte: 256 in the code

ASSUME ByteBaseAssumption == ByteBase \in Nat /\ ByteBase >= 2

B2 == ByteBase * ByteBase
B3 == B2 * ByteBase
B4 == B2 * B2
B8 == B4 * B4

\* 0x1fffff: the 21-bit address mask of a 6-byte command (3 bytes less 3 bits)
Lba6Mask == (B3 \div 8) - 1

\* UINT_MAX, the largest value of a 4-byte unsigned field
UintMax == B4 - 1

CdbSizes == {6, 10, 12, 16}

\* rd_opcode[] and wr_opcode[], indexed by the size class of the command
Opcode(sz, write) ==
  LET rd == [s \in CdbSizes |-> CASE s = 6 -> 8 [] s = 10 -> 40
                                   [] s = 12 -> 168 [] s = 16 -> 136]
      wr == [s \in CdbSizes |-> CASE s = 6 -> 10 [] s = 10 -> 42
                                   [] s = 12 -> 170 [] s = 16 -> 138]
  IN  IF write THEN wr[sz] ELSE rd[sz]

\* cdbp[1]: bit 4 (0x10) for dpo, bit 3 (0x8) for fua
Byte1(fua, dpo) == (IF dpo THEN 16 ELSE 0) + (IF fua THEN 8 ELSE 0)

\* The number of distinct values the start-block field of a size can hold.
LbaFieldSize(sz) ==
  CASE sz = 6 -> Lba6Mask + 1 [] sz = 10 -> B4 [] sz = 12 -> B4 [] sz = 16 -> B8

\* The number of distinct values the block-count field of a size can hold.
CountFieldSize(sz) ==
  CASE sz = 6 -> ByteBase [] sz = 10 -> B2 [] sz = 12 -> B4 [] sz = 16 -> B4

\* Mutant: the 6-byte address check is one block short.
BuildFailsLastBlock(sz, blocks, start, fua, dpo) ==
  \/ sz \notin CdbSizes
  \/ /\ sz = 6
     /\ \/ blocks > ByteBase
        \/ start + blocks - 2 \notin 0..Lba6Mask
        \/ dpo \/ fua
  \/ sz = 10 /\ blocks >= B2

\* The conditions under which the builder returns 1 (build failure).
BuildFails(sz, blocks, start, fua, dpo) ==
  \/ sz \notin CdbSizes
  \/ /\ sz = 6
     /\ \/ blocks > ByteBase
        \/ start + blocks - 1 \notin 0..Lba6Mask
        \/ dpo \/ fua
  \/ sz = 10 /\ blocks >= B2

\* The command built for valid arguments.  The 6-byte command ignores the
\* fua and dpo bits (it fails when they are asked for).
BuildCdb(sz, blocks, start, write, fua, dpo) ==
  [opcode |-> Opcode(sz, write),
   byte1  |-> Byte1(fua, dpo),
   lba    |-> start % LbaFieldSize(sz),
   count  |-> blocks % CountFieldSize(sz)]

\* What a device reads from a command: the start block as stored, and the
\* block count, a 6-byte count field of 0 meaning 256 blocks.
CdbStart(cdb) == cdb.lba
CdbBlocks(sz, cdb) == IF sz = 6 /\ cdb.count = 0 THEN ByteBase ELSE cdb.count

=============================================================================
