----------------------------- MODULE BlockInfo ------------------------------
(***************************************************************************)
(* compute_block_info of pgsql.c: which blocks of a file a range of bytes  *)
(* lies in.  size_t and int have their own moduli, since the number of     *)
(* blocks is computed in size_t and stored in an int.                      *)
(***************************************************************************)
EXTENDS Integers

CONSTANTS
  BS,       \* block_size
  IntMod,   \* 2^32, the values of an int
  SizeMod   \* 2^64, the values of a size_t

ASSUME BlockInfoAssumption ==
  /\ BS \in Nat \ {0}
  /\ IntMod \in Nat \ {0} /\ IntMod % 2 = 0
  /\ SizeMod \in Nat \ {0}

(* The conversions of a number to int and to size_t. *)
ToInt(x) == LET y == x % IntMod IN IF y < IntMod \div 2 THEN y ELSE y - IntMod

ToSize(x) == x % SizeMod

(* Mutant of ComputeBlockInfo: a range that ends with a block has a last   *)
(* block of nothing behind that.                                           *)
ComputeBlockInfoNoStep(offset, len) ==
  LET from_block  == offset \div BS
      from_offset == offset % BS
      total       == ToSize(from_offset + len)
      nof_blocks  == ToInt(total \div BS)
  IN [from_block  |-> from_block,
      from_offset |-> from_offset,
      from_len    |-> IF nof_blocks = 0 THEN len ELSE BS - from_offset,
      to_block    |-> from_block + nof_blocks,
      to_len      |-> total % BS]

(* compute_block_info( BS, offset, len ) *)
ComputeBlockInfo(offset, len) ==
  LET from_block  == offset \div BS
      from_offset == offset % BS
      total       == ToSize(from_offset + len)
      nof_blocks  == ToInt(total \div BS)
      last        == from_block + nof_blocks
      clamped     == IF last - 1 < 0 THEN 0 ELSE last - 1
  IN [from_block  |-> from_block,
      from_offset |-> from_offset,
      from_len    |-> IF nof_blocks = 0 THEN len ELSE BS - from_offset,
      to_block    |-> IF total % BS = 0 THEN clamped ELSE last,
      to_len      |-> IF total % BS = 0 THEN BS ELSE total % BS]

(***************************************************************************)
(* What psql_write_buf and psql_read_buf take for granted: the first block *)
(* has room for its part (the test in psql_write_block that "can never     *)
(* happen"), so has the last one, the parts are not empty (no "unhandled   *)
(* write case"), and together they are the range.                          *)
(***************************************************************************)
InfoCorrect(offset, len) ==
  LET info == ComputeBlockInfo(offset, len) IN
  /\ info.from_block * BS + info.from_offset = offset
  /\ info.from_len >= 1 /\ info.from_offset + info.from_len <= BS
  /\ info.to_len \in 1 .. BS
  /\ info.to_block * BS + info.to_len = offset + len
  /\ IF info.from_block = info.to_block
     THEN info.from_len = len
     ELSE info.from_block < info.to_block /\ info.from_offset + info.from_len = BS

(* The ranges the code is right for: no sum wraps around, and the number   *)
(* of blocks fits into an int.                                             *)
Fits(offset, len) ==
  /\ (offset % BS) + len < SizeMod
  /\ ((offset % BS) + len) \div BS < IntMod \div 2
=============================================================================
