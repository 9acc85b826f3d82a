------------------------------- MODULE Blocks -------------------------------
(***************************************************************************)
(* The rows of table data as strings of bytes that PostgreSQL cuts and     *)
(* joins with substring and ||, in the UPDATEs of psql_write_block and     *)
(* psql_truncate.  Bytes are numbered from 1, as SQL does.                 *)
(***************************************************************************)
EXTENDS BlockInfo, Sequences

(* SQL's substring( s from p for n ) and repeat( E'\\000', n )::bytea *)
Substring(s, p, n) == SubSeq(s, p, IF p + n - 1 > Len(s) THEN Len(s) ELSE p + n - 1)

(* Mutant of Zeros: repeat( '0', n ), the digit. *)
Digits(n) == [i \in 1 .. n |-> 48]

Zeros(n) == [i \in 1 .. n |-> 0]

(* Mutant of WriteBlock: data on the right is not kept. *)
WriteBlockCut(old, offset, buf) == Substring(old, 1, offset) \o buf

(* psql_write_block: the four UPDATEs, and the INSERT of a block of zeros  *)
(* and the UPDATE again when there was no row.                             *)
WriteBlock(old, offset, buf) ==
  LET len == Len(buf) IN
  IF offset = 0 /\ len = BS THEN buf
  ELSE IF offset = 0 /\ len < BS THEN buf \o Substring(old, len + 1, BS - len)
  ELSE IF offset > 0 /\ offset + len = BS THEN Substring(old, 1, offset) \o buf
  ELSE IF offset > 0 /\ offset + len < BS
  THEN Substring(old, 1, offset) \o buf
       \o Substring(old, offset + len + 1, BS - (offset + len))
  ELSE old   \* -EIO, "we should never get here"

(* The UPDATE of psql_truncate that pads the last block behind len bytes. *)
PadBlock(old, len) == Substring(old, 1, len) \o Zeros(BS - len)
=============================================================================
