----------------------------- MODULE MCFileData -----------------------------
(* FileData for TLC. *)
EXTENDS FileData

CONSTANTS MaxOffset, MaxLen

MCOffset == 0 .. MaxOffset

(* Bytes 1 and 2 by turns, so that a byte that moves by one is noticed. *)
MCBuffer == {[i \in 1 .. n |-> 1 + (i % 2)] : n \in 1 .. MaxLen}
=============================================================================
