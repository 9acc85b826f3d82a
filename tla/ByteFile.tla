------------------------------ MODULE ByteFile ------------------------------
(***************************************************************************)
(* A file as its users see it: a row of bytes that writes and truncates    *)
(* change.  The bytes a file grows by are zero, with one exception pgfuse  *)
(* needs: offsets of the first block that were in the file when it was     *)
(* truncated to nothing are loose, and may come back with any byte.        *)
(***************************************************************************)
EXTENDS Integers, Sequences

CONSTANTS
  Byte,    \* the bytes, 0 among them
  BS,      \* block_size: only offsets below it can become loose
  Offset,  \* the offsets and sizes callers give
  Buffer   \* the sequences of bytes they write

VARIABLES
  length,
  content,  \* content[i]: the byte at offset i, 0 <= i < length
  loose

(* What offset i, not itself written, may hold after the file has grown. *)
Kept(i) ==
  IF i < length THEN {content[i]} ELSE IF i \in loose THEN Byte ELSE {0}

Init ==
  /\ length = 0
  /\ content = [i \in {} |-> 0]
  /\ loose = {}

Write(offset, buf) ==
  LET end == offset + Len(buf) IN
  /\ length' = IF end > length THEN end ELSE length
  /\ DOMAIN content' = 0 .. length' - 1
  /\ \A i \in 0 .. length' - 1 :
       content'[i] \in IF i \in offset .. end - 1 THEN {buf[i - offset + 1]} ELSE Kept(i)
  /\ loose' = loose \ 0 .. length' - 1

Truncate(n) ==
  /\ length' = n
  /\ DOMAIN content' = 0 .. n - 1
  /\ \A i \in 0 .. n - 1 : content'[i] \in Kept(i)
  /\ IF n = 0 THEN loose' \subseteq loose \cup {i \in 0 .. BS - 1 : i < length}
              ELSE loose' = {}

Next ==
  \/ \E offset \in Offset, buf \in Buffer : Write(offset, buf)
  \/ \E n \in Offset : Truncate(n)

Spec == Init /\ [][Next]_<<length, content, loose>>
=============================================================================
