------------------------------ MODULE FileData ------------------------------
(***************************************************************************)
(* The contents of one file: its rows of table data and its size in table  *)
(* dir, as psql_write_buf, psql_truncate and psql_read_buf treat them.     *)
(* A handler's statements are one transaction, so each handler is one      *)
(* step.  Blocks are strings of bytes that PostgreSQL cuts and joins with  *)
(* substring and ||; numbered from 1, as SQL does.                         *)
(***************************************************************************)
EXTENDS Blocks, FiniteSets

CONSTANTS
  Byte,          \* the bytes, 0 among them
  JUNK,          \* a byte, or a reply, that was never written
  Offset,        \* offsets and sizes in calls
  Buffer,        \* buffers in calls of write: FUSE sends no empty ones
  PageSize,      \* the kernel reads pages of the page cache
  LittleEndian   \* the byte order of the machine pgfuse runs on

ASSUME FileDataAssumption ==
  /\ 0 \in Byte
  /\ JUNK \notin Byte
  /\ Offset \subseteq Nat
  /\ Buffer \subseteq Seq(Byte) \ {<<>>}
  /\ PageSize \in Nat \ {0}
  /\ LittleEndian \in BOOLEAN

(* FUSE splits large writes, and sizes stay below 2^31 blocks.  Beyond     *)
(* that nof_blocks overflows, and psql_truncate deletes the wrong rows.    *)
ASSUME FitsAssumption ==
  \A offset \in Offset :
    /\ Fits(0, offset)
    /\ \A buf \in Buffer : Fits(offset, Len(buf))

VARIABLES
  size,  \* dir.size of the file
  data   \* data[n]: column data of the row with block_no n, if there is one

vars == <<size, data>>

-----------------------------------------------------------------------------
EIO == -5   \* -EIO

OldBlock(n) == IF n \in DOMAIN data THEN data[n] ELSE Zeros(BS)

(* psql_write_buf: the first block, full blocks, the last block. *)
WriteBuf(offset, buf) ==
  LET info == ComputeBlockInfo(offset, Len(buf))
      at(n) == info.from_len + (n - info.from_block - 1) * BS
      written(n) ==
        IF n = info.from_block
        THEN WriteBlock(OldBlock(n), info.from_offset, SubSeq(buf, 1, info.from_len))
        ELSE IF n < info.to_block
        THEN WriteBlock(OldBlock(n), 0, SubSeq(buf, at(n) + 1, at(n) + BS))
        ELSE WriteBlock(OldBlock(n), 0, SubSeq(buf, at(n) + 1, at(n) + info.to_len))
  IN [n \in DOMAIN data \cup info.from_block .. info.to_block |->
        IF n \in info.from_block .. info.to_block THEN written(n) ELSE data[n]]

(* Mutant of TruncatedData: the last block is not padded with zeros. *)
TruncatedDataUnpadded(offset) ==
  LET info == ComputeBlockInfo(0, offset) IN
  [n \in {m \in DOMAIN data : m <= info.to_block} |-> data[n]]

(* psql_truncate: delete the blocks behind the last one, pad that one. *)
TruncatedData(offset) ==
  LET info == ComputeBlockInfo(0, offset) IN
  [n \in {m \in DOMAIN data : m <= info.to_block} |->
     IF n = info.to_block
     THEN PadBlock(data[n], info.to_len)
     ELSE data[n]]

-----------------------------------------------------------------------------
Init ==
  /\ size = 0
  /\ data = [n \in {} |-> Zeros(BS)]

(* Mutant of pgfuse_write: a write inside the file makes it shorter. *)
pgfuse_write_shrinks(offset, buf) ==
  /\ data' = WriteBuf(offset, buf)
  /\ size' = offset + Len(buf)

(* pgfuse_write; pgfuse_symlink writes the target of a new link this way. *)
pgfuse_write(offset, buf) ==
  /\ data' = WriteBuf(offset, buf)
  /\ size' = IF offset + Len(buf) > size THEN offset + Len(buf) ELSE size

(* pgfuse_truncate and pgfuse_ftruncate *)
pgfuse_truncate(offset) ==
  /\ data' = TruncatedData(offset)
  /\ size' = offset

Next ==
  \/ \E offset \in Offset, buf \in Buffer : pgfuse_write(offset, buf)
  \/ \E offset \in Offset : pgfuse_truncate(offset)

Spec == Init /\ [][Next]_vars

-----------------------------------------------------------------------------
(***************************************************************************)
(* psql_read_buf.  The rows of the range come in order of block_no; the    *)
(* loop walks over the blocks and takes the next row when its number, as   *)
(* the code decodes it, has been reached.                                  *)
(***************************************************************************)

(* ntohl applied to the eight bytes of a bigint in network order: on a     *)
(* big-endian machine the low half of the number, on a little-endian one   *)
(* the high half.                                                          *)
DbBlockNo(n) == IF LittleEndian THEN n \div IntMod ELSE n % IntMod

(* Mutant of ReadSource: the last block of the range is not selected. *)
ReadSourceShort(info) ==
  [b \in info.from_block .. info.to_block |->
     IF b \in DOMAIN data /\ b < info.to_block THEN data[b] ELSE Zeros(BS)]

(* The rows of the range, and the row with number i of the reply. *)
SelectedRows(info) == {n \in DOMAIN data : info.from_block <= n /\ n <= info.to_block}

RowAt(rows, i) == CHOOSE n \in rows : Cardinality({m \in rows : m < n}) = i

(* The loop is at block b: does it take row i for it? *)
IsDue(rows, b, i) == i < Cardinality(rows) /\ ~(b < DbBlockNo(RowAt(rows, i)))

(* What is copied for each block of the range: a row's data or zeros. *)
ReadSource(info) ==
  LET rows == SelectedRows(info)
      idx[b \in info.from_block .. info.to_block] ==
        IF b = info.from_block THEN 0
        ELSE IF IsDue(rows, b - 1, idx[b - 1]) THEN idx[b - 1] + 1 ELSE idx[b - 1]
  IN [b \in info.from_block .. info.to_block |->
        IF IsDue(rows, b, idx[b]) THEN data[RowAt(rows, idx[b])] ELSE Zeros(BS)]

(* Mutant of ReadLen: the test for the end of the file is left out. *)
ReadLenWhole(offset, len) == len

(* size in psql_read_buf: a read that reaches behind the end is cut, in    *)
(* unsigned arithmetic.                                                    *)
ReadLen(offset, len) == IF ToSize(offset + len) > size THEN ToSize(size - offset) ELSE len

(* The return value and the buffer, as pgfuse_read hands them to FUSE.     *)
(* JUNK: memcpy with a length that has wrapped around.                     *)
ReadBuf(offset, len) ==
  LET n    == ReadLen(offset, len)
      info == ComputeBlockInfo(offset, n)
      src  == ReadSource(info)
      copied == IF info.to_block < info.from_block THEN 0
                ELSE IF info.to_block = info.from_block THEN info.from_len
                ELSE info.from_len + (info.to_block - info.from_block - 1) * BS + info.to_len
      firstLen == info.from_len - info.from_offset
      byte(i) ==
        IF i < info.from_len
        THEN IF i < firstLen THEN src[info.from_block][info.from_offset + i + 1] ELSE JUNK
        ELSE src[info.from_block + 1 + (i - info.from_len) \div BS][1 + ((i - info.from_len) % BS)]
  IN IF size = 0 THEN [res |-> 0, buf |-> <<>>]
     ELSE IF info.to_block >= info.from_block /\ (firstLen < 0 \/ info.from_len > BS)
     THEN [res |-> JUNK, buf |-> <<>>]
     ELSE IF copied # n THEN [res |-> EIO, buf |-> <<>>]
     ELSE [res |-> n, buf |-> [k \in 1 .. n |-> byte(k - 1)]]

ENOMEM == -12   \* -ENOMEM

(* pgfuse_readlink: the whole contents, with a zero byte behind it. *)
pgfuse_readlink(bufsize) ==
  LET r == ReadBuf(0, size) IN
  IF bufsize < size + 1 THEN [res |-> ENOMEM, buf |-> <<>>]
  ELSE IF r.res = EIO THEN r
  ELSE [res |-> 0, buf |-> Append(r.buf, 0)]

-----------------------------------------------------------------------------
(* The byte the rows hold at an offset; a missing row is a hole of zeros. *)
ByteAt(i) == IF i \div BS \in DOMAIN data THEN data[i \div BS][1 + (i % BS)] ELSE 0

Content == [i \in 0 .. size - 1 |-> ByteAt(i)]

(* Bytes left behind the end of an empty file by truncating it. *)
Residue == {i \in size .. BS - 1 : ByteAt(i) # 0}

F == INSTANCE ByteFile WITH length <- size, content <- Content, loose <- Residue

TypeOK ==
  /\ size \in Nat
  /\ DOMAIN data \subseteq Nat
  /\ \A n \in DOMAIN data : data[n] \in Seq(Byte)

(* "We store padded blocks of fixed size": every row has block_size bytes, *)
(* whichever way substring and || put it together.  psql_get_block_size    *)
(* takes the block size of the file system from any row.                   *)
BlocksArePadded ==
  \A n \in DOMAIN data : Len(data[n]) = BS

(* Block 0 apart, psql_truncate leaves no row behind the end of the file,  *)
(* so that the rows psql_get_fs_blocks_used counts are those of the file,  *)
(* and zeros in the row the end is in, so that bytes are zero when the     *)
(* file grows over them.                                                   *)
NothingBehindEnd ==
  \A n \in DOMAIN data \ {0} :
    /\ n * BS < size
    /\ \A k \in 1 .. BS : n * BS + k - 1 >= size => data[n][k] = 0

(* "Pad right part of now last block": the same, for every file.           *)
PaddedBehindEnd ==
  \A n \in DOMAIN data : \A k \in 1 .. BS : n * BS + k - 1 >= size => data[n][k] = 0

(* "Could actually be an assertion, as this can never happen": any range   *)
(* of the file is split into parts that fit their blocks and make it up.   *)
RangesAreSplit ==
  \A offset \in 0 .. size, len \in 1 .. size : Fits(offset, len) => InfoCorrect(offset, len)

(* Writes and truncates do to the rows what they do to a file of bytes.    *)
ImplementsByteFile == F!Spec

(* The reply POSIX asks for. *)
Expected(offset, len) ==
  LET n == IF offset >= size THEN 0 ELSE IF offset + len > size THEN size - offset ELSE len
  IN [res |-> n, buf |-> [k \in 1 .. n |-> ByteAt(offset + k - 1)]]

(* The reads the kernel sends: pages that begin before the end. *)
PageReads ==
  {<<p * PageSize, k * PageSize>> :
     p \in {q \in 0 .. size : q * PageSize < size}, k \in 1 .. 3}

(* No row is missing in front of another one that is there. *)
Dense == \A n \in DOMAIN data : n > 0 => n - 1 \in DOMAIN data

(* Reading pages of a file without holes returns what was written, and     *)
(* zeros where the end of the file was moved out; pgfuse_readlink, which   *)
(* reads all bytes at once, returns those of the link.                     *)
DenseReadsExact ==
  Dense =>
    /\ \A r \in PageReads : ReadBuf(r[1], r[2]) = Expected(r[1], r[2])
    /\ pgfuse_readlink(size + 1) = [res |-> 0, buf |-> Append(Expected(0, size).buf, 0)]

(* The kernel asks for pages behind the end when another mount has cut the *)
(* file since: meta.size - offset wraps around, and yet the reply is empty *)
(* or an error, and never made of bytes.  Pages that are not made of whole *)
(* blocks, and those behind 2^31 blocks, are out: there the length of a    *)
(* memcpy, or the number of blocks, has wrapped around.                    *)
StaleReadsAreRefused ==
  PageSize % BS = 0 =>
    \A p \in 0 .. size + PageSize, k \in 1 .. 3 :
      p * PageSize >= size /\ Fits(0, (p + k) * PageSize)
        => ReadBuf(p * PageSize, k * PageSize).res \in {0, EIO}

(* "Handle sparse files": the same for every file. *)
ReadsExact ==
  \A r \in PageReads : ReadBuf(r[1], r[2]) = Expected(r[1], r[2])
=============================================================================
