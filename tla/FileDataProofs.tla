--------------------------- MODULE FileDataProofs ---------------------------
(***************************************************************************)
(* What is proved about FileData for every block size, every set of bytes, *)
(* offsets and buffers and every width of int and size_t.                  *)
(***************************************************************************)
EXTENDS FileData, FiniteSetTheorems, WellFoundedInduction, TLAPS

(* Division with remainder, as the provers need it. *)
LEMMA DivMod ==
  ASSUME NEW a \in Nat, NEW b \in Nat \ {0}
  PROVE  /\ a \div b \in Nat
         /\ a % b \in 0 .. b - 1
         /\ a = b * (a \div b) + (a % b)
  OBVIOUS

(* A number below the modulus is its own remainder. *)
LEMMA SmallMod ==
  ASSUME NEW a \in Nat, NEW m \in Nat, a < m
  PROVE  a % m = a
  OBVIOUS

(* The parts compute_block_info returns are not empty, fit into their      *)
(* blocks and make up the range [offset, offset + len).                    *)
THEOREM BlockInfoCorrect ==
  ASSUME NEW offset \in Nat, NEW len \in Nat \ {0},
         Fits(offset, len)
  PROVE  InfoCorrect(offset, len)
<1> USE BlockInfoAssumption DEF BlockInfoAssumption, Fits
<1> DEFINE q == offset \div BS
           r == offset % BS
           T == r + len
           n == T \div BS
           m == T % BS
           info == ComputeBlockInfo(offset, len)
<1>1. q \in Nat /\ r \in 0 .. BS - 1 /\ offset = BS * q + r
  BY DivMod
<1>2. T \in Nat /\ T >= 1 /\ T < SizeMod
  BY <1>1
<1>3. n \in Nat /\ m \in 0 .. BS - 1 /\ T = BS * n + m
  BY <1>2, DivMod
<1>4. ToSize(T) = T
  BY <1>2, SmallMod DEF ToSize
<1>5. ToInt(n) = n
  <2>1. n < IntMod \div 2
    OBVIOUS
  <2>2. IntMod \div 2 <= IntMod /\ IntMod \div 2 \in Nat
    OBVIOUS
  <2>3. n < IntMod
    BY <1>3, <2>1, <2>2
  <2>4. n % IntMod = n
    BY <1>3, <2>3, SmallMod
  <2> QED
    BY <2>1, <2>4 DEF ToInt
<1>6. /\ info.from_block = q
      /\ info.from_offset = r
      /\ info.from_len = IF n = 0 THEN len ELSE BS - r
      /\ info.to_block = IF m = 0 THEN IF q + n - 1 < 0 THEN 0 ELSE q + n - 1 ELSE q + n
      /\ info.to_len = IF m = 0 THEN BS ELSE m
  BY <1>4, <1>5 DEF ComputeBlockInfo
<1>7. len = T - r /\ BS \in Nat /\ BS >= 1
  BY <1>1
<1> HIDE DEF q, r, T, n, m, info
<1>8. (q + n) * BS = BS * q + BS * n /\ q * BS = BS * q
  BY <1>1, <1>3, <1>7
<1>9. CASE m = 0
  <2>1. n >= 1
    BY <1>9, <1>2, <1>3, <1>7
  <2>2. info.to_block = q + n - 1 /\ info.to_len = BS /\ info.from_len = BS - r
    BY <1>9, <1>6, <2>1, <1>1, <1>3
  <2>3. (q + n - 1) * BS + BS = offset + len
    <3>1. (q + n - 1) * BS + BS = (q + n) * BS
      BY <1>1, <1>3, <1>7
    <3> QED
      BY <3>1, <1>8, <1>9, <1>1, <1>3, <1>7
  <2>4. n = 1 => BS * n = BS
    BY <1>7
  <2>5. info.from_block = info.to_block => info.from_len = len
    BY <2>2, <2>4, <1>6, <1>1, <1>3, <1>7, <1>9
  <2> QED
    BY <2>1, <2>2, <2>3, <2>5, <1>6, <1>8, <1>1, <1>3, <1>7 DEF InfoCorrect, info
<1>10. CASE m # 0
  <2>1. info.to_block = q + n /\ info.to_len = m
    BY <1>10, <1>6
  <2>2. (q + n) * BS + m = offset + len
    BY <1>8, <1>1, <1>3, <1>7
  <2>3. CASE n = 0
    <3>1. BS * n = 0
      BY <2>3, <1>7
    <3>2. info.from_len = len /\ len = m - r
      BY <2>3, <3>1, <1>6, <1>3, <1>7, <1>1
    <3> QED
      BY <2>1, <2>2, <2>3, <3>2, <1>6, <1>8, <1>1, <1>3, <1>7, <1>10 DEF InfoCorrect, info
  <2>4. CASE n # 0
    BY <2>1, <2>2, <2>4, <1>6, <1>8, <1>1, <1>3, <1>7, <1>10 DEF InfoCorrect, info
  <2> QED
    BY <2>3, <2>4
<1> QED
  BY <1>9, <1>10, <1>3

-----------------------------------------------------------------------------
Padded(b) == b \in Seq(Byte) /\ Len(b) = BS

(* A part of a string that lies inside it has the length asked for. *)
LEMMA SubstringInside ==
  ASSUME NEW s \in Seq(Byte), NEW p \in Nat \ {0}, NEW n \in Nat,
         p + n - 1 <= Len(s)
  PROVE  Substring(s, p, n) \in Seq(Byte) /\ Len(Substring(s, p, n)) = n
<1>1. Substring(s, p, n) = SubSeq(s, p, p + n - 1)
  BY DEF Substring
<1>2. CASE n = 0
  BY <1>1, <1>2
<1>3. CASE n > 0
  BY <1>1, <1>3
<1> QED
  BY <1>2, <1>3

(* repeat( E'\\000', n ) has n bytes. *)
LEMMA ZerosLength ==
  ASSUME NEW n \in Nat
  PROVE  Zeros(n) \in Seq(Byte) /\ Len(Zeros(n)) = n
BY FileDataAssumption DEF FileDataAssumption, Zeros

(* What || does to lengths. *)
LEMMA ConcatLength ==
  ASSUME NEW s \in Seq(Byte), NEW t \in Seq(Byte)
  PROVE  s \o t \in Seq(Byte) /\ Len(s \o t) = Len(s) + Len(t)
OBVIOUS

(* Each of the four UPDATEs of psql_write_block leaves a block of the      *)
(* right length, if the part that is written fits.                         *)
LEMMA WriteBlockPadded ==
  ASSUME NEW old \in Seq(Byte), Len(old) = BS,
         NEW offset \in Nat, NEW buf \in Seq(Byte),
         Len(buf) >= 1, offset + Len(buf) <= BS
  PROVE  Padded(WriteBlock(old, offset, buf))
<1> DEFINE len == Len(buf)
           left == Substring(old, 1, offset)
           right(k) == Substring(old, k + 1, BS - k)
<1>1. len \in Nat /\ BS \in Nat
  BY BlockInfoAssumption DEF BlockInfoAssumption
<1>2. left \in Seq(Byte) /\ Len(left) = offset
  BY <1>1, SubstringInside
<1>3. ASSUME NEW k \in Nat, k <= BS
      PROVE  right(k) \in Seq(Byte) /\ Len(right(k)) = BS - k
  <2>1. k + 1 \in Nat \ {0} /\ BS - k \in Nat /\ (k + 1) + (BS - k) - 1 <= Len(old)
    BY <1>1, <1>3
  <2> QED
    BY <2>1, SubstringInside
<1> HIDE DEF left, right
<1>4. CASE offset = 0 /\ len = BS
  BY <1>4 DEF WriteBlock, Padded
<1>5. CASE offset = 0 /\ len < BS
  <2>1. WriteBlock(old, offset, buf) = buf \o right(len)
    BY <1>1, <1>5 DEF WriteBlock, right
  <2>2. right(len) \in Seq(Byte) /\ Len(right(len)) = BS - len
    BY <1>1, <1>3, <1>5
  <2> QED
    BY <1>1, <2>1, <2>2, ConcatLength DEF Padded
<1>6. CASE offset > 0 /\ offset + len = BS
  <2>1. WriteBlock(old, offset, buf) = left \o buf
    BY <1>1, <1>6 DEF WriteBlock, left
  <2> QED
    BY <1>1, <1>2, <1>6, <2>1, ConcatLength DEF Padded
<1>7. CASE offset > 0 /\ offset + len < BS
  <2>1. WriteBlock(old, offset, buf) = left \o buf \o right(offset + len)
    <3>1. offset # 0 /\ offset > 0 /\ offset + len # BS /\ offset + len < BS
      BY <1>1, <1>7
    <3> QED
      BY <3>1 DEF WriteBlock, left, right
  <2>2. /\ right(offset + len) \in Seq(Byte)
        /\ Len(right(offset + len)) = BS - (offset + len)
    BY <1>1, <1>3, <1>7
  <2>3. left \o buf \in Seq(Byte) /\ Len(left \o buf) = offset + len
    BY <1>2, ConcatLength
  <2> QED
    BY <1>1, <2>1, <2>2, <2>3, ConcatLength DEF Padded
<1> QED
  BY <1>1, <1>4, <1>5, <1>6, <1>7

(* The parts of a range are numbers. *)
LEMMA InfoTypes ==
  ASSUME NEW offset \in Nat, NEW len \in Nat
  PROVE  LET info == ComputeBlockInfo(offset, len) IN
         /\ info.from_block \in Nat /\ info.from_offset \in Nat /\ info.from_len \in Int
         /\ info.to_block \in Int /\ info.to_len \in 1 .. BS
<1> USE BlockInfoAssumption DEF BlockInfoAssumption
<1> DEFINE r == offset % BS
           total == ToSize(r + len)
           n == ToInt(total \div BS)
<1>1. offset \div BS \in Nat /\ r \in 0 .. BS - 1
  BY DivMod
<1>2. total \in Nat
  BY <1>1, DivMod DEF ToSize
<1>3. total \div BS \in Nat /\ total % BS \in 0 .. BS - 1
  BY <1>2, DivMod
<1>4. n \in Int
  <2>1. (total \div BS) % IntMod \in Int
    BY <1>3, DivMod
  <2> QED
    BY <2>1 DEF ToInt
<1> HIDE DEF n, total, r
<1> QED
  BY <1>1, <1>3, <1>4 DEF ComputeBlockInfo, n, total, r

(* The part of the buffer for every block psql_write_buf writes lies       *)
(* inside the buffer.                                                      *)
LEMMA PartsInside ==
  ASSUME NEW offset \in Nat, NEW len \in Nat \ {0}, Fits(offset, len)
  PROVE  LET info == ComputeBlockInfo(offset, len)
             at(n) == info.from_len + (n - info.from_block - 1) * BS
         IN
         /\ info.from_len \in 1 .. len /\ info.from_offset + info.from_len <= BS
         /\ info.to_block \in Nat
         /\ \A n \in info.from_block .. info.to_block : n > info.from_block =>
              /\ at(n) \in Nat
              /\ n < info.to_block => at(n) + BS <= len
              /\ n = info.to_block => at(n) + info.to_len <= len
<1> DEFINE info == ComputeBlockInfo(offset, len)
           fb == info.from_block
           tb == info.to_block
           fl == info.from_len
           at(n) == fl + (n - fb - 1) * BS
<1>1. BS \in Nat \ {0}
  BY BlockInfoAssumption DEF BlockInfoAssumption
<1>2. fb \in Nat /\ info.from_offset \in Nat /\ fl \in Int /\ tb \in Int /\ info.to_len \in 1 .. BS
  BY InfoTypes
<1>3. /\ fb * BS + info.from_offset = offset
      /\ fl >= 1 /\ info.from_offset + fl <= BS
      /\ tb * BS + info.to_len = offset + len
      /\ IF fb = tb THEN fl = len ELSE fb < tb /\ info.from_offset + fl = BS
  BY BlockInfoCorrect DEF InfoCorrect
<1> HIDE DEF info, fb, tb, fl
<1>4. fb < tb => len = fl + (tb - fb - 1) * BS + info.to_len
  BY <1>1, <1>2, <1>3
<1>5. ASSUME NEW a \in Nat, NEW b \in Nat, a <= b
      PROVE  a * BS \in Nat /\ b * BS \in Nat /\ a * BS <= b * BS
  BY <1>1, <1>5
<1>6. fl \in 1 .. len
  <2>1. CASE fb < tb
    <3>1. (tb - fb - 1) * BS \in Nat
      BY <1>2, <1>5, <2>1
    <3> QED
      BY <1>2, <1>3, <1>4, <2>1, <3>1
  <2> QED
    BY <1>2, <1>3, <2>1
<1>7. ASSUME NEW n \in fb .. tb, n > fb
      PROVE  /\ at(n) \in Nat
             /\ n < tb => at(n) + BS <= len
             /\ n = tb => at(n) + info.to_len <= len
  <2>1. (n - fb - 1) * BS \in Nat
    BY <1>2, <1>5, <1>7
  <2>2. n < tb => (n - fb) * BS <= (tb - fb - 1) * BS
    BY <1>2, <1>5, <1>7
  <2>3. (n - fb - 1) * BS + BS = (n - fb) * BS
    BY <1>1, <1>2
  <2>4. (n - fb) * BS \in Nat /\ (tb - fb - 1) * BS \in Nat
    BY <1>2, <1>5, <1>7
  <2> QED
    BY <1>1, <1>2, <1>4, <1>6, <1>7, <2>1, <2>2, <2>3, <2>4
<1> QED
  BY <1>2, <1>3, <1>6, <1>7 DEF info, fb, tb, fl

LEMMA SliceLength ==
  ASSUME NEW s \in Seq(Byte), NEW a \in Nat, NEW k \in Nat \ {0}, a + k <= Len(s)
  PROVE  SubSeq(s, a + 1, a + k) \in Seq(Byte) /\ Len(SubSeq(s, a + 1, a + k)) = k
OBVIOUS

-----------------------------------------------------------------------------
(* psql_write_buf leaves padded blocks: those it writes and the others. *)
LEMMA WritePadded ==
  ASSUME TypeOK, BlocksArePadded, NEW offset \in Offset, NEW buf \in Buffer
  PROVE  /\ DOMAIN WriteBuf(offset, buf) \subseteq Nat
         /\ \A n \in DOMAIN WriteBuf(offset, buf) : Padded(WriteBuf(offset, buf)[n])
<1> DEFINE len == Len(buf)
           info == ComputeBlockInfo(offset, len)
           fb == info.from_block
           tb == info.to_block
           fl == info.from_len
           tl == info.to_len
           at(n) == fl + (n - fb - 1) * BS
           d == WriteBuf(offset, buf)
<1>1. BS \in Nat \ {0}
  BY BlockInfoAssumption DEF BlockInfoAssumption
<1>2. offset \in Nat /\ buf \in Seq(Byte) /\ len \in Nat \ {0} /\ Fits(offset, len)
  BY FileDataAssumption, FitsAssumption DEF FileDataAssumption, FitsAssumption
<1>3. fb \in Nat /\ info.from_offset \in Nat /\ tl \in 1 .. BS
  BY <1>2, InfoTypes
<1>4. /\ fl \in 1 .. len /\ info.from_offset + fl <= BS /\ tb \in Nat
      /\ \A n \in fb .. tb : n > fb =>
           /\ at(n) \in Nat
           /\ n < tb => at(n) + BS <= len
           /\ n = tb => at(n) + tl <= len
  BY <1>2, PartsInside
<1>5. ASSUME NEW n \in Nat
      PROVE  OldBlock(n) \in Seq(Byte) /\ Len(OldBlock(n)) = BS
  BY <1>1, ZerosLength DEF OldBlock, TypeOK, BlocksArePadded
<1>6. /\ DOMAIN d = DOMAIN data \cup fb .. tb
      /\ \A n \in DOMAIN d \ (fb .. tb) : d[n] = data[n]
      /\ \A n \in fb .. tb : d[n] =
           IF n = fb THEN WriteBlock(OldBlock(n), info.from_offset, SubSeq(buf, 1, fl))
           ELSE IF n < tb THEN WriteBlock(OldBlock(n), 0, SubSeq(buf, at(n) + 1, at(n) + BS))
           ELSE WriteBlock(OldBlock(n), 0, SubSeq(buf, at(n) + 1, at(n) + tl))
  BY DEF WriteBuf
<1> HIDE DEF d, info, fb, tb, fl, tl, at
<1>7. DOMAIN d \subseteq Nat
  BY <1>3, <1>4, <1>6 DEF TypeOK
<1>8. ASSUME NEW n \in DOMAIN d, n \notin fb .. tb
      PROVE  Padded(d[n])
  BY <1>6, <1>8 DEF TypeOK, BlocksArePadded, Padded
<1>9. ASSUME NEW n \in fb .. tb
      PROVE  Padded(d[n])
  <2>1. n \in Nat /\ OldBlock(n) \in Seq(Byte) /\ Len(OldBlock(n)) = BS
    BY <1>3, <1>4, <1>5, <1>9
  <2>2. CASE n = fb
    <3>1. SubSeq(buf, 0 + 1, 0 + fl) \in Seq(Byte) /\ Len(SubSeq(buf, 0 + 1, 0 + fl)) = fl
      BY <1>2, <1>4, SliceLength DEF len
    <3>2. SubSeq(buf, 1, fl) \in Seq(Byte) /\ Len(SubSeq(buf, 1, fl)) = fl
      BY <1>4, <3>1
    <3> DEFINE part == SubSeq(buf, 1, fl)
    <3>3. part \in Seq(Byte) /\ Len(part) >= 1 /\ info.from_offset + Len(part) <= BS
      BY <1>4, <3>2
    <3>4. d[n] = WriteBlock(OldBlock(n), info.from_offset, part)
      BY <1>6, <2>2
    <3> HIDE DEF part
    <3> QED
      BY <1>3, <2>1, <3>3, <3>4, WriteBlockPadded
  <2>3. CASE n # fb /\ n < tb
    <3>1. at(n) \in Nat /\ at(n) + BS <= len
      BY <1>3, <1>4, <2>1, <2>3
    <3>2. /\ SubSeq(buf, at(n) + 1, at(n) + BS) \in Seq(Byte)
          /\ Len(SubSeq(buf, at(n) + 1, at(n) + BS)) = BS
      BY <1>1, <1>2, <3>1, SliceLength DEF len
    <3> DEFINE part == SubSeq(buf, at(n) + 1, at(n) + BS)
    <3>3. part \in Seq(Byte) /\ Len(part) >= 1 /\ 0 + Len(part) <= BS
      BY <1>1, <3>2
    <3>4. d[n] = WriteBlock(OldBlock(n), 0, part)
      BY <1>6, <2>3
    <3> HIDE DEF part
    <3> QED
      BY <2>1, <3>3, <3>4, WriteBlockPadded
  <2>4. CASE n # fb /\ ~(n < tb)
    <3>1. at(n) \in Nat /\ at(n) + tl <= len
      BY <1>3, <1>4, <2>1, <2>4
    <3>2. /\ SubSeq(buf, at(n) + 1, at(n) + tl) \in Seq(Byte)
          /\ Len(SubSeq(buf, at(n) + 1, at(n) + tl)) = tl
      <4>1. tl \in Nat \ {0}
        BY <1>1, <1>3
      <4> QED
        BY <1>2, <3>1, <4>1, SliceLength DEF len
    <3> DEFINE part == SubSeq(buf, at(n) + 1, at(n) + tl)
    <3>3. part \in Seq(Byte) /\ Len(part) >= 1 /\ 0 + Len(part) <= BS
      BY <1>1, <1>3, <3>2
    <3>4. d[n] = WriteBlock(OldBlock(n), 0, part)
      BY <1>6, <2>4
    <3> HIDE DEF part
    <3> QED
      BY <2>1, <3>3, <3>4, WriteBlockPadded
  <2> QED
    BY <2>2, <2>3, <2>4
<1> QED
  BY <1>7, <1>8, <1>9 DEF d

(* psql_truncate leaves padded blocks, the one it cuts and pads included. *)
LEMMA TruncatePadded ==
  ASSUME TypeOK, BlocksArePadded, NEW offset \in Offset
  PROVE  /\ DOMAIN TruncatedData(offset) \subseteq Nat
         /\ \A n \in DOMAIN TruncatedData(offset) : Padded(TruncatedData(offset)[n])
<1> DEFINE info == ComputeBlockInfo(0, offset)
           tl == info.to_len
           d == TruncatedData(offset)
<1>1. BS \in Nat \ {0} /\ offset \in Nat
  BY BlockInfoAssumption, FileDataAssumption DEF BlockInfoAssumption, FileDataAssumption
<1>2. tl \in 1 .. BS
  BY <1>1, InfoTypes
<1>3. /\ DOMAIN d \subseteq DOMAIN data
      /\ \A n \in DOMAIN d : d[n] = IF n = info.to_block
                                    THEN Substring(data[n], 1, tl) \o Zeros(BS - tl)
                                    ELSE data[n]
  BY DEF TruncatedData, PadBlock
<1> HIDE DEF info, tl, d
<1>4. ASSUME NEW n \in DOMAIN d
      PROVE  Padded(d[n])
  <2>1. data[n] \in Seq(Byte) /\ Len(data[n]) = BS
    BY <1>3 DEF TypeOK, BlocksArePadded
  <2>2. tl \in Nat /\ BS - tl \in Nat /\ 1 + tl - 1 <= Len(data[n])
    BY <1>1, <1>2, <2>1
  <2> DEFINE left == Substring(data[n], 1, tl)
             right == Zeros(BS - tl)
  <2>3. left \in Seq(Byte) /\ Len(left) = tl
    BY <2>1, <2>2, SubstringInside
  <2>4. right \in Seq(Byte) /\ Len(right) = BS - tl
    BY <2>2, ZerosLength
  <2>5. d[n] = left \o right \/ d[n] = data[n]
    BY <1>3
  <2> HIDE DEF left, right
  <2>6. left \o right \in Seq(Byte) /\ Len(left \o right) = BS
    <3>1. left \o right \in Seq(Byte) /\ Len(left \o right) = Len(left) + Len(right)
      BY <2>3, <2>4, ConcatLength
    <3> QED
      BY <1>1, <2>2, <2>3, <2>4, <3>1
  <2> QED
    BY <2>1, <2>5, <2>6 DEF Padded
<1> QED
  BY <1>3, <1>4 DEF d, TypeOK

-----------------------------------------------------------------------------
(* Types and padding together are inductive: what is written depends on    *)
(* the length of what was there, and that on the types.                    *)
LEMMA DataInductive == Spec => [](TypeOK /\ BlocksArePadded)
<1>1. Init => TypeOK /\ BlocksArePadded
  BY DEF Init, TypeOK, BlocksArePadded
<1>2. TypeOK /\ BlocksArePadded /\ [Next]_vars => (TypeOK /\ BlocksArePadded)'
  <2> SUFFICES ASSUME TypeOK, BlocksArePadded, [Next]_vars
               PROVE  (TypeOK /\ BlocksArePadded)'
    OBVIOUS
  <2>1. ASSUME NEW offset \in Offset, NEW buf \in Buffer, pgfuse_write(offset, buf)
        PROVE  (TypeOK /\ BlocksArePadded)'
    <3>1. size' \in Nat
      BY <2>1, FileDataAssumption DEF FileDataAssumption, pgfuse_write, TypeOK
    <3>2. data' = WriteBuf(offset, buf)
      BY <2>1 DEF pgfuse_write
    <3> QED
      BY <3>1, <3>2, WritePadded DEF TypeOK, BlocksArePadded, Padded
  <2>2. ASSUME NEW offset \in Offset, pgfuse_truncate(offset)
        PROVE  (TypeOK /\ BlocksArePadded)'
    <3>1. size' \in Nat
      BY <2>2, FileDataAssumption DEF FileDataAssumption, pgfuse_truncate
    <3>2. data' = TruncatedData(offset)
      BY <2>2 DEF pgfuse_truncate
    <3> QED
      BY <3>1, <3>2, TruncatePadded DEF TypeOK, BlocksArePadded, Padded
  <2>3. CASE UNCHANGED vars
    BY <2>3 DEF vars, TypeOK, BlocksArePadded
  <2> QED
    BY <2>1, <2>2, <2>3 DEF Next
<1> QED
  BY <1>1, <1>2, PTL DEF Spec

(* Every row of table data is a string of bytes under a number. *)
THEOREM FileTypeCorrect == Spec => []TypeOK
BY DataInductive, PTL

(* Every row has exactly block_size bytes after any series of writes and   *)
(* truncates, whichever of the UPDATEs of psql_write_block and             *)
(* psql_truncate put it together.                                          *)
THEOREM RowsArePadded == Spec => []BlocksArePadded
BY DataInductive, PTL

(* The test in psql_write_block that "can never happen" never succeeds.    *)
THEOREM RangesSplit == Spec => []RangesAreSplit
<1>1. TypeOK => RangesAreSplit
  <2> SUFFICES ASSUME TypeOK, NEW offset \in 0 .. size, NEW len \in 1 .. size,
                      Fits(offset, len)
               PROVE  InfoCorrect(offset, len)
    BY DEF RangesAreSplit
  <2>1. offset \in Nat /\ len \in Nat \ {0}
    BY DEF TypeOK
  <2> QED
    BY <2>1, BlockInfoCorrect
<1> QED
  BY <1>1, FileTypeCorrect, PTL

-----------------------------------------------------------------------------
(* Byte k of two strings that || has joined. *)
LEMMA ConcatByte ==
  ASSUME NEW s \in Seq(Byte), NEW t \in Seq(Byte), NEW k \in 1 .. Len(s) + Len(t)
  PROVE  (s \o t)[k] = IF k <= Len(s) THEN s[k] ELSE t[k - Len(s)]
OBVIOUS

(* Byte k of a part of a string. *)
LEMMA SubstringByte ==
  ASSUME NEW s \in Seq(Byte), NEW p \in Nat \ {0}, NEW n \in Nat, p + n - 1 <= Len(s),
         NEW k \in 1 .. n
  PROVE  Substring(s, p, n)[k] = s[p + k - 1]
BY DEF Substring

(* Each UPDATE of psql_write_block puts the bytes of the buffer where they *)
(* belong and keeps the others.                                            *)
LEMMA WriteBlockBytes ==
  ASSUME NEW old \in Seq(Byte), Len(old) = BS,
         NEW offset \in Nat, NEW buf \in Seq(Byte),
         Len(buf) >= 1, offset + Len(buf) <= BS,
         NEW k \in 1 .. BS
  PROVE  WriteBlock(old, offset, buf)[k] =
           IF offset < k /\ k <= offset + Len(buf) THEN buf[k - offset] ELSE old[k]
<1> DEFINE len == Len(buf)
           left == Substring(old, 1, offset)
           right(j) == Substring(old, j + 1, BS - j)
<1>1. len \in Nat /\ BS \in Nat /\ k \in Nat
  BY BlockInfoAssumption DEF BlockInfoAssumption
<1>2. left \in Seq(Byte) /\ Len(left) = offset
  BY <1>1, SubstringInside
<1>3. ASSUME NEW j \in Nat, j <= BS
      PROVE  /\ right(j) \in Seq(Byte) /\ Len(right(j)) = BS - j
             /\ \A i \in 1 .. BS - j : right(j)[i] = old[j + i]
  <2>1. j + 1 \in Nat \ {0} /\ BS - j \in Nat /\ (j + 1) + (BS - j) - 1 <= Len(old)
    BY <1>1, <1>3
  <2>2. right(j) \in Seq(Byte) /\ Len(right(j)) = BS - j
    BY <2>1, SubstringInside
  <2>3. ASSUME NEW i \in 1 .. BS - j PROVE right(j)[i] = old[j + i]
    <3>1. Substring(old, j + 1, BS - j)[i] = old[(j + 1) + i - 1]
      BY <2>1, SubstringByte
    <3>2. (j + 1) + i - 1 = j + i
      OBVIOUS
    <3> QED
      BY <3>1, <3>2
  <2> QED
    BY <2>2, <2>3
<1>4. \A i \in 1 .. offset : left[i] = old[i]
  <2> SUFFICES ASSUME NEW i \in 1 .. offset PROVE left[i] = old[i]
    OBVIOUS
  <2>1. Substring(old, 1, offset)[i] = old[1 + i - 1]
    BY <1>1, SubstringByte
  <2> QED
    BY <2>1
<1> HIDE DEF left, right
<1>5. CASE offset = 0 /\ len = BS
  BY <1>1, <1>5 DEF WriteBlock
<1>6. CASE offset = 0 /\ len < BS
  <2>1. WriteBlock(old, offset, buf) = buf \o right(len)
    BY <1>1, <1>6 DEF WriteBlock, right
  <2>2. right(len) \in Seq(Byte) /\ Len(right(len)) = BS - len
    BY <1>1, <1>3, <1>6
  <2>3. \A i \in 1 .. BS - len : right(len)[i] = old[len + i]
    BY <1>1, <1>3, <1>6
  <2>4. (buf \o right(len))[k] = IF k <= len THEN buf[k] ELSE right(len)[k - len]
    BY <1>1, <2>2, ConcatByte
  <2>5. k > len => right(len)[k - len] = old[k]
    BY <1>1, <2>3
  <2>6. WriteBlock(old, offset, buf)[k] = IF k <= len THEN buf[k] ELSE old[k]
    BY ONLY <1>1, <2>1, <2>4, <2>5
  <2>7. k - offset = k /\ (offset < k /\ k <= offset + len <=> k <= len)
    BY <1>1, <1>6
  <2> QED
    BY <2>6, <2>7
<1>7. CASE offset > 0 /\ offset + len = BS
  <2>1. WriteBlock(old, offset, buf) = left \o buf
    BY <1>1, <1>7 DEF WriteBlock, left
  <2>2. (left \o buf)[k] = IF k <= offset THEN left[k] ELSE buf[k - offset]
    BY <1>1, <1>2, <1>7, ConcatByte
  <2> QED
    BY <1>1, <1>4, <1>7, <2>1, <2>2
<1>8. CASE offset > 0 /\ offset + len < BS
  <2> DEFINE lb == left \o buf
             end == offset + len
  <2>1. WriteBlock(old, offset, buf) = lb \o right(end)
    <3>1. offset # 0 /\ offset > 0 /\ offset + len # BS /\ offset + len < BS
      BY <1>1, <1>8
    <3> QED
      BY <3>1 DEF WriteBlock, left, right
  <2>2. right(end) \in Seq(Byte) /\ Len(right(end)) = BS - end
    <3>1. end \in Nat /\ end <= BS
      BY <1>1, <1>8
    <3> HIDE DEF end
    <3> QED
      BY <1>3, <3>1
  <2>3. \A i \in 1 .. BS - end : right(end)[i] = old[end + i]
    <3>1. end \in Nat /\ end <= BS
      BY <1>1, <1>8
    <3> HIDE DEF end
    <3> QED
      BY <1>3, <3>1
  <2>4. lb \in Seq(Byte) /\ Len(lb) = end
    BY <1>2, ConcatLength
  <2>5. k <= end => lb[k] = IF k <= offset THEN left[k] ELSE buf[k - offset]
    BY <1>1, <1>2, ConcatByte
  <2> HIDE DEF lb
  <2>6. (lb \o right(end))[k] = IF k <= end THEN lb[k] ELSE right(end)[k - end]
    BY <1>1, <1>8, <2>2, <2>4, ConcatByte
  <2>7. k > end => right(end)[k - end] = old[k]
    BY <1>1, <1>8, <2>3
  <2>8. k <= offset => left[k] = old[k]
    BY <1>1, <1>4
  <2> HIDE DEF right
  <2>9. WriteBlock(old, offset, buf)[k] =
          IF k <= end THEN IF k <= offset THEN old[k] ELSE buf[k - offset] ELSE old[k]
    <3>1. end \in Nat /\ (k <= end \/ k > end)
      BY <1>1
    <3> HIDE DEF end, right
    <3>2. CASE k <= end
      BY ONLY <2>1, <2>5, <2>6, <2>8, <3>2
    <3>3. CASE k > end /\ ~(k <= end)
      BY ONLY <2>1, <2>6, <2>7, <3>3
    <3> QED
      BY <1>1, <3>1, <3>2, <3>3
  <2>10. offset < k /\ k <= offset + len <=> k <= end /\ ~(k <= offset)
    BY <1>1
  <2> QED
    BY <2>9, <2>10
<1> QED
  BY <1>1, <1>5, <1>6, <1>7, <1>8

(* psql_truncate keeps the bytes in front and sets those behind to zero. *)
LEMMA PadBlockBytes ==
  ASSUME NEW old \in Seq(Byte), Len(old) = BS, NEW len \in 1 .. BS, NEW k \in 1 .. BS
  PROVE  PadBlock(old, len)[k] = IF k <= len THEN old[k] ELSE 0
<1> DEFINE left == Substring(old, 1, len)
           right == Zeros(BS - len)
<1>1. BS \in Nat /\ len \in Nat /\ BS - len \in Nat /\ 1 + len - 1 <= Len(old)
  BY BlockInfoAssumption DEF BlockInfoAssumption
<1>2. left \in Seq(Byte) /\ Len(left) = len
  BY <1>1, SubstringInside
<1>3. right \in Seq(Byte) /\ Len(right) = BS - len
  BY <1>1, ZerosLength
<1>4. \A i \in 1 .. len : left[i] = old[i]
  <2> SUFFICES ASSUME NEW i \in 1 .. len PROVE left[i] = old[i]
    OBVIOUS
  <2>1. Substring(old, 1, len)[i] = old[1 + i - 1]
    BY <1>1, SubstringByte
  <2> QED
    BY <2>1
<1>5. \A i \in 1 .. BS - len : right[i] = 0
  BY DEF Zeros
<1>6. PadBlock(old, len) = left \o right
  BY DEF PadBlock
<1> HIDE DEF left, right
<1>7. (left \o right)[k] = IF k <= len THEN left[k] ELSE right[k - len]
  BY <1>1, <1>2, <1>3, ConcatByte
<1> QED
  BY <1>1, <1>4, <1>5, <1>6, <1>7

(* The block and the place in it of a byte. *)
LEMMA BlockOf ==
  ASSUME NEW n \in Nat, NEW k \in 1 .. BS
  PROVE  /\ n * BS + k - 1 \in Nat
         /\ (n * BS + k - 1) \div BS = n
         /\ 1 + ((n * BS + k - 1) % BS) = k
<1> DEFINE i == n * BS + k - 1
           q == i \div BS
           r == i % BS
<1>1. BS \in Nat \ {0} /\ n * BS \in Nat /\ i \in Nat
  BY BlockInfoAssumption DEF BlockInfoAssumption
<1>2. q \in Nat /\ r \in 0 .. BS - 1 /\ i = BS * q + r
  BY <1>1, DivMod
<1> HIDE DEF q, r
<1>3. q = n
  <2>1. CASE q >= n + 1
    <3>1. BS * q >= BS * (n + 1) /\ BS * (n + 1) = n * BS + BS
      BY <1>1, <1>2, <2>1
    <3> QED
      BY <1>1, <1>2, <3>1
  <2>2. CASE n >= q + 1
    <3>1. n * BS >= (q + 1) * BS /\ (q + 1) * BS = BS * q + BS
      BY <1>1, <1>2, <2>2
    <3> QED
      BY <1>1, <1>2, <3>1
  <2> QED
    BY <1>2, <2>1, <2>2
<1>4. BS * q = n * BS
  BY <1>1, <1>3
<1> QED
  BY <1>1, <1>2, <1>3, <1>4 DEF q, r

(* What psql_write_buf does with one block: it writes a part of the buffer *)
(* into it, at the beginning of the block or of the range, up to the end   *)
(* of the block or of the range.                                           *)
IsPart(offset, buf, n, o, part) ==
  LET at == n * BS + o - offset IN
  /\ o \in Nat /\ part \in Seq(Byte) /\ Len(part) >= 1 /\ o + Len(part) <= BS
  /\ at \in Nat /\ at + Len(part) <= Len(buf) /\ part = SubSeq(buf, at + 1, at + Len(part))
  /\ o = 0 \/ at = 0
  /\ o + Len(part) = BS \/ at + Len(part) = Len(buf)

(* The blocks psql_write_buf writes, and what it writes into them. *)
LEMMA WrittenBlocks ==
  ASSUME NEW offset \in Offset, NEW buf \in Buffer
  PROVE  LET fb == ComputeBlockInfo(offset, Len(buf)).from_block
             tb == ComputeBlockInfo(offset, Len(buf)).to_block
             d  == WriteBuf(offset, buf)
         IN
         /\ fb \in Nat /\ tb \in Nat
         /\ fb * BS <= offset /\ offset < fb * BS + BS
         /\ tb * BS < offset + Len(buf) /\ offset + Len(buf) <= tb * BS + BS
         /\ DOMAIN d = DOMAIN data \cup fb .. tb
         /\ \A n \in DOMAIN data \ (fb .. tb) : d[n] = data[n]
         /\ \A n \in fb .. tb : \E o \in Nat, part \in Seq(Byte) :
                IsPart(offset, buf, n, o, part) /\ d[n] = WriteBlock(OldBlock(n), o, part)
<1> DEFINE len == Len(buf)
           info == ComputeBlockInfo(offset, len)
           fb == info.from_block
           fo == info.from_offset
           tb == info.to_block
           fl == info.from_len
           tl == info.to_len
           at(n) == fl + (n - fb - 1) * BS
           d == WriteBuf(offset, buf)
<1>1. BS \in Nat \ {0}
  BY BlockInfoAssumption DEF BlockInfoAssumption
<1>2. offset \in Nat /\ buf \in Seq(Byte) /\ len \in Nat \ {0} /\ Fits(offset, len)
  BY FileDataAssumption, FitsAssumption DEF FileDataAssumption, FitsAssumption
<1>3. fb \in Nat /\ fo \in Nat /\ tl \in 1 .. BS
  BY <1>2, InfoTypes
<1>4. /\ fl \in 1 .. len /\ fo + fl <= BS /\ tb \in Nat
      /\ \A n \in fb .. tb : n > fb =>
           /\ at(n) \in Nat
           /\ n < tb => at(n) + BS <= len
           /\ n = tb => at(n) + tl <= len
  BY <1>2, PartsInside
<1>5. /\ fb * BS + fo = offset
      /\ tb * BS + tl = offset + len
      /\ IF fb = tb THEN fl = len ELSE fb < tb /\ fo + fl = BS
  BY <1>2, BlockInfoCorrect DEF InfoCorrect
<1>6. /\ DOMAIN d = DOMAIN data \cup fb .. tb
      /\ \A n \in DOMAIN data \ (fb .. tb) : d[n] = data[n]
      /\ \A n \in fb .. tb : d[n] =
           IF n = fb THEN WriteBlock(OldBlock(n), fo, SubSeq(buf, 1, fl))
           ELSE IF n < tb THEN WriteBlock(OldBlock(n), 0, SubSeq(buf, at(n) + 1, at(n) + BS))
           ELSE WriteBlock(OldBlock(n), 0, SubSeq(buf, at(n) + 1, at(n) + tl))
  BY DEF WriteBuf
<1> HIDE DEF d, info, fb, fo, tb, fl, tl, at
<1>7. fb * BS \in Nat /\ tb * BS \in Nat
  BY <1>1, <1>3, <1>4
<1>8. fb * BS <= offset /\ offset < fb * BS + BS
  BY <1>1, <1>2, <1>3, <1>4, <1>5, <1>7
<1>9. tb * BS < offset + len /\ offset + len <= tb * BS + BS
  BY <1>1, <1>2, <1>3, <1>5, <1>7
<1>10. ASSUME NEW n \in fb .. tb, n = fb
       PROVE  \E o \in Nat, part \in Seq(Byte) :
                IsPart(offset, buf, n, o, part) /\ d[n] = WriteBlock(OldBlock(n), o, part)
  <2> DEFINE part == SubSeq(buf, 1, fl)
  <2>1. n * BS + fo - offset = 0
    BY <1>2, <1>3, <1>5, <1>7, <1>10
  <2>2. SubSeq(buf, 0 + 1, 0 + fl) \in Seq(Byte) /\ Len(SubSeq(buf, 0 + 1, 0 + fl)) = fl
    BY <1>2, <1>4, SliceLength DEF len
  <2>3. part \in Seq(Byte) /\ Len(part) = fl /\ part = SubSeq(buf, 0 + 1, 0 + Len(part))
    BY <1>4, <2>2
  <2>4. fo + fl = BS \/ 0 + fl = len
    BY <1>2, <1>4, <1>5
  <2>5. d[n] = WriteBlock(OldBlock(n), fo, part)
    BY <1>6, <1>10
  <2> DEFINE a == n * BS + fo - offset
  <2>6. n * BS + fo - offset = a /\ a = 0
    BY <2>1
  <2> HIDE DEF part, a
  <2>7. /\ fo \in Nat /\ part \in Seq(Byte) /\ Len(part) >= 1 /\ fo + Len(part) <= BS
        /\ a \in Nat /\ a + Len(part) <= len /\ part = SubSeq(buf, a + 1, a + Len(part))
        /\ fo = 0 \/ a = 0
        /\ fo + Len(part) = BS \/ a + Len(part) = len
    BY <1>2, <1>3, <1>4, <2>3, <2>4, <2>6
  <2>8. IsPart(offset, buf, n, fo, part)
    BY ONLY <2>6, <2>7, Zenon DEF IsPart, len
  <2> QED
    BY <1>3, <2>3, <2>5, <2>8
<1>11. ASSUME NEW n \in fb .. tb, n > fb
       PROVE  n \in Nat /\ at(n) = n * BS + 0 - offset /\ at(n) \in Nat /\ n * BS \in Nat
  <2>1. n \in Nat /\ fb < tb /\ fo + fl = BS /\ at(n) \in Nat
    BY <1>3, <1>4, <1>5, <1>11
  <2>2. (n - fb - 1) * BS = n * BS - fb * BS - BS /\ n * BS \in Nat
    BY <1>1, <1>3, <2>1
  <2> QED
    BY <1>1, <1>2, <1>3, <1>4, <1>5, <1>7, <2>1, <2>2 DEF at
<1>12. ASSUME NEW n \in fb .. tb, n > fb, NEW m \in {BS, tl}, m = IF n < tb THEN BS ELSE tl
       PROVE  \E o \in Nat, part \in Seq(Byte) :
                IsPart(offset, buf, n, o, part) /\ d[n] = WriteBlock(OldBlock(n), o, part)
  <2> DEFINE part == SubSeq(buf, at(n) + 1, at(n) + m)
             a == at(n)
  <2>1. n \in Nat /\ a = n * BS + 0 - offset /\ a \in Nat /\ n # fb
    BY <1>3, <1>11, <1>12
  <2>2. m \in Nat \ {0} /\ m <= BS /\ a + m <= len
    BY <1>1, <1>3, <1>4, <1>12, <2>1
  <2>3. 0 + m = BS \/ a + m = len
    <3>1. CASE n < tb
      BY <1>12, <3>1, <2>2
    <3>2. CASE ~(n < tb)
      <4>1. n = tb /\ m = tl
        BY <1>4, <1>12, <2>1, <3>2
      <4> QED
        BY <1>2, <1>3, <1>5, <1>7, <2>1, <4>1
    <3> QED
      BY <3>1, <3>2
  <2>4. d[n] = WriteBlock(OldBlock(n), 0, part)
    BY <1>6, <1>12, <2>1
  <2> HIDE DEF a
  <2>5. SubSeq(buf, a + 1, a + m) \in Seq(Byte) /\ Len(SubSeq(buf, a + 1, a + m)) = m
    BY <1>2, <2>1, <2>2, SliceLength DEF len
  <2>6. part \in Seq(Byte) /\ Len(part) = m /\ part = SubSeq(buf, a + 1, a + Len(part))
    BY <2>5 DEF a
  <2> HIDE DEF part
  <2>7. IsPart(offset, buf, n, 0, part)
    BY <1>1, <1>2, <2>1, <2>2, <2>3, <2>6 DEF IsPart, len
  <2> QED
    BY <2>4, <2>6, <2>7
<1>13. ASSUME NEW n \in fb .. tb
       PROVE  \E o \in Nat, part \in Seq(Byte) :
                IsPart(offset, buf, n, o, part) /\ d[n] = WriteBlock(OldBlock(n), o, part)
  <2>1. n = fb \/ n > fb
    BY <1>3, <1>4
  <2>2. \E m \in {BS, tl} : m = IF n < tb THEN BS ELSE tl
    OBVIOUS
  <2> QED
    BY <1>10, <1>12, <2>1, <2>2
<1> QED
  BY <1>3, <1>4, <1>6, <1>8, <1>9, <1>13 DEF d, info, fb, tb, len

(* Missing rows count as zeros; all rows are padded. *)
LEMMA OldBlockPadded ==
  ASSUME TypeOK, BlocksArePadded, NEW n \in Nat
  PROVE  OldBlock(n) \in Seq(Byte) /\ Len(OldBlock(n)) = BS
BY BlockInfoAssumption, ZerosLength DEF BlockInfoAssumption, OldBlock, TypeOK, BlocksArePadded

(* The rows that psql_write_buf writes have the bytes of the buffer in the *)
(* range and the old ones beside it.                                       *)
LEMMA WriteBytes ==
  ASSUME TypeOK, BlocksArePadded, NEW offset \in Offset, NEW buf \in Buffer,
         NEW n \in Nat, NEW o \in Nat, NEW part \in Seq(Byte),
         IsPart(offset, buf, n, o, part), NEW k \in 1 .. BS
  PROVE  WriteBlock(OldBlock(n), o, part)[k] =
           IF n * BS + k - 1 \in offset .. offset + Len(buf) - 1
           THEN buf[n * BS + k - 1 - offset + 1] ELSE OldBlock(n)[k]
<1> DEFINE at == n * BS + o - offset
           m == Len(part)
           len == Len(buf)
           b == n * BS
<1>1. /\ BS \in Nat /\ k \in Nat /\ b \in Nat
      /\ offset \in Nat /\ buf \in Seq(Byte) /\ len \in Nat
  BY BlockInfoAssumption, FileDataAssumption DEF BlockInfoAssumption, FileDataAssumption
<1>2. /\ o \in Nat /\ part \in Seq(Byte) /\ m >= 1 /\ o + m <= BS
      /\ at \in Nat /\ at + m <= len /\ part = SubSeq(buf, at + 1, at + m)
      /\ o = 0 \/ at = 0
      /\ o + m = BS \/ at + m = len
  BY DEF IsPart
<1>3. OldBlock(n) \in Seq(Byte) /\ Len(OldBlock(n)) = BS
  BY OldBlockPadded
<1>4. WriteBlock(OldBlock(n), o, part)[k] =
        IF o < k /\ k <= o + m THEN part[k - o] ELSE OldBlock(n)[k]
  <2> DEFINE old == OldBlock(n)
  <2>1. old \in Seq(Byte) /\ Len(old) = BS
    BY <1>3
  <2> HIDE DEF old
  <2>2. WriteBlock(old, o, part)[k] = IF o < k /\ k <= o + m THEN part[k - o] ELSE old[k]
    <3>1. Len(part) >= 1 /\ o + Len(part) <= BS
      BY <1>2
    <3> QED
      BY ONLY o \in Nat, part \in Seq(Byte), k \in 1 .. BS, <2>1, <3>1, WriteBlockBytes
  <2> QED
    BY <2>2 DEF old
<1>5. m \in Nat /\ at = b + o - offset
  BY <1>2
<1> HIDE DEF at, m, b
<1>6. o < k /\ k <= o + m <=> b + k - 1 \in offset .. offset + len - 1
  BY <1>1, <1>2, <1>5
<1>7. o < k /\ k <= o + m => part[k - o] = buf[b + k - 1 - offset + 1]
  <2> SUFFICES ASSUME o < k /\ k <= o + m PROVE part[k - o] = buf[b + k - 1 - offset + 1]
    OBVIOUS
  <2>1. SubSeq(buf, at + 1, at + m)[k - o] = buf[at + 1 + (k - o) - 1]
    BY <1>1, <1>2, <1>5
  <2>2. at + 1 + (k - o) - 1 = b + k - 1 - offset + 1
    BY <1>1, <1>2, <1>5
  <2> QED
    BY <1>2, <2>1, <2>2
<1> QED
  BY <1>4, <1>6, <1>7 DEF b

-----------------------------------------------------------------------------
(* The byte that rows d hold at offset i: see ByteAt. *)
ByteIn(d, i) == IF i \div BS \in DOMAIN d THEN d[i \div BS][1 + (i % BS)] ELSE 0

(* An offset and its block. *)
LEMMA PlaceOf ==
  ASSUME NEW i \in Nat
  PROVE  /\ i \div BS \in Nat /\ 1 + (i % BS) \in 1 .. BS
         /\ (i \div BS) * BS \in Nat
         /\ i = (i \div BS) * BS + (1 + (i % BS)) - 1
<1> DEFINE q == i \div BS
           r == i % BS
<1>1. BS \in Nat \ {0} /\ q \in Nat /\ r \in 0 .. BS - 1 /\ i = BS * q + r
  BY BlockInfoAssumption, DivMod DEF BlockInfoAssumption
<1> HIDE DEF q, r
<1>2. q * BS \in Nat /\ q * BS = BS * q
  BY <1>1
<1> QED
  BY <1>1, <1>2 DEF q, r

(* The bytes of a file after pgfuse_write: those of the buffer in its      *)
(* range, and no others have changed.                                      *)
LEMMA WriteByteAt ==
  ASSUME TypeOK, BlocksArePadded, NEW offset \in Offset, NEW buf \in Buffer, NEW i \in Nat
  PROVE  ByteIn(WriteBuf(offset, buf), i) =
           IF i \in offset .. offset + Len(buf) - 1 THEN buf[i - offset + 1] ELSE ByteAt(i)
<1> DEFINE d == WriteBuf(offset, buf)
           fb == ComputeBlockInfo(offset, Len(buf)).from_block
           tb == ComputeBlockInfo(offset, Len(buf)).to_block
           n == i \div BS
           k == 1 + (i % BS)
           len == Len(buf)
<1>1. n \in Nat /\ k \in 1 .. BS /\ n * BS \in Nat /\ i = n * BS + k - 1 /\ BS \in Nat
  BY PlaceOf, BlockInfoAssumption DEF BlockInfoAssumption
<1>2. /\ fb \in Nat /\ tb \in Nat
      /\ fb * BS <= offset /\ offset + len <= tb * BS + BS
  BY WrittenBlocks
<1>8. /\ DOMAIN d = DOMAIN data \cup fb .. tb
      /\ \A x \in DOMAIN data \ (fb .. tb) : d[x] = data[x]
      /\ \A x \in fb .. tb : \E o \in Nat, part \in Seq(Byte) :
           IsPart(offset, buf, x, o, part) /\ d[x] = WriteBlock(OldBlock(x), o, part)
  BY WrittenBlocks
<1>3. offset \in Nat /\ len \in Nat
  BY FileDataAssumption DEF FileDataAssumption
<1>4. ByteIn(d, i) = IF n \in DOMAIN d THEN d[n][k] ELSE 0
  BY DEF ByteIn
<1>5. ByteAt(i) = IF n \in DOMAIN data THEN data[n][k] ELSE 0
  BY DEF ByteAt
<1> HIDE DEF d, fb, tb, n, k
<1>6. CASE n \in fb .. tb
  <2>1. PICK o \in Nat, part \in Seq(Byte) :
                IsPart(offset, buf, n, o, part) /\ d[n] = WriteBlock(OldBlock(n), o, part)
    BY <1>6, <1>8
  <2>2. d[n][k] = IF n * BS + k - 1 \in offset .. offset + Len(buf) - 1
                  THEN buf[n * BS + k - 1 - offset + 1] ELSE OldBlock(n)[k]
    <3>1. IsPart(offset, buf, n, o, part) /\ n \in Nat /\ k \in 1 .. BS
      BY <1>1, <2>1
    <3>2. WriteBlock(OldBlock(n), o, part)[k] =
            IF n * BS + k - 1 \in offset .. offset + Len(buf) - 1
            THEN buf[n * BS + k - 1 - offset + 1] ELSE OldBlock(n)[k]
      BY ONLY TypeOK, BlocksArePadded, offset \in Offset, buf \in Buffer, <3>1, WriteBytes
    <3> QED
      BY <2>1, <3>2
  <2>3. OldBlock(n)[k] = ByteAt(i)
    BY <1>1, <1>5 DEF OldBlock, Zeros
  <2> QED
    <3>1. n \in DOMAIN d
      BY <1>6, <1>8
    <3>2. ByteIn(d, i) = d[n][k]
      BY ONLY <1>4, <3>1
    <3>3. n * BS + k - 1 = i
      BY <1>1
    <3>4. d[n][k] = IF i \in offset .. offset + Len(buf) - 1
                    THEN buf[i - offset + 1] ELSE OldBlock(n)[k]
      BY ONLY i \in Nat, <1>1, <1>3, <2>2, <3>3
    <3> QED
      BY ONLY i \in Nat, <1>3, <2>3, <3>2, <3>4 DEF d
<1>7. CASE n \notin fb .. tb
  <2>1. i \notin offset .. offset + len - 1
    <3>1. CASE n < fb
      <4>1. (n + 1) * BS <= fb * BS /\ (n + 1) * BS = n * BS + BS
        BY <1>1, <1>2, <3>1
      <4> QED
        BY <1>1, <1>2, <1>3, <4>1
    <3>2. CASE n > tb
      <4>1. (tb + 1) * BS <= n * BS /\ (tb + 1) * BS = tb * BS + BS
        BY <1>1, <1>2, <3>2
      <4> QED
        BY <1>1, <1>2, <1>3, <4>1
    <3> QED
      BY <1>1, <1>2, <1>7, <3>1, <3>2
  <2> QED
    <3>1. n \in DOMAIN d <=> n \in DOMAIN data
      BY <1>7, <1>8
    <3>2. n \in DOMAIN data => d[n] = data[n]
      BY <1>7, <1>8
    <3>3. ByteIn(d, i) = ByteAt(i)
      BY ONLY <1>4, <1>5, <3>1, <3>2
    <3> QED
      BY ONLY i \in Nat, <1>3, <2>1, <3>3 DEF d
<1> QED
  BY <1>6, <1>7 DEF d

(* The rows psql_truncate leaves, when the size is not 0 and when it is: a *)
(* range of no bytes has all of block 0 in it.                             *)
LEMMA TruncatedRows ==
  ASSUME NEW offset \in Offset
  PROVE  LET tb == ComputeBlockInfo(0, offset).to_block
             tl == ComputeBlockInfo(0, offset).to_len
         IN
         /\ tb \in Nat /\ tl \in 1 .. BS
         /\ tb * BS + tl = IF offset = 0 THEN BS ELSE offset
<1> DEFINE info == ComputeBlockInfo(0, offset)
<1>1. BS \in Nat \ {0} /\ IntMod \in Nat \ {0} /\ SizeMod \in Nat \ {0} /\ IntMod % 2 = 0
  BY BlockInfoAssumption DEF BlockInfoAssumption
<1>2. offset \in Nat /\ Fits(0, offset)
  BY FileDataAssumption, FitsAssumption DEF FileDataAssumption, FitsAssumption
<1>3. CASE offset = 0
  <2>1. 0 % BS = 0 /\ 0 \div BS = 0 /\ ToSize(0) = 0
    BY <1>1 DEF ToSize
  <2>2. ToInt(0) = 0
    <3>1. 0 % IntMod = 0
      BY <1>1
    <3>2. 0 < IntMod \div 2
      BY <1>1
    <3> QED
      BY <3>1, <3>2 DEF ToInt
  <2>3. info.to_block = 0 /\ info.to_len = BS
    BY <1>3, <2>1, <2>2 DEF ComputeBlockInfo
  <2> QED
    BY <1>1, <1>3, <2>3
<1>4. CASE offset # 0
  <2>1. info.to_len \in 1 .. BS /\ info.to_block * BS + info.to_len = 0 + offset
    BY <1>2, <1>4, BlockInfoCorrect DEF InfoCorrect
  <2>2. info.to_block \in Nat
    BY <1>2, <1>4, PartsInside
  <2> QED
    BY <1>2, <1>4, <2>1, <2>2
<1> QED
  BY <1>3, <1>4

(* The bytes of a file after pgfuse_truncate: those in front are kept and  *)
(* there is nothing behind; but if nothing is to be kept, block 0 is.      *)
LEMMA TruncateByteAt ==
  ASSUME TypeOK, BlocksArePadded, NEW offset \in Offset, NEW i \in Nat
  PROVE  ByteIn(TruncatedData(offset), i) =
           IF i < (IF offset = 0 THEN BS ELSE offset) THEN ByteAt(i) ELSE 0
<1> DEFINE d == TruncatedData(offset)
           tb == ComputeBlockInfo(0, offset).to_block
           tl == ComputeBlockInfo(0, offset).to_len
           n == i \div BS
           k == 1 + (i % BS)
           end == tb * BS + tl
<1>1. n \in Nat /\ k \in 1 .. BS /\ n * BS \in Nat /\ i = n * BS + k - 1 /\ BS \in Nat \ {0}
  BY PlaceOf, BlockInfoAssumption DEF BlockInfoAssumption
<1>2. tb \in Nat /\ tl \in 1 .. BS /\ end = IF offset = 0 THEN BS ELSE offset
  BY TruncatedRows
<1>3. /\ DOMAIN d = {m \in DOMAIN data : m <= tb}
      /\ \A m \in DOMAIN d : d[m] = IF m = tb THEN PadBlock(data[m], tl) ELSE data[m]
  BY DEF TruncatedData
<1>4. ByteIn(d, i) = IF n \in DOMAIN d THEN d[n][k] ELSE 0
  BY DEF ByteIn
<1>5. ByteAt(i) = IF n \in DOMAIN data THEN data[n][k] ELSE 0
  BY DEF ByteAt
<1> HIDE DEF d, tb, tl, n, k
<1>6. tb * BS \in Nat
  BY <1>1, <1>2
<1>7. ByteIn(d, i) = IF i < end THEN ByteAt(i) ELSE 0
  <2>1. CASE n < tb
    <3>1. (n + 1) * BS <= tb * BS /\ (n + 1) * BS = n * BS + BS
      BY <1>1, <1>2, <2>1
    <3>2. i < end
      BY <1>1, <1>2, <1>6, <3>1
    <3>3. n \in DOMAIN d <=> n \in DOMAIN data
      BY <1>1, <1>2, <1>3, <2>1
    <3>4. n \in DOMAIN d => d[n] = data[n]
      BY <1>1, <1>2, <1>3, <2>1
    <3> QED
      BY ONLY <1>4, <1>5, <3>2, <3>3, <3>4
  <2>2. CASE n = tb
    <3>1. i < end <=> k <= tl
      BY <1>1, <1>2, <1>6, <2>2
    <3>2. n \in DOMAIN d <=> n \in DOMAIN data
      BY <1>1, <1>2, <1>3, <2>2
    <3>3. ASSUME n \in DOMAIN data PROVE d[n][k] = IF k <= tl THEN data[n][k] ELSE 0
      <4>1. data[n] \in Seq(Byte) /\ Len(data[n]) = BS
        BY <3>3 DEF TypeOK, BlocksArePadded
      <4>2. d[n] = PadBlock(data[n], tl)
        BY <1>3, <2>2, <3>2, <3>3
      <4> DEFINE old == data[n]
      <4>3. old \in Seq(Byte) /\ Len(old) = BS
        BY <4>1
      <4> HIDE DEF old
      <4>4. PadBlock(old, tl)[k] = IF k <= tl THEN old[k] ELSE 0
        BY <1>1, <1>2, <4>3, PadBlockBytes
      <4> QED
        BY <4>2, <4>4 DEF old
    <3> QED
      BY ONLY <1>1, <1>2, <1>4, <1>5, <3>1, <3>2, <3>3
  <2>3. CASE n > tb
    <3>1. (tb + 1) * BS <= n * BS /\ (tb + 1) * BS = tb * BS + BS
      BY <1>1, <1>2, <2>3
    <3>2. ~(i < end)
      BY <1>1, <1>2, <1>6, <3>1
    <3>3. n \notin DOMAIN d
      BY <1>1, <1>2, <1>3, <2>3
    <3> QED
      BY ONLY <1>4, <3>2, <3>3
  <2> QED
    BY <1>1, <1>2, <2>1, <2>2, <2>3
<1> QED
  BY ONLY <1>2, <1>7 DEF d

(* NothingBehindEnd in terms of the file's bytes. *)
ZerosBehindEnd ==
  /\ \A n \in DOMAIN data \ {0} : n * BS < size
  /\ \A i \in Nat : i >= BS /\ i >= size => ByteAt(i) = 0

LEMMA BehindEnd == TypeOK => (NothingBehindEnd <=> ZerosBehindEnd)
<1> SUFFICES ASSUME TypeOK PROVE NothingBehindEnd <=> ZerosBehindEnd
  OBVIOUS
<1>1. BS \in Nat \ {0} /\ DOMAIN data \subseteq Nat /\ size \in Nat
  BY BlockInfoAssumption DEF BlockInfoAssumption, TypeOK
<1>2. ASSUME NothingBehindEnd, NEW i \in Nat, i >= BS, i >= size
      PROVE  ByteAt(i) = 0
  <2> DEFINE n == i \div BS
             k == 1 + (i % BS)
  <2>1. n \in Nat /\ k \in 1 .. BS /\ i = n * BS + k - 1
    BY PlaceOf
  <2>2. ByteAt(i) = IF n \in DOMAIN data THEN data[n][k] ELSE 0
    BY DEF ByteAt
  <2> HIDE DEF n, k
  <2>3. n # 0
    BY <1>1, <1>2, <2>1
  <2> QED
    BY <1>2, <2>1, <2>2, <2>3 DEF NothingBehindEnd
<1>3. ASSUME \A i \in Nat : i >= BS /\ i >= size => ByteAt(i) = 0,
             NEW n \in DOMAIN data \ {0}, NEW k \in 1 .. BS, n * BS + k - 1 >= size
      PROVE  data[n][k] = 0
  <2> DEFINE i == n * BS + k - 1
  <2>1. i \in Nat /\ i \div BS = n /\ 1 + (i % BS) = k
    BY <1>1, BlockOf
  <2>2. i >= BS
    <3>1. n * BS >= 1 * BS
      BY <1>1, <1>3
    <3> QED
      BY <1>1, <3>1
  <2>3. ByteAt(i) = data[n][k]
    BY <2>1 DEF ByteAt
  <2> HIDE DEF i
  <2>4. i >= size
    BY <1>3 DEF i
  <2> QED
    BY <1>3, <2>1, <2>2, <2>3, <2>4
<1> QED
  BY <1>2, <1>3 DEF NothingBehindEnd, ZerosBehindEnd

(* The invariant of the rows of one file. *)
FileInv == TypeOK /\ BlocksArePadded /\ NothingBehindEnd

(* What a step makes of the bytes. *)
LEMMA NextByteAt == \A i \in Nat : ByteAt(i)' = ByteIn(data', i)
BY DEF ByteAt, ByteIn

(* A write puts no row behind the end it sets, and no byte that is not     *)
(* zero.                                                                   *)
LEMMA WriteKeepsEnd ==
  ASSUME FileInv, NEW offset \in Offset, NEW buf \in Buffer, pgfuse_write(offset, buf), TypeOK'
  PROVE  NothingBehindEnd'
<1> DEFINE end == offset + Len(buf)
           d == WriteBuf(offset, buf)
<1>1. /\ offset \in Nat /\ end \in Nat /\ BS \in Nat
      /\ size \in Nat /\ size' \in Nat /\ size <= size' /\ end <= size'
      /\ DOMAIN data \subseteq Nat /\ data' = d
  BY FileDataAssumption, BlockInfoAssumption
     DEF FileDataAssumption, BlockInfoAssumption, pgfuse_write, FileInv, TypeOK
<1>2. /\ \A n \in DOMAIN data \ {0} : n * BS < size
      /\ \A i \in Nat : i >= BS /\ i >= size => ByteAt(i) = 0
  BY BehindEnd DEF FileInv, ZerosBehindEnd
<1> HIDE DEF d, end
<1>3. ASSUME NEW n \in DOMAIN d \ {0}
      PROVE  n * BS < size'
  <2> DEFINE fb == ComputeBlockInfo(offset, Len(buf)).from_block
             tb == ComputeBlockInfo(offset, Len(buf)).to_block
  <2>1. fb \in Nat /\ tb \in Nat /\ tb * BS < end /\ DOMAIN d = DOMAIN data \cup fb .. tb
    BY WrittenBlocks DEF d, end
  <2> HIDE DEF fb, tb
  <2>2. CASE n \in DOMAIN data
    <3>1. n \in Nat /\ n * BS \in Nat /\ n * BS < size
      BY <1>1, <1>2, <1>3, <2>2
    <3> QED
      BY <1>1, <3>1
  <2>3. CASE n \in fb .. tb
    <3>1. n \in Nat /\ n * BS <= tb * BS /\ n * BS \in Nat /\ tb * BS \in Nat
      BY <1>1, <2>1, <2>3
    <3> QED
      BY <1>1, <2>1, <3>1
  <2> QED
    BY <1>3, <2>1, <2>2, <2>3
<1>4. ASSUME NEW i \in Nat, i >= BS, i >= size'
      PROVE  ByteAt(i)' = 0
  <2>1. ByteIn(d, i) = IF i \in offset .. end - 1 THEN buf[i - offset + 1] ELSE ByteAt(i)
    <3>1. TypeOK /\ BlocksArePadded
      BY DEF FileInv
    <3> QED
      BY ONLY offset \in Offset, buf \in Buffer, i \in Nat, <1>1, <3>1, WriteByteAt DEF d, end
  <2>2. i \notin offset .. end - 1
    BY <1>1, <1>4
  <2>3. ByteIn(d, i) = ByteAt(i)
    BY ONLY i \in Nat, <1>1, <2>1, <2>2
  <2>4. ByteAt(i) = 0
    BY <1>1, <1>2, <1>4
  <2> QED
    BY <1>1, <2>3, <2>4, NextByteAt
<1>5. (TypeOK => (NothingBehindEnd <=> ZerosBehindEnd))'
  BY BehindEnd, PTL
<1> QED
  BY <1>1, <1>3, <1>4, <1>5 DEF ZerosBehindEnd

(* A truncate leaves no row behind the end it sets, and no byte that is    *)
(* not zero, block 0 of an empty file apart.                               *)
LEMMA TruncateKeepsEnd ==
  ASSUME FileInv, NEW offset \in Offset, pgfuse_truncate(offset), TypeOK'
  PROVE  NothingBehindEnd'
<1> DEFINE d == TruncatedData(offset)
           tb == ComputeBlockInfo(0, offset).to_block
           tl == ComputeBlockInfo(0, offset).to_len
<1>1. offset \in Nat /\ BS \in Nat \ {0} /\ size' = offset /\ data' = d /\ DOMAIN data \subseteq Nat
  BY FileDataAssumption, BlockInfoAssumption
     DEF FileDataAssumption, BlockInfoAssumption, pgfuse_truncate, FileInv, TypeOK
<1>2. tb \in Nat /\ tl \in 1 .. BS /\ tb * BS + tl = IF offset = 0 THEN BS ELSE offset
  BY TruncatedRows
<1>3. DOMAIN d = {m \in DOMAIN data : m <= tb}
  BY DEF TruncatedData
<1> HIDE DEF d, tb, tl
<1>4. ASSUME NEW n \in DOMAIN d \ {0}
      PROVE  n * BS < size'
  <2>1. n \in Nat /\ n >= 1 /\ n <= tb
    BY <1>1, <1>2, <1>3, <1>4
  <2>2. n * BS <= tb * BS /\ n * BS >= 1 * BS /\ n * BS \in Nat /\ tb * BS \in Nat
    BY <1>1, <1>2, <2>1
  <2> QED
    BY <1>1, <1>2, <2>2
<1>5. ASSUME NEW i \in Nat, i >= BS, i >= size'
      PROVE  ByteAt(i)' = 0
  <2>1. ByteIn(d, i) = IF i < (IF offset = 0 THEN BS ELSE offset) THEN ByteAt(i) ELSE 0
    BY TruncateByteAt DEF d, FileInv
  <2>2. ~(i < (IF offset = 0 THEN BS ELSE offset))
    BY <1>1, <1>5
  <2>3. ByteIn(d, i) = 0
    BY ONLY <2>1, <2>2
  <2> QED
    BY <1>1, <2>3, NextByteAt
<1>6. (TypeOK => (NothingBehindEnd <=> ZerosBehindEnd))'
  BY BehindEnd, PTL
<1> QED
  BY <1>1, <1>4, <1>5, <1>6 DEF ZerosBehindEnd

(* The inductive invariant of the rows of one file. *)
THEOREM FileInvariant == Spec => []FileInv
<1>1. Init => NothingBehindEnd
  BY DEF Init, NothingBehindEnd
<1>2. FileInv /\ TypeOK' /\ [Next]_vars => NothingBehindEnd'
  <2> SUFFICES ASSUME FileInv, TypeOK', [Next]_vars PROVE NothingBehindEnd'
    OBVIOUS
  <2>1. CASE UNCHANGED vars
    BY <2>1 DEF vars, FileInv, NothingBehindEnd
  <2> QED
    BY <2>1, WriteKeepsEnd, TruncateKeepsEnd DEF Next
<1> QED
  BY <1>1, <1>2, DataInductive, PTL DEF Spec, FileInv

(* The UPDATEs and the DELETE of psql_truncate leave no row behind the end *)
(* of the file but block 0, and zeros behind the end in the last one, so   *)
(* that no old byte comes back when a file of more than nothing grows.     *)
THEOREM NothingComesBack == Spec => []NothingBehindEnd
BY FileInvariant, PTL DEF FileInv

-----------------------------------------------------------------------------
(* The rows hold bytes. *)
LEMMA ByteAtType ==
  ASSUME TypeOK, BlocksArePadded, NEW i \in Nat
  PROVE  ByteAt(i) \in Byte
<1>1. i \div BS \in Nat /\ 1 + (i % BS) \in 1 .. BS /\ BS \in Nat
  BY PlaceOf, BlockInfoAssumption DEF BlockInfoAssumption
<1>2. ASSUME NEW n \in DOMAIN data, NEW k \in 1 .. BS PROVE data[n][k] \in Byte
  <2>1. data[n] \in Seq(Byte) /\ Len(data[n]) = BS
    BY DEF TypeOK, BlocksArePadded
  <2> DEFINE s == data[n]
  <2>2. s \in Seq(Byte) /\ k \in 1 .. Len(s)
    BY <2>1
  <2> HIDE DEF s
  <2>3. s[k] \in Byte
    BY <2>2
  <2> QED
    BY <2>3 DEF s
<1>3. 0 \in Byte
  BY FileDataAssumption DEF FileDataAssumption
<1> QED
  BY <1>1, <1>2, <1>3 DEF ByteAt

(* What the abstract file lets an offset hold that is not written is what  *)
(* the rows hold there.                                                    *)
LEMMA RowsKeep ==
  ASSUME FileInv, NEW i \in Nat
  PROVE  ByteAt(i) \in F!Kept(i)
<1>1. BS \in Nat /\ size \in Nat
  BY BlockInfoAssumption DEF BlockInfoAssumption, FileInv, TypeOK
<1>2. ByteAt(i) \in Byte
  BY ByteAtType DEF FileInv
<1>3. i >= BS /\ i >= size => ByteAt(i) = 0
  BY BehindEnd DEF FileInv, ZerosBehindEnd
<1>4. CASE i < size
  BY <1>1, <1>4 DEF F!Kept, Content
<1>5. CASE ~(i < size) /\ i \in Residue
  BY <1>2, <1>5 DEF F!Kept
<1>6. CASE ~(i < size) /\ i \notin Residue
  <2>1. ByteAt(i) = 0
    BY <1>1, <1>3, <1>6 DEF Residue
  <2> QED
    BY <1>6, <2>1 DEF F!Kept
<1> QED
  BY <1>4, <1>5, <1>6

LEMMA WriteIsWrite ==
  ASSUME FileInv, NEW offset \in Offset, NEW buf \in Buffer, pgfuse_write(offset, buf)
  PROVE  F!Write(offset, buf)
<1> DEFINE end == offset + Len(buf)
<1>1. /\ offset \in Nat /\ Len(buf) \in Nat /\ end \in Nat /\ BS \in Nat /\ size \in Nat
      /\ data' = WriteBuf(offset, buf)
      /\ size' = IF end > size THEN end ELSE size
  BY FileDataAssumption, BlockInfoAssumption
     DEF FileDataAssumption, BlockInfoAssumption, pgfuse_write, FileInv, TypeOK
<1>2. ASSUME NEW i \in Nat
      PROVE  ByteAt(i)' = IF i \in offset .. end - 1 THEN buf[i - offset + 1] ELSE ByteAt(i)
  <2>1. TypeOK /\ BlocksArePadded
    BY DEF FileInv
  <2>2. ByteIn(WriteBuf(offset, buf), i) =
          IF i \in offset .. end - 1 THEN buf[i - offset + 1] ELSE ByteAt(i)
    BY ONLY offset \in Offset, buf \in Buffer, i \in Nat, <1>1, <2>1, WriteByteAt
  <2>3. ByteAt(i)' = ByteIn(data', i)
    BY NextByteAt
  <2> QED
    BY ONLY i \in Nat, <1>1, <2>2, <2>3
<1>3. size' \in Nat /\ size <= size' /\ end <= size'
  BY <1>1
<1> HIDE DEF end
<1>4. DOMAIN Content' = 0 .. size' - 1
  BY DEF Content
<1>5. ASSUME NEW i \in 0 .. size' - 1
      PROVE  Content'[i] \in IF i \in offset .. end - 1 THEN {buf[i - offset + 1]} ELSE F!Kept(i)
  <2>1. i \in Nat
    BY <1>3, <1>5
  <2>2. Content'[i] = ByteAt(i)'
    BY <1>5 DEF Content
  <2>3. ByteAt(i) \in F!Kept(i)
    BY <2>1, RowsKeep
  <2>4. CASE i \in offset .. end - 1
    <3>1. ByteAt(i)' = buf[i - offset + 1]
      BY ONLY <1>1, <1>2, <2>1, <2>4
    <3> QED
      BY ONLY <1>1, <2>1, <2>2, <2>4, <3>1
  <2>5. CASE i \notin offset .. end - 1
    <3>1. ByteAt(i)' = ByteAt(i)
      BY ONLY <1>1, <1>2, <2>1, <2>5
    <3> QED
      BY ONLY <1>1, <2>1, <2>2, <2>3, <2>5, <3>1
  <2> QED
    BY <2>4, <2>5
<1>6. Residue' = Residue \ 0 .. size' - 1
  <2>1. ASSUME NEW i \in size' .. BS - 1 PROVE i \in Nat /\ ByteAt(i)' = ByteAt(i)
    <3>1. i \in Nat /\ i \notin offset .. end - 1
      BY <1>1, <1>3, <2>1
    <3> QED
      BY ONLY <1>1, <1>2, <3>1
  <2>2. \A i \in size .. BS - 1 : i \in size' .. BS - 1 <=> i \notin 0 .. size' - 1
    BY <1>1, <1>3
  <2>3. size' .. BS - 1 \subseteq size .. BS - 1
    BY <1>1, <1>3
  <2> QED
    BY <2>1, <2>2, <2>3 DEF Residue
<1> QED
  BY <1>1, <1>4, <1>5, <1>6 DEF F!Write, end

LEMMA TruncateIsTruncate ==
  ASSUME FileInv, NEW offset \in Offset, pgfuse_truncate(offset)
  PROVE  F!Truncate(offset)
<1>1. /\ offset \in Nat /\ BS \in Nat \ {0} /\ size \in Nat
      /\ data' = TruncatedData(offset) /\ size' = offset
  BY FileDataAssumption, BlockInfoAssumption
     DEF FileDataAssumption, BlockInfoAssumption, pgfuse_truncate, FileInv, TypeOK
<1>2. ASSUME NEW i \in Nat
      PROVE  ByteAt(i)' = IF i < (IF offset = 0 THEN BS ELSE offset) THEN ByteAt(i) ELSE 0
  <2>1. TypeOK /\ BlocksArePadded
    BY DEF FileInv
  <2>2. ByteIn(TruncatedData(offset), i) =
          IF i < (IF offset = 0 THEN BS ELSE offset) THEN ByteAt(i) ELSE 0
    BY ONLY offset \in Offset, i \in Nat, <1>1, <2>1, TruncateByteAt
  <2>3. ByteAt(i)' = ByteIn(data', i)
    BY NextByteAt
  <2> QED
    BY ONLY i \in Nat, <1>1, <2>2, <2>3
<1>3. DOMAIN Content' = 0 .. offset - 1
  BY <1>1 DEF Content
<1>4. ASSUME NEW i \in 0 .. offset - 1
      PROVE  Content'[i] \in F!Kept(i)
  <2>1. i \in Nat /\ i < (IF offset = 0 THEN BS ELSE offset)
    BY <1>1, <1>4
  <2>2. Content'[i] = ByteAt(i)'
    BY <1>1, <1>4 DEF Content
  <2>3. ByteAt(i)' = ByteAt(i)
    BY <1>2, <2>1
  <2>4. ByteAt(i) \in F!Kept(i)
    BY <2>1, RowsKeep
  <2> QED
    BY ONLY <2>2, <2>3, <2>4
<1>5. CASE offset = 0
  <2>1. ASSUME NEW i \in Residue'
        PROVE  i \in Residue \cup {j \in 0 .. BS - 1 : j < size}
    <3>1. i \in 0 .. BS - 1 /\ ByteAt(i)' # 0 /\ i \in Nat
      BY <1>1, <1>5, <2>1 DEF Residue
    <3>2. ByteAt(i) # 0
      BY <1>2, <1>5, <3>1
    <3> QED
      BY <1>1, <3>1, <3>2 DEF Residue
  <2> QED
    BY <1>1, <1>3, <1>4, <1>5, <2>1 DEF F!Truncate
<1>6. CASE offset # 0
  <2>1. ASSUME NEW i \in Residue'
        PROVE  FALSE
    <3>1. i \in Nat /\ ByteAt(i)' # 0 /\ ~(i < offset)
      BY <1>1, <1>6, <2>1 DEF Residue
    <3> QED
      BY <1>2, <1>6, <3>1
  <2>2. Residue' = {}
    BY <2>1
  <2> QED
    BY <1>1, <1>3, <1>4, <1>6, <2>2 DEF F!Truncate
<1> QED
  BY <1>5, <1>6

(* The rows of table data and the size in table dir, under any series of   *)
(* pgfuse_write and pgfuse_truncate, are a file of bytes: a write changes  *)
(* its range and no other byte, a file that grows does so by zeros, the    *)
(* first block of a file truncated to nothing apart.                       *)
THEOREM FileDataImplementsByteFile == Spec => ImplementsByteFile
<1>1. Init => F!Init
  <2> SUFFICES ASSUME Init PROVE F!Init
    OBVIOUS
  <2>1. size = 0 /\ DOMAIN data = {}
    BY DEF Init
  <2>2. Content = [i \in {} |-> 0]
    BY <2>1 DEF Content
  <2>3. Residue = {}
    BY <2>1 DEF Residue, ByteAt
  <2> QED
    BY <2>1, <2>2, <2>3 DEF F!Init
<1>2. FileInv /\ [Next]_vars => [F!Next]_<<size, Content, Residue>>
  <2> SUFFICES ASSUME FileInv, [Next]_vars PROVE [F!Next]_<<size, Content, Residue>>
    OBVIOUS
  <2>1. ASSUME NEW offset \in Offset, NEW buf \in Buffer, pgfuse_write(offset, buf)
        PROVE  F!Next
    BY <2>1, WriteIsWrite DEF F!Next
  <2>2. ASSUME NEW offset \in Offset, pgfuse_truncate(offset)
        PROVE  F!Next
    BY <2>2, TruncateIsTruncate DEF F!Next
  <2>3. CASE UNCHANGED vars
    BY <2>3 DEF vars, Content, Residue, ByteAt
  <2> QED
    BY <2>1, <2>2, <2>3 DEF Next
<1> QED
  BY <1>1, <1>2, FileInvariant, PTL DEF Spec, ImplementsByteFile, F!Spec

-----------------------------------------------------------------------------
(* Every set of numbers that is not empty has a smallest one. *)
LEMMA SmallestNumber ==
  ASSUME NEW T, T \subseteq Nat, T # {}
  PROVE  \E x \in T : \A y \in T : x <= y
<1> DEFINE R == OpToRel(<, Nat)
<1>1. IsWellFoundedOn(R, Nat)
  BY NatLessThanWellFounded
<1>2. \A x, y \in Nat : x < y => <<x, y>> \in R
  BY DEF OpToRel
<1> HIDE DEF R
<1>3. PICK x \in T : \A y \in T : ~(<<y, x>> \in R)
  BY <1>1, WFMin
<1>4. ASSUME NEW y \in T PROVE x <= y
  <2>1. ~(y < x)
    BY <1>2, <1>3
  <2> QED
    BY <2>1
<1> QED
  BY <1>4

(* The rows of a range of a file without holes are the first blocks of the *)
(* range, and the reply has them in order.                                 *)
LEMMA DenseRows ==
  ASSUME NEW fb \in Nat, NEW tb \in Nat, NEW rows, rows \subseteq Nat,
         \A n \in rows : fb <= n /\ n <= tb,
         \A n \in rows : n > fb => n - 1 \in rows
  PROVE  \E c \in Nat : /\ rows = fb .. fb + c - 1
                        /\ Cardinality(rows) = c
                        /\ \A j \in 0 .. c - 1 : RowAt(rows, j) = fb + j
<1> DEFINE U == {n \in Nat : n >= fb /\ n \notin rows}
<1>1. U \subseteq Nat /\ U # {}
  <2>1. (IF tb >= fb THEN tb + 1 ELSE fb) \in U
    OBVIOUS
  <2> QED
    BY <2>1
<1>2. PICK x \in U : \A y \in U : x <= y
  BY <1>1, SmallestNumber
<1>3. ASSUME NEW n \in rows PROVE n < x
  <2> DEFINE V == {m \in rows : m > x}
  <2>1. SUFFICES ASSUME V # {} PROVE FALSE
    BY <1>2
  <2>2. V \subseteq Nat
    OBVIOUS
  <2>3. PICK y \in V : \A z \in V : y <= z
    BY <2>1, <2>2, SmallestNumber
  <2>4. y - 1 \in rows /\ y - 1 >= x
    BY <1>2, <2>3
  <2>5. y - 1 # x
    BY <1>2, <2>4
  <2>6. y - 1 \in V
    BY <1>2, <2>3, <2>4, <2>5
  <2> QED
    BY <2>3, <2>6
<1> DEFINE c == x - fb
<1>4. c \in Nat /\ x = fb + c /\ x \in Nat
  BY <1>2
<1>5. rows = fb .. fb + c - 1
  <2>1. ASSUME NEW n \in fb .. x - 1 PROVE n \in rows
    <3>1. n \in Nat /\ n >= fb /\ ~(x <= n)
      BY <1>4
    <3> QED
      BY <1>2, <3>1
  <2>2. ASSUME NEW n \in rows PROVE n \in fb .. x - 1
    BY <1>3, <1>4
  <2>3. fb + c - 1 = x - 1
    BY <1>4
  <2>4. rows = fb .. x - 1
    BY <2>1, <2>2
  <2> QED
    BY ONLY <2>3, <2>4
<1>6. ASSUME NEW a \in Nat, NEW b \in Nat PROVE Cardinality(a .. a + b - 1) = b
  <2>1. a \in Int /\ a + b - 1 \in Int /\ (a > a + b - 1 <=> b = 0)
    OBVIOUS
  <2>2. Cardinality(a .. a + b - 1) = IF a > a + b - 1 THEN 0 ELSE (a + b - 1) - a + 1
    BY <2>1, FS_Interval
  <2> QED
    BY <2>1, <2>2
<1>7. Cardinality(rows) = c
  BY <1>4, <1>5, <1>6
<1>8. ASSUME NEW n \in rows PROVE Cardinality({m \in rows : m < n}) = n - fb
  <2>1. n \in Nat /\ n - fb \in Nat /\ fb + (n - fb) - 1 = n - 1
    OBVIOUS
  <2>2. {m \in rows : m < n} = fb .. n - 1
    BY <1>4, <1>5, <2>1
  <2>3. Cardinality(fb .. fb + (n - fb) - 1) = n - fb
    BY <1>6, <2>1
  <2> QED
    BY <2>1, <2>2, <2>3
<1> HIDE DEF c
<1>9. ASSUME NEW j \in 0 .. c - 1 PROVE RowAt(rows, j) = fb + j
  <2>1. fb + j \in rows /\ (fb + j) - fb = j
    BY <1>4, <1>5
  <2>2. Cardinality({m \in rows : m < fb + j}) = j
    BY <1>8, <2>1
  <2>3. \A n \in rows : Cardinality({m \in rows : m < n}) = j => n = fb + j
    BY <1>4, <1>8
  <2> QED
    BY <2>1, <2>2, <2>3 DEF RowAt
<1> QED
  BY <1>4, <1>5, <1>7, <1>9

(* The way the loop of psql_read_buf goes through the rows. *)
IsIndex(f, rows, fb, tb) ==
  f = [b \in fb .. tb |->
         IF b = fb THEN 0 ELSE IF IsDue(rows, b - 1, f[b - 1]) THEN f[b - 1] + 1 ELSE f[b - 1]]

(* There is one such way at most. *)
LEMMA IndexUnique ==
  ASSUME NEW rows, NEW fb \in Nat, NEW tb \in Nat,
         NEW f, IsIndex(f, rows, fb, tb), NEW g, IsIndex(g, rows, fb, tb), NEW b \in fb .. tb
  PROVE  f[b] = g[b]
<1> DEFINE V == {x \in fb .. tb : f[x] # g[x]}
<1>1. SUFFICES ASSUME V # {} PROVE FALSE
  OBVIOUS
<1>2. V \subseteq Nat
  OBVIOUS
<1>3. PICK y \in V : \A z \in V : y <= z
  BY <1>1, <1>2, SmallestNumber
<1>4. y # fb
  BY <1>3 DEF IsIndex
<1>5. y - 1 \in fb .. tb /\ f[y - 1] = g[y - 1]
  BY <1>3, <1>4
<1>6. /\ f[y] = IF IsDue(rows, y - 1, f[y - 1]) THEN f[y - 1] + 1 ELSE f[y - 1]
      /\ g[y] = IF IsDue(rows, y - 1, g[y - 1]) THEN g[y - 1] + 1 ELSE g[y - 1]
  BY <1>3, <1>4 DEF IsIndex
<1> QED
  BY <1>3, <1>5, <1>6

(* In a file without holes the loop of psql_read_buf copies each block's   *)
(* own row, or zeros where the rows have ended, whatever the byte order    *)
(* makes of their numbers.                                                 *)
LEMMA DenseSource ==
  ASSUME TypeOK, Dense, NEW info, info.from_block \in Nat, info.to_block \in Nat,
         \A n \in DOMAIN data : DbBlockNo(n) \in {0, n},
         NEW b \in info.from_block .. info.to_block
  PROVE  ReadSource(info)[b] = OldBlock(b)
<1> DEFINE fb == info.from_block
           tb == info.to_block
           rows == SelectedRows(info)
<1>1. /\ fb \in Nat /\ tb \in Nat /\ DOMAIN data \subseteq Nat
      /\ rows = {n \in DOMAIN data : fb <= n /\ n <= tb}
  BY DEF TypeOK, SelectedRows
<1>2. \A n \in rows : n > fb => n - 1 \in rows
  BY <1>1 DEF Dense
<1> DEFINE idx == CHOOSE f : IsIndex(f, rows, fb, tb)
<1>3. ReadSource(info) =
        [x \in fb .. tb |-> IF IsDue(rows, x, idx[x]) THEN data[RowAt(rows, idx[x])] ELSE Zeros(BS)]
  BY DEF ReadSource, IsIndex
<1> HIDE DEF rows, fb, tb
<1>4. PICK c \in Nat : /\ rows = fb .. fb + c - 1
                       /\ Cardinality(rows) = c
                       /\ \A j \in 0 .. c - 1 : RowAt(rows, j) = fb + j
  <2>1. rows \subseteq Nat /\ \A n \in rows : fb <= n /\ n <= tb
    BY <1>1
  <2>2. fb \in Nat /\ tb \in Nat
    BY <1>1
  <2> QED
    BY ONLY <1>2, <2>1, <2>2, DenseRows
<1> DEFINE f == [x \in fb .. tb |-> IF x - fb <= c THEN x - fb ELSE c]
<1>5. ASSUME NEW x \in fb .. tb
      PROVE  /\ x - fb < c => IsDue(rows, x, f[x]) /\ RowAt(rows, f[x]) = x /\ f[x] = x - fb
             /\ ~(x - fb < c) => ~IsDue(rows, x, f[x]) /\ f[x] = c
  <2>1. x \in Nat /\ x - fb \in Nat
    BY <1>1
  <2>2. CASE x - fb < c
    <3>1. f[x] = x - fb /\ x - fb \in 0 .. c - 1 /\ fb + (x - fb) = x /\ x \in rows
      BY <1>1, <1>4, <2>1, <2>2
    <3>2. RowAt(rows, x - fb) = x
      BY <1>4, <3>1
    <3>3. DbBlockNo(x) \in {0, x}
      BY <1>1, <3>1
    <3> HIDE DEF f
    <3> QED
      BY <1>4, <2>1, <2>2, <3>1, <3>2, <3>3 DEF IsDue
  <2>3. CASE ~(x - fb < c)
    <3>1. f[x] = c
      BY <1>1, <1>4, <2>1, <2>3
    <3> HIDE DEF f
    <3> QED
      BY <1>4, <2>3, <3>1 DEF IsDue
  <2> QED
    BY <2>2, <2>3
<1>6. IsIndex(f, rows, fb, tb)
  <2>1. ASSUME NEW x \in fb .. tb
        PROVE  f[x] = IF x = fb THEN 0
                      ELSE IF IsDue(rows, x - 1, f[x - 1]) THEN f[x - 1] + 1 ELSE f[x - 1]
    <3>1. CASE x = fb
      BY <1>1, <1>4, <3>1
    <3>2. CASE x # fb
      <4>1. x - 1 \in fb .. tb /\ x \in Nat /\ (x - 1) - fb \in Nat
        BY <1>1, <3>2
      <4>2. CASE (x - 1) - fb < c
        <5>1. IsDue(rows, x - 1, f[x - 1]) /\ f[x - 1] = (x - 1) - fb
          BY <1>5, <4>1, <4>2
        <5>2. f[x] = x - fb /\ x - fb = ((x - 1) - fb) + 1
          BY <1>1, <1>4, <4>1, <4>2
        <5> HIDE DEF f
        <5> QED
          BY <3>2, <5>1, <5>2
      <4>3. CASE ~((x - 1) - fb < c)
        <5>1. ~IsDue(rows, x - 1, f[x - 1]) /\ f[x - 1] = c
          BY <1>5, <4>1, <4>3
        <5>2. f[x] = c
          BY <1>1, <1>4, <4>1, <4>3
        <5> HIDE DEF f
        <5> QED
          BY <3>2, <5>1, <5>2
      <4> QED
        BY <4>2, <4>3
    <3> QED
      BY <3>1, <3>2
  <2>2. f = [x \in fb .. tb |-> f[x]]
    OBVIOUS
  <2> HIDE DEF f
  <2> QED
    BY <2>1, <2>2 DEF IsIndex
<1> HIDE DEF f
<1>7. b \in fb .. tb
  BY DEF fb, tb
<1>8. IsIndex(idx, rows, fb, tb)
  BY <1>6
<1> HIDE DEF idx
<1>9. idx[b] = f[b]
  BY <1>1, <1>6, <1>7, <1>8, IndexUnique
<1>10. ReadSource(info)[b] = IF IsDue(rows, b, f[b]) THEN data[RowAt(rows, f[b])] ELSE Zeros(BS)
  BY <1>3, <1>7, <1>9
<1>11. b \in DOMAIN data <=> b - fb < c
  <2>1. b \in DOMAIN data <=> b \in rows
    BY <1>1, <1>7
  <2> QED
    BY <1>1, <1>4, <1>7, <2>1
<1> QED
  BY <1>5, <1>7, <1>10, <1>11 DEF OldBlock

(* A part of a file has no more blocks than the file. *)
LEMMA DivMonotone ==
  ASSUME NEW a \in Nat, NEW b \in Nat, a <= b, NEW d \in Nat \ {0}
  PROVE  a \div d <= b \div d
<1> DEFINE p == a \div d
           q == b \div d
           r == a % d
           s == b % d
<1>1. p \in Nat /\ r \in 0 .. d - 1 /\ a = d * p + r
  BY DivMod
<1>2. q \in Nat /\ s \in 0 .. d - 1 /\ b = d * q + s
  BY DivMod
<1> HIDE DEF p, q, r, s
<1>3. CASE p >= q + 1
  <2>1. d * p >= d * (q + 1) /\ d * (q + 1) = d * q + d
    BY <1>1, <1>2, <1>3
  <2> QED
    BY <1>1, <1>2, <2>1
<1> QED
  BY <1>1, <1>2, <1>3 DEF p, q

(* A read that begins with a block of a file without holes returns the     *)
(* bytes of the file, up to its end.                                       *)
LEMMA DenseRead ==
  ASSUME FileInv, Dense, \A m \in DOMAIN data : DbBlockNo(m) \in {0, m}, Fits(0, size),
         NEW offset \in Nat, NEW len \in Nat \ {0},
         offset % BS = 0, offset < size, offset + len < SizeMod
  PROVE  ReadBuf(offset, len) = Expected(offset, len)
<1> DEFINE n == ReadLen(offset, len)
           info == ComputeBlockInfo(offset, n)
           src == ReadSource(info)
           fb == info.from_block
           fo == info.from_offset
           fl == info.from_len
           tb == info.to_block
           tl == info.to_len
           copied == IF tb < fb THEN 0
                     ELSE IF tb = fb THEN fl
                     ELSE fl + (tb - fb - 1) * BS + tl
           firstLen == fl - fo
           byte(i) == IF i < fl
                      THEN IF i < firstLen THEN src[fb][fo + i + 1] ELSE JUNK
                      ELSE src[fb + 1 + (i - fl) \div BS][1 + ((i - fl) % BS)]
<1>1. BS \in Nat \ {0} /\ SizeMod \in Nat \ {0} /\ IntMod \in Nat \ {0} /\ size \in Nat
  BY BlockInfoAssumption DEF BlockInfoAssumption, FileInv, TypeOK
<1>2. n = (IF offset + len > size THEN size - offset ELSE len) /\ n \in Nat \ {0} /\ n <= size
  <2>1. ToSize(offset + len) = offset + len
    BY <1>1, SmallMod DEF ToSize
  <2>2. CASE offset + len > size
    <3>1. size - offset \in Nat /\ size - offset < SizeMod
      BY <1>1, <2>2
    <3>2. ToSize(size - offset) = size - offset
      BY <1>1, <3>1, SmallMod DEF ToSize
    <3> QED
      BY <1>1, <2>1, <2>2, <3>2 DEF ReadLen
  <2>3. CASE ~(offset + len > size)
    BY <1>1, <2>1, <2>3, SMTT(30) DEF ReadLen
  <2> QED
    BY <2>2, <2>3
<1>3. ReadBuf(offset, len) =
        IF size = 0 THEN [res |-> 0, buf |-> <<>>]
        ELSE IF tb >= fb /\ (firstLen < 0 \/ fl > BS) THEN [res |-> JUNK, buf |-> <<>>]
        ELSE IF copied # n THEN [res |-> EIO, buf |-> <<>>]
        ELSE [res |-> n, buf |-> [k \in 1 .. n |-> byte(k - 1)]]
  BY DEF ReadBuf
<1> HIDE DEF n
<1>4. Fits(offset, n)
  <2>1. 0 % BS = 0 /\ size < SizeMod /\ size \div BS < IntMod \div 2
    BY <1>1 DEF Fits
  <2>2. n \div BS <= size \div BS /\ n \div BS \in Nat /\ size \div BS \in Nat
    BY <1>1, <1>2, DivMonotone, DivMod
  <2>3. (offset % BS) + n = n /\ IntMod \div 2 \in Nat
    BY <1>1, <1>2
  <2>4. n < SizeMod
    BY <1>1, <1>2, <2>1
  <2>5. n \div BS < IntMod \div 2
    BY ONLY <2>1, <2>2, <2>3
  <2> QED
    BY <2>3, <2>4, <2>5 DEF Fits
<1>5. fb \in Nat /\ fo \in Nat /\ tl \in 1 .. BS
  BY <1>2, InfoTypes
<1>6. fl \in 1 .. n /\ tb \in Nat
  BY <1>2, <1>4, PartsInside
<1>7. /\ fb * BS + fo = offset /\ fo + fl <= BS
      /\ tb * BS + tl = offset + n
      /\ IF fb = tb THEN fl = n ELSE fb < tb /\ fo + fl = BS
  BY <1>2, <1>4, BlockInfoCorrect DEF InfoCorrect
<1>8. fo = 0
  BY DEF ComputeBlockInfo
<1>9. ASSUME NEW b \in fb .. tb PROVE src[b] = OldBlock(b)
  BY <1>5, <1>6, <1>9, DenseSource DEF FileInv
<1> HIDE DEF info, src, fb, fo, fl, tb, tl
<1>10. fb * BS \in Nat /\ tb * BS \in Nat
  BY <1>1, <1>5, <1>6
<1>11. tb >= fb /\ firstLen = fl /\ fl <= BS /\ fl >= 1
  BY <1>1, <1>2, <1>5, <1>6, <1>7, <1>8
<1>12. copied = n
  <2>1. CASE fb = tb
    BY <1>5, <1>6, <1>7, <2>1
  <2>2. CASE fb # tb
    <3>1. (tb - fb - 1) * BS = tb * BS - fb * BS - BS
      BY <1>1, <1>5, <1>6
    <3> QED
      BY <1>1, <1>2, <1>5, <1>6, <1>7, <1>8, <1>10, <2>2, <3>1
  <2> QED
    BY <2>1, <2>2
<1>13. ASSUME NEW b \in fb .. tb, NEW k \in 1 .. BS
       PROVE  src[b][k] = ByteAt(b * BS + k - 1)
  <2>1. b \in Nat
    BY <1>5, <1>6
  <2>2. (b * BS + k - 1) \div BS = b /\ 1 + ((b * BS + k - 1) % BS) = k
    BY <2>1, BlockOf
  <2>3. src[b] = OldBlock(b)
    BY <1>9
  <2> QED
    BY <2>2, <2>3 DEF OldBlock, ByteAt, Zeros
<1>14. ASSUME NEW i \in 0 .. n - 1 PROVE byte(i) = ByteAt(offset + i)
  <2>1. CASE i < fl
    <3>1. byte(i) = src[fb][fo + i + 1]
      BY <1>11, <2>1
    <3>2. fb \in fb .. tb /\ fo + i + 1 \in 1 .. BS /\ fo + i + 1 = i + 1
      BY <1>1, <1>2, <1>5, <1>6, <1>8, <1>11, <2>1
    <3>3. src[fb][i + 1] = ByteAt(fb * BS + (i + 1) - 1)
      BY <1>13, <3>2
    <3>4. fb * BS + (i + 1) - 1 = offset + i
      BY <1>2, <1>5, <1>7, <1>8, <1>10
    <3> HIDE DEF byte
    <3> QED
      BY ONLY <3>1, <3>2, <3>3, <3>4
  <2>2. CASE ~(i < fl)
    <3> DEFINE j == i - fl
               b == fb + 1 + j \div BS
               k == 1 + (j % BS)
    <3>1. j \in Nat /\ fl = BS /\ fb < tb
      BY <1>1, <1>2, <1>5, <1>6, <1>7, <1>8, <2>2
    <3>2. byte(i) = src[b][k]
      BY <2>2
    <3>3. j \div BS \in Nat /\ k \in 1 .. BS /\ j = (j \div BS) * BS + k - 1 /\ (j \div BS) * BS \in Nat
      BY <3>1, PlaceOf
    <3>4. b * BS + k - 1 = offset + i
      <4> DEFINE q == j \div BS
      <4>1. b * BS = fb * BS + BS + q * BS
        <5> HIDE DEF q
        <5>1. q \in Nat /\ b = fb + 1 + q
          BY <3>3 DEF q
        <5> HIDE DEF b
        <5> QED
          BY <1>1, <1>5, <5>1
      <4>2. i = j + BS /\ i \in Nat
        BY <1>1, <1>2, <3>1
      <4> HIDE DEF q, b, k, j
      <4> QED
        BY <1>1, <1>7, <1>8, <1>10, <3>1, <3>3, <4>1, <4>2 DEF q
    <3>5. b \in fb .. tb
      <4>1. b \in Nat /\ b >= fb
        BY <1>5, <3>3
      <4> HIDE DEF b, k
      <4>2. CASE b >= tb + 1
        <5>1. b * BS >= (tb + 1) * BS /\ (tb + 1) * BS = tb * BS + BS /\ b * BS \in Nat
          BY <1>1, <1>6, <4>1, <4>2
        <5> QED
          BY <1>1, <1>2, <1>5, <1>7, <1>10, <3>3, <3>4, <5>1
      <4> QED
        BY <1>5, <1>6, <4>1, <4>2
    <3> HIDE DEF b, k, byte
    <3>6. src[b][k] = ByteAt(b * BS + k - 1)
      BY <1>13, <3>3, <3>5
    <3> QED
      BY ONLY <3>2, <3>4, <3>6
  <2> QED
    BY <2>1, <2>2
<1>15. ReadBuf(offset, len) = [res |-> n, buf |-> [k \in 1 .. n |-> byte(k - 1)]]
  <2>1. ~(size = 0) /\ ~(firstLen < 0) /\ ~(fl > BS)
    BY <1>1, <1>5, <1>6, <1>11
  <2> HIDE DEF byte, copied, firstLen
  <2> QED
    BY ONLY <1>3, <1>12, <2>1
<1>16. Expected(offset, len) = [res |-> n, buf |-> [k \in 1 .. n |-> ByteAt(offset + k - 1)]]
  <2>1. n = IF offset >= size THEN 0 ELSE IF offset + len > size THEN size - offset ELSE len
    BY <1>1, <1>2
  <2> QED
    BY ONLY <2>1 DEF Expected
<1>17. ASSUME NEW k \in 1 .. n PROVE byte(k - 1) = ByteAt(offset + k - 1)
  <2>1. k - 1 \in 0 .. n - 1 /\ offset + (k - 1) = offset + k - 1
    BY <1>2
  <2> HIDE DEF byte
  <2> QED
    BY <1>14, <2>1
<1> HIDE DEF byte
<1>18. [k \in 1 .. n |-> byte(k - 1)] = [k \in 1 .. n |-> ByteAt(offset + k - 1)]
  BY <1>17
<1> QED
  BY <1>15, <1>16, <1>18

(* Files stay below 2^31 blocks and 2^64 bytes, with three more pages. *)
SizesFit ==
  \A offset \in Offset :
    /\ Fits(0, offset + 3 * PageSize)
    /\ \A buf \in Buffer : Fits(0, offset + Len(buf) + 3 * PageSize)

(* So the size of the file is such a number. *)
SizeInv == size = 0 \/ Fits(0, size + 3 * PageSize)

LEMMA SizeFits ==
  ASSUME SizesFit
  PROVE  Spec => []SizeInv
<1>1. Init => SizeInv
  BY DEF Init, SizeInv
<1>2. SizeInv /\ [Next]_vars => SizeInv'
  BY DEF SizeInv, SizesFit, Next, vars, pgfuse_write, pgfuse_truncate
<1> QED
  BY <1>1, <1>2, PTL DEF Spec

(* Less fits too. *)
LEMMA LessFits ==
  ASSUME NEW a \in Nat, NEW b \in Nat, a <= b, Fits(0, b)
  PROVE  Fits(0, a)
<1>1. BS \in Nat \ {0} /\ SizeMod \in Nat /\ IntMod \in Nat /\ IntMod \div 2 \in Nat
  BY BlockInfoAssumption DEF BlockInfoAssumption
<1>2. 0 % BS = 0 /\ b < SizeMod /\ b \div BS < IntMod \div 2
  BY <1>1 DEF Fits
<1>3. a \div BS <= b \div BS /\ a \div BS \in Nat /\ b \div BS \in Nat
  BY <1>1, DivMonotone, DivMod
<1>4. a \div BS < IntMod \div 2 /\ a < SizeMod
  BY ONLY a \in Nat, b \in Nat, a <= b, <1>1, <1>2, <1>3
<1> QED
  BY <1>2, <1>4 DEF Fits

(* The number of a row of such a file is decoded as itself, or as 0. *)
LEMMA RowNumbers ==
  ASSUME FileInv, Fits(0, size), NEW n \in DOMAIN data
  PROVE  DbBlockNo(n) \in {0, n}
<1>1. /\ BS \in Nat \ {0} /\ IntMod \in Nat \ {0} /\ IntMod \div 2 \in Nat /\ IntMod \div 2 <= IntMod
      /\ size \in Nat /\ n \in Nat
  BY BlockInfoAssumption DEF BlockInfoAssumption, FileInv, TypeOK
<1>2. n < IntMod
  <2>1. CASE n = 0
    BY <1>1, <2>1
  <2>2. CASE n # 0
    <3>1. n * BS \in Nat /\ n * BS < size
      BY <1>1, <2>2 DEF FileInv, NothingBehindEnd
    <3>2. 0 % BS = 0 /\ size \div BS < IntMod \div 2
      BY <1>1 DEF Fits
    <3>3. (n * BS) \div BS = n
      <4>1. 1 \in 1 .. BS
        BY <1>1
      <4>2. (n * BS + 1 - 1) \div BS = n
        BY <1>1, <4>1, BlockOf
      <4>3. n * BS + 1 - 1 = n * BS
        BY <3>1
      <4> QED
        BY ONLY <4>2, <4>3
    <3>4. (n * BS) \div BS <= size \div BS /\ size \div BS \in Nat
      <4> DEFINE a == n * BS
      <4>1. a \in Nat /\ a <= size
        BY <1>1, <3>1
      <4> HIDE DEF a
      <4>2. a \div BS <= size \div BS /\ size \div BS \in Nat
        BY <1>1, <4>1, DivMonotone, DivMod
      <4> QED
        BY <4>2 DEF a
    <3> QED
      BY ONLY <1>1, <3>2, <3>3, <3>4
  <2> QED
    BY <2>1, <2>2
<1>3. n \div IntMod = 0
  <2> DEFINE q == n \div IntMod
             r == n % IntMod
  <2>1. q \in Nat /\ r \in 0 .. IntMod - 1 /\ n = IntMod * q + r
    BY <1>1, DivMod
  <2> HIDE DEF q, r
  <2>2. q >= 1 => IntMod * q >= IntMod * 1
    BY <1>1, <2>1
  <2>3. q = 0
    BY <1>1, <1>2, <2>1, <2>2
  <2> QED
    BY <2>3 DEF q
<1>4. n % IntMod = n
  BY <1>1, <1>2, SmallMod
<1> QED
  BY <1>3, <1>4 DEF DbBlockNo

(* psql_read_buf and pgfuse_readlink return what was written to a file     *)
(* without holes, of any size, for every block size that divides the page  *)
(* size, and on machines of both byte orders.                              *)
THEOREM DenseFilesAreReadBack ==
  ASSUME PageSize % BS = 0, SizesFit
  PROVE  Spec => []DenseReadsExact
<1>1. FileInv /\ SizeInv => DenseReadsExact
  <2> SUFFICES ASSUME FileInv, SizeInv, Dense
               PROVE  /\ \A r \in PageReads : ReadBuf(r[1], r[2]) = Expected(r[1], r[2])
                      /\ pgfuse_readlink(size + 1)
                           = [res |-> 0, buf |-> Append(Expected(0, size).buf, 0)]
    BY DEF DenseReadsExact
  <2>1. BS \in Nat \ {0} /\ size \in Nat /\ SizeMod \in Nat /\ PageSize \in Nat \ {0}
    BY BlockInfoAssumption, FileDataAssumption
       DEF BlockInfoAssumption, FileDataAssumption, FileInv, TypeOK
  <2>2. CASE size = 0
    <3>1. PageReads = {}
      <4>1. \A q \in 0 .. size : ~(q * PageSize < size)
        BY <2>1, <2>2
      <4> QED
        BY <4>1 DEF PageReads
    <3>2. ReadBuf(0, size) = [res |-> 0, buf |-> <<>>]
      BY <2>2 DEF ReadBuf
    <3>3. pgfuse_readlink(size + 1) = [res |-> 0, buf |-> Append(<<>>, 0)]
      BY <2>2, <3>2 DEF pgfuse_readlink, EIO
    <3>4. Expected(0, size).buf = <<>>
      BY <2>2 DEF Expected
    <3> QED
      BY <3>1, <3>3, <3>4
  <2>3. CASE size # 0
    <3>1. 3 * PageSize \in Nat /\ size + 3 * PageSize \in Nat /\ Fits(0, size + 3 * PageSize)
      BY <2>1, <2>3 DEF SizeInv
    <3>2. size + 3 * PageSize < SizeMod
      <4>1. 0 % BS = 0
        BY <2>1
      <4> QED
        BY <3>1, <4>1 DEF Fits
    <3>3. Fits(0, size)
      <4>1. size <= size + 3 * PageSize
        BY <2>1
      <4> QED
        BY <2>1, <3>1, <4>1, LessFits
    <3>4. \A m \in DOMAIN data : DbBlockNo(m) \in {0, m}
      BY <3>3, RowNumbers
    <3>5. ASSUME NEW p \in 0 .. size, NEW k \in 1 .. 3, p * PageSize < size
          PROVE  ReadBuf(p * PageSize, k * PageSize) = Expected(p * PageSize, k * PageSize)
      <4> DEFINE offset == p * PageSize
                 len == k * PageSize
                 m == PageSize \div BS
      <4>1. offset \in Nat /\ len \in Nat \ {0} /\ len <= 3 * PageSize /\ offset < size
        BY <2>1, <3>5
      <4>2. m \in Nat /\ PageSize = BS * m
        BY <2>1, DivMod
      <4>3. offset % BS = 0
        <5> HIDE DEF m
        <5>1. p * m \in Nat /\ (p * m) * BS = offset
          BY <2>1, <4>2
        <5> DEFINE x == p * m
        <5>2. x \in Nat /\ x * BS + 1 - 1 = offset /\ 1 \in 1 .. BS
          BY <2>1, <4>1, <5>1
        <5> HIDE DEF x, offset
        <5>3. 1 + ((x * BS + 1 - 1) % BS) = 1
          BY <5>2, BlockOf
        <5>4. 1 + (offset % BS) = 1
          BY ONLY <5>2, <5>3
        <5>5. offset % BS \in Nat
          BY <2>1, <4>1, DivMod
        <5> QED
          BY <5>4, <5>5
      <4> HIDE DEF offset, len
      <4>4. offset + len < SizeMod
        BY <2>1, <3>1, <3>2, <4>1
      <4>5. ReadBuf(offset, len) = Expected(offset, len)
        BY <3>3, <3>4, <4>1, <4>3, <4>4, DenseRead
      <4> QED
        BY <4>5 DEF offset, len
    <3>6. \A r \in PageReads : ReadBuf(r[1], r[2]) = Expected(r[1], r[2])
      BY <3>5 DEF PageReads
    <3>7. ReadBuf(0, size) = Expected(0, size)
      <4>1. 0 \in Nat /\ size \in Nat \ {0} /\ 0 % BS = 0 /\ 0 < size /\ 0 + size < SizeMod
        BY <2>1, <2>3, <3>1, <3>2
      <4> QED
        BY <3>3, <3>4, <4>1, DenseRead
    <3>8. Expected(0, size).res = size
      BY <2>1, <2>3 DEF Expected
    <3>9. size # EIO /\ ~(size + 1 < size + 1)
      BY <2>1 DEF EIO
    <3>10. pgfuse_readlink(size + 1) = [res |-> 0, buf |-> Append(Expected(0, size).buf, 0)]
      BY <3>7, <3>8, <3>9 DEF pgfuse_readlink
    <3> QED
      BY <3>6, <3>10
  <2> QED
    BY <2>2, <2>3
<1> QED
  BY <1>1, FileInvariant, SizeFits, PTL

(* Quotient and remainder are the only numbers of their kind. *)
LEMMA DivModUnique ==
  ASSUME NEW a \in Int, NEW d \in Nat \ {0}, NEW q \in Int, NEW r \in 0 .. d - 1, a = d * q + r
  PROVE  a \div d = q /\ a % d = r
<1> DEFINE p == a \div d
           s == a % d
<1>1. p \in Int /\ s \in 0 .. d - 1 /\ a = d * p + s
  OBVIOUS
<1> HIDE DEF p, s
<1>2. CASE p >= q + 1
  <2>1. d * p >= d * (q + 1) /\ d * (q + 1) = d * q + d
    BY <1>1, <1>2
  <2> QED
    BY <1>1, <2>1
<1>3. CASE q >= p + 1
  <2>1. d * q >= d * (p + 1) /\ d * (p + 1) = d * p + d
    BY <1>1, <1>3
  <2> QED
    BY <1>1, <2>1
<1>4. p = q
  BY <1>1, <1>2, <1>3
<1>5. d * p = d * q
  BY <1>4
<1> QED
  BY <1>1, <1>4, <1>5 DEF p, s

(* The blocks of a range behind the end whose length has wrapped around:   *)
(* there are none.                                                         *)
LEMMA WrappedRange ==
  ASSUME SizeMod % (BS * IntMod) = 0,
         NEW fb \in Nat \ {0}, fb < IntMod \div 2, NEW x \in Nat, x <= fb * BS
  PROVE  LET info == ComputeBlockInfo(fb * BS, ToSize(0 - x)) IN
         /\ info.from_block = fb
         /\ info.to_block < fb
         /\ ToSize(0 - x) = 0 <=> x = 0
<1> DEFINE offset == fb * BS
           n == ToSize(0 - x)
           info == ComputeBlockInfo(offset, n)
           BI == BS * IntMod
           m == SizeMod \div BI
<1>1. /\ BS \in Nat \ {0} /\ IntMod \in Nat \ {0} /\ SizeMod \in Nat \ {0} /\ offset \in Nat
      /\ IntMod \div 2 \in Nat /\ IntMod - IntMod \div 2 >= IntMod \div 2
  BY BlockInfoAssumption DEF BlockInfoAssumption
<1>2. offset \div BS = fb /\ offset % BS = 0
  <2>1. offset = BS * fb + 0 /\ 0 \in 0 .. BS - 1 /\ fb \in Int /\ offset \in Int
    BY <1>1
  <2> HIDE DEF offset
  <2> QED
    BY <1>1, <2>1, DivModUnique
<1>3. BI \in Nat \ {0} /\ m \in Nat /\ SizeMod = BI * m
  <2>1. BI \in Nat \ {0}
    BY <1>1
  <2> HIDE DEF BI
  <2>2. m \in Nat /\ SizeMod = BI * m + (SizeMod % BI)
    BY <1>1, <2>1, DivMod
  <2> QED
    BY <1>1, <2>1, <2>2 DEF BI
<1>4. m >= 1
  <2> HIDE DEF m, BI
  <2>1. m = 0 => BI * m = 0
    BY <1>3
  <2> QED
    BY <1>1, <1>3, <2>1
<1>5. /\ info.from_block = fb
      /\ LET nof_blocks == ToInt(ToSize(0 + n) \div BS)
             last == fb + nof_blocks
         IN info.to_block = IF ToSize(0 + n) % BS = 0
                            THEN IF last - 1 < 0 THEN 0 ELSE last - 1 ELSE last
  BY <1>2 DEF ComputeBlockInfo
<1> HIDE DEF info, m, BI
<1>6. CASE x = 0
  <2>1. n = 0 /\ ToSize(0 + n) = 0
    BY <1>1, <1>6, SmallMod DEF ToSize
  <2>2. 0 \div BS = 0 /\ 0 % BS = 0
    BY <1>1
  <2>3. ToInt(0) = 0
    <3>1. 0 % IntMod = 0 /\ 0 < IntMod \div 2
      BY <1>1
    <3> QED
      BY <3>1 DEF ToInt
  <2>4. info.to_block = IF fb + 0 - 1 < 0 THEN 0 ELSE fb + 0 - 1
    BY <1>5, <2>1, <2>2, <2>3
  <2> QED
    BY <1>5, <1>6, <2>1, <2>4 DEF info
<1>7. CASE x # 0
  <2> DEFINE c == (x + BS - 1) \div BS
             s == BS * c - x
  <2>1. c \in Nat /\ s \in 0 .. BS - 1 /\ x = BS * c - s
    <3> DEFINE y == x + BS - 1
    <3>1. y \in Nat
      BY <1>1
    <3>2. y \div BS \in Nat /\ y % BS \in 0 .. BS - 1 /\ y = BS * (y \div BS) + (y % BS)
      BY <1>1, <3>1, DivMod
    <3>3. c \in Nat /\ y = BS * c + (y % BS) /\ BS * c \in Nat
      BY <1>1, <3>2
    <3> HIDE DEF c
    <3>4. y = x + BS - 1
      OBVIOUS
    <3> DEFINE z == y % BS
    <3>5. z \in 0 .. BS - 1 /\ y = BS * c + z
      BY <3>2, <3>3
    <3> HIDE DEF y, z
    <3> QED
      BY <1>1, <3>3, <3>4, <3>5
  <2> HIDE DEF c, s
  <2>2. c >= 1 /\ c <= fb
    <3>1. c = 0 => BS * c = 0
      BY <1>1
    <3>2. c >= fb + 1 => BS * c >= BS * (fb + 1)
      BY <1>1, <2>1
    <3>3. BS * (fb + 1) = offset + BS
      BY <1>1
    <3>4. BS * c \in Nat
      BY <1>1, <2>1
    <3> HIDE DEF offset
    <3>5. x <= offset
      BY DEF offset
    <3> QED
      BY <1>1, <1>7, <2>1, <3>1, <3>2, <3>3, <3>4, <3>5
  <2> DEFINE w == IntMod * m - c
  <2>3. w \in Nat /\ SizeMod = BS * (IntMod * m) /\ IntMod * m \in Nat
    <3>1. IntMod * m >= IntMod * 1 /\ IntMod * m \in Nat
      BY <1>1, <1>3, <1>4
    <3>2. BI * m = BS * (IntMod * m)
      BY <1>1, <1>3 DEF BI
    <3> QED
      BY <1>1, <1>3, <2>1, <2>2, <3>1, <3>2
  <2>4. SizeMod - x = BS * w + s
    <3>1. BS * w = BS * (IntMod * m) - BS * c
      BY <1>1, <2>1, <2>3
    <3>2. BS * c \in Nat /\ BS * (IntMod * m) \in Nat
      BY <1>1, <2>1, <2>3
    <3> DEFINE bw == BS * w
               bc == BS * c
               bm == BS * (IntMod * m)
    <3>3. /\ bw = bm - bc /\ bc \in Nat /\ bm \in Nat /\ SizeMod = bm
          /\ x = bc - s /\ s \in Int
      BY <1>1, <2>1, <2>3, <3>1, <3>2
    <3> HIDE DEF w, bw, bc, bm
    <3>4. SizeMod - x = bw + s
      BY ONLY <3>3
    <3> QED
      BY <3>4 DEF bw
  <2> HIDE DEF w
  <2>5. SizeMod - x \in 0 .. SizeMod - 1 /\ SizeMod - x # 0
    <3>1. BS * w \in Nat
      BY <1>1, <2>3
    <3>2. w >= 1 => BS * w >= 1
      BY <1>1, <2>3
    <3>3. w >= 1
      <4>1. IntMod * m >= IntMod * 1
        BY <1>1, <1>3, <1>4
      <4> QED
        BY <1>1, <2>1, <2>2, <2>3, <4>1 DEF w
    <3> QED
      BY <1>1, <1>7, <2>1, <2>4, <3>1, <3>2, <3>3
  <2>6. n = SizeMod - x /\ ToSize(0 + n) = n
    <3> DEFINE a == 0 - x
    <3>1. a \in Int /\ a = SizeMod * (0 - 1) + (SizeMod - x) /\ 0 - 1 \in Int
      BY <1>1
    <3> HIDE DEF a
    <3>2. a % SizeMod = SizeMod - x
      BY <1>1, <2>5, <3>1, DivModUnique
    <3>3. n = SizeMod - x
      BY <3>2 DEF ToSize, a
    <3>4. 0 + n = n /\ n \in Nat /\ n < SizeMod
      <4> HIDE DEF n
      <4> QED
        BY <1>1, <2>5, <3>3
    <3> HIDE DEF n
    <3> QED
      BY <1>1, <3>3, <3>4, SmallMod DEF ToSize
  <2> HIDE DEF n
  <2>7. n \div BS = w /\ n % BS = s
    <3>1. n \in Int /\ n = BS * w + s /\ w \in Int
      BY <1>1, <2>1, <2>3, <2>4, <2>5, <2>6
    <3> QED
      BY <1>1, <2>1, <3>1, DivModUnique
  <2>8. ToInt(w) = 0 - c
    <3>1. w = IntMod * (m - 1) + (IntMod - c) /\ m - 1 \in Int /\ w \in Int
      <4>1. IntMod * (m - 1) = IntMod * m - IntMod
        BY <1>1, <1>3
      <4> QED
        BY <1>1, <1>3, <2>1, <2>3, <4>1 DEF w
    <3>2. IntMod - c \in 0 .. IntMod - 1 /\ ~(IntMod - c < IntMod \div 2)
      BY <1>1, <2>1, <2>2
    <3>3. w % IntMod = IntMod - c
      BY <1>1, <3>1, <3>2, DivModUnique
    <3>4. (IntMod - c) - IntMod = 0 - c
      BY <1>1, <2>1
    <3> QED
      BY <3>2, <3>3, <3>4 DEF ToInt
  <2>9. info.to_block < fb
    <3> DEFINE e == ToSize(0 + n)
               last == fb + ToInt(e \div BS)
               t == info.to_block
    <3>1. t = IF e % BS = 0 THEN IF last - 1 < 0 THEN 0 ELSE last - 1 ELSE last
      BY <1>5
    <3>2. e = n
      BY <2>6
    <3> HIDE DEF e
    <3>3. last = fb - c /\ last \in Int /\ last < fb
      BY <2>1, <2>2, <2>7, <2>8, <3>2
    <3> HIDE DEF last, t
    <3>4. t \in {0, last - 1, last}
      BY <3>1
    <3> QED
      BY <3>3, <3>4 DEF t
  <2> QED
    BY <1>5, <1>7, <2>5, <2>6, <2>9 DEF info, n
<1> QED
  BY <1>6, <1>7 DEF info, offset

(* A read of pages behind the end of a file that another mount has cut is  *)
(* refused or empty, for every block size that divides the page size and   *)
(* the range of size_t: psql_read_buf subtracts in unsigned arithmetic,    *)
(* but what that leaves has no blocks.                                     *)
THEOREM StaleReadsFindNothing ==
  ASSUME SizeMod % (BS * IntMod) = 0
  PROVE  Spec => []StaleReadsAreRefused
<1>1. FileInv => StaleReadsAreRefused
  <2> SUFFICES ASSUME FileInv, PageSize % BS = 0,
                      NEW p \in 0 .. size + PageSize, NEW k \in 1 .. 3,
                      p * PageSize >= size, Fits(0, (p + k) * PageSize)
               PROVE  ReadBuf(p * PageSize, k * PageSize).res \in {0, EIO}
    BY DEF StaleReadsAreRefused
  <2> DEFINE offset == p * PageSize
             len == k * PageSize
             g == PageSize \div BS
             fb == p * g
             x == offset - size
             n == ReadLen(offset, len)
             info == ComputeBlockInfo(offset, n)
  <2>1. /\ BS \in Nat \ {0} /\ size \in Nat /\ SizeMod \in Nat \ {0} /\ PageSize \in Nat \ {0}
        /\ p \in Nat /\ offset \in Nat /\ len \in Nat \ {0} /\ offset >= size
        /\ (p + k) * PageSize = offset + len /\ IntMod \div 2 \in Nat
    BY BlockInfoAssumption, FileDataAssumption, SMTT(30)
       DEF BlockInfoAssumption, FileDataAssumption, FileInv, TypeOK
  <2>2. CASE size = 0
    BY <2>2 DEF ReadBuf
  <2>3. CASE size # 0
    <3>1. g \in Nat /\ PageSize = BS * g
      <4>1. g \in Nat /\ PageSize = BS * g + (PageSize % BS)
        BY ONLY <2>1, DivMod
      <4>2. BS * g \in Nat
        BY <2>1, <4>1
      <4> HIDE DEF g
      <4> QED
        BY <4>1, <4>2
    <3>2. fb \in Nat /\ offset = fb * BS /\ offset = BS * fb + 0
      <4> HIDE DEF g
      <4> QED
        BY <2>1, <3>1
    <3>3. fb # 0
      <4> HIDE DEF fb, offset
      <4>1. fb = 0 => fb * BS = 0
        BY <2>1
      <4> QED
        BY <2>1, <2>3, <3>2, <4>1
    <3>4. 0 % BS = 0 /\ offset + len < SizeMod /\ (offset + len) \div BS < IntMod \div 2
      BY <2>1 DEF Fits
    <3>5. offset \div BS = fb
      <4> HIDE DEF fb, offset
      <4>1. 0 \in 0 .. BS - 1 /\ fb \in Int /\ offset \in Int
        BY <2>1, <3>2
      <4> QED
        BY <2>1, <3>2, <4>1, DivModUnique
    <3> HIDE DEF fb, offset, len
    <3>6. fb < IntMod \div 2
      <4>1. offset \div BS <= (offset + len) \div BS /\ (offset + len) \div BS \in Nat
        <5> DEFINE e == offset + len
        <5>1. e \in Nat /\ offset <= e
          BY <2>1
        <5> HIDE DEF e
        <5>2. offset \div BS <= e \div BS /\ e \div BS \in Nat
          BY <2>1, <5>1, DivMonotone, DivMod
        <5> QED
          BY <5>2 DEF e
      <4> QED
        BY <2>1, <3>2, <3>4, <3>5, <4>1
    <3>7. x \in Nat /\ x <= fb * BS /\ size - offset = 0 - x
      BY <2>1, <3>2
    <3>8. n = ToSize(0 - x)
      <4>1. ToSize(offset + len) = offset + len
        BY <2>1, <3>4, SmallMod DEF ToSize
      <4>2. offset + len > size
        BY <2>1
      <4> HIDE DEF x
      <4> QED
        BY <3>7, <4>1, <4>2 DEF ReadLen
    <3> DEFINE y == ComputeBlockInfo(fb * BS, ToSize(0 - x))
    <3>9. y.from_block = fb /\ y.to_block < fb
      <4> HIDE DEF x
      <4> QED
        BY <3>2, <3>3, <3>6, <3>7, WrappedRange
    <3>10. info = y
      BY <3>2, <3>8
    <3>11. info.from_block = fb /\ info.to_block < fb
      BY <3>9, <3>10
    <3>12. ~(info.to_block >= info.from_block) /\ info.to_block < info.from_block
      <4>1. info.to_block \in Int
        <5>1. ToSize(0 - x) \in Nat
          <6>1. (0 - x) \in Int
            BY <3>7, SMTT(30)
          <6> HIDE DEF x
          <6> QED
            BY <2>1, <6>1 DEF ToSize
        <5> HIDE DEF n
        <5> QED
          BY <2>1, <3>8, <5>1, InfoTypes
      <4> HIDE DEF info
      <4> QED
        BY <3>2, <3>11, <4>1
    <3>13. ReadBuf(offset, len).res = IF 0 # n THEN EIO ELSE n
      BY ONLY <2>3, <3>12 DEF ReadBuf
    <3> HIDE DEF n
    <3> QED
      BY <3>13 DEF offset, len
  <2> QED
    BY <2>2, <2>3
<1> QED
  BY <1>1, FileInvariant, PTL
=============================================================================
