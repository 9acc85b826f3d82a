---------------------------- MODULE MountProofs -----------------------------
(***************************************************************************)
(* That the check of the block size when mounting is enough, and that no   *)
(* write-back of a row changes its times, for all block sizes, mounts and  *)
(* times.                                                                  *)
(***************************************************************************)
EXTENDS Mount, TLAPS

(* A number is put together again from its quotient and its remainder. *)
LEMMA QuotientRemainder ==
  ASSUME NEW a \in Nat, NEW b \in Nat \ {0}
  PROVE  /\ a \div b \in Nat
         /\ a % b \in 0 .. b - 1
         /\ a = b * (a \div b) + (a % b)
  OBVIOUS

(* Quotient and remainder are those a number was put together from. *)
LEMMA PutTogether ==
  ASSUME NEW q \in Nat, NEW b \in Nat \ {0}, NEW r \in 0 .. b - 1
  PROVE  /\ q * b + r \in Nat
         /\ (q * b + r) \div b = q
         /\ (q * b + r) % b = r
  OBVIOUS

(* A number below the modulus is its own remainder. *)
LEMMA BelowModulus ==
  ASSUME NEW a \in Nat, NEW m \in Nat \ {0}, a < m
  PROVE  a % m = a
  OBVIOUS

(* Reading a time and writing it back, as pgfuse_open and every other      *)
(* handler with psql_write_meta does, stores the same 64 bits, those of    *)
(* times before the year 2000 included.                                    *)
THEOREM WriteBackExact ==
  ASSUME NEW raw \in Raw
  PROVE  ToTimestamp(FromTimestamp(raw)) = raw
<1> USE TimestampAssumption DEF TimestampAssumption
<1> DEFINE q == raw \div MICRO
           r == raw % MICRO
<1>1. raw \in Nat /\ raw < WordMod
  BY DEF Raw
<1>2. q \in Nat /\ r \in Nat /\ raw = MICRO * q + r
  BY <1>1, QuotientRemainder
<1>3. (r * NANO) \div NANO = r
  BY <1>2, PutTogether
<1>4. ToTimestamp(FromTimestamp(raw)) = (((EPOCH + q) - EPOCH) * MICRO + (r * NANO) \div NANO) % WordMod
  BY DEF ToTimestamp, FromTimestamp
<1> HIDE DEF q, r
<1>5. ((EPOCH + q) - EPOCH) * MICRO + (r * NANO) \div NANO = raw
  BY <1>2, <1>3
<1> QED
  BY <1>1, <1>4, <1>5, BelowModulus

(* A time from the year 2000 on that PostgreSQL can hold comes back to the *)
(* microsecond, so that pgfuse_getattr shows the seconds pgfuse_utimens    *)
(* was given.                                                              *)
THEOREM SetTimeComesBack ==
  ASSUME NEW t \in Timespec, t.sec >= EPOCH,
         (t.sec - EPOCH + 1) * MICRO <= WordMod
  PROVE  /\ FromTimestamp(ToTimestamp(t)).sec = t.sec
         /\ FromTimestamp(ToTimestamp(t)).nsec = (t.nsec \div NANO) * NANO
<1> USE TimestampAssumption DEF TimestampAssumption
<1> DEFINE s == t.sec - EPOCH
           n == t.nsec \div NANO
<1>1. s \in Nat /\ t.sec \in Int /\ t.nsec \in Nat /\ t.nsec < MICRO * NANO
  BY DEF Timespec
<1>2. n \in 0 .. MICRO - 1
  <2> DEFINE x == t.nsec
  <2>1. x \in Nat
    BY <1>1
  <2> HIDE DEF x
  <2>2. /\ x \div NANO \in Nat
        /\ x % NANO \in 0 .. NANO - 1
        /\ x = NANO * (x \div NANO) + (x % NANO)
    BY <2>1, QuotientRemainder
  <2>3. n \in Nat /\ t.nsec = NANO * n + (t.nsec % NANO) /\ t.nsec % NANO \in Nat
    BY <2>2 DEF x
  <2> HIDE DEF n
  <2>4. ASSUME n >= MICRO PROVE FALSE
    <3>1. NANO * n >= NANO * MICRO
      BY <2>3, <2>4
    <3> QED
      BY <3>1, <2>3, <1>1
  <2> QED
    BY <2>3, <2>4
<1>3. ToTimestamp(t) = (s * MICRO + n) % WordMod
  BY DEF ToTimestamp
<1>4. (s + 1) * MICRO <= WordMod
  OBVIOUS
<1>5. t.sec = EPOCH + s
  BY <1>1
<1> HIDE DEF s, n
<1>6. s * MICRO + n \in Nat /\ s * MICRO + n < WordMod
  BY <1>1, <1>2, <1>4
<1>7. ToTimestamp(t) = s * MICRO + n
  BY <1>3, <1>6, BelowModulus
<1>8. (s * MICRO + n) \div MICRO = s /\ (s * MICRO + n) % MICRO = n
  BY <1>1, <1>2, PutTogether
<1>9. FromTimestamp(ToTimestamp(t)) = [sec |-> EPOCH + s, nsec |-> n * NANO]
  BY <1>7, <1>8 DEF FromTimestamp
<1> QED
  BY <1>5, <1>9 DEF n

-----------------------------------------------------------------------------
MntType == mnt \in [Mnt -> [read_only : BOOLEAN, block_size : BlockSize] \cup {NONE}]

(* Writing into a block that has the block size of the mount, or cutting   *)
(* it, leaves a block of that size.                                        *)
LEMMA LengthIsKept ==
  ASSUME NEW bs \in Nat \ {0}, NEW n \in Nat
  PROVE  /\ \A offset \in Nat : offset + n <= bs => WrittenLen(bs, offset, n, bs) = bs
         /\ n <= bs => PaddedLen(bs, n, bs) = bs
  BY DEF WrittenLen, PaddedLen, Least

(* Without a step of Mounting the mounts stay as they are. *)
LEMMA HandlersKeepMounts ==
  ASSUME NEW m \in Mnt, Handlers(m)
  PROVE  UNCHANGED mnt
  BY Zenon DEF Handlers, pgfuse_create, pgfuse_unlink, pgfuse_open, pgfuse_chmod,
         pgfuse_chown, pgfuse_utimens, pgfuse_write, pgfuse_truncate

(* A handler leaves no block, leaves the block as it was, or leaves one    *)
(* that has the block size of its mount, if the one before had.            *)
LEMMA HandlersKeepLength ==
  ASSUME NEW m \in Mnt, Handlers(m), MntType, mnt[m] # NONE => blk \in {0, mnt[m].block_size}
  PROVE  /\ mnt[m] # NONE
         /\ blk' \in {0, blk, mnt[m].block_size}
<1> DEFINE bs == mnt[m].block_size
<1>1. ASSUME mnt[m] # NONE PROVE bs \in Nat \ {0}
  BY <1>1, MountAssumption DEF MountAssumption, MntType
<1>2. CASE \E b \in BlockSize : \E offset, n \in 0 .. b : pgfuse_write(m, offset, n)
  <2>1. PICK b \in BlockSize : \E offset, n \in 0 .. b : pgfuse_write(m, offset, n)
    BY <1>2
  <2>2. PICK offset \in 0 .. b, n \in 0 .. b : pgfuse_write(m, offset, n)
    BY <2>1
  <2>3. offset \in Nat /\ n \in Nat
    BY <2>2, MountAssumption DEF MountAssumption
  <2>4. mnt[m] # NONE /\ offset + n <= bs
    BY <2>2 DEF pgfuse_write, On, Up
  <2>5. (IF blk = 0 THEN bs ELSE blk) = bs
    BY <2>4
  <2>6. blk' = WrittenLen(bs, offset, n, bs)
    BY <2>2, <2>5 DEF pgfuse_write
  <2> QED
    BY <1>1, <2>3, <2>4, <2>6, LengthIsKept
<1>3. CASE \E b \in BlockSize : \E n \in 0 .. b : pgfuse_truncate(m, n)
  <2>1. PICK n : pgfuse_truncate(m, n)
    BY <1>3
  <2>2. mnt[m] # NONE /\ n \in 0 .. bs
    BY <2>1 DEF pgfuse_truncate, On, Up
  <2>3. n \in Nat /\ n <= bs
    BY <1>1, <2>2
  <2>4. blk' = 0 \/ blk' = PaddedLen(bs, n, bs)
    BY <2>1, <2>2 DEF pgfuse_truncate
  <2> QED
    BY <1>1, <2>2, <2>3, <2>4, LengthIsKept, SMTT(30)
<1> QED
  BY <1>2, <1>3, Zenon DEF Handlers, pgfuse_create, pgfuse_unlink, pgfuse_open,
     pgfuse_chmod, pgfuse_chown, pgfuse_utimens, On, Up

-----------------------------------------------------------------------------
(* The inductive invariant: unless mixed, there is one block size, that of *)
(* the mounts and of the block.                                            *)
BlockInv == MntType /\ BlockSizesAgree

(* main compares the block size with the block only, and so it is the one  *)
(* of all other mounts if there is a block; if there is none and another   *)
(* mount has another block size, the step makes mixed true.                *)
LEMMA MountingKeepsBlockInv ==
  ASSUME NEW m \in Mnt, Mounting(m), BlockInv, mixed' = (mixed \/ Differ)
  PROVE  BlockInv'
<1>1. CASE Unmount(m)
  BY <1>1 DEF Unmount, BlockInv, MntType, BlockSizesAgree, Up
<1>2. ASSUME NEW read_only \in BOOLEAN, NEW connected \in BOOLEAN,
             NEW integer_datetimes \in BOOLEAN, NEW block_size \in BlockSize,
             main(m, read_only, block_size, connected, integer_datetimes)
      PROVE  BlockInv'
  <2>1. blk' = blk
    BY <1>2 DEF main
  <2>2. MntType'
    BY <1>2 DEF main, BlockInv, MntType
  <2>3. \A n \in Mnt : n # m => mnt'[n] = mnt[n]
    BY <1>2 DEF main, BlockInv, MntType
  <2>4. mnt'[m] # NONE => mnt'[m].block_size = block_size /\ blk \in {0, block_size}
    BY <1>2 DEF main, BlockInv, MntType, psql_get_block_size
  <2>5. ASSUME ~mixed' PROVE BlockSizesAgree'
    <3>1. ~mixed /\ ~Differ
      BY <2>5
    <3>2. \A n \in Mnt : mnt'[n] # NONE => blk' \in {0, mnt'[n].block_size}
      BY <2>1, <2>3, <2>4, <3>1 DEF BlockInv, BlockSizesAgree, Up
    <3>3. \A n, k \in Mnt : mnt'[n] # NONE /\ mnt'[k] # NONE =>
            mnt'[n].block_size = mnt'[k].block_size
      BY <3>1, <3>2 DEF Differ
    <3> QED
      BY <3>2, <3>3 DEF BlockSizesAgree, Up
  <2> QED
    BY <2>2, <2>5 DEF BlockInv, BlockSizesAgree
<1> QED
  BY <1>1, <1>2 DEF Mounting

(* The check of the block size in main holds for the life of the mount:    *)
(* every block has the block size of every mount, unless two mounts with   *)
(* different block sizes have met an empty table.                          *)
THEOREM BlockSizeCheckIsEnough == Spec => []BlockSizesAgree
<1>1. Init => BlockInv
  BY DEF Init, BlockInv, MntType, BlockSizesAgree, Up
<1>2. BlockInv /\ [Next]_vars => BlockInv'
  <2> SUFFICES ASSUME BlockInv, [Next]_vars PROVE BlockInv'
    OBVIOUS
  <2>1. CASE Next
    <3>1. mixed' = (mixed \/ Differ)
      BY <2>1 DEF Next
    <3>2. ASSUME Host PROVE BlockInv'
      BY <3>1, <3>2 DEF Host, BlockInv, MntType, BlockSizesAgree, Up
    <3>3. ASSUME NEW m \in Mnt, Handlers(m) PROVE BlockInv'
      <4>1. mnt' = mnt
        BY <3>3, HandlersKeepMounts
      <4>2. MntType'
        BY <4>1 DEF BlockInv, MntType
      <4>3. ASSUME ~mixed' PROVE BlockSizesAgree'
        <5>1. ~mixed
          BY <3>1, <4>3
        <5>2. mnt[m] # NONE => blk \in {0, mnt[m].block_size}
          BY <5>1 DEF BlockInv, BlockSizesAgree, Up
        <5>3. mnt[m] # NONE /\ blk' \in {0, blk, mnt[m].block_size}
          BY <3>3, <5>2, HandlersKeepLength DEF BlockInv
        <5> QED
          BY <4>1, <5>1, <5>3 DEF BlockInv, BlockSizesAgree, Up
      <4> QED
        BY <4>2, <4>3 DEF BlockInv, BlockSizesAgree
    <3> QED
      BY <2>1, <3>1, <3>2, <3>3, MountingKeepsBlockInv, SMTT(30) DEF Next
  <2>2. CASE UNCHANGED vars
    BY <2>2 DEF vars, BlockInv, MntType, BlockSizesAgree, Up
  <2> QED
    BY <2>1, <2>2
<1>3. BlockInv => BlockSizesAgree
  BY DEF BlockInv
<1> QED
  BY <1>1, <1>2, <1>3, PTL DEF Spec

-----------------------------------------------------------------------------
(* What psql_write_meta stores is 64 bits. *)
LEMMA StoredType ==
  ASSUME NEW t \in Timespec
  PROVE  ToTimestamp(t) \in Raw
<1> USE TimestampAssumption DEF TimestampAssumption
<1>1. t.sec - EPOCH \in Int /\ t.nsec \div NANO \in Int
  BY DEF Timespec
<1> DEFINE s == t.sec - EPOCH
           x == s * MICRO + t.nsec \div NANO
<1> HIDE DEF s
<1>2. x \in Int
  BY <1>1 DEF s
<1> HIDE DEF x
<1>3. x % WordMod \in 0 .. WordMod - 1
  BY <1>2
<1> QED
  BY <1>3 DEF ToTimestamp, Raw, x, s

(* The inductive invariant: the row has the types of its columns, and its  *)
(* times are those that were set, converted.                               *)
TimeInv ==
  file # NONE =>
    /\ file \in Attr(Raw)
    /\ set \in Attr(Time)
    /\ file.ctime = ToTimestamp(set.ctime)
    /\ file.mtime = ToTimestamp(set.mtime)
    /\ file.atime = ToTimestamp(set.atime)

(* A row that is read and written back is what it was. *)
LEMMA WriteBack ==
  ASSUME file \in Attr(Raw), WriteMeta(ReadMeta)
  PROVE  file' = file
  BY WriteBackExact, Zenon DEF Attr, WriteMeta, ReadMeta

(* ... but for what the handler has set in between. *)
LEMMA WriteBackMode ==
  ASSUME file \in Attr(Raw), NEW mode \in Mode, WriteMeta([ReadMeta EXCEPT !.mode = mode])
  PROVE  file' = [file EXCEPT !.mode = mode]
  BY WriteBackExact, Zenon DEF Attr, WriteMeta, ReadMeta

LEMMA WriteBackSize ==
  ASSUME file \in Attr(Raw), NEW size \in Nat, WriteMeta([ReadMeta EXCEPT !.size = size])
  PROVE  file' = [file EXCEPT !.size = size]
  BY WriteBackExact, Zenon DEF Attr, WriteMeta, ReadMeta

LEMMA WriteBackOwner ==
  ASSUME file \in Attr(Raw), NEW uid, NEW gid,
         WriteMeta([ReadMeta EXCEPT !.uid = uid, !.gid = gid])
  PROVE  file' = [file EXCEPT !.uid = uid, !.gid = gid]
  BY WriteBackExact, Zenon DEF Attr, WriteMeta, ReadMeta

LEMMA WriteBackTimes ==
  ASSUME file \in Attr(Raw), NEW atime \in Time, NEW mtime \in Time,
         WriteMeta([ReadMeta EXCEPT !.atime = atime, !.mtime = mtime])
  PROVE  file' = [file EXCEPT !.atime = ToTimestamp(atime), !.mtime = ToTimestamp(mtime)]
  BY WriteBackExact, Zenon DEF Attr, WriteMeta, ReadMeta

(* The handlers that write back a row keep its times, or set them. *)
LEMMA HandlersKeepTimes ==
  ASSUME NEW m \in Mnt, Handlers(m), TimeInv
  PROVE  TimeInv'
<1> USE MountAssumption DEF MountAssumption
<1>1. ASSUME NEW mode \in Mode, NEW uid \in Uid, NEW gid \in Uid, NEW t \in Now,
             pgfuse_create(m, mode, uid, gid, t)
      PROVE  TimeInv'
  <2>1. t \in Time /\ ToTimestamp(t) \in Raw
    BY StoredType
  <2>2. set' = [size |-> 0, mode |-> mode, uid |-> uid, gid |-> gid,
                ctime |-> t, mtime |-> t, atime |-> t]
    BY <1>1 DEF pgfuse_create
  <2>3. file' = [size |-> 0, mode |-> mode, uid |-> uid, gid |-> gid, ctime |-> ToTimestamp(t),
                 mtime |-> ToTimestamp(t), atime |-> ToTimestamp(t)]
    BY <1>1 DEF pgfuse_create, WriteMeta
  <2> QED
    BY <2>1, <2>2, <2>3 DEF TimeInv, Attr
<1>2. CASE pgfuse_unlink(m)
  BY <1>2 DEF pgfuse_unlink, TimeInv
<1>3. ASSUME NEW rdonly \in BOOLEAN, pgfuse_open(m, rdonly)
      PROVE  TimeInv'
  <2>1. file # NONE /\ WriteMeta(ReadMeta) /\ set' = set
    BY <1>3 DEF pgfuse_open, On
  <2> QED
    BY <2>1, WriteBack DEF TimeInv
<1>4. ASSUME NEW mode \in Mode, pgfuse_chmod(m, mode)
      PROVE  TimeInv'
  <2>1. /\ file # NONE /\ WriteMeta([ReadMeta EXCEPT !.mode = mode])
        /\ set' = [set EXCEPT !.mode = mode]
    BY <1>4, Zenon DEF pgfuse_chmod, On
  <2>2. file' = [file EXCEPT !.mode = mode]
    BY <2>1, WriteBackMode DEF TimeInv
  <2> QED
    BY <2>1, <2>2 DEF TimeInv, Attr
<1>5. ASSUME NEW uid \in Uid \cup {-1}, NEW gid \in Uid \cup {-1}, pgfuse_chown(m, uid, gid)
      PROVE  TimeInv'
  <2> DEFINE u == IF uid = -1 THEN NONE ELSE uid
             g == IF gid = -1 THEN NONE ELSE gid
  <2>1. /\ file # NONE /\ WriteMeta([ReadMeta EXCEPT !.uid = uid, !.gid = gid])
        /\ set' = [set EXCEPT !.uid = u, !.gid = g]
    BY <1>5, Zenon DEF pgfuse_chown, On
  <2>2. file' = [file EXCEPT !.uid = uid, !.gid = gid]
    BY <2>1, WriteBackOwner DEF TimeInv
  <2>3. u \in Uid \cup {-1, NONE} /\ g \in Uid \cup {-1, NONE}
    OBVIOUS
  <2> HIDE DEF u, g
  <2> QED
    BY <2>1, <2>2, <2>3 DEF TimeInv, Attr
<1>6. ASSUME NEW atime \in Time, NEW mtime \in Time, pgfuse_utimens(m, atime, mtime)
      PROVE  TimeInv'
  <2>1. /\ file # NONE /\ WriteMeta([ReadMeta EXCEPT !.atime = atime, !.mtime = mtime])
        /\ set' = [set EXCEPT !.atime = atime, !.mtime = mtime]
    BY <1>6, Zenon DEF pgfuse_utimens, On
  <2>2. file' = [file EXCEPT !.atime = ToTimestamp(atime), !.mtime = ToTimestamp(mtime)]
    BY <2>1, WriteBackTimes DEF TimeInv
  <2>3. ToTimestamp(atime) \in Raw /\ ToTimestamp(mtime) \in Raw
    BY StoredType
  <2> QED
    BY <2>1, <2>2, <2>3 DEF TimeInv, Attr
<1>7. ASSUME NEW size \in Nat, file # NONE, WriteMeta([ReadMeta EXCEPT !.size = size]),
             set' = [set EXCEPT !.size = size]
      PROVE  TimeInv'
  <2>1. file' = [file EXCEPT !.size = size]
    BY <1>7, WriteBackSize DEF TimeInv
  <2> QED
    BY <1>7, <2>1 DEF TimeInv, Attr
<1>8. ASSUME NEW b \in BlockSize, NEW offset \in 0 .. b, NEW n \in 0 .. b,
             pgfuse_write(m, offset, n)
      PROVE  TimeInv'
  <2> DEFINE size == IF offset + n > file.size THEN offset + n ELSE file.size
  <2>1. /\ file # NONE /\ WriteMeta([ReadMeta EXCEPT !.size = size])
        /\ set' = [set EXCEPT !.size = size]
    BY <1>8, Zenon DEF pgfuse_write, On
  <2>2. size \in Nat
    BY <2>1 DEF TimeInv, Attr
  <2> HIDE DEF size
  <2> QED
    BY <1>7, <2>1, <2>2
<1>9. ASSUME NEW b \in BlockSize, NEW n \in 0 .. b, pgfuse_truncate(m, n)
      PROVE  TimeInv'
  <2>1. /\ file # NONE /\ WriteMeta([ReadMeta EXCEPT !.size = n])
        /\ set' = [set EXCEPT !.size = n]
    BY <1>9, Zenon DEF pgfuse_truncate, On
  <2>2. n \in Nat
    BY SMTT(30)
  <2> QED
    BY <1>7, <2>1, <2>2, SMTT(30)
<1> QED
  BY <1>1, <1>2, <1>3, <1>4, <1>5, <1>6, <1>8, <1>9, SMTT(30) DEF Handlers

(* The times of a file are, to the last of their 64 bits, those of the     *)
(* last create or utimens, whatever handlers have written its row back     *)
(* since: for all times, those before the year 2000 included.              *)
THEOREM WriteBacksKeepTimes == Spec => []TimesAreKept
<1>1. Init => TimeInv
  BY DEF Init, TimeInv
<1>2. TimeInv /\ [Next]_vars => TimeInv'
  <2> SUFFICES ASSUME TimeInv, [Next]_vars PROVE TimeInv'
    OBVIOUS
  <2>1. ASSUME UNCHANGED <<file, set>> PROVE TimeInv'
    BY <2>1 DEF TimeInv
  <2>2. CASE Host
    BY <2>1, <2>2 DEF Host
  <2>3. ASSUME NEW m \in Mnt, Mounting(m) PROVE TimeInv'
    BY <2>1, <2>3 DEF Mounting, main, Unmount
  <2>4. CASE UNCHANGED vars
    BY <2>1, <2>4 DEF vars
  <2> QED
    BY <2>2, <2>3, <2>4, HandlersKeepTimes, SMTT(30) DEF Next
<1>3. TimeInv => TimesAreKept
  BY DEF TimeInv, TimesAreKept, ToTimestamp
<1> QED
  BY <1>1, <1>2, <1>3, PTL DEF Spec
=============================================================================
