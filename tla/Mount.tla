------------------------------- MODULE Mount --------------------------------
(***************************************************************************)
(* Mounting a database: main checks the server and the block size, then    *)
(* the handlers run with the options of their mount.  Several mounts of    *)
(* one database come and go.  Of the files there is one, with all columns  *)
(* of its row in dir and the length of its block; every handler that sets  *)
(* one column reads and writes back the others, through the conversions of *)
(* psql_read_meta and psql_write_meta.                                     *)
(***************************************************************************)
EXTENDS Timestamp, StatFs, TLC

CONSTANTS
  Mnt,        \* the processes that mount the database
  NONE,       \* no mount, no file, or an unknown value
  BlockSize,  \* values of the option blocksize
  Mode, Uid,  \* modes, and numbers of users and groups
  Time,       \* times, struct timespec
  Now         \* times the clock shows

ASSUME MountAssumption ==
  /\ NONE \notin Uid
  /\ BlockSize \subseteq Nat \ {0}
  /\ Time \subseteq Timespec
  /\ Now \subseteq Time

VARIABLES
  mnt,    \* mnt[m]: the options of mount m
  file,   \* the row of the file in dir
  blk,    \* the length of its block in data, 0 if there is none
  set,    \* history: what users have last set, NONE if that is not known
  mixed   \* history: mounts with different block sizes met an empty data

vars == <<mtab, catalog, mnt, file, blk, set, mixed>>

host == <<mtab, catalog>>

Up == {m \in Mnt : mnt[m] # NONE}

-----------------------------------------------------------------------------
(* Mutant of psql_get_block_size: the option is always right. *)
psql_get_block_size_any(block_size) == block_size

(* The length of any row of data; without rows, what the option says. *)
psql_get_block_size(block_size) == IF blk = 0 THEN block_size ELSE blk

(* main: there is a connection string, the server answers and has integer  *)
(* timestamps, or else it is not mounted; nor is it with another block size.*)
main(m, read_only, block_size, connected, integer_datetimes) ==
  /\ mnt[m] = NONE
  /\ mnt' = [mnt EXCEPT ![m] =
               IF connected /\ integer_datetimes /\ psql_get_block_size(block_size) = block_size
               THEN [read_only |-> read_only, block_size |-> block_size]
               ELSE NONE]
  /\ UNCHANGED <<host, file, blk, set>>

Unmount(m) ==
  /\ m \in Up
  /\ mnt' = [mnt EXCEPT ![m] = NONE]
  /\ UNCHANGED <<host, file, blk, set>>

(* psql_read_meta and psql_write_meta convert the times. *)
ReadMeta ==
  [file EXCEPT !.ctime = FromTimestamp(@), !.mtime = FromTimestamp(@), !.atime = FromTimestamp(@)]

WriteMeta(meta) ==
  file' = [meta EXCEPT !.ctime = ToTimestamp(@), !.mtime = ToTimestamp(@), !.atime = ToTimestamp(@)]

(* A handler of m on the file that is there. *)
On(m) == m \in Up /\ file # NONE

Writable(m) == ~mnt[m].read_only

(* pgfuse_create and psql_create_file; t is now( ). *)
pgfuse_create(m, mode, uid, gid, t) ==
  LET meta == [size |-> 0, mode |-> mode, uid |-> uid, gid |-> gid,
               ctime |-> t, mtime |-> t, atime |-> t]
  IN
  /\ m \in Up /\ Writable(m)
  /\ file = NONE
  /\ WriteMeta(meta)
  /\ set' = meta
  /\ UNCHANGED <<host, mnt, blk>>

(* pgfuse_unlink; rule dir_remove deletes the block. *)
pgfuse_unlink(m) ==
  /\ On(m) /\ Writable(m)
  /\ file' = NONE /\ blk' = 0 /\ set' = NONE
  /\ UNCHANGED <<host, mnt>>

(* pgfuse_open writes back what it has read. *)
pgfuse_open(m, rdonly) ==
  /\ On(m)
  /\ Writable(m) \/ rdonly
  /\ WriteMeta(ReadMeta)
  /\ UNCHANGED <<host, mnt, blk, set>>

pgfuse_chmod(m, mode) ==
  /\ On(m) /\ Writable(m)
  /\ WriteMeta([ReadMeta EXCEPT !.mode = mode])
  /\ set' = [set EXCEPT !.mode = mode]
  /\ UNCHANGED <<host, mnt, blk>>

(* FUSE passes -1 for the one that chown or chgrp is to leave alone, and   *)
(* that is stored like any other number.                                   *)
pgfuse_chown(m, uid, gid) ==
  /\ On(m) /\ Writable(m)
  /\ WriteMeta([ReadMeta EXCEPT !.uid = uid, !.gid = gid])
  /\ set' = [set EXCEPT !.uid = IF uid = -1 THEN NONE ELSE uid,
                        !.gid = IF gid = -1 THEN NONE ELSE gid]
  /\ UNCHANGED <<host, mnt, blk>>

(* There is no test of read_only in pgfuse_utimens. *)
pgfuse_utimens(m, atime, mtime) ==
  /\ On(m)
  /\ WriteMeta([ReadMeta EXCEPT !.atime = atime, !.mtime = mtime])
  /\ set' = [set EXCEPT !.atime = atime, !.mtime = mtime]
  /\ UNCHANGED <<host, mnt, blk>>

Least(x, y) == IF x < y THEN x ELSE y

(* The lengths of what psql_write_block and psql_truncate leave of a block *)
(* of length old, for the block size of their mount.                       *)
WrittenLen(old, offset, n, block_size) ==
  LET end == offset + n IN
  Least(old, offset) + n + (IF old > end THEN Least(old, block_size) - end ELSE 0)

PaddedLen(old, n, block_size) ==
  IF n = 0 THEN Least(old, block_size) ELSE Least(old, n) + block_size - n

(* pgfuse_write into the first block; a new block is made of zeros. *)
pgfuse_write(m, offset, n) ==
  LET bs   == mnt[m].block_size
      size == IF offset + n > file.size THEN offset + n ELSE file.size
  IN
  /\ On(m) /\ Writable(m)
  /\ n > 0 /\ offset + n <= bs
  /\ blk' = WrittenLen(IF blk = 0 THEN bs ELSE blk, offset, n, bs)
  /\ WriteMeta([ReadMeta EXCEPT !.size = size])
  /\ set' = [set EXCEPT !.size = size]
  /\ UNCHANGED <<host, mnt>>

(* pgfuse_truncate and pgfuse_ftruncate *)
pgfuse_truncate(m, n) ==
  /\ On(m) /\ Writable(m)
  /\ n \in 0 .. mnt[m].block_size
  /\ blk' = IF blk = 0 THEN 0 ELSE PaddedLen(blk, n, mnt[m].block_size)
  /\ WriteMeta([ReadMeta EXCEPT !.size = n])
  /\ set' = [set EXCEPT !.size = n]
  /\ UNCHANGED <<host, mnt>>

-----------------------------------------------------------------------------
Init ==
  /\ InitHost
  /\ mnt = [m \in Mnt |-> NONE]
  /\ file = NONE
  /\ blk = 0
  /\ set = NONE
  /\ mixed = FALSE

Host == (\E d \in MountDir : MountDisk(d) \/ UnmountDisk(d)) /\ UNCHANGED <<mnt, file, blk, set>>

Handlers(m) ==
  \/ \E mode \in Mode, uid, gid \in Uid, t \in Now : pgfuse_create(m, mode, uid, gid, t)
  \/ pgfuse_unlink(m)
  \/ \E rdonly \in BOOLEAN : pgfuse_open(m, rdonly)
  \/ \E mode \in Mode : pgfuse_chmod(m, mode)
  \/ \E uid, gid \in Uid \cup {-1} : pgfuse_chown(m, uid, gid)
  \/ \E atime, mtime \in Time : pgfuse_utimens(m, atime, mtime)
  \/ \E bs \in BlockSize : \E offset, n \in 0 .. bs : pgfuse_write(m, offset, n)
  \/ \E bs \in BlockSize : \E n \in 0 .. bs : pgfuse_truncate(m, n)

Mounting(m) ==
  \/ \E read_only, connected, integer_datetimes \in BOOLEAN, block_size \in BlockSize :
       main(m, read_only, block_size, connected, integer_datetimes)
  \/ Unmount(m)

(* Mounts with different block sizes, and no rows to compare them with. *)
Differ == blk' = 0 /\ \E m, n \in Mnt :
  mnt'[m] # NONE /\ mnt'[n] # NONE /\ mnt'[m].block_size # mnt'[n].block_size

Next ==
  /\ Host \/ \E m \in Mnt : Handlers(m) \/ Mounting(m)
  /\ mixed' = (mixed \/ Differ)

Spec == Init /\ [][Next]_vars

-----------------------------------------------------------------------------
(* The replies of pgfuse_getattr, with the seconds of the times, and of    *)
(* pgfuse_fgetattr, without times.                                         *)
pgfuse_fgetattr(m) ==
  LET bs == mnt[m].block_size IN
  [st_mode |-> ReadMeta.mode, st_uid |-> ReadMeta.uid, st_gid |-> ReadMeta.gid,
   st_size |-> ReadMeta.size, st_blksize |-> bs,
   st_blocks |-> (ReadMeta.size + bs - 1) \div bs]

pgfuse_getattr(m) ==
  [st_atime |-> ReadMeta.atime.sec, st_mtime |-> ReadMeta.mtime.sec,
   st_ctime |-> ReadMeta.ctime.sec] @@ pgfuse_fgetattr(m)

DirRows == IF file = NONE THEN 1 ELSE 2

DataRows == IF blk = 0 THEN 0 ELSE 1

-----------------------------------------------------------------------------
Attr(T) ==
  [size : Nat, mode : Mode, uid : Uid \cup {-1, NONE}, gid : Uid \cup {-1, NONE},
   ctime : T, mtime : T, atime : T]

TypeOK ==
  /\ mnt \in [Mnt -> [read_only : BOOLEAN, block_size : BlockSize] \cup {NONE}]
  /\ file \in Attr(Raw) \cup {NONE}
  /\ blk \in Nat
  /\ set \in Attr(Time) \cup {NONE}
  /\ mixed \in BOOLEAN
  /\ (file = NONE) = (set = NONE)

(***************************************************************************)
(* What pgfuse_getattr shows is what users have last set, through any      *)
(* number of handlers that read the row, convert it and write it back, on  *)
(* any mount: mode, size, owner and group, and the seconds of the times.   *)
(* Of owner and group those are left out that a chown was to leave alone,  *)
(* of times those before the year 2000: see pgfuse_chown and FromTimestamp.*)
(***************************************************************************)
GetattrShowsWhatWasSet ==
  \A m \in Up : file # NONE =>
    LET st == pgfuse_getattr(m)
        shows(sec, t) == t.sec >= EPOCH => sec = t.sec
    IN
    /\ st.st_mode = set.mode
    /\ st.st_size = set.size
    /\ set.uid # NONE => st.st_uid = set.uid
    /\ set.gid # NONE => st.st_gid = set.gid
    /\ shows(st.st_atime, set.atime)
    /\ shows(st.st_mtime, set.mtime)
    /\ shows(st.st_ctime, set.ctime)

(***************************************************************************)
(* The times in the database, to the microsecond and those before the year *)
(* 2000 too, are those of the last create or utimens: no write-back of     *)
(* another handler changes them.                                           *)
(***************************************************************************)
TimesAreKept ==
  file # NONE =>
    \A c \in {"ctime", "mtime", "atime"} :
      file[c] = ((set[c].sec - EPOCH) * MICRO + set[c].nsec \div NANO) % WordMod

(***************************************************************************)
(* The check of the block size in main, made once against the rows of that *)
(* moment, is right for the whole life of the mount: every block has the   *)
(* block size of every mount, and all mounts have the same one.  That is   *)
(* so unless two mounts with different block sizes have been there when    *)
(* data was empty ("any blocksize acceptable after initialization").       *)
(***************************************************************************)
BlockSizesAgree ==
  ~mixed => /\ \A m \in Up : blk \in {0, mnt[m].block_size}
            /\ \A m, n \in Up : mnt[m].block_size = mnt[n].block_size

(***************************************************************************)
(* When all table spaces lie on one disk, the free blocks pgfuse_statfs    *)
(* shows are those of that disk, whatever disks are mounted below and over *)
(* others and in which order; the blocks in use are the rows of the        *)
(* tables.  This needs that no mount point is a prefix of a location by    *)
(* the letters of its name only, that the user of the mount can resolve    *)
(* the links in the locations, and that the rows can be counted in an int. *)
(* Of several disks the code shows the one that is last in mtab, not the   *)
(* one with the smallest space.                                            *)
(***************************************************************************)
StatfsReportsTheDisk ==
  NoNameIsPrefix /\ catalog.readable /\ Cardinality(Disks) = 1 /\ DataRows + DirRows < IntMod \div 2 =>
    \A m \in Up :
      LET st == pgfuse_statfs(mnt[m].block_size, mnt[m].read_only, DataRows, DirRows) IN
      /\ st.res = "ok"
      /\ \A d \in Disks : st.f_bavail = DiskAvail[d] \div mnt[m].block_size
      /\ st.f_blocks = st.f_bfree + DataRows + DirRows
=============================================================================
