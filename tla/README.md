# pgfuse: models, checks and proofs

pgfuse is a FUSE file system that keeps its files in two tables of a PostgreSQL
database. This directory holds TLA+ models of its parts, TLC configurations that
check them on small instances, and TLAPS proofs of what matters most for every
instance. `PROJECT.json` lists components, runs, mutants, hazards and theorems and
maps each definition to the lines it models.

## The system

| part | source | state | operations |
|---|---|---|---|
| connection pool | `pool.c` | `conns`, `avail`, a mutex and a condition variable | `psql_pool_init`, `acquire`, `release`, `destroy` |
| handler protocol | `pgfuse.c`, `pgsql.h`, `psql_begin/commit/rollback` | each thread's connection, each connection's transaction | `ACQUIRE`, `PSQL_BEGIN`, statements, `PSQL_COMMIT`/`PSQL_ROLLBACK`, `RELEASE` |
| block arithmetic | `compute_block_info` | none | splits a byte range into blocks |
| file contents | `psql_write_buf`, `psql_truncate`, `psql_read_buf` | table `data`, `dir.size` | `pgfuse_write`, `pgfuse_truncate`, `pgfuse_ftruncate`, `pgfuse_read` |
| directory tree | `pgfuse.c`, `pgsql.c`, `schema.sql` | table `dir`, file handles | `create`, `mkdir`, `symlink`, `rmdir`, `unlink`, `rename`, `open`, `chmod`, `chown`, `utimens`, ... |
| concurrent handlers | `pgfuse.c`, `pgsql.c`, `schema.sql` | transactions, row locks, what each handler has read | the SQL statements of each handler |
| metadata, times | `psql_read_meta`, `psql_write_meta`, `convert_..._timestamp` | columns of `dir` | `getattr`, `fgetattr`, `chmod`, `chown`, `utimens`, and every write-back |
| statistics | `pgfuse_statfs`, `psql_get_tablespace_locations` | none | tablespaces, disks, counts |
| mounting | `main`, `pgfuse_init`, `pgfuse_destroy` | options | checks of the server and the block size, creation of connections |

FUSE calls handlers from several threads. Each handler takes a connection from the
pool, runs one transaction on it and gives it back; with `-s` there is one thread and
one shared connection. What the handlers keep between calls is in the database, apart
from the id in the file handle `fi->fh`. Several mounts may share a database.

The behaviours that are hard to test: two threads in the pool's scans and the signal
sent after the unlock; pointers the allocator uses again; handlers that return from
inside a macro; a server that answers `COMMIT` with success and rolls back; long series
of partial writes and truncates; the binary decoding of numbers; series of renames;
handlers of two threads or two mounts between whose statements other transactions
commit. The `hazards` of `PROJECT.json` name the lines.

## Modules

| module | models | uses |
|---|---|---|
| `ConnPool` | what a connection pool promises | |
| `Pool` | `pool.c`, one action per critical section | refines `ConnPool` |
| `PoolProofs` | theorems about `Pool` | |
| `Session` | the handlers' use of connections and transactions | `INSTANCE ConnPool` |
| `SessionProofs` | theorems about `Session` | |
| `BlockInfo` | `compute_block_info` with the widths of `int` and `size_t` | |
| `ByteFile` | a file as a row of bytes | |
| `Blocks` | the UPDATEs that cut and join blocks | `BlockInfo` |
| `FileData` | the rows of one file, writes, truncates and reads | `Blocks`; refines `ByteFile` |
| `FileDataProofs` | theorems about `BlockInfo` and `FileData` | |
| `PathNames` | `dirname` and `basename`, external | |
| `Namespace` | names as a set of paths | `PathNames` |
| `DirTree` | table `dir` and all handlers that change it | `PathNames`; refines `Namespace` |
| `TreeProofs` | lemmas about rows that are a tree, and lookups in it | |
| `DirTreeProofs` | theorems about `DirTree` | `TreeProofs` |
| `DirNamesProofs` | the refinement of `Namespace` | `DirTreeProofs` |
| `ReadCommitted` | PostgreSQL's transactions, row locks and constraints, external | |
| `Concurrent` | the handlers, one step per SQL statement | `ReadCommitted`, `Blocks`; commits are steps of `Namespace` |
| `Timestamp` | the conversions of timestamps, in 64 bits | |
| `StatFs` | table spaces, `/etc/mtab`, the reply of `pgfuse_statfs` | |
| `Mount` | `main`, the options of mounts, all columns of one file's row | `Timestamp`, `StatFs` |
| `MountProofs` | theorems about `Timestamp` and `Mount` | |
| `MC...` | constants for TLC | |

`Mutant of X` in a comment marks a variant of definition `X` with a plausible bug. It
is used by no specification; each property is known to fail when its variant replaces
the original.

**Pool.** `conns`, `avail` and `next` are the C variables; `live` and `status` are the
objects of libpq. A thread is `"out"` of the pool, at the `"lock"`, in
`pthread_cond_wait`, `"woken"`, in `"use"` of a connection or about to `"signal"`. A
scan under the lock is one action, because nothing else can happen meanwhile; the signal
is an action of its own, because it is sent after the unlock. An address is allocated by
`PQconnectdb` and free again after `PQfinish`, so two slots can hold the same pointer.
Errors of the pthread functions are left out: these return positive numbers, and the
code tests for negative ones.

**Session.** A handler goes through stages, groups of statements with a common way out.
`rename`, `statfs` and `create` have ways out of their own; all others share one
pattern and are `"other"`. A stage succeeds, is refused by a check of the handler, or
fails in the server, which aborts the transaction. A connection may be lost at any time.
`multi_threaded` is chosen at the start: the pool, or one thread with one shared
connection. `leaked` remembers the connections that plain returns of `rename` and
`statfs` have kept.
`unsaved` holds the threads whose handler wrote what is not committed. `LocationNull` is
`pgfuse_statfs` with a location that could not be read: `strncmp` is given a `NULL`, the
process ends and all threads are `"gone"`; the server rolls back their transactions.

**FileData.** `data[n]` is the row with `block_no` n. `Substring` and `\o` are SQL's
`substring` and `||`, so the length of a row is what those leave. `ReadBuf` follows the
loop of `psql_read_buf` and its decoding of `block_no`: `ntohl` of the first bytes of a
`bigint`, which is the high half of the number on a little-endian machine. A handler is
one step, being one transaction. `ReadLen` subtracts in unsigned arithmetic, and reads
behind the end are among those checked: the kernel sends them when another mount has
made the file shorter. `pgfuse_readlink` reads a link's target in the same way.

**DirTree.** `dir[i]` is the row with that id; `PathToId` is the walk of
`psql_path_to_id`, which stops at the first row that is no directory. A handler that
fails has rolled back and is no step. Assumed of the kernel and libfuse: no
directory is moved below itself, and an open file is renamed rather than unlinked.
Metadata is one abstract value, contents only whether there are rows. A `DELETE` first
runs the rule `dir_remove`, which takes the blocks of a row that is no directory
(`BlocksLeft`), and is refused by the foreign keys if children or blocks are left
(`Referenced`). Ids pass through an
`int` in `psql_read_meta_from_path` (`LookupId`); `IdsFitAssumption` keeps them below the
boundary, and the run goes up to it.

**Concurrent.** A handler walks down its path one `SELECT` at a time, reads rows, and
writes; between two statements the others go on. `l[h]` holds where handler h is and the
local variables of the C functions that outlive a statement: `meta` and `inner` are the
rows that `pgfuse_...` and `psql_truncate` have read, `parent` the id found, `blk` and `todo` the
blocks still to come. `Found` hands a row that was looked for to the handler that asked for it,
`pgfuse_create` to `pgfuse_write`, which say what it does next.
An `INSERT`, `UPDATE` or `DELETE` takes several steps where PostgreSQL can wait inside it:
the row, the unique index, the foreign keys, each row of a `DELETE`. `ReadCommitted` says
whom a step waits for, what a statement sees, and which transactions are on a cycle of
waits; the server aborts one of them. The handlers may be threads of one mount or of
several mounts, which makes no difference, as nothing but the database is shared. `overlap`
remembers that two handlers met that could spoil each other's work: renames of
directories (`"tree"`), writers of the same row (`"size"`), or the rename of a directory
and a `symlink`, which looks up its own path again (`"link"`). Handlers that fail roll
back in one step; losing the connection is the subject of `Session`.

**Mount.** Processes mount and unmount the database with any options. The check of the
block size is one step with the mount: what others do between the check and
`fuse_main` is then something they do while this mount is idle. There is one file, with
all columns of its row and the length of its block. Every handler that sets one column
reads the others, converts the times, and writes them back (`ReadMeta`, `WriteMeta`). The
lengths of blocks follow the UPDATEs for the block size of the mount that sends them, so
that a wrong block size would leave blocks of other lengths. `set` remembers what users
have set last. `StatFs` has the host: a path is a sequence of tokens, disks are mounted
and unmounted below the locations, and `pgfuse_statfs` searches `mtab` in its order.
The count of blocks passes through the `int` of `atoi`, which can make it negative, an
error to `pgfuse_statfs`; `atol` of the count of files keeps all of it.
`StatfsReportsTheDisk` is about table spaces that are all on one disk, and counts that fit.

## Runs

| run | instance | shows |
|---|---|---|
| `pool` | 3 threads, 2 slots, 2 addresses | `Exclusive`, `ReleaseFindsOwnSlot`, `NoUseAfterFinish`, `NoLostWakeup`, `DestroyClosesAll`, `FreeSlotIsTaken`; `Pool` implements `ConnPool` |
| `pool_finish` | 1 thread, 2 slots | violated: a connection is finished twice |
| `session` | 2 threads, 2 connections, all handlers, with a pool and without | no transaction is left on a pooled connection; success is committed, `create` apart; no free connection is known to be broken; only broken connections are lost, plain returns apart; an exhausted pool refills |
| `session_rename` | 2 threads, `rename` | violated: a working connection is lost |
| `session_create` | `create` | violated: success without a commit |
| `file_data` | blocks of 3 bytes, offsets to 6, buffers to 4 | `BlocksArePadded`, `NothingBehindEnd`, `RangesAreSplit`, `DenseReadsExact`, `StaleReadsAreRefused`; `FileData` implements `ByteFile` |
| `file_trunc` | the same | violated: bytes survive a truncate to 0 |
| `file_sparse` | the same, little-endian | violated: data behind a hole is read at the hole |
| `dir_tree` | 2 names, 3 entries, paths of 3 | `EveryRowHasOnePath`, `LookupFinds`, `ReaddirListsWhatLookupFinds`, `RemovalsAreNotRefused`, `ReadOnlyKeepsFiles`; `DirTree` implements `Namespace` |
| `concurrent` | 2 handlers, every pair of 17 calls, 2 initial tables | `ReferencesHold`, `TreeUnlessRenamesOverlap`, `SizesUnlessWritersOverlap`, `CommitsAreNamespaceSteps`, `OnlyRenameMoves`, `CommitsChangeTheirBytes`, `HandlersReturn` |
| `concurrent_fsck` | the same, 4 calls | violated: `open` writes an old size back over that of a `write`, and blocks lie behind the end |
| `mount` | 2 mounts, 2 block sizes, 3 disks, 5 catalogs | `GetattrShowsWhatWasSet`, `TimesAreKept`, `BlockSizesAgree`, `StatfsReportsTheDisk` |

The six violated properties each state what a comment, a message or the developers' notes
say; the `findings` quote the lines.

**Bounds.** Three threads and two slots are the least with a waiter, a thread that
overtakes it and a second user; two addresses in two slots include a recycled one. Two
threads that can both be handed, lose and break two connections include an exhausted
pool in `Session`. A file of four blocks of three bytes has first, full and last blocks,
ranges that begin and end at, before and behind a boundary, and holes; `IntMod` and
`SizeMod` are large enough there that nothing wraps but the subtraction of `ReadLen`; that
is the condition `FitsAssumption` states. Three entries are enough for a directory to
move with something in it; `SmallDir` starts with that.
`Concurrent` stops after `MaxCalls` = 2 calls, one after the other or interleaved in
every way, so what it shows is about all pairs of the calls in `AllCalls`: two per kind of
conflict on a tree of two directories and a file, which is empty or has two blocks of two
bytes. With `MaxCalls` = 3 the same properties hold too (888551 states); that takes ten
minutes and is not a run. `Mount` has one file with at most one block: the block size check looks at any
row, and all rows of a mount get the same length. Its time units are scaled down (a
second has 4 "microseconds", a word 1024 values) with one time before the epoch and one
after, both with fractions. Of the five catalogs one has more table spaces than
`MAX_TABLESPACE_OIDS`, one is behind a symbolic link, with and without the rights to
resolve it, one has two table spaces, on one disk or on two, one a location that begins with the letters of a
mount point. `IntMod` = 6 there makes an `int` that three rows do not fit into.
`MCPoolFinish` and `MCMount` use symmetry under permutation of threads, addresses
or mounts, which are only compared for equality; they check no liveness.

**Deadlock** is not checked where the code may stop: after an unmount (`Pool`), with
all connections lost (`Session`), after the last call (`Concurrent`).

**Fairness.** `Pool`: weak fairness of the threads inside the pool's own code, which
only wait for the mutex and the scheduler. Waiting in `pthread_cond_wait` and using a
connection have none: a handler may take for ever. `Session`: weak fairness of a
handler's steps after `ACQUIRE`, that is, the server answers or the connection breaks;
`ACQUIRE` itself and new calls have none. `Concurrent`: weak fairness of each handler's steps, that is, the
server serves every connection, ends a wait once the lock is free, and its deadlock detector
runs; new calls have none.

## Proofs

`tlapm` checks the proofs of seven modules.

*PoolProofs*, for any finite set of threads, any pool size and any set of addresses
(`SizeAssumption`, `MarkAssumption`, `FiniteAssumption`). `Exclusive` is not inductive:
whether a release frees the right slot depends on where recycled pointers can be.
`SlotInv` says it: slots that are not `ERROR` have existing connections, and another
slot with the same pointer is lower and `ERROR`, since the slots are filled upwards and
a pointer returns only after its connection was finished. The downward scan of
`psql_pool_release` therefore stops at the right slot. `TypeCorrect` and `SlotInvariant`
are inductive; `ExclusiveUse`, `ReleaseIsOwn`, `UseIsLive` and `DestroyIsComplete` follow
from them, `ErrorStays` and `PoolImplementsConnPool` are proved step by step from them.
`WakeupsAreKept` counts: each action changes the number of free slots and the number of
threads that will scan by at most one, in step.

*SessionProofs*, for any number of threads and connections (`SessionAssumption`, which
asks for at least one connection). `SessionInv` ties together what the macros keep
apart: the stage a thread is in, the connection it holds, the transaction on that
connection, and who else could hold it. A connection in use by one thread is in use by
no other and is not free; one that is free has no transaction; a handler past its
`PSQL_BEGIN` has one, aborted if a statement failed. `HandlersStartClean`,
`SuccessMeansCommitted` and `MacrosLoseNoWorkingConn` follow.

*FileDataProofs*. `BlockInfoCorrect`, for every block size and every range for which
`Fits` holds, that is, no sum wraps and the number of blocks fits into an `int`.
`FileTypeCorrect` and `RowsArePadded`, for every block size, set of
bytes, offsets and buffers with `FitsAssumption`. Both together are inductive, since
what a partial write leaves depends on the length of what was there. The argument:
`BlockInfoCorrect` bounds the parts of the buffer (`PartsInside`), each of the four
UPDATEs keeps the length for such a part (`WriteBlockPadded`), so do the whole write
(`WritePadded`) and the truncate (`TruncatePadded`). `RangesSplit` follows.
Byte by byte: `WrittenBlocks` says which block gets which part of the buffer in which of
the cases of `psql_write_buf`, `WriteByteAt` and `TruncateByteAt` which byte of the file
each place has afterwards. `FileInv` adds `NothingBehindEnd` to the types and the padding
and is inductive (`FileInvariant`, `NothingComesBack`). Block 0 is left out of it, since a
truncate to nothing keeps its bytes, as `file_trunc` shows. A write inside the last block
relies on the zeros behind the end, which the truncate that cut the file there left.
`FileDataImplementsByteFile` is the refinement of the plain file of bytes: the initial
file is empty, and a write or truncate of blocks is the write or truncate of bytes of
`ByteFile` (`WriteIsWrite`, `TruncateIsTruncate`).
The reading loop: the index into the reply is a recursive function over the blocks; there
is one such function (`IndexUnique`), and if no row is missing it counts the blocks
(`DenseSource`), whether `ntohl` makes the number of a row out of its bytes or 0
(`RowNumbers`). Hence `DenseFilesAreReadBack`, if blocks divide pages (`PageSize % BS = 0`)
and the size of the file is such that a page read fits (`SizesFit`). `StaleReadsFindNothing`:
`meta.size - offset` wraps around, but `compute_block_info` converts the number of blocks to
`int`, where it is negative again, so the loop does nothing (`WrappedRange`); this needs that
2^64 is a multiple of 2^32 times the block size (`SizeMod % (BS * IntMod) = 0`).

*TreeProofs* and *DirTreeProofs*, for any names (without `/`), ids that fit an `int`
(`IdsFitAssumption`), any depth and any initial table that is a tree
(`InitialDirAssumption`). `DirInv` is inductive: `IsTree(dir)`, types, and blocks and
handles that belong to rows. `IsTree` has no recursion in it: the root is its own parent, parents are
directories, no name is in a directory twice, and every set of rows that contains the
root and the children of its members contains all rows. The last part is what a rename
could break and what `~Inside(from, to)` is for (`MoveKeepsTree`): a set that is closed
after the move, with all that moved added, is closed before it, hence has the new parent,
which did not move; so the set itself has it, and the row that moved, and all rows. From `IsTree`, by induction on the depth, come the levels of
`Located` (every row is on one level, with one path, below the number of rows) and what the loop of `psql_path_to_id`
returns (`LookupsAreExact`, `ListingsAreExact`). `NoFsckNeeded` and
`ReadOnlyIsKept` follow, and `KeysAllowRemovals`: blocks belong to rows that are no
directories, so the rule takes them all, and only the children of a directory are left
for the foreign keys to object to.

*DirNamesProofs*: `DirTreeImplementsNamespace`. A tree determines a function from rows to
paths (`PathsOfATree`); `NodeMap` is its graph. A new row adds one path (`InsertNames`), a
row without children takes one away (`DeleteNames`). A rename changes the function exactly at the rows
below the one that moved, by another prefix (`MovedPaths`), which is `MoveName`.

Induction over the depth of a tree is done with sets of natural numbers
(`SmallestNumber`, `NumbersBySuccessor`): the step is stated for members of a set, so no
operator has to be passed to a library theorem.

*MountProofs*. About times, for every word size, epoch and unit (`TimestampAssumption`),
`WriteBackExact`: reading a stored time and writing it back stores the same value, also
for the large values that times before 2000 become. It comes from one fact about division,
that quotient and remainder put the value together again. `SetTimeComesBack`: a time from
2000 on, if the word can hold it, comes back to the microsecond.
About mounts, for any set of mounts, block sizes and times (`MountAssumption`),
`BlockSizeCheckIsEnough`: that blocks have the size of every mount is not inductive by
itself, because the first block gets the size of the mount that writes it. That all
mounts have the same size, the second half of `BlockSizesAgree`, makes it so; `BlockInv`
adds the type of `mnt`. A block that is written again or padded keeps its length
(`LengthIsKept`, `HandlersKeepLength`), and a mount that comes later is compared with a
block, or makes `mixed` true (`MountingKeepsBlockInv`). `WriteBacksKeepTimes`: `TimeInv` is `TimesAreKept` and the types
of the stored row; each handler that writes back is one case of `WriteBack`, which is
`WriteBackExact` for three columns.

Only model-checked: the liveness properties `FreeSlotIsTaken`, `PoolRefills` and
`HandlersReturn`, which are out of the prover's reach; all of `Concurrent`; `GetattrShowsWhatWasSet` and
`StatfsReportsTheDisk`.

## Observations

Seen with these models, by checking the stronger property or the changed instance named,
and not kept as runs of their own:

- `FileData` with `BS = 4`, `PageSize = 2`: `DenseReadsExact` fails. With blocks larger
  than a page, a read that begins inside a block copies `from_len - from_offset` bytes
  of the first block (`pgsql.c:387`) where `from_len` were meant, and the length can wrap.
- `FileData` without `FitsAssumption` and with `IntMod = 4`, an `int` of two bits: as many
  blocks as that (2^31 in the code) make `nof_blocks` negative (`pgsql.c:69`), and a
  truncate that makes a file longer deletes rows that belong to it.
- `FreeConnsAreClean` of `Session` without `multi_threaded`: it fails. A refused rename leaves
  its transaction open on the shared connection for the next handler.
- `Session` with `LinkMayFail`, and strong fairness of `psql_acquire` added: calls need
  not return. After all connections are lost, every further operation waits in
  `psql_pool_acquire` for ever. `DEVELOPERS:119-125` plans for more, the file
  `BUGS` admits it.
- `Concurrent`, `AllRowsHavePaths` alone: two renames that move two directories below
  each other at the same time both commit, and both are cut off from the root.
- `Concurrent`: the SELECT by which `pgfuse_create` reads its new row back does fail when
  a rename of a directory above commits in between. That is the case of `session_create`.
- `Concurrent` with three calls on a deeper tree, `ReferencesHold` without `"link"`: while `symlink` makes
  `a/f/b`, `a` is renamed away and another directory with something at `f/b` is renamed to
  `a`. The lookup after the INSERT (`pgfuse.c:1258`) finds that row and the target of the link is
  written there. If it is a directory, it then has blocks, which rule `dir_remove` leaves
  alone, and the foreign key refuses to remove it.
- `Concurrent`: the mode set by a `chmod` is undone by an `open` that has read the row before.
- `Mount` without `mixed`: two mounts with different block sizes on an empty table are
  accepted, and then write blocks of different lengths.
- `Mount` without the exception for times before 2000: `getattr` shows them as times far in
  the future, although the stored value is right and stays so.
- `Mount`: on a read-only mount `utimens` changes the times (`pgfuse.c:1427` has no test);
  `pgfuse.c:1606` says "do not change data in database".
- `StatFs` without `NoNameIsPrefix`: with a disk on `/srv/pg` and a location `/srv/pg2`
  the wrong disk is shown. With table spaces on two disks the one that is later in `mtab`
  is shown, because every match sets the minimum back to `INT64_MAX` (`pgfuse.c:1005`). The
  comment at `pgfuse.c:1025` says "take the smallest available disk space free",
  `DEVELOPERS:188-189` "take the minimum".
- `StatFs` with counts of `IntMod / 2` and more (2^31 rows): `atoi` (`pgsql.c:954`) makes the
  blocks in use a wrong number, or a negative one, and then `statfs` fails.

Read in the source while modelling: `chown` and `chgrp` store the -1 that FUSE passes for
the part to be left alone (`pgfuse.c:1168`). `fgetattr` shows no times, and writes and
`chmod` do not change `mtime` and `ctime`. A wrong block size ends the program, although
the message says "taking the later one!" (`pgfuse.c:1693`). The total of files overflows
for every file system (`INT64_MAX` and the rows of `dir`). Without superuser rights the
location of the default table space is a guess, `/var/lib/postgres`. When the query for a
location fails, `get_tablespace_location` returns `NULL` (`pgsql.c:1051`), nobody looks, and
`strncmp` at `pgfuse.c:1001` gets it. `psql_read_meta_from_path` keeps the id of a row in
an `int` (`pgsql.c:233`): from 2^31 on it is negative and taken for an error, from 2^32 on it
can be the id of another row; `IdsFitAssumption` keeps `DirTree` below that.

## Not modelled

- Parsing of options, usage, version, logging: text. The option values are
  inputs of `Mount` and `Session`.
- `endian.h`: names for the C library's conversions. What the code's wrong use of
  them yields is in `DbBlockNo` and `ReadParentId`.
- `pgfuse_access`, `opendir`, `releasedir`, `fsyncdir`, `flush` and `fsync`: they do not
  use the database; `fsync` returns an error on a read-only mount or without a handle.
- Failures of `malloc`, `strdup` and the pthread functions.
- Three and more handlers at a time, and handlers that lose the connection halfway in
  `Concurrent`: a lost connection is a rollback, which `Fail` already is at most steps.
- More than one file, and more than one block of it, in `Mount`; see Bounds.
