----------------------------- MODULE Concurrent -----------------------------
(***************************************************************************)
(* Handlers of pgfuse.c that run at the same time, in the threads of one   *)
(* mount or in several mounts of one database: every SQL statement is a    *)
(* step of its own, and between two of them the others go on.  What a      *)
(* handler has read stays in its local variables and can be stale.  A      *)
(* handler that fails rolls back and returns.  The mounts are not          *)
(* read-only; chmod stands for pgfuse_chown and pgfuse_utimens as well.    *)
(***************************************************************************)
EXTENDS Blocks, ReadCommitted, SequencesExt

CONSTANTS
  Call,          \* the calls of FUSE: operation and arguments
  InitialDb,     \* the tables a file system can be mounted with
  MaxCalls,      \* how many calls there are
  LittleEndian   \* the byte order of the machine pgfuse runs on

ASSUME ConcurrentAssumption ==
  /\ Handler \subseteq Nat \ {0}   \* a handler writes its number as bytes
  /\ MaxCalls \in Nat
  /\ LittleEndian \in BOOLEAN

VARIABLES
  l,        \* l[h]: where the handler is, its arguments and local variables
  calls,    \* the calls so far
  serial,   \* the sequence of dir.id
  overlap   \* history: handlers that could spoil each other's work did meet

vars == <<db, pend, shared, l, calls, serial, overlap>>

Root == 0

(* A handler's state between calls.  goal says what a lookup is for, id is *)
(* the row at work, meta and inner are what pgfuse_... and psql_truncate   *)
(* have read of it, blk and todo the block or blocks to come.              *)
Idle ==
  [pc |-> "idle", call |-> [op |-> "none"], goal |-> "", at |-> Root, rest |-> <<>>,
   id |-> Root, meta |-> GONE, inner |-> GONE, parent |-> Root, blk |-> 0, todo |-> <<>>]

Running(h) == l[h].pc # "idle"

Op(h) == l[h].call.op

Go(h, r) == l' = [l EXCEPT ![h] = r]

Info(h) ==
  IF Op(h) \in {"truncate", "ftruncate"}
  THEN ComputeBlockInfo(0, l[h].call.off)
  ELSE ComputeBlockInfo(l[h].call.off, l[h].call.len)

(* The name a handler gives to a row. *)
NewName(h) == Last(IF Op(h) = "rename" THEN l[h].call.to ELSE l[h].call.path)

RowType(op) == CASE op = "mkdir" -> "dir" [] op = "symlink" -> "link" [] OTHER -> "file"

-----------------------------------------------------------------------------
(* psql_read_meta_from_path: walk down, then read the row that was found. *)
Look(r, path, goal) ==
  [r EXCEPT !.pc = IF path = <<>> THEN "meta" ELSE "walk",
            !.goal = goal, !.at = Root, !.rest = path]

(* psql_read_meta *)
ReadRow(r, i, goal) == [r EXCEPT !.pc = "meta", !.goal = goal, !.at = i]

(* FUSE calls a handler.  Those with a handle read the row of fi->fh.      *)
Start(h, c) ==
  LET r == [Idle EXCEPT !.call = c] IN
  /\ ~Running(h)
  /\ calls < MaxCalls
  /\ calls' = calls + 1
  /\ Go(h, CASE c.op \in {"write", "ftruncate"} -> ReadRow(r, c.id, "target")
             [] c.op \in {"mkdir", "symlink"}   -> Look(r, Front(c.path), "parent")
             [] OTHER                           -> Look(r, c.path, "target"))
  /\ UNCHANGED <<db, pend, shared, serial, overlap>>

(* PSQL_ROLLBACK and return.  pgfuse_rename commits after an error or just *)
(* returns, which leaves as little behind: it has written nothing, or the  *)
(* server has aborted its transaction.                                     *)
Fail(h) ==
  /\ Rollback(h)
  /\ Go(h, Idle)
  /\ UNCHANGED <<calls, serial, overlap>>

Quiet == UNCHANGED <<db, pend, shared, calls, serial, overlap>>

(* -ENOENT is what pgfuse_create and pgfuse_rename hope for. *)
NotFound(h) ==
  IF l[h].goal = "target" /\ Op(h) = "create"
  THEN Go(h, Look(l[h], Front(l[h].call.path), "parent")) /\ Quiet
  ELSE IF l[h].goal = "to"
  THEN Go(h, Look(l[h], Front(l[h].call.to), "parent")) /\ Quiet
  ELSE Fail(h)

(* One turn of the loop of psql_path_to_id. *)
psql_path_to_id(h) ==
  LET r == l[h]
      found == {k \in DOMAIN View(h) : HasName(k, View(h)[k], r.at, Head(r.rest))}
  IN
  /\ r.pc = "walk"
  /\ IF found = {} THEN NotFound(h)
     ELSE \E k \in found :
            /\ Go(h, [r EXCEPT !.at = k[1], !.rest = Tail(@),
                               !.pc = IF View(h)[k].type = "dir" /\ Tail(r.rest) # <<>>
                                      THEN "walk" ELSE "meta"])
            /\ Quiet

(* meta.parent_id, decoded with ntohl: see DirTree. *)
ReadParentId(row) == IF LittleEndian THEN Root ELSE row.parent

(* The block a psql_write_buf or psql_truncate is to begin with. *)
AtBlock(r, pc, b) == [r EXCEPT !.pc = pc, !.blk = b]

(* Mutant of Grown: the size stays what it was. *)
GrownNot(c, size) == size

(* The size pgfuse_write is going to set. *)
Grown(c, size) == IF c.off + c.len > size THEN c.off + c.len ELSE size

(***************************************************************************)
(* What each handler does with row i that it has looked for: its next      *)
(* state, or GONE when it returns.                                         *)
(***************************************************************************)
Keep(r, i, row) == [r EXCEPT !.id = i, !.meta = row]

(* The parent of a row to be made. *)
InsertIn(r, i, row) ==
  IF row.type = "dir" THEN [r EXCEPT !.pc = "insert", !.parent = i] ELSE GONE

pgfuse_create(r, i, row) ==
  CASE r.goal = "target" -> GONE   \* -EISDIR, -EEXIST
    [] r.goal = "parent" -> InsertIn(r, i, row)
    [] r.goal = "back"   -> [Keep(r, i, row) EXCEPT !.pc = "commit"]

pgfuse_mkdir(r, i, row) == InsertIn(r, i, row)

(* The link is looked up by its path before its target is written. *)
pgfuse_symlink(r, i, row, info) ==
  CASE r.goal = "parent" -> InsertIn(r, i, row)
    [] r.goal = "back"   -> AtBlock(Keep(r, i, row), "block", info.from_block)

(* pgfuse_rename, and psql_rename, which reads both parents again. *)
pgfuse_rename(r, i, row) ==
  IF r.goal = "target" THEN Look(Keep(r, i, row), r.call.to, "to")
  ELSE IF r.goal = "to" \/ row.type # "dir" THEN GONE   \* -EEXIST, or the same name; no directory
  ELSE CASE r.goal = "parent"    -> ReadRow([r EXCEPT !.parent = i], ReadParentId(r.meta), "oldparent")
         [] r.goal = "oldparent" -> ReadRow(r, r.parent, "newparent")
         [] r.goal = "newparent" -> [r EXCEPT !.pc = "update"]

pgfuse_rmdir(r, i, row) ==
  IF row.type = "dir" THEN [Keep(r, i, row) EXCEPT !.pc = "count"] ELSE GONE

pgfuse_unlink(r, i, row) ==
  IF row.type = "dir" THEN GONE ELSE [Keep(r, i, row) EXCEPT !.pc = "purge"]

pgfuse_open(r, i, row) ==
  IF row.type = "dir" THEN GONE ELSE [Keep(r, i, row) EXCEPT !.pc = "setattr"]

pgfuse_chmod(r, i, row) == [Keep(r, i, row) EXCEPT !.pc = "setattr", !.meta.mode = r.call.mode]

(* psql_truncate reads the row again. *)
pgfuse_ftruncate(r, i, row) ==
  IF r.goal = "again" THEN [r EXCEPT !.pc = "trim", !.inner = row]
  ELSE ReadRow([Keep(r, i, row) EXCEPT !.meta.size = r.call.off], i, "again")

pgfuse_truncate(r, i, row) ==
  IF r.goal = "target" /\ row.type = "dir" THEN GONE ELSE pgfuse_ftruncate(r, i, row)

pgfuse_write(r, i, row, info) ==
  AtBlock([Keep(r, i, row) EXCEPT !.meta.size = Grown(r.call, @)], "block", info.from_block)

(* pgfuse_oper *)
Found(h, i, row) ==
  LET r == l[h] IN
  CASE Op(h) = "create"    -> pgfuse_create(r, i, row)
    [] Op(h) = "mkdir"     -> pgfuse_mkdir(r, i, row)
    [] Op(h) = "symlink"   -> pgfuse_symlink(r, i, row, Info(h))
    [] Op(h) = "rename"    -> pgfuse_rename(r, i, row)
    [] Op(h) = "rmdir"     -> pgfuse_rmdir(r, i, row)
    [] Op(h) = "unlink"    -> pgfuse_unlink(r, i, row)
    [] Op(h) = "open"      -> pgfuse_open(r, i, row)
    [] Op(h) = "chmod"     -> pgfuse_chmod(r, i, row)
    [] Op(h) = "truncate"  -> pgfuse_truncate(r, i, row)
    [] Op(h) = "ftruncate" -> pgfuse_ftruncate(r, i, row)
    [] Op(h) = "write"     -> pgfuse_write(r, i, row, Info(h))

(* psql_read_meta, and what the handler makes of it. *)
psql_read_meta(h) ==
  LET i == l[h].at IN
  /\ l[h].pc = "meta"
  /\ IF <<i>> \notin DOMAIN View(h) THEN NotFound(h)
     ELSE LET r == Found(h, i, View(h)[<<i>>]) IN
          IF r = GONE THEN Fail(h) ELSE Go(h, r) /\ Quiet

-----------------------------------------------------------------------------
Unindexed == {g \in Handler : l[g].pc = "unique"}

(* The transactions the statement of h has to wait for. *)
Waits(h) ==
  LET r == l[h] IN
  CASE r.pc \in {"insert", "unique"} -> NameWaits(h, r.parent, NewName(h), Unindexed)
    [] r.pc = "fk"        -> ShareWaits(h, <<r.parent>>)
    [] r.pc = "blockfk"   -> ShareWaits(h, <<r.id>>)
    [] r.pc \in {"setattr", "setinner"} -> RowWaits(h, <<r.id>>)
    [] r.pc \in {"update", "delete"} -> KeyWaits(h, <<r.id>>)
    [] r.pc = "refs"      -> RefWaits(h, r.id)
    [] r.pc = "block"     -> RowWaits(h, <<r.id, r.blk>>)
    [] r.pc = "pad"       -> RowWaits(h, <<r.id, Info(h).to_block>>)
    [] r.pc = "newblock"  -> EntryWaits(h, <<r.id, r.blk>>)
    [] r.pc \in {"trimming", "purging"} -> RowWaits(h, Head(r.todo))
    [] OTHER -> {}

(* h executes its statement pc; it has the locks it needs. *)
At(h, pc) == l[h].pc = pc /\ Waits(h) = {}

Advance(h, pc) == Go(h, [l[h] EXCEPT !.pc = pc])

(* The INSERT of psql_create_file and psql_create_dir. *)
InsertDir(h) ==
  LET r == l[h] IN
  /\ At(h, "insert")
  /\ IF NameTaken(h, <<serial>>, r.parent, NewName(h))
     THEN Rollback(h) /\ Go(h, Idle)
     ELSE /\ Write(h, <<serial>>, [parent |-> r.parent, name |-> NewName(h),
                                   type |-> RowType(Op(h)), size |-> r.call.len,
                                   mode |-> r.call.mode])
          /\ Advance(h, "fk")
          /\ UNCHANGED <<db, shared>>
  /\ serial' = serial + 1
  /\ UNCHANGED <<calls, overlap>>

(* Mutant of ForeignKey: there is no such key. *)
NoForeignKey(h) ==
  /\ At(h, "fk")
  /\ IF Op(h) \in {"mkdir", "rename"} THEN Advance(h, "commit")
     ELSE Go(h, Look(l[h], l[h].call.path, "back"))
  /\ Quiet

(* FOREIGN KEY( parent_id ) REFERENCES dir( id ), at the end of an INSERT  *)
(* or of an UPDATE that has changed parent_id.                             *)
ForeignKey(h) ==
  LET r == l[h] IN
  /\ At(h, "fk")
  /\ IF <<r.parent>> \notin DOMAIN View(h) THEN Fail(h)
     ELSE /\ LockShared(h, <<r.parent>>)
          /\ IF Op(h) \in {"mkdir", "rename"} THEN Advance(h, "commit")
             ELSE Go(h, Look(r, r.call.path, "back"))
          /\ UNCHANGED <<db, pend, calls, serial, overlap>>

(* psql_delete_dir looks for children before it deletes. *)
psql_delete_dir(h) ==
  /\ At(h, "count")
  /\ IF \E k \in Children(View(h), l[h].id) : IsDirKey(k)
     THEN Fail(h)
     ELSE Advance(h, "purge") /\ Quiet

(* A DELETE of rows of data begins: it will delete the ones it sees now,   *)
(* in any order.                                                           *)
DeleteRows(h, rows, during, after) ==
  /\ \E s \in SetToSeqs(rows) :
       Go(h, [l[h] EXCEPT !.todo = s, !.pc = IF rows = {} THEN after ELSE during])
  /\ Quiet

(* One of these rows, unless it is gone in the meantime. *)
DeleteNext(h, during, after) ==
  LET k == Head(l[h].todo)  rest == Tail(l[h].todo) IN
  /\ At(h, during)
  /\ IF k \in DOMAIN View(h) THEN Write(h, k, GONE) ELSE UNCHANGED pend
  /\ Go(h, [l[h] EXCEPT !.todo = rest, !.pc = IF rest = <<>> THEN after ELSE during])
  /\ UNCHANGED <<db, shared, calls, serial, overlap>>

DataOf(h, i) == {k \in DOMAIN View(h) : ~IsDirKey(k) /\ k[1] = i}

(* Rule dir_remove, which comes before the DELETE it belongs to. *)
dir_remove(h) ==
  LET i == l[h].id IN
  /\ At(h, "purge")
  /\ DeleteRows(h,
       IF <<i>> \in DOMAIN View(h) /\ View(h)[<<i>>].type # "dir" THEN DataOf(h, i) ELSE {},
       "purging", "delete")

(* DELETE FROM dir, of a row that can be gone already. *)
DeleteDir(h) ==
  LET k == <<l[h].id>> IN
  /\ At(h, "delete")
  /\ IF k \in DOMAIN View(h)
     THEN Write(h, k, GONE) /\ Advance(h, "refs")
     ELSE UNCHANGED pend /\ Advance(h, "commit")
  /\ UNCHANGED <<db, shared, calls, serial, overlap>>

(* Mutant of NoReferences: the key is not checked for a deleted row. *)
NoReferencesUnchecked(h) == At(h, "refs") /\ Advance(h, "commit") /\ Quiet

(* The foreign keys again: nothing refers to the row that was deleted. *)
NoReferences(h) ==
  /\ At(h, "refs")
  /\ IF Children(View(h), l[h].id) # {} THEN Fail(h) ELSE Advance(h, "commit") /\ Quiet

(* The UPDATE of psql_rename; then its new name is entered in the index.   *)
psql_rename(h) ==
  LET r == l[h]  k == <<r.id>> IN
  /\ At(h, "update")
  /\ IF k \notin DOMAIN View(h) THEN Fail(h)
     ELSE /\ Write(h, k, [View(h)[k] EXCEPT !.parent = r.parent, !.name = NewName(h)])
          /\ Advance(h, "unique")
          /\ UNCHANGED <<db, shared, calls, serial, overlap>>

(* Mutant of EnterName: the table has no UNIQUE( name, parent_id ). *)
EnterNameAgain(h) ==
  /\ At(h, "unique")
  /\ Advance(h, IF l[h].parent = db[<<l[h].id>>].parent THEN "commit" ELSE "fk")
  /\ Quiet

EnterName(h) ==
  LET r == l[h]  k == <<r.id>> IN
  /\ At(h, "unique")
  /\ IF NameTaken(h, k, r.parent, NewName(h)) THEN Fail(h)
     ELSE Advance(h, IF r.parent = db[k].parent THEN "commit" ELSE "fk") /\ Quiet

(* Mutant of WithMeta: the columns name and parent_id are written as well. *)
WithMetaAll(row, meta) == meta

(* What psql_write_meta sets in a row. *)
WithMeta(row, meta) == [row EXCEPT !.size = meta.size, !.mode = meta.mode]

(* psql_write_meta is content with no row. *)
WriteMeta(h, meta, pc) ==
  LET k == <<l[h].id>> IN
  /\ IF k \in DOMAIN View(h) THEN Write(h, k, WithMeta(View(h)[k], meta)) ELSE UNCHANGED pend
  /\ Advance(h, pc)
  /\ UNCHANGED <<db, shared, calls, serial, overlap>>

psql_write_meta(h) ==
  \/ At(h, "setattr") /\ WriteMeta(h, l[h].meta, "commit")
  \/ At(h, "setinner") /\ WriteMeta(h, [l[h].inner EXCEPT !.size = l[h].call.off], "setattr")

-----------------------------------------------------------------------------
(* The part of block b that psql_write_buf writes, and the next state. *)
PartOffset(h, b) == IF b = Info(h).from_block THEN Info(h).from_offset ELSE 0

PartLen(h, b) ==
  IF b = Info(h).from_block THEN Info(h).from_len
  ELSE IF b < Info(h).to_block THEN BS ELSE Info(h).to_len

AfterBlock(h) ==
  IF l[h].blk < Info(h).to_block THEN AtBlock(l[h], "block", l[h].blk + 1)
  ELSE [l[h] EXCEPT !.pc = IF Op(h) = "symlink" THEN "commit" ELSE "setattr"]

(* Mutant of psql_write_block: the client puts the new block together from *)
(* what it has read, and locks nothing.                                    *)
psql_write_block_unlocked(h) ==
  LET k == <<l[h].id, l[h].blk>>  b == l[h].blk IN
  /\ l[h].pc = "block"
  /\ IF k \in DOMAIN View(h)
     THEN /\ Write(h, k, WriteBlock(View(h)[k], PartOffset(h, b),
                                    [j \in 1 .. PartLen(h, b) |-> h]))
          /\ Go(h, AfterBlock(h))
     ELSE UNCHANGED pend /\ Advance(h, "newblock")
  /\ UNCHANGED <<db, shared, calls, serial, overlap>>

(* The UPDATE of psql_write_block, which needs a row. *)
psql_write_block(h) ==
  LET k == <<l[h].id, l[h].blk>>  b == l[h].blk IN
  /\ At(h, "block")
  /\ IF k \in DOMAIN View(h)
     THEN /\ Write(h, k, WriteBlock(View(h)[k], PartOffset(h, b),
                                    [j \in 1 .. PartLen(h, b) |-> h]))
          /\ Go(h, AfterBlock(h))
     ELSE UNCHANGED pend /\ Advance(h, "newblock")
  /\ UNCHANGED <<db, shared, calls, serial, overlap>>

(* Mutant of InsertBlock: there is no INSERT before goto update_again. *)
InsertBlockMissing(h) == At(h, "newblock") /\ Advance(h, "block") /\ Quiet

(* Its INSERT of a block of zeros. *)
InsertBlock(h) ==
  LET k == <<l[h].id, l[h].blk>> IN
  /\ At(h, "newblock")
  /\ IF k \in DOMAIN View(h) THEN Fail(h)
     ELSE /\ Write(h, k, Zeros(BS))
          /\ Advance(h, "blockfk")
          /\ UNCHANGED <<db, shared, calls, serial, overlap>>

(* FOREIGN KEY( dir_id ) REFERENCES dir( id ); goto update_again *)
BlockForeignKey(h) ==
  LET k == <<l[h].id>> IN
  /\ At(h, "blockfk")
  /\ IF k \notin DOMAIN View(h) THEN Fail(h)
     ELSE /\ LockShared(h, k)
          /\ Advance(h, "block")
          /\ UNCHANGED <<db, pend, calls, serial, overlap>>

(* The DELETE of psql_truncate, and its UPDATE of the last block. *)
Trim(h) ==
  LET b == Info(h).to_block IN
  /\ At(h, "trim")
  /\ DeleteRows(h, {k \in DataOf(h, l[h].id) : k[2] > b}, "trimming", "pad")

Pad(h) ==
  LET b == Info(h).to_block  k == <<l[h].id, b>> IN
  /\ At(h, "pad")
  /\ IF k \in DOMAIN View(h)
     THEN Write(h, k, PadBlock(View(h)[k], Info(h).to_len))
     ELSE UNCHANGED pend
  /\ Advance(h, "setinner")
  /\ UNCHANGED <<db, shared, calls, serial, overlap>>

psql_truncate(h) ==
  \/ Trim(h)
  \/ DeleteNext(h, "trimming", "pad")
  \/ Pad(h)

-----------------------------------------------------------------------------
(* Handlers that work with what they have read of the same row, and those  *)
(* that move directories, each having looked where the other's are; and a  *)
(* symlink that is going to look up its path again when a directory moves. *)
SetsSize(op) == op \in {"open", "chmod", "write", "truncate", "ftruncate"}

MovesDir(h) == Op(h) = "rename" /\ l[h].meta # GONE /\ l[h].meta.type = "dir"

Meets(h, g) ==
  (IF MovesDir(h) /\ MovesDir(g) THEN {"tree"} ELSE {}) \cup
  (IF SetsSize(Op(h)) /\ SetsSize(Op(g)) /\ l[h].id = l[g].id THEN {"size"} ELSE {}) \cup
  (IF MovesDir(h) /\ Op(g) = "symlink" THEN {"link"} ELSE {})

psql_commit(h) ==
  /\ At(h, "commit")
  /\ Commit(h)
  /\ Go(h, Idle)
  /\ overlap' = overlap \cup UNION {Meets(h, g) : g \in {x \in Others(h) : Running(x)}}
  /\ UNCHANGED <<calls, serial>>

(* The server aborts a transaction on a cycle of waits; its statement      *)
(* fails, and so does the handler.                                         *)
DeadlockDetected(h) ==
  /\ Waits(h) # {}
  /\ h \in Deadlocked([g \in Handler |-> Waits(g)])
  /\ Fail(h)

Init ==
  /\ db \in InitialDb
  /\ pend = [h \in Handler |-> <<>>]
  /\ shared = [h \in Handler |-> {}]
  /\ l = [h \in Handler |-> Idle]
  /\ calls = 0
  /\ serial = 1 + CHOOSE i \in {k[1] : k \in DOMAIN db} : \A k \in DOMAIN db : k[1] <= i
  /\ overlap = {}

Step(h) ==
  \/ psql_path_to_id(h)
  \/ psql_read_meta(h)
  \/ InsertDir(h)
  \/ ForeignKey(h)
  \/ psql_delete_dir(h)
  \/ dir_remove(h)
  \/ DeleteNext(h, "purging", "delete")
  \/ DeleteDir(h)
  \/ NoReferences(h)
  \/ psql_rename(h)
  \/ EnterName(h)
  \/ psql_write_meta(h)
  \/ psql_write_block(h)
  \/ InsertBlock(h)
  \/ BlockForeignKey(h)
  \/ psql_truncate(h)
  \/ psql_commit(h)
  \/ DeadlockDetected(h)

Next == \E h \in Handler : Step(h) \/ \E c \in Call : Start(h, c)

Spec == Init /\ [][Next]_vars

(* The server serves every connection, and ends a wait when it can. *)
FairSpec == Spec /\ \A h \in Handler : WF_vars(Step(h))

-----------------------------------------------------------------------------
DirRows(rows) == {k \in DOMAIN rows : IsDirKey(k)}

TypeOK ==
  /\ \A k \in DOMAIN db :
       IF IsDirKey(k)
       THEN DOMAIN db[k] = {"parent", "name", "type", "size", "mode"}
       ELSE Len(k) = 2 /\ Len(db[k]) = BS
  /\ \A h \in Handler :
       /\ DOMAIN l[h] = DOMAIN Idle
       /\ shared[h] \subseteq {<<i>> : i \in 0 .. serial}
       /\ ~Running(h) => pend[h] = <<>> /\ shared[h] = {}
  /\ calls \in 0 .. MaxCalls
  /\ overlap \subseteq {"tree", "size", "link"}

(* The foreign keys and UNIQUE( name, parent_id ) hold of what is          *)
(* committed, although the handlers check for parents, children and names  *)
(* in statements before the one that relies on it: every row is in a       *)
(* directory that exists, every block belongs to a row that exists, and no *)
(* directory has a name twice.  Blocks belong to files and links, unless a *)
(* directory was renamed while pgfuse_symlink ran: it looks up the path of *)
(* the link it has made, and can find another row.                         *)
ReferencesHold ==
  \A k \in DOMAIN db :
    LET o == Owner(k, db[k]) IN
    /\ o \in DOMAIN db
    /\ IsDirKey(k) =>
         /\ db[o].type = "dir"
         /\ \A x \in DirRows(db) \ {k} : ~HasName(x, db[x], db[k].parent, db[k].name)
    /\ ~IsDirKey(k) /\ "link" \notin overlap => db[o].type # "dir"

(* The rows that can be reached from the root. *)
AllRowsHavePaths ==
  LET rows == DirRows(db)
      reached[n \in 0 .. Cardinality(rows)] ==
        IF n = 0 THEN {<<Root>>}
        ELSE LET above == reached[n - 1] IN above \cup {k \in rows : <<db[k].parent>> \in above}
  IN reached[Cardinality(rows)] = rows

(* psql_truncate keeps block 0 of an empty file. *)
SizesCoverBlocks ==
  \A k \in DOMAIN db \ DirRows(db) : k[2] > 0 => k[2] * BS < db[<<k[1]>>].size

(* "Consistency of the data should be ensured in the database. We don't    *)
(* want to implement an 'fsck'": all rows can be reached from the root,    *)
(* and no block lies behind the end of its file.                           *)
FsckFindsNothing == AllRowsHavePaths /\ SizesCoverBlocks

(* Lookups are stale when pgfuse_rename, pgfuse_rmdir and the handlers     *)
(* that create something rely on them; still the tree stays one, unless    *)
(* two renames of directories overlap.                                     *)
TreeUnlessRenamesOverlap ==
  "tree" \notin overlap => AllRowsHavePaths

(* psql_write_meta writes a size that was read statements before: sizes    *)
(* are right unless two handlers that do that overlap on one file.         *)
SizesUnlessWritersOverlap ==
  "size" \notin overlap => SizesCoverBlocks

(* The names users see: the paths that parent pointers spell. *)
NodeMap ==
  LET rows == DirRows(db) \ {<<Root>>}
      below(x) == {<<Append(x[1], db[k].name), k>> : k \in {y \in rows : <<db[y].parent>> = x[2]}}
      located[n \in 0 .. Cardinality(rows)] ==
        IF n = 0 THEN {<<<<>>, <<Root>>>>}
        ELSE LET above == located[n - 1] IN above \cup UNION {below(x) : x \in above}
  IN {<<x[1], db[x[2]].type>> : x \in located[Cardinality(rows)]}

Name == UNION {{c.path[j] : j \in DOMAIN c.path} \cup {c.to[j] : j \in DOMAIN c.to} : c \in Call}

N == INSTANCE Namespace WITH node <- NodeMap, Path <- UNION {[1 .. n -> Name] : n \in 1 .. 3}

(* "The database should help us to sequentiallize the operations": what a  *)
(* handler commits is one step of a file system's names, whatever others   *)
(* did to the rows it has looked up, unless renames of directories         *)
(* overlap.                                                                *)
CommitsAreNamespaceSteps ==
  [][ "tree" \notin overlap' => UNCHANGED NodeMap \/ N!Next ]_db

(* psql_write_meta, with which pgfuse_open writes back all it has read,    *)
(* never undoes a rename that came in between: only pgfuse_rename changes  *)
(* a row's place and name.                                                 *)
OnlyRenameMoves ==
  [][ \A k \in DirRows(db) \cap DirRows(db') :
        \/ db'[k].parent = db[k].parent /\ db'[k].name = db[k].name
        \/ \E h \in Handler : l[h].pc = "commit" /\ Op(h) = "rename" /\ <<l[h].id>> = k ]_vars

DataRows(rows) == DOMAIN rows \ DirRows(rows)

ByteOf(rows, k, j) == IF k \in DOMAIN rows THEN rows[k][j] ELSE 0

(* Byte j of block k is one that the call of h writes, or cuts off. *)
Writes(h, k, j) ==
  /\ Op(h) \in {"write", "symlink"} /\ k[1] = l[h].id
  /\ k[2] * BS + j - 1 \in l[h].call.off .. l[h].call.off + l[h].call.len - 1

CutsOff(h, k, j) ==
  /\ k[1] = l[h].id
  /\ \/ Op(h) = "unlink"
     \/ Op(h) \in {"truncate", "ftruncate"} /\ k[2] * BS + j - 1 >= l[h].call.off

(* A commit changes the bytes it is about and no others: all bytes of a    *)
(* write arrive, and what others have committed to the same block since    *)
(* the handler began is kept.                                              *)
CommitsChangeTheirBytes ==
  [][ \A h \in Handler : l[h].pc = "commit" /\ l'[h].pc = "idle" =>
        \A k \in DataRows(db) \cup DataRows(db'), j \in 1 .. BS :
          \/ CutsOff(h, k, j)
          \/ ByteOf(db', k, j) = IF Writes(h, k, j) THEN h ELSE ByteOf(db, k, j) ]_vars

(* "We trust in FUSE and the locking there": handlers wait for each        *)
(* other's row locks in no fixed order, and still every one returns.       *)
HandlersReturn == \A h \in Handler : Running(h) ~> ~Running(h)
=============================================================================
