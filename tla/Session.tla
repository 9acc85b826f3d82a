------------------------------ MODULE Session -------------------------------
(***************************************************************************)
(* The protocol every FUSE handler of pgfuse.c follows with its database   *)
(* connection: ACQUIRE, PSQL_BEGIN, the statements of the operation,       *)
(* PSQL_COMMIT or PSQL_ROLLBACK, RELEASE.  The three PSQL_ macros return   *)
(* from the handler as soon as their command fails, so the RELEASE behind  *)
(* them is then skipped; some handlers have plain returns as well.         *)
(*                                                                         *)
(* The pool is ConnPool, which Pool implements.  The database server and   *)
(* the network are external: PostgreSQL refuses everything but ROLLBACK    *)
(* and COMMIT in a transaction that had an error, and answers COMMIT of    *)
(* such a transaction with success although it rolls back.                 *)
(***************************************************************************)
EXTENDS FiniteSets

CONSTANTS
  Thread,
  Conn,           \* the connections, MAX_DB_CONNECTIONS of them
  NULL,
  Op,             \* the handlers that are called
  LinkMayFail     \* the connections to the server can break

AllOps == {"create", "rename", "statfs", "other"}

ASSUME SessionAssumption ==
  /\ Conn # {} /\ NULL \notin Conn
  /\ LinkMayFail \in BOOLEAN
  /\ Op \subseteq AllOps

VARIABLES
  multi_threaded,  \* data->multi_threaded: a pool, or one shared connection
  leaked,       \* history: connections kept by returns of rename and statfs
  free, using,  \* the pool: see ConnPool
  up,           \* up[c]: the server is there
  noticed,      \* noticed[c]: libpq has seen it gone, PQstatus is not OK
  txn,          \* txn[c]: the server's transaction state
  pc,           \* where each thread is
  op,           \* the handler it runs, or ran last
  res,          \* what that handler returned
  unsaved       \* threads whose handler wrote something that is not committed

vars == <<multi_threaded, leaked, free, using, up, noticed, txn, pc, op, res, unsaved>>

P == INSTANCE ConnPool WITH Addr <- Conn

(***************************************************************************)
(* The statements of a handler, in the groups that share a way out.        *)
(* pgfuse_rename: both names, the new parent, the UPDATE.  pgfuse_statfs:  *)
(* the tablespace locations and disks, then the counts.  pgfuse_create:    *)
(* up to the INSERT, then reading the new row back.  The other handlers    *)
(* have one way out for everything that goes wrong.                        *)
(***************************************************************************)
Stage == {"names", "parent", "update", "disks", "counts", "insert", "readback", "body"}

FirstStage(o) ==
  CASE o = "rename" -> "names"
    [] o = "statfs" -> "disks"
    [] o = "create" -> "insert"
    [] o = "other"  -> "body"

AfterStage(s) ==
  CASE s = "names"  -> "parent"
    [] s = "parent" -> "update"
    [] s = "disks"  -> "counts"
    [] s = "insert" -> "readback"
    [] OTHER        -> "commit"

(* Mutants of OnError: RELEASE without PSQL_ROLLBACK, and neither. *)
OnErrorNoRollback(s) == IF s \in {"names", "disks"} THEN "return" ELSE "release"

OnErrorPlainReturn(s) == IF s = "update" THEN "commit" ELSE "return"

(* Where a handler goes when something in a stage fails.  The psql_rename  *)
(* of pgfuse_rename is followed by PSQL_COMMIT whatever it returned.       *)
OnError(s) ==
  CASE s \in {"names", "disks"} -> "return"
    [] s = "update"             -> "commit"
    [] OTHER                    -> "rollback"

(* Mutant of ErrorResult: pgfuse_rename forgets what psql_rename returned. *)
ErrorResultDropped(s) == IF s \in {"readback", "update"} THEN "ok" ELSE "err"

(* The result it then returns: pgfuse_create returns that of its INSERT    *)
(* when it cannot read the row back.                                       *)
ErrorResult(s) == IF s = "readback" THEN "ok" ELSE "err"

Writes(s) == s \in {"update", "insert", "body"}

Location == Stage \cup {"idle", "gone", "acquire", "begin", "commit", "rollback", "release", "return"}

-----------------------------------------------------------------------------
(* A single-threaded mount has one thread and one connection. *)
Single == CHOOSE t \in Thread : TRUE

Shared == CHOOSE c \in Conn : TRUE

Init ==
  /\ multi_threaded \in BOOLEAN
  /\ leaked = {}
  /\ free = IF multi_threaded THEN Conn ELSE {Shared}
  /\ using = [t \in Thread |-> NULL]
  /\ up = [c \in Conn |-> TRUE]
  /\ noticed = [c \in Conn |-> FALSE]
  /\ txn = [c \in Conn |-> "idle"]
  /\ pc = [t \in Thread |-> "idle"]
  /\ op \in [Thread -> Op]
  /\ res = [t \in Thread |-> "err"]
  /\ unsaved = {}

(* FUSE calls a handler. *)
Call(t, o) ==
  /\ pc[t] = "idle"
  /\ multi_threaded \/ t = Single
  /\ pc' = [pc EXCEPT ![t] = "acquire"]
  /\ op' = [op EXCEPT ![t] = o]
  /\ unsaved' = unsaved \ {t}
  /\ res' = [res EXCEPT ![t] = "err"]
  /\ UNCHANGED <<multi_threaded, leaked, free, using, up, noticed, txn>>

(* Mutant of psql_acquire: ACQUIRE goes on without a connection. *)
psql_acquire_unchecked(t) ==
  /\ pc[t] = "acquire"
  /\ IF free = {} THEN UNCHANGED <<free, using>>
     ELSE \E c \in free : P!Take(t, c, {d \in free : noticed[d]})
  /\ pc' = [pc EXCEPT ![t] = "begin"]
  /\ UNCHANGED <<multi_threaded, leaked, up, noticed, txn, op, res, unsaved>>

(* psql_acquire: the pool, which throws out what it sees to be broken, or  *)
(* the one connection of a single-threaded mount.                          *)
psql_acquire(t) ==
  /\ pc[t] = "acquire"
  /\ \E c \in free :
       IF multi_threaded
       THEN P!Take(t, c, {d \in free : noticed[d]})
       ELSE using' = [using EXCEPT ![t] = c] /\ UNCHANGED free
  /\ pc' = [pc EXCEPT ![t] = "begin"]
  /\ UNCHANGED <<multi_threaded, leaked, up, noticed, txn, op, res, unsaved>>

(* PQexec on a connection that is gone makes PQstatus say so. *)
Notice(c) == noticed' = [noticed EXCEPT ![c] = @ \/ ~up[c]]

(* The handler returns r without RELEASE. *)
PlainReturn(t, r) ==
  /\ pc' = [pc EXCEPT ![t] = "idle"]
  /\ res' = [res EXCEPT ![t] = r]
  /\ IF multi_threaded THEN P!Lose(t)
     ELSE using' = [using EXCEPT ![t] = NULL] /\ UNCHANGED free

(* PSQL_BEGIN.  BEGIN inside an open transaction is a warning. *)
psql_begin(t) ==
  LET c == using[t] IN
  /\ pc[t] = "begin"
  /\ IF up[c] /\ txn[c] # "aborted"
     THEN /\ txn' = [txn EXCEPT ![c] = "open"]
          /\ pc' = [pc EXCEPT ![t] = FirstStage(op[t])]
          /\ UNCHANGED <<free, using, noticed, res>>
     ELSE /\ PlainReturn(t, "err")
          /\ Notice(c)
          /\ UNCHANGED txn
  /\ UNCHANGED <<multi_threaded, leaked, up, op, unsaved>>

(* All statements of a stage succeed. *)
StageDone(t) ==
  LET c == using[t]  s == pc[t] IN
  /\ s \in Stage
  /\ up[c] /\ txn[c] = "open"
  /\ pc' = [pc EXCEPT ![t] = AfterStage(s)]
  /\ unsaved' = IF Writes(s) THEN unsaved \cup {t} ELSE unsaved
  /\ res' = [res EXCEPT ![t] = "ok"]
  /\ UNCHANGED <<multi_threaded, leaked, free, using, up, noticed, txn, op>>

(* A check of the handler itself refuses: no entry, exists already, not a  *)
(* directory, read-only...  Nothing is wrong with the transaction.         *)
StageRefused(t) ==
  LET c == using[t]  s == pc[t] IN
  /\ s \in Stage
  /\ up[c] /\ txn[c] = "open"
  /\ pc' = [pc EXCEPT ![t] = OnError(s)]
  /\ res' = [res EXCEPT ![t] = ErrorResult(s)]
  /\ UNCHANGED <<multi_threaded, leaked, free, using, up, noticed, txn, op, unsaved>>

(* A statement fails, after others may have written. *)
StageFailed(t) ==
  LET c == using[t]  s == pc[t] IN
  /\ s \in Stage
  /\ pc' = [pc EXCEPT ![t] = OnError(s)]
  /\ res' = [res EXCEPT ![t] = ErrorResult(s)]
  /\ txn' = [txn EXCEPT ![c] = IF up[c] THEN "aborted" ELSE @]
  /\ Notice(c)
  /\ \/ UNCHANGED unsaved
     \/ Writes(s) /\ unsaved' = unsaved \cup {t}
  /\ UNCHANGED <<multi_threaded, leaked, free, using, up, op>>

(* get_tablespace_location fails: psql_get_tablespace_locations still      *)
(* returns 0, and strncmp is given a NULL for the location.  The process   *)
(* ends, and the server rolls back what all its handlers were doing.       *)
LocationNull(t) ==
  /\ pc[t] = "disks"
  /\ pc' = [u \in Thread |-> "gone"]
  /\ using' = [u \in Thread |-> NULL]
  /\ up' = [c \in Conn |-> FALSE]
  /\ txn' = [c \in Conn |-> "idle"]
  /\ UNCHANGED <<multi_threaded, leaked, free, noticed, op, res, unsaved>>

(* pgfuse_rename of a file to its own name. *)
SameName(t) ==
  LET c == using[t] IN
  /\ pc[t] = "names"
  /\ up[c] /\ txn[c] = "open"
  /\ pc' = [pc EXCEPT ![t] = "return"]
  /\ res' = [res EXCEPT ![t] = "ok"]
  /\ UNCHANGED <<multi_threaded, leaked, free, using, up, noticed, txn, op, unsaved>>

(* The plain returns of pgfuse_rename and pgfuse_statfs. *)
Return(t) ==
  /\ pc[t] = "return"
  /\ PlainReturn(t, res[t])
  /\ leaked' = IF multi_threaded /\ op[t] \in {"rename", "statfs"} THEN leaked \cup {using[t]} ELSE leaked
  /\ UNCHANGED <<multi_threaded, up, noticed, txn, op, unsaved>>

(* PSQL_COMMIT and PSQL_ROLLBACK. *)
psql_commit(t) ==
  LET c == using[t] IN
  /\ pc[t] = "commit"
  /\ IF up[c]
     THEN /\ txn' = [txn EXCEPT ![c] = "idle"]
          /\ unsaved' = IF txn[c] = "open" THEN unsaved \ {t} ELSE unsaved
          /\ pc' = [pc EXCEPT ![t] = "release"]
          /\ UNCHANGED <<free, using, noticed, res>>
     ELSE /\ PlainReturn(t, "err")
          /\ Notice(c)
          /\ UNCHANGED <<txn, unsaved>>
  /\ UNCHANGED <<multi_threaded, leaked, up, op>>

psql_rollback(t) ==
  LET c == using[t] IN
  /\ pc[t] = "rollback"
  /\ IF up[c]
     THEN /\ txn' = [txn EXCEPT ![c] = "idle"]
          /\ pc' = [pc EXCEPT ![t] = "release"]
          /\ UNCHANGED <<free, using, noticed, res>>
     ELSE /\ PlainReturn(t, "err")
          /\ Notice(c)
          /\ UNCHANGED txn
  /\ UNCHANGED <<multi_threaded, leaked, up, op, unsaved>>

(* RELEASE, and the handler returns. *)
psql_release(t) ==
  /\ pc[t] = "release"
  /\ IF multi_threaded THEN P!Give(t)
     ELSE using' = [using EXCEPT ![t] = NULL] /\ UNCHANGED free
  /\ pc' = [pc EXCEPT ![t] = "idle"]
  /\ UNCHANGED <<multi_threaded, leaked, up, noticed, txn, op, res, unsaved>>

(* The server or the network drops a connection; the server rolls back.    *)
(* Nothing in pgfuse brings it up again.                                   *)
LinkLost(c) ==
  /\ LinkMayFail
  /\ up[c]
  /\ up' = [up EXCEPT ![c] = FALSE]
  /\ txn' = [txn EXCEPT ![c] = "idle"]
  /\ UNCHANGED <<multi_threaded, leaked, free, using, noticed, pc, op, res, unsaved>>

Step(t) ==
  \/ psql_begin(t)
  \/ StageDone(t)
  \/ StageRefused(t)
  \/ StageFailed(t)
  \/ LocationNull(t)
  \/ SameName(t)
  \/ Return(t)
  \/ psql_commit(t)
  \/ psql_rollback(t)
  \/ psql_release(t)

Next ==
  \/ \E t \in Thread : (\E o \in Op : Call(t, o)) \/ psql_acquire(t) \/ Step(t)
  \/ \E c \in Conn : LinkLost(c)

Spec == Init /\ [][Next]_vars

(* The server answers every statement, and handlers are scheduled. *)
FairSpec == Spec /\ \A t \in Thread : WF_vars(Step(t))

-----------------------------------------------------------------------------
TypeOK ==
  /\ multi_threaded \in BOOLEAN
  /\ leaked \in SUBSET Conn
  /\ free \in SUBSET Conn
  /\ using \in [Thread -> Conn \cup {NULL}]
  /\ up \in [Conn -> BOOLEAN]
  /\ noticed \in [Conn -> BOOLEAN]
  /\ txn \in [Conn -> {"idle", "open", "aborted"}]
  /\ pc \in [Thread -> Location]
  /\ op \in [Thread -> Op]
  /\ res \in [Thread -> {"ok", "err"}]
  /\ unsaved \in SUBSET Thread
  /\ \A t \in Thread : using[t] = NULL <=> pc[t] \in {"idle", "gone", "acquire"}

(* The connections some handler is running with. *)
Used == {using[t] : t \in Thread} \ {NULL}

(* "What file operations should form a database transaction": each one of  *)
(* them.  With a pool, a handler never starts with a connection on which a *)
(* transaction was left open by an earlier one, whichever way that ended,  *)
(* and the check of PQstatus in psql_pool_acquire never has anything to    *)
(* find: a handler that has seen its connection break does not reach       *)
(* RELEASE.                                                                *)
FreeConnsAreClean ==
  multi_threaded => \A c \in free : txn[c] = "idle" /\ ~noticed[c]

(* "Data is always persistent in database": when a handler has returned    *)
(* success, what it wrote is committed.                                    *)
SuccessIsCommitted ==
  \A t \in unsaved : pc[t] = "idle" => res[t] = "err"

(* The same for every handler but pgfuse_create: a COMMIT that the server  *)
(* answers with success but executes as a rollback is never reported as    *)
(* success, the PSQL_COMMIT after a failed psql_rename included.           *)
SuccessIsCommittedButCreate ==
  \A t \in unsaved : pc[t] = "idle" /\ op[t] # "create" => res[t] = "err"

(* The PSQL_ macros lose connections, but no working one: a connection    *)
(* that is neither free nor in use is broken, or was kept by one of the    *)
(* plain returns of pgfuse_rename and pgfuse_statfs.                       *)
OnlyBrokenConnsAreLost ==
  multi_threaded => \A c \in Conn \ (free \cup Used \cup leaked) : ~up[c]

(* "Slots of allocated/available connections per thread": a connection     *)
(* that is not available is allocated to a thread that runs a handler.     *)
NoConnLost ==
  multi_threaded => Conn = free \cup Used

(* While the server is there and no plain return has kept a connection, an *)
(* exhausted pool fills up again, so that waiting in psql_pool_acquire     *)
(* ends for someone.                                                       *)
PoolRefills ==
  free = {} ~> (free # {} \/ leaked # {} \/ \E c \in Conn : ~up[c])
=============================================================================
