---------------------------- MODULE SessionProofs ---------------------------
(***************************************************************************)
(* Proofs about Session for every number of threads and connections, every *)
(* set of handlers, with and without a pool.                               *)
(***************************************************************************)
EXTENDS Session, TLAPS

(* A mount without a pool has its one connection and its one thread. *)
SharedInv ==
  ~multi_threaded => /\ free = {Shared}
                     /\ \A t \in Thread \ {Single} : pc[t] \in {"idle", "gone"}

(* libpq sees a connection gone only when it is. *)
NoticedInv == \A c \in Conn : noticed[c] => ~up[c]

(* With a pool a connection is free or belongs to one thread; it is clean  *)
(* when it is free, when its handler starts and when it gets to RELEASE.   *)
OwnInv ==
  multi_threaded =>
    /\ \A t \in Thread : using[t] \notin free
    /\ \A t, u \in Thread : using[t] # NULL /\ using[t] = using[u] => t = u
    /\ \A t \in Thread : pc[t] \in {"begin", "release"} =>
         txn[using[t]] = "idle" /\ ~noticed[using[t]]

(* A handler is in its own stages, and only pgfuse_rename and              *)
(* pgfuse_statfs have plain returns.                                       *)
StageInv ==
  \A t \in Thread :
    /\ pc[t] \in {"names", "parent", "update"} => op[t] = "rename"
    /\ pc[t] \in {"disks", "counts"} => op[t] = "statfs"
    /\ pc[t] \in {"insert", "readback"} => op[t] = "create"
    /\ pc[t] = "return" => op[t] \in {"rename", "statfs"}

(* Nothing is written before the writing stage; a handler that comes to    *)
(* PSQL_COMMIT with success has an open transaction or a dead link; one    *)
(* that goes on with uncommitted writes, other than pgfuse_create, has an  *)
(* error to return.                                                        *)
SavedInv ==
  \A t \in Thread :
    /\ pc[t] = "commit" /\ res[t] = "ok" => txn[using[t]] = "open" \/ ~up[using[t]]
    /\ t \in unsaved =>
         /\ pc[t] \in {"readback", "commit", "rollback", "release", "idle", "gone"}
         /\ pc[t] \in {"rollback", "release", "idle"} /\ op[t] # "create" => res[t] = "err"

SessionInv ==
  /\ TypeOK
  /\ SharedInv
  /\ NoticedInv
  /\ OwnInv
  /\ StageInv
  /\ SavedInv
  /\ FreeConnsAreClean
  /\ OnlyBrokenConnsAreLost

-----------------------------------------------------------------------------
(* There is a connection to share. *)
LEMMA SharedIsAConn == Shared \in Conn
BY SessionAssumption DEF SessionAssumption, Shared

(* The invariant holds when the mount is done. *)
LEMMA InitInv == Init => SessionInv
<1> SUFFICES ASSUME Init PROVE SessionInv
  OBVIOUS
<1> USE SessionAssumption, SharedIsAConn DEF SessionAssumption, Init
<1>1. TypeOK
  BY DEF TypeOK, Location
<1>2. SharedInv /\ NoticedInv /\ OwnInv
  BY DEF SharedInv, NoticedInv, OwnInv
<1>3. StageInv /\ SavedInv
  BY DEF StageInv, SavedInv
<1>4. FreeConnsAreClean /\ OnlyBrokenConnsAreLost
  BY DEF FreeConnsAreClean, OnlyBrokenConnsAreLost
<1> QED
  BY <1>1, <1>2, <1>3, <1>4 DEF SessionInv

(* A plain return takes the connection from the thread and leaves the free *)
(* ones alone, with and without a pool.                                    *)
LEMMA PlainReturnForgets ==
  ASSUME NEW t \in Thread, NEW r \in {"ok", "err"}, PlainReturn(t, r)
  PROVE  /\ pc' = [pc EXCEPT ![t] = "idle"]
         /\ res' = [res EXCEPT ![t] = r]
         /\ using' = [using EXCEPT ![t] = NULL]
         /\ free' = free
BY DEF PlainReturn, P!Lose

(* Noticing keeps the type of what libpq has noticed. *)
LEMMA NoticeType ==
  ASSUME noticed \in [Conn -> BOOLEAN], NEW c \in Conn, Notice(c)
  PROVE  noticed' \in [Conn -> BOOLEAN]
BY Zenon DEF Notice

(* A call forgets what the thread's last handler left. *)
LEMMA Inv_Call ==
  ASSUME SessionInv, NEW t \in Thread, NEW o \in Op, Call(t, o) PROVE SessionInv'
<1> USE SessionAssumption, SharedIsAConn
    DEF SessionAssumption, SessionInv, TypeOK, Location,
      Call
<1>1. TypeOK'
  BY DEF TypeOK, Stage
<1>2. SharedInv'
  BY DEF SharedInv
<1>3. NoticedInv'
  BY DEF NoticedInv
<1>4. OwnInv'
  BY DEF OwnInv
<1>5. StageInv'
  BY DEF StageInv
<1>6. SavedInv'
  BY DEF SavedInv
<1>7. FreeConnsAreClean'
  BY DEF FreeConnsAreClean
<1>8. OnlyBrokenConnsAreLost'
  BY DEF OnlyBrokenConnsAreLost, Used
<1> QED
  BY <1>1, <1>2, <1>3, <1>4, <1>5, <1>6, <1>7, <1>8

(* What psql_acquire hands out was free, hence clean, and no one else's;   *)
(* what the pool throws out is broken.                                     *)
LEMMA Inv_psql_acquire ==
  ASSUME SessionInv, NEW t \in Thread, psql_acquire(t) PROVE SessionInv'
<1> USE SessionAssumption, SharedIsAConn
    DEF SessionAssumption, SessionInv, TypeOK, Location,
      psql_acquire, P!Take
<1>1. TypeOK'
  BY DEF TypeOK, Stage
<1>2. SharedInv'
  BY DEF SharedInv
<1>3. NoticedInv'
  BY DEF NoticedInv
<1>4. OwnInv'
  BY DEF OwnInv, FreeConnsAreClean
<1>5. StageInv'
  BY DEF StageInv
<1>6. SavedInv'
  BY DEF SavedInv
<1>7. FreeConnsAreClean'
  BY DEF FreeConnsAreClean
<1>8. OnlyBrokenConnsAreLost'
  BY DEF OnlyBrokenConnsAreLost, Used, NoticedInv
<1> QED
  BY <1>1, <1>2, <1>3, <1>4, <1>5, <1>6, <1>7, <1>8

(* PSQL_BEGIN fails on a clean connection only when the link is gone. *)
LEMMA Inv_psql_begin ==
  ASSUME SessionInv, NEW t \in Thread, psql_begin(t) PROVE SessionInv'
<1> USE SessionAssumption, SharedIsAConn
    DEF SessionAssumption, SessionInv, TypeOK, Location,
      psql_begin, PlainReturn, P!Lose, Notice, FirstStage, AllOps
<1>1. TypeOK'
  <2>1. using[t] \in Conn
    OBVIOUS
  <2>2. CASE up[using[t]] /\ txn[using[t]] # "aborted"
    BY <2>1, <2>2 DEF Stage
  <2>3. CASE ~(up[using[t]] /\ txn[using[t]] # "aborted")
    <3>1. PlainReturn(t, "err") /\ Notice(using[t])
      BY <2>3
    <3>2. noticed' \in [Conn -> BOOLEAN]
      BY <2>1, <3>1, NoticeType
    <3> QED
      BY <2>1, <2>3, <3>1, <3>2, PlainReturnForgets
  <2> QED
    BY <2>2, <2>3
<1>2. SharedInv'
  BY DEF SharedInv
<1>3. NoticedInv'
  BY DEF NoticedInv
<1>4. OwnInv'
  BY DEF OwnInv
<1>5. StageInv'
  BY DEF StageInv
<1>6. SavedInv'
  BY DEF SavedInv
<1>7. FreeConnsAreClean'
  BY DEF FreeConnsAreClean, OwnInv
<1>8. OnlyBrokenConnsAreLost'
  BY DEF OnlyBrokenConnsAreLost, Used, OwnInv
<1> QED
  BY <1>1, <1>2, <1>3, <1>4, <1>5, <1>6, <1>7, <1>8

(* A stage that is done leads to PSQL_COMMIT with the transaction open. *)
LEMMA Inv_StageDone ==
  ASSUME SessionInv, NEW t \in Thread, StageDone(t) PROVE SessionInv'
<1> USE SessionAssumption, SharedIsAConn
    DEF SessionAssumption, SessionInv, TypeOK, Location,
      StageDone, AfterStage, Writes, Stage
<1>1. TypeOK'
  BY DEF TypeOK, Stage
<1>2. SharedInv'
  BY DEF SharedInv
<1>3. NoticedInv'
  BY DEF NoticedInv
<1>4. OwnInv'
  BY DEF OwnInv
<1>5. StageInv'
  BY DEF StageInv
<1>6. SavedInv'
  BY DEF SavedInv
<1>7. FreeConnsAreClean'
  BY DEF FreeConnsAreClean
<1>8. OnlyBrokenConnsAreLost'
  BY DEF OnlyBrokenConnsAreLost, Used
<1> QED
  BY <1>1, <1>2, <1>3, <1>4, <1>5, <1>6, <1>7, <1>8

(* A refusal has written nothing, except behind the INSERT of pgfuse_create. *)
LEMMA Inv_StageRefused ==
  ASSUME SessionInv, NEW t \in Thread, StageRefused(t) PROVE SessionInv'
<1> USE SessionAssumption, SharedIsAConn
    DEF SessionAssumption, SessionInv, TypeOK, Location,
      StageRefused, OnError, ErrorResult, Stage
<1>1. TypeOK'
  BY DEF TypeOK, Stage
<1>2. SharedInv'
  BY DEF SharedInv
<1>3. NoticedInv'
  BY DEF NoticedInv
<1>4. OwnInv'
  BY DEF OwnInv
<1>5. StageInv'
  BY DEF StageInv
<1>6. SavedInv'
  BY DEF SavedInv, StageInv
<1>7. FreeConnsAreClean'
  BY DEF FreeConnsAreClean
<1>8. OnlyBrokenConnsAreLost'
  BY DEF OnlyBrokenConnsAreLost, Used
<1> QED
  BY <1>1, <1>2, <1>3, <1>4, <1>5, <1>6, <1>7, <1>8

(* A failed statement spoils the transaction of its own thread only. *)
LEMMA Inv_StageFailed ==
  ASSUME SessionInv, NEW t \in Thread, StageFailed(t) PROVE SessionInv'
<1> USE SessionAssumption, SharedIsAConn
    DEF SessionAssumption, SessionInv, TypeOK, Location,
      StageFailed, OnError, ErrorResult, Writes, Notice, Stage
<1>1. TypeOK'
  BY DEF TypeOK, Stage
<1>2. SharedInv'
  BY DEF SharedInv
<1>3. NoticedInv'
  BY DEF NoticedInv
<1>4. OwnInv'
  BY DEF OwnInv
<1>5. StageInv'
  BY DEF StageInv
<1>6. SavedInv'
  BY DEF SavedInv, StageInv, OwnInv, SharedInv
<1>7. FreeConnsAreClean'
  BY DEF FreeConnsAreClean, OwnInv
<1>8. OnlyBrokenConnsAreLost'
  BY DEF OnlyBrokenConnsAreLost, Used
<1> QED
  BY <1>1, <1>2, <1>3, <1>4, <1>5, <1>6, <1>7, <1>8

(* After the process has ended nothing is in use and no link is up. *)
LEMMA Inv_LocationNull ==
  ASSUME SessionInv, NEW t \in Thread, LocationNull(t) PROVE SessionInv'
<1> USE SessionAssumption DEF SessionAssumption, SessionInv, TypeOK, Location, LocationNull
<1>1. TypeOK'
  BY DEF TypeOK
<1>2. SharedInv'
  BY DEF SharedInv
<1>3. NoticedInv'
  BY DEF NoticedInv
<1>4. OwnInv'
  BY DEF OwnInv
<1>5. StageInv'
  BY DEF StageInv
<1>6. SavedInv'
  BY DEF SavedInv
<1>7. FreeConnsAreClean'
  BY DEF FreeConnsAreClean
<1>8. OnlyBrokenConnsAreLost'
  BY DEF OnlyBrokenConnsAreLost
<1> QED
  BY <1>1, <1>2, <1>3, <1>4, <1>5, <1>6, <1>7, <1>8

(* A rename to the same name has written nothing. *)
LEMMA Inv_SameName ==
  ASSUME SessionInv, NEW t \in Thread, SameName(t) PROVE SessionInv'
<1> USE SessionAssumption, SharedIsAConn
    DEF SessionAssumption, SessionInv, TypeOK, Location,
      SameName
<1>1. TypeOK'
  BY DEF TypeOK, Stage
<1>2. SharedInv'
  BY DEF SharedInv
<1>3. NoticedInv'
  BY DEF NoticedInv
<1>4. OwnInv'
  BY DEF OwnInv
<1>5. StageInv'
  BY DEF StageInv
<1>6. SavedInv'
  BY DEF SavedInv
<1>7. FreeConnsAreClean'
  BY DEF FreeConnsAreClean
<1>8. OnlyBrokenConnsAreLost'
  BY DEF OnlyBrokenConnsAreLost, Used
<1> QED
  BY <1>1, <1>2, <1>3, <1>4, <1>5, <1>6, <1>7, <1>8

(* Only pgfuse_rename and pgfuse_statfs return plainly. *)
LEMMA Inv_Return ==
  ASSUME SessionInv, NEW t \in Thread, Return(t) PROVE SessionInv'
<1> USE SessionAssumption, SharedIsAConn
    DEF SessionAssumption, SessionInv, TypeOK, Location,
      Return, PlainReturn, P!Lose
<1>1. TypeOK'
  BY DEF TypeOK, Stage
<1>2. SharedInv'
  BY DEF SharedInv
<1>3. NoticedInv'
  BY DEF NoticedInv
<1>4. OwnInv'
  BY DEF OwnInv
<1>5. StageInv'
  BY DEF StageInv
<1>6. SavedInv'
  BY DEF SavedInv
<1>7. FreeConnsAreClean'
  BY DEF FreeConnsAreClean
<1>8. OnlyBrokenConnsAreLost'
  BY DEF OnlyBrokenConnsAreLost, Used, StageInv
<1> QED
  BY <1>1, <1>2, <1>3, <1>4, <1>5, <1>6, <1>7, <1>8

(* PSQL_COMMIT ends the transaction, or the link is gone. *)
LEMMA Inv_psql_commit ==
  ASSUME SessionInv, NEW t \in Thread, psql_commit(t) PROVE SessionInv'
<1> USE SessionAssumption, SharedIsAConn
    DEF SessionAssumption, SessionInv, TypeOK, Location,
      psql_commit, PlainReturn, P!Lose, Notice
<1>1. TypeOK'
  <2>1. using[t] \in Conn
    OBVIOUS
  <2>2. CASE up[using[t]]
    BY <2>1, <2>2 DEF Stage
  <2>3. CASE ~(up[using[t]])
    <3>1. PlainReturn(t, "err") /\ Notice(using[t])
      BY <2>3
    <3>2. noticed' \in [Conn -> BOOLEAN]
      BY <2>1, <3>1, NoticeType
    <3> QED
      BY <2>1, <2>3, <3>1, <3>2, PlainReturnForgets
  <2> QED
    BY <2>2, <2>3
<1>2. SharedInv'
  BY DEF SharedInv
<1>3. NoticedInv'
  BY DEF NoticedInv
<1>4. OwnInv'
  BY DEF OwnInv, NoticedInv
<1>5. StageInv'
  BY DEF StageInv
<1>6. SavedInv'
  BY DEF SavedInv, OwnInv, SharedInv
<1>7. FreeConnsAreClean'
  BY DEF FreeConnsAreClean, OwnInv
<1>8. OnlyBrokenConnsAreLost'
  BY DEF OnlyBrokenConnsAreLost, Used
<1> QED
  BY <1>1, <1>2, <1>3, <1>4, <1>5, <1>6, <1>7, <1>8

(* PSQL_ROLLBACK ends the transaction, or the link is gone. *)
LEMMA Inv_psql_rollback ==
  ASSUME SessionInv, NEW t \in Thread, psql_rollback(t) PROVE SessionInv'
<1> USE SessionAssumption, SharedIsAConn
    DEF SessionAssumption, SessionInv, TypeOK, Location,
      psql_rollback, PlainReturn, P!Lose, Notice
<1>1. TypeOK'
  <2>1. using[t] \in Conn
    OBVIOUS
  <2>2. CASE up[using[t]]
    BY <2>1, <2>2 DEF Stage
  <2>3. CASE ~(up[using[t]])
    <3>1. PlainReturn(t, "err") /\ Notice(using[t])
      BY <2>3
    <3>2. noticed' \in [Conn -> BOOLEAN]
      BY <2>1, <3>1, NoticeType
    <3> QED
      BY <2>1, <2>3, <3>1, <3>2, PlainReturnForgets
  <2> QED
    BY <2>2, <2>3
<1>2. SharedInv'
  BY DEF SharedInv
<1>3. NoticedInv'
  BY DEF NoticedInv
<1>4. OwnInv'
  BY DEF OwnInv, NoticedInv
<1>5. StageInv'
  BY DEF StageInv
<1>6. SavedInv'
  BY DEF SavedInv, OwnInv, SharedInv
<1>7. FreeConnsAreClean'
  BY DEF FreeConnsAreClean, OwnInv
<1>8. OnlyBrokenConnsAreLost'
  BY DEF OnlyBrokenConnsAreLost, Used
<1> QED
  BY <1>1, <1>2, <1>3, <1>4, <1>5, <1>6, <1>7, <1>8

(* What RELEASE gives back is clean. *)
LEMMA Inv_psql_release ==
  ASSUME SessionInv, NEW t \in Thread, psql_release(t) PROVE SessionInv'
<1> USE SessionAssumption, SharedIsAConn
    DEF SessionAssumption, SessionInv, TypeOK, Location,
      psql_release, P!Give
<1>1. TypeOK'
  BY DEF TypeOK, Stage
<1>2. SharedInv'
  BY DEF SharedInv
<1>3. NoticedInv'
  BY DEF NoticedInv
<1>4. OwnInv'
  BY DEF OwnInv
<1>5. StageInv'
  BY DEF StageInv
<1>6. SavedInv'
  BY DEF SavedInv
<1>7. FreeConnsAreClean'
  BY DEF FreeConnsAreClean, OwnInv
<1>8. OnlyBrokenConnsAreLost'
  BY DEF OnlyBrokenConnsAreLost, Used
<1> QED
  BY <1>1, <1>2, <1>3, <1>4, <1>5, <1>6, <1>7, <1>8

(* A lost link leaves no transaction open, so that a connection that was   *)
(* clean stays clean, and it can only add to the broken ones.              *)
LEMMA Inv_LinkLost ==
  ASSUME SessionInv, NEW c \in Conn, LinkLost(c) PROVE SessionInv'
<1> USE SessionAssumption DEF SessionAssumption, SessionInv, TypeOK, LinkLost
<1>1. TypeOK'
  BY DEF TypeOK
<1>2. SharedInv'
  BY DEF SharedInv
<1>3. NoticedInv'
  BY DEF NoticedInv
<1>4. OwnInv'
  BY DEF OwnInv
<1>5. StageInv'
  BY DEF StageInv
<1>6. SavedInv'
  BY DEF SavedInv
<1>7. FreeConnsAreClean'
  BY DEF FreeConnsAreClean
<1>8. OnlyBrokenConnsAreLost'
  BY DEF OnlyBrokenConnsAreLost, Used
<1> QED
  BY <1>1, <1>2, <1>3, <1>4, <1>5, <1>6, <1>7, <1>8

(* The invariant is inductive. *)
LEMMA InvStep == SessionInv /\ [Next]_vars => SessionInv'
<1> SUFFICES ASSUME SessionInv, [Next]_vars PROVE SessionInv'
  OBVIOUS
<1>1. ASSUME NEW t \in Thread, NEW o \in Op, Call(t, o) PROVE SessionInv'
  BY <1>1, Inv_Call
<1>2. ASSUME NEW t \in Thread, psql_acquire(t) PROVE SessionInv'
  BY <1>2, Inv_psql_acquire
<1>3. ASSUME NEW t \in Thread, Step(t) PROVE SessionInv'
  BY <1>3, Inv_psql_begin, Inv_StageDone, Inv_StageRefused, Inv_StageFailed, Inv_LocationNull,
     Inv_SameName, Inv_Return, Inv_psql_commit, Inv_psql_rollback, Inv_psql_release DEF Step
<1>4. ASSUME NEW c \in Conn, LinkLost(c) PROVE SessionInv'
  BY <1>4, Inv_LinkLost
<1>5. CASE UNCHANGED vars
  BY <1>5 DEF vars, SessionInv, TypeOK, SharedInv, NoticedInv, OwnInv, StageInv, SavedInv,
     FreeConnsAreClean, OnlyBrokenConnsAreLost, Used
<1> QED
  BY <1>1, <1>2, <1>3, <1>4, <1>5 DEF Next

(* The invariant holds throughout, whatever the handlers, the server and   *)
(* the network do.                                                         *)
THEOREM SessionInvariant == Spec => []SessionInv
BY InitInv, InvStep, PTL DEF Spec

(* Every variable keeps its type, and a thread has a connection exactly    *)
(* from ACQUIRE to the end of its handler.                                 *)
THEOREM SessionTypeCorrect == Spec => []TypeOK
<1>1. SessionInv => TypeOK
  BY DEF SessionInv
<1> QED
  BY <1>1, SessionInvariant, PTL

(* With a pool, no handler of pgfuse.c ever starts inside a transaction    *)
(* that an earlier one left open, nor with a connection known to be broken.*)
THEOREM HandlersStartClean == Spec => []FreeConnsAreClean
<1>1. SessionInv => FreeConnsAreClean
  BY DEF SessionInv
<1> QED
  BY <1>1, SessionInvariant, PTL

(* What a handler other than pgfuse_create wrote is committed when it      *)
(* returns success, although PSQL_COMMIT takes the COMMIT of an aborted    *)
(* transaction for a success.                                              *)
THEOREM SuccessMeansCommitted == Spec => []SuccessIsCommittedButCreate
<1>1. SessionInv => SuccessIsCommittedButCreate
  BY DEF SessionInv, TypeOK, SavedInv, SuccessIsCommittedButCreate
<1> QED
  BY <1>1, SessionInvariant, PTL

(* The early returns of the PSQL_ macros never cost the pool a connection  *)
(* that works: only pgfuse_rename's and pgfuse_statfs' plain returns do.   *)
THEOREM MacrosLoseNoWorkingConn == Spec => []OnlyBrokenConnsAreLost
<1>1. SessionInv => OnlyBrokenConnsAreLost
  BY DEF SessionInv
<1> QED
  BY <1>1, SessionInvariant, PTL
=============================================================================
