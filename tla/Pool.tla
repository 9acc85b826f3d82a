-------------------------------- MODULE Pool --------------------------------
(***************************************************************************)
(* The database connection pool of a multi-threaded mount (pool.c).        *)
(*                                                                         *)
(* Every critical section of pool.c runs under pool->lock, so each one is  *)
(* one action here.  What happens outside the lock is an action of its     *)
(* own: the signal that psql_pool_release sends after the unlock, the      *)
(* return from pthread_cond_wait, and what the FUSE handler does with the  *)
(* connection it was given.                                                *)
(*                                                                         *)
(* A connection is known to the pool by its address only.  PQfinish gives  *)
(* the address back to the allocator, so a later PQconnectdb may return it *)
(* again: two slots can then hold the same pointer.                        *)
(***************************************************************************)
EXTENDS Integers, FiniteSets

CONSTANTS
  Thread,     \* the worker threads of the FUSE main loop
  Addr,       \* the addresses the allocator can hand out for a PGconn
  Size,       \* pool->size, MAX_DB_CONNECTIONS in config.h
  AVAILABLE,  \* the two marks a slot has when no thread owns it
  ERROR,
  NULL        \* no connection

ASSUME SizeAssumption == Size \in Nat \ {0}

ASSUME MarkAssumption ==
  /\ AVAILABLE \notin Thread
  /\ ERROR \notin Thread
  /\ AVAILABLE # ERROR
  /\ NULL \notin Addr

ASSUME FiniteAssumption == IsFiniteSet(Thread)

VARIABLES
  conns,      \* conns[i]: the pointer in slot i
  avail,      \* avail[i]: AVAILABLE, ERROR or the owning thread of slot i
  next,       \* the loop counter of psql_pool_init; Size once it returned
  live,       \* the addresses of the PGconn objects that exist
  status,     \* status[a]: what PQstatus reports of the object at a
  pc,         \* where each thread is
  held,       \* held[t]: the connection psql_pool_acquire returned to t
  destroyed,  \* psql_pool_destroy has run
  finishedTwice \* PQfinish was called on an address that was not allocated

vars == <<conns, avail, next, live, status, pc, held, destroyed, finishedTwice>>

Slot == 0 .. Size - 1

(***************************************************************************)
(* "out": not in the pool's code.  "lock": about to take the lock in       *)
(* psql_pool_acquire.  "wait": blocked in pthread_cond_wait.  "woken":     *)
(* woken, on its way back to the top of the loop.  "use": has its          *)
(* connection.  "signal": slot given back, about to signal.                *)
(***************************************************************************)
Location == {"out", "lock", "wait", "woken", "use", "signal"}

At(l) == {t \in Thread : pc[t] = l}

AvailableSlots == {i \in Slot : avail[i] = AVAILABLE}

Usable(i) == avail[i] = AVAILABLE /\ status[conns[i]] = "OK"

Ready == next = Size /\ ~destroyed

-----------------------------------------------------------------------------
Init ==
  /\ conns = [i \in Slot |-> NULL]
  /\ avail = [i \in Slot |-> ERROR]
  /\ next = 0
  /\ live = {}
  /\ status = [a \in Addr |-> "BAD"]
  /\ pc = [t \in Thread |-> "out"]
  /\ held = [t \in Thread |-> NULL]
  /\ destroyed = FALSE
  /\ finishedTwice = FALSE

(* Mutant of psql_pool_init: the loop runs once too often. *)
psql_pool_init_le(a, ok) ==
  /\ next <= Size
  /\ a \notin live
  /\ conns' = [conns EXCEPT ![next] = a]
  /\ avail' = [avail EXCEPT ![next] = IF ok THEN AVAILABLE ELSE ERROR]
  /\ live' = IF ok THEN live \cup {a} ELSE live
  /\ status' = [status EXCEPT ![a] = IF ok THEN "OK" ELSE "BAD"]
  /\ next' = next + 1
  /\ UNCHANGED <<pc, held, destroyed, finishedTwice>>

(***************************************************************************)
(* psql_pool_init, one turn of its loop.  PQconnectdb allocates the object *)
(* whether or not the connection comes up; one that did not is finished at *)
(* once, but its pointer stays in conns[i].                                *)
(***************************************************************************)
psql_pool_init(a, ok) ==
  /\ next < Size
  /\ a \notin live
  /\ conns' = [conns EXCEPT ![next] = a]
  /\ avail' = [avail EXCEPT ![next] = IF ok THEN AVAILABLE ELSE ERROR]
  /\ live' = IF ok THEN live \cup {a} ELSE live
  /\ status' = [status EXCEPT ![a] = IF ok THEN "OK" ELSE "BAD"]
  /\ next' = next + 1
  /\ UNCHANGED <<pc, held, destroyed, finishedTwice>>

(* A FUSE handler starts and calls ACQUIRE. *)
Call(t) ==
  /\ Ready
  /\ pc[t] = "out"
  /\ pc' = [pc EXCEPT ![t] = "lock"]
  /\ UNCHANGED <<conns, avail, next, live, status, held, destroyed, finishedTwice>>

(* Mutant of psql_pool_acquire: the slot is not marked as taken. *)
psql_pool_acquire_unmarked(t) ==
  /\ pc[t] \in {"lock", "woken"}
  /\ \E i \in Slot : Usable(i) /\ held' = [held EXCEPT ![t] = conns[i]]
  /\ pc' = [pc EXCEPT ![t] = "use"]
  /\ UNCHANGED <<conns, avail, next, live, status, destroyed, finishedTwice>>

(***************************************************************************)
(* psql_pool_acquire, a pass of the loop that finds a connection.  The     *)
(* scan goes upwards; the broken connections it meets on its way become    *)
(* ERROR, those behind the one it takes are left alone.                    *)
(***************************************************************************)
psql_pool_acquire(t) ==
  /\ pc[t] \in {"lock", "woken"}
  /\ \E i \in Slot :
       /\ Usable(i)
       /\ \A j \in Slot : j < i => ~Usable(j)
       /\ avail' = [j \in Slot |-> IF j = i THEN t
                                   ELSE IF j < i /\ avail[j] = AVAILABLE THEN ERROR
                                   ELSE avail[j]]
       /\ held' = [held EXCEPT ![t] = conns[i]]
  /\ pc' = [pc EXCEPT ![t] = "use"]
  /\ UNCHANGED <<conns, next, live, status, destroyed, finishedTwice>>

(* psql_pool_acquire, a pass that finds none: the thread blocks.  The lock *)
(* is given up by pthread_cond_wait only, after the scan.                  *)
psql_pool_acquire_wait(t) ==
  /\ pc[t] \in {"lock", "woken"}
  /\ \A i \in Slot : ~Usable(i)
  /\ avail' = [j \in Slot |-> IF avail[j] = AVAILABLE THEN ERROR ELSE avail[j]]
  /\ pc' = [pc EXCEPT ![t] = "wait"]
  /\ UNCHANGED <<conns, next, live, status, held, destroyed, finishedTwice>>

(* pthread_cond_wait may return without a signal. *)
SpuriousWakeup(t) ==
  /\ pc[t] = "wait"
  /\ pc' = [pc EXCEPT ![t] = "woken"]
  /\ UNCHANGED <<conns, avail, next, live, status, held, destroyed, finishedTwice>>

(* A libpq call of the handler finds the connection broken. *)
Break(t) ==
  /\ pc[t] = "use"
  /\ status' = [status EXCEPT ![held[t]] = "BAD"]
  /\ UNCHANGED <<conns, avail, next, live, pc, held, destroyed, finishedTwice>>

(***************************************************************************)
(* The slots psql_pool_release compares, and the one its downward scan     *)
(* stops at: the highest slot with that pointer.                           *)
(***************************************************************************)
Matching(c) == {i \in Slot : conns[i] = c}

(* Mutant of Found: the scan goes upwards. *)
FoundUpwards(i, c) == i \in Matching(c) /\ \A j \in Matching(c) : j >= i

Found(i, c) == i \in Matching(c) /\ \A j \in Matching(c) : j <= i

(***************************************************************************)
(* psql_pool_release up to the unlock.  The -EINVAL return for a pointer   *)
(* the pool does not know is not taken: ReleaseFindsOwnSlot.               *)
(***************************************************************************)
psql_pool_release(t) ==
  /\ pc[t] = "use"
  /\ \E i \in Slot : Found(i, held[t]) /\ avail' = [avail EXCEPT ![i] = AVAILABLE]
  /\ held' = [held EXCEPT ![t] = NULL]
  /\ pc' = [pc EXCEPT ![t] = "signal"]
  /\ UNCHANGED <<conns, next, live, status, destroyed, finishedTwice>>

(* Mutant of psql_pool_release_signal: it does not signal. *)
psql_pool_release_silent(t) ==
  /\ pc[t] = "signal"
  /\ pc' = [pc EXCEPT ![t] = "out"]
  /\ UNCHANGED <<conns, avail, next, live, status, held, destroyed, finishedTwice>>

(* psql_pool_release after the unlock: one waiter, if any, is woken. *)
psql_pool_release_signal(t) ==
  /\ pc[t] = "signal"
  /\ \/ /\ At("wait") = {}
        /\ pc' = [pc EXCEPT ![t] = "out"]
     \/ \E w \in At("wait") : pc' = [pc EXCEPT ![t] = "out", ![w] = "woken"]
  /\ UNCHANGED <<conns, avail, next, live, status, held, destroyed, finishedTwice>>

(***************************************************************************)
(* The handler returns without RELEASE: PSQL_BEGIN, PSQL_COMMIT and        *)
(* PSQL_ROLLBACK return as soon as they fail, pgfuse_rename and            *)
(* pgfuse_statfs have plain returns after ACQUIRE.                         *)
(***************************************************************************)
Abandon(t) ==
  /\ pc[t] = "use"
  /\ held' = [held EXCEPT ![t] = NULL]
  /\ pc' = [pc EXCEPT ![t] = "out"]
  /\ UNCHANGED <<conns, avail, next, live, status, destroyed, finishedTwice>>

(* Mutant of IsPositive: a signed comparison. *)
IsPositiveSigned(v) == v \in Thread

(***************************************************************************)
(* avail[i] > 0 in psql_pool_destroy.  pthread_t is unsigned, so ERROR,    *)
(* which is (pthread_t)-2, passes the test as well.                        *)
(***************************************************************************)
IsPositive(v) == v \in Thread \cup {ERROR}

ToFinish == {i \in Slot : avail[i] = AVAILABLE \/ IsPositive(avail[i])}

(* Mutant of psql_pool_destroy: it does not wait for the workers. *)
psql_pool_destroy_early ==
  /\ Ready
  /\ live' = live \ {conns[i] : i \in ToFinish}
  /\ finishedTwice' = FALSE
  /\ destroyed' = TRUE
  /\ UNCHANGED <<conns, avail, next, status, pc, held>>

(* psql_pool_destroy, called once the FUSE main loop has no worker left. *)
psql_pool_destroy ==
  /\ Ready
  /\ \A t \in Thread : pc[t] = "out"
  /\ live' = live \ {conns[i] : i \in ToFinish}
  /\ finishedTwice' = \E i \in ToFinish :
                         \/ conns[i] \notin live
                         \/ \E j \in ToFinish : j < i /\ conns[j] = conns[i]
  /\ destroyed' = TRUE
  /\ UNCHANGED <<conns, avail, next, status, pc, held>>

Next ==
  \/ \E a \in Addr, ok \in BOOLEAN : psql_pool_init(a, ok)
  \/ \E t \in Thread :
       \/ Call(t)
       \/ psql_pool_acquire(t)
       \/ psql_pool_acquire_wait(t)
       \/ SpuriousWakeup(t)
       \/ Break(t)
       \/ psql_pool_release(t)
       \/ psql_pool_release_signal(t)
       \/ Abandon(t)
  \/ psql_pool_destroy

Spec == Init /\ [][Next]_vars

(***************************************************************************)
(* A thread inside the pool's code is scheduled and the mutex is           *)
(* eventually granted; what handlers do, or how long they take, is not     *)
(* assumed.                                                                *)
(***************************************************************************)
Fairness ==
  \A t \in Thread :
    /\ WF_vars(psql_pool_acquire(t))
    /\ WF_vars(psql_pool_acquire_wait(t))
    /\ WF_vars(psql_pool_release_signal(t))

FairSpec == Spec /\ Fairness

-----------------------------------------------------------------------------
TypeOK ==
  /\ conns \in [Slot -> Addr \cup {NULL}]
  /\ avail \in [Slot -> Thread \cup {AVAILABLE, ERROR}]
  /\ next \in 0 .. Size
  /\ live \in SUBSET Addr
  /\ status \in [Addr -> {"OK", "BAD"}]
  /\ pc \in [Thread -> Location]
  /\ held \in [Thread -> Addr \cup {NULL}]
  /\ destroyed \in BOOLEAN
  /\ finishedTwice \in BOOLEAN

(* No connection is in the hands of two handlers at once: what the whole   *)
(* pool is for, libpq connections not being thread-safe.                   *)
Exclusive ==
  \A t, u \in Thread : held[t] = held[u] /\ held[t] # NULL => t = u

(* psql_pool_release, which knows the pointer only, frees the slot of its  *)
(* caller, although a slot whose connection failed at mount time may hold  *)
(* the same, recycled, pointer.                                            *)
ReleaseFindsOwnSlot ==
  \A t \in Thread : pc[t] = "use" =>
    \E i \in Slot : Found(i, held[t]) /\ avail[i] = t

(* psql_pool_acquire never returns a connection that was finished. *)
NoUseAfterFinish ==
  \A t \in Thread : held[t] # NULL => held[t] \in live

(***************************************************************************)
(* No wake-up is lost, although psql_pool_release signals after it has     *)
(* unlocked and other threads may take the slot first: as long as a thread *)
(* is blocked, every free slot has a signal under way or a woken thread    *)
(* that has yet to scan.                                                   *)
(***************************************************************************)
NoLostWakeup ==
  At("wait") # {} =>
    Cardinality(AvailableSlots) <= Cardinality(At("signal") \cup At("woken"))

(***************************************************************************)
(* Why all of this holds, as an inductive invariant.  A slot that is not   *)
(* ERROR has a connection that exists, any other slot with the same        *)
(* pointer is ERROR and lower: psql_pool_init fills the slots upwards and  *)
(* a pointer comes back only after its connection was finished.  A thread  *)
(* that uses a connection owns such a slot.                                *)
(***************************************************************************)
SlotInv ==
  /\ \A i \in Slot : i >= next => conns[i] = NULL /\ avail[i] = ERROR
  /\ \A i \in Slot : avail[i] # ERROR /\ ~destroyed => conns[i] \in live
  /\ \A i, j \in Slot : avail[i] # ERROR /\ i # j /\ conns[j] = conns[i]
       => j < i /\ avail[j] = ERROR
  /\ \A a \in live : \E i \in Slot : conns[i] = a
  /\ \A t \in Thread : IF pc[t] = "use"
                        THEN \E i \in Slot : avail[i] = t /\ conns[i] = held[t]
                        ELSE held[t] = NULL
  /\ next < Size \/ destroyed => \A t \in Thread : pc[t] = "out"
  /\ destroyed => next = Size /\ live = {}

(* psql_pool_destroy leaves no connection open, the broken ones included. *)
DestroyClosesAll == destroyed => live = {}

(* psql_pool_destroy finishes a connection that exists, and finishes it    *)
(* once: its second branch is for a slot "which is still in use".          *)
FinishOnce == ~finishedTwice

(* A slot marked ERROR after the mount is never used again: nothing        *)
(* reconnects it and no release resurrects it.                             *)
ErrorIsFinal ==
  [][\A i \in Slot : i < next /\ avail[i] = ERROR => avail'[i] = ERROR]_vars

(* A free working connection does not stay free while threads are blocked  *)
(* waiting for one.                                                        *)
FreeSlotIsTaken ==
  (At("wait") # {} /\ \E i \in Slot : Usable(i))
     ~> (At("wait") = {} \/ \A i \in Slot : ~Usable(i))

-----------------------------------------------------------------------------
(* The pool as its callers see it: the pointers in the available slots are *)
(* the free connections.                                                   *)
FreeConns == {conns[i] : i \in AvailableSlots}

C == INSTANCE ConnPool WITH free <- FreeConns, using <- held

(* pool.c does what ConnPool says: no pass of its scans gives out a        *)
(* connection twice, frees another caller's or brings back a broken one.   *)
ImplementsConnPool == C!Spec
=============================================================================
