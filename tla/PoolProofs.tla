----------------------------- MODULE PoolProofs -----------------------------
(***************************************************************************)
(* Proofs about Pool for every number of slots, threads and addresses.     *)
(***************************************************************************)
EXTENDS Pool, FiniteSetTheorems, TLAPS

(* Every variable keeps its type: each action of pool.c stores only marks, *)
(* thread ids and pointers in the slots.                                   *)
THEOREM TypeCorrect == Spec => []TypeOK
<1> USE SizeAssumption, MarkAssumption DEF SizeAssumption, MarkAssumption
<1>1. Init => TypeOK
  <2> SUFFICES ASSUME Init PROVE TypeOK
    OBVIOUS
  <2>1. next \in 0 .. Size
    BY DEF Init
  <2>2. destroyed \in BOOLEAN /\ finishedTwice \in BOOLEAN
    BY Zenon DEF Init
  <2>3. conns \in [Slot -> Addr \cup {NULL}] /\ avail \in [Slot -> Thread \cup {AVAILABLE, ERROR}]
    BY DEF Init
  <2>4. live \in SUBSET Addr /\ status \in [Addr -> {"OK", "BAD"}]
    BY DEF Init
  <2>5. pc \in [Thread -> Location] /\ held \in [Thread -> Addr \cup {NULL}]
    BY DEF Init, Location
  <2> QED
    BY <2>1, <2>2, <2>3, <2>4, <2>5, Zenon DEF TypeOK
<1>2. TypeOK /\ [Next]_vars => TypeOK'
  <2> SUFFICES ASSUME TypeOK, [Next]_vars PROVE TypeOK'
    OBVIOUS
  <2> USE DEF TypeOK, Slot, Location
  <2>1. ASSUME NEW a \in Addr, NEW ok \in BOOLEAN, psql_pool_init(a, ok) PROVE TypeOK'
    BY <2>1 DEF psql_pool_init
  <2>2. ASSUME NEW t \in Thread, Call(t) PROVE TypeOK'
    BY <2>2 DEF Call
  <2>3. ASSUME NEW t \in Thread, psql_pool_acquire(t) PROVE TypeOK'
    BY <2>3 DEF psql_pool_acquire
  <2>4. ASSUME NEW t \in Thread, psql_pool_acquire_wait(t) PROVE TypeOK'
    BY <2>4 DEF psql_pool_acquire_wait
  <2>5. ASSUME NEW t \in Thread, SpuriousWakeup(t) PROVE TypeOK'
    BY <2>5 DEF SpuriousWakeup
  <2>6. ASSUME NEW t \in Thread, Break(t) PROVE TypeOK'
    BY <2>6 DEF Break
  <2>7. ASSUME NEW t \in Thread, psql_pool_release(t) PROVE TypeOK'
    BY <2>7 DEF psql_pool_release
  <2>8. ASSUME NEW t \in Thread, psql_pool_release_signal(t) PROVE TypeOK'
    BY <2>8 DEF psql_pool_release_signal, At
  <2>9. ASSUME NEW t \in Thread, Abandon(t) PROVE TypeOK'
    BY <2>9 DEF Abandon
  <2>10. ASSUME psql_pool_destroy PROVE TypeOK'
    BY <2>10 DEF psql_pool_destroy
  <2>11. CASE UNCHANGED vars
    BY <2>11 DEF vars
  <2> QED
    BY <2>1, <2>2, <2>3, <2>4, <2>5, <2>6, <2>7, <2>8, <2>9, <2>10, <2>11 DEF Next
<1> QED
  BY <1>1, <1>2, PTL DEF Spec

(* The slot invariant survives every step of pool.c and of its callers. *)
LEMMA SlotInvStep == TypeOK /\ SlotInv /\ [Next]_vars => SlotInv'
<1> SUFFICES ASSUME TypeOK, SlotInv, [Next]_vars PROVE SlotInv'
  OBVIOUS
<1> USE SizeAssumption, MarkAssumption DEF SizeAssumption, MarkAssumption, Slot
<1>1. ASSUME NEW a \in Addr, NEW ok \in BOOLEAN, psql_pool_init(a, ok) PROVE SlotInv'
  <2> USE <1>1 DEF psql_pool_init
  <2>1. ~destroyed /\ next \in Slot /\ avail[next] = ERROR
    BY DEF SlotInv, TypeOK
  <2>2. (\A i \in Slot : i >= next => conns[i] = NULL /\ avail[i] = ERROR)'
    BY DEF SlotInv, TypeOK
  <2>3. (\A i \in Slot : avail[i] # ERROR /\ ~destroyed => conns[i] \in live)'
    BY <2>1 DEF SlotInv, TypeOK
  <2>4. (\A i, j \in Slot : avail[i] # ERROR /\ i # j /\ conns[j] = conns[i]
            => j < i /\ avail[j] = ERROR)'
    BY <2>1 DEF SlotInv, TypeOK
  <2>5. (\A b \in live : \E i \in Slot : conns[i] = b)'
    BY <2>1 DEF SlotInv, TypeOK
  <2>6. (\A t \in Thread : IF pc[t] = "use"
                           THEN \E i \in Slot : avail[i] = t /\ conns[i] = held[t]
                           ELSE held[t] = NULL)'
    BY <2>1 DEF SlotInv, TypeOK
  <2> QED
    BY <2>1, <2>2, <2>3, <2>4, <2>5, <2>6 DEF SlotInv
<1>2. ASSUME NEW t \in Thread, Call(t) PROVE SlotInv'
  BY <1>2 DEF Call, SlotInv, TypeOK, Ready
<1>3. ASSUME NEW t \in Thread, psql_pool_acquire(t) PROVE SlotInv'
  <2> USE <1>3 DEF psql_pool_acquire
  <2>1. PICK i \in Slot :
          /\ Usable(i)
          /\ avail' = [j \in Slot |-> IF j = i THEN t
                                      ELSE IF j < i /\ avail[j] = AVAILABLE THEN ERROR
                                      ELSE avail[j]]
          /\ held' = [held EXCEPT ![t] = conns[i]]
    OBVIOUS
  <2>2. ~destroyed /\ held[t] = NULL
    BY DEF SlotInv, TypeOK
  <2>3. avail[i] # ERROR /\ \A j \in Slot : avail'[j] # ERROR => avail[j] # ERROR
    BY <2>1 DEF Usable, TypeOK
  <2>4. \A j \in Slot : avail[j] = ERROR => avail'[j] = ERROR
    BY <2>1 DEF Usable, TypeOK
  <2>5. (\A u \in Thread : IF pc[u] = "use"
                           THEN \E j \in Slot : avail[j] = u /\ conns[j] = held[u]
                           ELSE held[u] = NULL)'
    <3> SUFFICES ASSUME NEW u \in Thread
                 PROVE (IF pc[u] = "use"
                        THEN \E j \in Slot : avail[j] = u /\ conns[j] = held[u]
                        ELSE held[u] = NULL)'
      OBVIOUS
    <3>1. CASE u = t
      BY <2>1, <3>1 DEF TypeOK
    <3>2. CASE u # t
      BY <2>1, <3>2 DEF SlotInv, TypeOK, Usable
    <3> QED
      BY <3>1, <3>2
  <2> QED
    BY <2>1, <2>2, <2>3, <2>4, <2>5 DEF SlotInv, TypeOK
<1>4. ASSUME NEW t \in Thread, psql_pool_acquire_wait(t) PROVE SlotInv'
  <2> USE <1>4 DEF psql_pool_acquire_wait
  <2>1. \A j \in Slot : avail'[j] # ERROR => avail'[j] = avail[j]
    BY DEF TypeOK
  <2>2. \A j \in Slot : avail[j] # AVAILABLE => avail'[j] = avail[j]
    BY DEF TypeOK
  <2>3. (\A u \in Thread : IF pc[u] = "use"
                           THEN \E j \in Slot : avail[j] = u /\ conns[j] = held[u]
                           ELSE held[u] = NULL)'
    BY <2>2 DEF SlotInv, TypeOK
  <2> QED
    BY <2>1, <2>2, <2>3 DEF SlotInv, TypeOK
<1>5. ASSUME NEW t \in Thread, SpuriousWakeup(t) PROVE SlotInv'
  BY <1>5 DEF SpuriousWakeup, SlotInv, TypeOK
<1>6. ASSUME NEW t \in Thread, Break(t) PROVE SlotInv'
  BY <1>6 DEF Break, SlotInv, TypeOK
<1>7. ASSUME NEW t \in Thread, psql_pool_release(t) PROVE SlotInv'
  <2> USE <1>7 DEF psql_pool_release
  <2>1. PICK i \in Slot : Found(i, held[t]) /\ avail' = [avail EXCEPT ![i] = AVAILABLE]
    OBVIOUS
  <2>2. avail[i] = t
    BY <2>1 DEF SlotInv, TypeOK, Found, Matching
  <2>3. (\A u \in Thread : IF pc[u] = "use"
                           THEN \E j \in Slot : avail[j] = u /\ conns[j] = held[u]
                           ELSE held[u] = NULL)'
    BY <2>1, <2>2 DEF SlotInv, TypeOK
  <2> QED
    BY <2>1, <2>2, <2>3 DEF SlotInv, TypeOK
<1>8. ASSUME NEW t \in Thread, psql_pool_release_signal(t) PROVE SlotInv'
  BY <1>8 DEF psql_pool_release_signal, At, SlotInv, TypeOK
<1>9. ASSUME NEW t \in Thread, Abandon(t) PROVE SlotInv'
  BY <1>9 DEF Abandon, SlotInv, TypeOK
<1>10. ASSUME psql_pool_destroy PROVE SlotInv'
  <2> USE <1>10 DEF psql_pool_destroy
  <2>1. ToFinish = Slot
    BY DEF ToFinish, IsPositive, TypeOK
  <2>2. live' = {}
    BY <2>1 DEF SlotInv
  <2> QED
    BY <2>2 DEF SlotInv, TypeOK, Ready
<1>11. CASE UNCHANGED vars
  BY <1>11 DEF vars, SlotInv
<1> QED
  BY <1>1, <1>2, <1>3, <1>4, <1>5, <1>6, <1>7, <1>8, <1>9, <1>10, <1>11 DEF Next

(* The slot invariant holds in every state of the pool, whatever           *)
(* connections fail and whichever addresses the allocator reuses.          *)
THEOREM SlotInvariant == Spec => []SlotInv
<1>1. Init => SlotInv
  BY SizeAssumption, MarkAssumption DEF SizeAssumption, MarkAssumption, Init, SlotInv, Slot
<1> QED
  BY <1>1, TypeCorrect, SlotInvStep, PTL DEF Spec

(* Two handlers never have the same connection. *)
THEOREM ExclusiveUse == Spec => []Exclusive
<1>1. TypeOK /\ SlotInv => Exclusive
  BY SizeAssumption, MarkAssumption DEF SizeAssumption, MarkAssumption, SlotInv, TypeOK, Exclusive, Slot
<1> QED
  BY <1>1, TypeCorrect, SlotInvariant, PTL

(* psql_pool_release gives back the slot of the thread that calls it. *)
THEOREM ReleaseIsOwn == Spec => []ReleaseFindsOwnSlot
<1>1. TypeOK /\ SlotInv => ReleaseFindsOwnSlot
  BY SizeAssumption, MarkAssumption
     DEF SizeAssumption, MarkAssumption, SlotInv, TypeOK, ReleaseFindsOwnSlot, Found, Matching, Slot
<1> QED
  BY <1>1, TypeCorrect, SlotInvariant, PTL

(* No handler is given, or keeps, a connection that was finished. *)
THEOREM UseIsLive == Spec => []NoUseAfterFinish
<1>1. TypeOK /\ SlotInv => NoUseAfterFinish
  BY MarkAssumption DEF MarkAssumption, SlotInv, TypeOK, NoUseAfterFinish
<1> QED
  BY <1>1, TypeCorrect, SlotInvariant, PTL

(* psql_pool_destroy closes every connection there is. *)
THEOREM DestroyIsComplete == Spec => []DestroyClosesAll
<1>1. SlotInv => DestroyClosesAll
  BY DEF SlotInv, DestroyClosesAll
<1> QED
  BY <1>1, SlotInvariant, PTL

(* No step takes a slot out of ERROR once psql_pool_init has filled it: a  *)
(* recycled pointer does not mislead psql_pool_release.                    *)
THEOREM ErrorStays == Spec => ErrorIsFinal
<1> USE SizeAssumption, MarkAssumption DEF SizeAssumption, MarkAssumption, Slot
<1>1. TypeOK /\ SlotInv /\ [Next]_vars
        => [\A i \in Slot : i < next /\ avail[i] = ERROR => avail'[i] = ERROR]_vars
  <2> SUFFICES ASSUME TypeOK, SlotInv, Next, NEW i \in Slot, i < next, avail[i] = ERROR
               PROVE avail'[i] = ERROR
    OBVIOUS
  <2>1. ASSUME NEW a \in Addr, NEW ok \in BOOLEAN, psql_pool_init(a, ok) PROVE avail'[i] = ERROR
    BY <2>1 DEF psql_pool_init, TypeOK
  <2>2. ASSUME NEW t \in Thread, psql_pool_acquire(t) PROVE avail'[i] = ERROR
    BY <2>2 DEF psql_pool_acquire, Usable, TypeOK
  <2>3. ASSUME NEW t \in Thread, psql_pool_acquire_wait(t) PROVE avail'[i] = ERROR
    BY <2>3 DEF psql_pool_acquire_wait, TypeOK
  <2>4. ASSUME NEW t \in Thread, psql_pool_release(t) PROVE avail'[i] = ERROR
    BY <2>4 DEF psql_pool_release, Found, Matching, SlotInv, TypeOK
  <2>5. ASSUME NEW t \in Thread,
               Call(t) \/ SpuriousWakeup(t) \/ Break(t) \/ psql_pool_release_signal(t) \/ Abandon(t)
        PROVE avail'[i] = ERROR
    BY <2>5 DEF Call, SpuriousWakeup, Break, psql_pool_release_signal, Abandon
  <2>6. ASSUME psql_pool_destroy PROVE avail'[i] = ERROR
    BY <2>6 DEF psql_pool_destroy
  <2> QED
    BY <2>1, <2>2, <2>3, <2>4, <2>5, <2>6 DEF Next
<1> QED
  BY <1>1, TypeCorrect, SlotInvariant, PTL DEF Spec, ErrorIsFinal

-----------------------------------------------------------------------------
(* The threads that will still look at the slots, or make another look. *)
Notified == At("signal") \cup At("woken")

(* What is counted, of slots and of threads, is finite. *)
LEMMA CountedSetsFinite ==
  ASSUME NEW S \in SUBSET Slot, NEW T \in SUBSET Thread
  PROVE  /\ IsFiniteSet(S) /\ Cardinality(S) \in Nat
         /\ IsFiniteSet(T) /\ Cardinality(T) \in Nat
<1>1. IsFiniteSet(Slot)
  BY SizeAssumption, FS_Interval DEF SizeAssumption, Slot
<1>2. IsFiniteSet(S)
  BY <1>1, FS_Subset
<1>3. IsFiniteSet(T)
  BY FiniteAssumption, FS_Subset DEF FiniteAssumption
<1> QED
  BY <1>2, <1>3, FS_CardinalityType

(* Taking one element out of a finite set. *)
LEMMA RemoveOne ==
  ASSUME NEW S, NEW x, IsFiniteSet(S)
  PROVE  /\ IsFiniteSet(S \ {x})
         /\ Cardinality(S \ {x}) \in Nat
         /\ Cardinality(S) - 1 <= Cardinality(S \ {x})
         /\ x \in S => Cardinality(S \ {x}) = Cardinality(S) - 1
<1>1. IsFiniteSet(S \ {x}) /\ Cardinality(S \ {x}) = IF x \in S THEN Cardinality(S) - 1 ELSE Cardinality(S)
  BY FS_RemoveElement
<1>2. Cardinality(S) \in Nat /\ Cardinality(S \ {x}) \in Nat
  BY <1>1, FS_CardinalityType
<1> QED
  BY <1>1, <1>2

(* The count survives every step: a pass that takes a slot uses up at most *)
(* one notification, a release makes one of each, and a signal hands its   *)
(* notification on.                                                        *)
LEMMA NoLostWakeupStep == TypeOK /\ SlotInv /\ NoLostWakeup /\ [Next]_vars => NoLostWakeup'
<1> SUFFICES ASSUME TypeOK, SlotInv, NoLostWakeup, [Next]_vars, At("wait")' # {}
             PROVE Cardinality(AvailableSlots') <= Cardinality(Notified')
  BY DEF NoLostWakeup, Notified
<1> USE MarkAssumption DEF MarkAssumption
<1>0. /\ IsFiniteSet(AvailableSlots) /\ Cardinality(AvailableSlots) \in Nat
      /\ IsFiniteSet(Notified) /\ Cardinality(Notified) \in Nat
      /\ IsFiniteSet(AvailableSlots') /\ Cardinality(AvailableSlots') \in Nat
      /\ IsFiniteSet(Notified') /\ Cardinality(Notified') \in Nat
  <2>1. /\ AvailableSlots \in SUBSET Slot /\ AvailableSlots' \in SUBSET Slot
        /\ Notified \in SUBSET Thread /\ Notified' \in SUBSET Thread
    BY DEF AvailableSlots, Notified, At
  <2> QED
    BY <2>1, CountedSetsFinite
<1>w. At("wait") # {} => Cardinality(AvailableSlots) <= Cardinality(Notified)
  BY DEF NoLostWakeup, Notified
<1>1. ASSUME NEW a \in Addr, NEW ok \in BOOLEAN, psql_pool_init(a, ok) PROVE FALSE
  BY <1>1 DEF psql_pool_init, SlotInv, At
<1>2. ASSUME UNCHANGED avail, UNCHANGED pc
      PROVE Cardinality(AvailableSlots') <= Cardinality(Notified')
  <2>1. AvailableSlots' = AvailableSlots /\ Notified' = Notified /\ At("wait")' = At("wait")
    BY <1>2 DEF AvailableSlots, Notified, At
  <2> QED
    BY <2>1, <1>w
<1>3. ASSUME NEW t \in Thread, psql_pool_acquire(t)
      PROVE Cardinality(AvailableSlots') <= Cardinality(Notified')
  <2> USE <1>3 DEF psql_pool_acquire
  <2>1. PICK i \in Slot :
          /\ Usable(i)
          /\ avail' = [j \in Slot |-> IF j = i THEN t
                                      ELSE IF j < i /\ avail[j] = AVAILABLE THEN ERROR
                                      ELSE avail[j]]
    OBVIOUS
  <2>2. i \in AvailableSlots /\ AvailableSlots' \in SUBSET (AvailableSlots \ {i})
    BY <2>1 DEF AvailableSlots, Usable, TypeOK
  <2>3. Notified \ {t} \in SUBSET Notified' /\ At("wait")' = At("wait")
    BY DEF Notified, At, TypeOK
  <2>4. Cardinality(AvailableSlots') <= Cardinality(AvailableSlots) - 1
    <3>1. IsFiniteSet(AvailableSlots \ {i}) /\ Cardinality(AvailableSlots \ {i}) = Cardinality(AvailableSlots) - 1
      BY <2>2, <1>0, RemoveOne
    <3> QED
      BY <2>2, <3>1, FS_Subset
  <2>5. Cardinality(Notified) - 1 <= Cardinality(Notified')
    <3>1. Cardinality(Notified \ {t}) <= Cardinality(Notified')
      BY <2>3, <1>0, FS_Subset
    <3>2. /\ Cardinality(Notified \ {t}) \in Nat
          /\ Cardinality(Notified) - 1 <= Cardinality(Notified \ {t})
      BY <1>0, RemoveOne
    <3> QED
      BY <3>1, <3>2, <1>0
  <2> QED
    BY <2>3, <2>4, <2>5, <1>w, <1>0
<1>4. ASSUME NEW t \in Thread, psql_pool_acquire_wait(t)
      PROVE Cardinality(AvailableSlots') <= Cardinality(Notified')
  <2>1. AvailableSlots' = {}
    BY <1>4 DEF psql_pool_acquire_wait, AvailableSlots, TypeOK
  <2> QED
    BY <2>1, <1>0, FS_EmptySet
<1>5. ASSUME UNCHANGED avail, At("wait")' \in SUBSET At("wait"), Notified \in SUBSET Notified'
      PROVE Cardinality(AvailableSlots') <= Cardinality(Notified')
  <2>1. AvailableSlots' = AvailableSlots /\ At("wait") # {}
    BY <1>5 DEF AvailableSlots
  <2>2. Cardinality(Notified) <= Cardinality(Notified')
    BY <1>5, <1>0, FS_Subset
  <2> QED
    BY <2>1, <2>2, <1>w, <1>0
<1>6. ASSUME NEW t \in Thread, Call(t) \/ SpuriousWakeup(t) \/ Abandon(t)
      PROVE Cardinality(AvailableSlots') <= Cardinality(Notified')
  <2>1. UNCHANGED avail /\ At("wait")' \in SUBSET At("wait") /\ Notified \in SUBSET Notified'
    BY <1>6 DEF Call, SpuriousWakeup, Abandon, At, Notified, TypeOK
  <2> QED
    BY <2>1, <1>5
<1>7. ASSUME NEW t \in Thread, psql_pool_release(t)
      PROVE Cardinality(AvailableSlots') <= Cardinality(Notified')
  <2> USE <1>7 DEF psql_pool_release
  <2>1. PICK i \in Slot : avail' = [avail EXCEPT ![i] = AVAILABLE]
    OBVIOUS
  <2>2. AvailableSlots' = AvailableSlots \cup {i}
    BY <2>1 DEF AvailableSlots, TypeOK
  <2>3. Notified' = Notified \cup {t} /\ t \notin Notified /\ At("wait")' = At("wait")
    BY DEF Notified, At, TypeOK
  <2>4. Cardinality(AvailableSlots') <= Cardinality(AvailableSlots) + 1
    BY <2>2, <1>0, FS_AddElement
  <2>5. Cardinality(Notified') = Cardinality(Notified) + 1
    BY <2>3, <1>0, FS_AddElement
  <2> QED
    BY <2>3, <2>4, <2>5, <1>w, <1>0
<1>8. ASSUME NEW t \in Thread, psql_pool_release_signal(t)
      PROVE Cardinality(AvailableSlots') <= Cardinality(Notified')
  <2> USE <1>8 DEF psql_pool_release_signal
  <2>1. CASE At("wait") = {} /\ pc' = [pc EXCEPT ![t] = "out"]
    BY <2>1 DEF At, TypeOK
  <2>2. ASSUME NEW w \in At("wait"), pc' = [pc EXCEPT ![t] = "out", ![w] = "woken"]
        PROVE Cardinality(AvailableSlots') <= Cardinality(Notified')
    <3>1. /\ t \in Notified /\ w \notin Notified \ {t}
          /\ Notified' = (Notified \ {t}) \cup {w}
      BY <2>2 DEF Notified, At, TypeOK
    <3>2. Cardinality(Notified \ {t}) = Cardinality(Notified) - 1 /\ IsFiniteSet(Notified \ {t})
      BY <3>1, <1>0, FS_RemoveElement
    <3>3. Cardinality(Notified') = Cardinality(Notified \ {t}) + 1
      BY <3>1, <3>2, FS_AddElement
    <3>4. AvailableSlots' = AvailableSlots
      BY DEF AvailableSlots
    <3> QED
      BY <2>2, <3>2, <3>3, <3>4, <1>w, <1>0
  <2> QED
    BY <2>1, <2>2
<1>9. ASSUME (\E t \in Thread : Break(t)) \/ psql_pool_destroy \/ UNCHANGED vars
      PROVE UNCHANGED avail /\ UNCHANGED pc
  BY <1>9 DEF Break, psql_pool_destroy, vars
<1> QED
  BY <1>1, <1>2, <1>3, <1>4, <1>6, <1>7, <1>8, <1>9 DEF Next

(* No wake-up is ever lost, for any number of threads and slots. *)
THEOREM WakeupsAreKept == Spec => []NoLostWakeup
<1>1. Init => NoLostWakeup
  BY DEF Init, NoLostWakeup, At
<1> QED
  BY <1>1, TypeCorrect, SlotInvariant, NoLostWakeupStep, PTL DEF Spec

-----------------------------------------------------------------------------
(* Every step of pool.c is a step of ConnPool or changes nothing it knows. *)
LEMMA RefinementStep ==
  TypeOK /\ SlotInv /\ [Next]_vars => [C!Next]_<<FreeConns, held>>
<1> SUFFICES ASSUME TypeOK, SlotInv, [Next]_vars PROVE [C!Next]_<<FreeConns, held>>
  OBVIOUS
<1> USE SizeAssumption, MarkAssumption
    DEF SizeAssumption, MarkAssumption, Slot, FreeConns, AvailableSlots
<1>1. ASSUME NEW a \in Addr, NEW ok \in BOOLEAN, psql_pool_init(a, ok)
      PROVE [C!Next]_<<FreeConns, held>>
  <2> USE <1>1 DEF psql_pool_init
  <2>1. next \in Slot /\ avail[next] = ERROR /\ ~destroyed
    BY DEF SlotInv, TypeOK
  <2>2. CASE ok
    <3>1. FreeConns' = FreeConns \cup {a}
      BY <2>1, <2>2 DEF TypeOK
    <3>2. a \notin FreeConns
      BY <2>1 DEF SlotInv, TypeOK
    <3>3. \A t \in Thread : held[t] # a
      BY <2>1 DEF SlotInv, TypeOK
    <3>4. C!Connect(a)
      BY <3>1, <3>2, <3>3 DEF C!Connect
    <3> QED
      BY <3>4 DEF C!Next
  <2>3. CASE ~ok
    <3>1. FreeConns' = FreeConns
      BY <2>1, <2>3 DEF TypeOK
    <3> QED
      BY <3>1
  <2> QED
    BY <2>2, <2>3
<1>2. ASSUME NEW t \in Thread, psql_pool_acquire(t) PROVE [C!Next]_<<FreeConns, held>>
  <2> USE <1>2 DEF psql_pool_acquire
  <2>1. PICK i \in Slot :
          /\ Usable(i)
          /\ avail' = [j \in Slot |-> IF j = i THEN t
                                      ELSE IF j < i /\ avail[j] = AVAILABLE THEN ERROR
                                      ELSE avail[j]]
          /\ held' = [held EXCEPT ![t] = conns[i]]
    OBVIOUS
  <2> DEFINE D == {conns[j] : j \in {k \in Slot : k < i /\ avail[k] = AVAILABLE}}
  <2>2. ~destroyed /\ held[t] = NULL /\ avail[i] = AVAILABLE
    BY <2>1 DEF SlotInv, TypeOK, Usable
  <2>3. \A j, k \in Slot : avail[j] = AVAILABLE /\ avail[k] = AVAILABLE /\ conns[j] = conns[k] => j = k
    BY DEF SlotInv
  <2>4. conns[i] \in Addr /\ D \in SUBSET Addr
    BY <2>2 DEF SlotInv, TypeOK
  <2>5. conns[i] \in FreeConns \ D
    BY <2>2, <2>3
  <2>6. FreeConns' = FreeConns \ (D \cup {conns[i]})
    <3>1. \A j \in Slot : avail'[j] = AVAILABLE <=> avail[j] = AVAILABLE /\ j > i
      BY <2>1, <2>2 DEF TypeOK, Usable
    <3>2. FreeConns' = {conns[j] : j \in {k \in Slot : avail[k] = AVAILABLE /\ k > i}}
      BY <3>1
    <3>3. ASSUME NEW x PROVE x \in FreeConns' <=> x \in FreeConns \ (D \cup {conns[i]})
      <4>1. ASSUME x \in FreeConns' PROVE x \in FreeConns \ (D \cup {conns[i]})
        <5>1. PICK j \in Slot : avail[j] = AVAILABLE /\ j > i /\ conns[j] = x
          BY <4>1, <3>2
        <5> QED
          BY <5>1, <2>2, <2>3
      <4>2. ASSUME x \in FreeConns \ (D \cup {conns[i]}) PROVE x \in FreeConns'
        <5>1. PICK j \in Slot : avail[j] = AVAILABLE /\ conns[j] = x
          BY <4>2
        <5>2. j > i
          BY <5>1, <4>2
        <5> QED
          BY <5>1, <5>2, <3>2
      <4> QED
        BY <4>1, <4>2
    <3> QED
      BY <3>3
  <2>7. C!Take(t, conns[i], D)
    BY <2>1, <2>2, <2>5, <2>6 DEF C!Take
  <2> HIDE DEF D, FreeConns
  <2>8. \E u \in Thread, c \in Addr, E \in SUBSET Addr : C!Take(u, c, E)
    BY <2>4, <2>7
  <2> QED
    BY <2>8 DEF C!Next
<1>3. ASSUME NEW t \in Thread, psql_pool_acquire_wait(t) PROVE [C!Next]_<<FreeConns, held>>
  <2> USE <1>3 DEF psql_pool_acquire_wait
  <2>1. FreeConns' = {}
    BY DEF TypeOK
  <2>2. ~destroyed
    BY DEF SlotInv
  <2>3. FreeConns \in SUBSET Addr
    BY <2>2 DEF SlotInv, TypeOK
  <2>4. C!Discard(FreeConns)
    BY <2>1 DEF C!Discard
  <2> HIDE DEF FreeConns
  <2>5. \E E \in SUBSET Addr : C!Discard(E)
    BY <2>3, <2>4
  <2> QED
    BY <2>5 DEF C!Next
<1>4. ASSUME NEW t \in Thread, psql_pool_release(t) PROVE [C!Next]_<<FreeConns, held>>
  <2> USE <1>4 DEF psql_pool_release
  <2>1. PICK i \in Slot : Found(i, held[t]) /\ avail' = [avail EXCEPT ![i] = AVAILABLE]
    OBVIOUS
  <2>2. conns[i] = held[t] /\ avail[i] = t /\ ~destroyed
    BY <2>1 DEF SlotInv, TypeOK, Found, Matching
  <2>3. held[t] # NULL
    BY <2>2 DEF SlotInv, TypeOK
  <2>4. FreeConns' = FreeConns \cup {held[t]}
    BY <2>1, <2>2 DEF TypeOK
  <2>5. C!Give(t)
    BY <2>3, <2>4 DEF C!Give
  <2> QED
    BY <2>5 DEF C!Next
<1>5. ASSUME NEW t \in Thread, Abandon(t) PROVE [C!Next]_<<FreeConns, held>>
  <2> USE <1>5 DEF Abandon
  <2>1. held[t] # NULL /\ UNCHANGED FreeConns
    BY DEF SlotInv, TypeOK
  <2>2. C!Lose(t)
    BY <2>1 DEF C!Lose
  <2> QED
    BY <2>2 DEF C!Next
<1>6. ASSUME NEW t \in Thread,
             Call(t) \/ SpuriousWakeup(t) \/ Break(t) \/ psql_pool_release_signal(t)
      PROVE [C!Next]_<<FreeConns, held>>
  BY <1>6 DEF Call, SpuriousWakeup, Break, psql_pool_release_signal
<1>7. ASSUME psql_pool_destroy PROVE [C!Next]_<<FreeConns, held>>
  BY <1>7 DEF psql_pool_destroy
<1>8. CASE UNCHANGED vars
  BY <1>8 DEF vars
<1> QED
  BY <1>1, <1>2, <1>3, <1>4, <1>5, <1>6, <1>7, <1>8 DEF Next

(* pool.c implements the pool its callers rely on. *)
THEOREM PoolImplementsConnPool == Spec => ImplementsConnPool
<1>1. Init => C!Init
  BY MarkAssumption DEF MarkAssumption, Init, C!Init, FreeConns, AvailableSlots
<1> QED
  BY <1>1, TypeCorrect, SlotInvariant, RefinementStep, PTL DEF Spec, C!Spec, ImplementsConnPool
=============================================================================
