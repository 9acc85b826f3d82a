------------------------------ MODULE ConnPool ------------------------------
(***************************************************************************)
(* What the connection pool promises its callers, with no slots, no scan   *)
(* and no condition variable: a set of free connections, and for each      *)
(* thread the one it was given.  Pool implements it; Session uses it.      *)
(***************************************************************************)
CONSTANTS Thread, Addr, NULL

VARIABLES
  free,    \* connections that may be given out
  using    \* using[t]: the connection thread t has, or NULL

Init ==
  /\ free = {}
  /\ using = [t \in Thread |-> NULL]

(* A connection comes up while the pool is created. *)
Connect(c) ==
  /\ c \notin free
  /\ \A t \in Thread : using[t] # c
  /\ free' = free \cup {c}
  /\ UNCHANGED using

(* Thread t is given c; the connections of D were found broken. *)
Take(t, c, D) ==
  /\ using[t] = NULL
  /\ c \in free \ D
  /\ free' = free \ (D \cup {c})
  /\ using' = [using EXCEPT ![t] = c]

(* Connections were found broken and none was left to give. *)
Discard(D) ==
  /\ free' = free \ D
  /\ UNCHANGED using

(* Thread t gives its connection back. *)
Give(t) ==
  /\ using[t] # NULL
  /\ free' = free \cup {using[t]}
  /\ using' = [using EXCEPT ![t] = NULL]

(* Thread t forgets its connection: no one will have it again. *)
Lose(t) ==
  /\ using[t] # NULL
  /\ using' = [using EXCEPT ![t] = NULL]
  /\ UNCHANGED free

Next ==
  \/ \E c \in Addr : Connect(c)
  \/ \E t \in Thread, c \in Addr, D \in SUBSET Addr : Take(t, c, D)
  \/ \E D \in SUBSET Addr : Discard(D)
  \/ \E t \in Thread : Give(t) \/ Lose(t)

Spec == Init /\ [][Next]_<<free, using>>
=============================================================================
