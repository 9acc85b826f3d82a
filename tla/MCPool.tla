------------------------------- MODULE MCPool -------------------------------
(* Pool for TLC. *)
EXTENDS Pool, TLC

(* Threads and addresses are only compared for equality. *)
Symmetry == Permutations(Thread) \cup Permutations(Addr)
=============================================================================
