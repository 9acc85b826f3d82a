----------------------------- MODULE MCDirTree ------------------------------
(* DirTree for TLC. *)
EXTENDS DirTree

(* A new file system, as schema.sql makes it. *)
EmptyDir == {[i \in {Root} |-> RootRow(m)] : m \in Meta}

(* A directory with a file in it, and a link to that. *)
SmallDir ==
  {[i \in 0 .. 3 |->
      CASE i = 0 -> RootRow(m)
        [] i = 1 -> [parent |-> 0, name |-> "a", type |-> "dir", meta |-> m]
        [] i = 2 -> [parent |-> 1, name |-> "a", type |-> "file", meta |-> m]
        [] i = 3 -> [parent |-> 0, name |-> "b", type |-> "link", meta |-> m]] : m \in Meta}

MCInitialDir == EmptyDir \cup SmallDir
=============================================================================
