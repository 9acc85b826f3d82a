----------------------------- MODULE Namespace ------------------------------
(***************************************************************************)
(* A file system's names as its users see them: a set of paths, closed     *)
(* under taking the parent directory.                                      *)
(***************************************************************************)
EXTENDS PathNames

CONSTANTS Path   \* sequences of names; <<>> is the root

VARIABLES node   \* the pairs of a path and what is there: "dir", "file", "link"

Paths == {x[1] : x \in node}

(* A path at which something can be put. *)
Vacant(p) == p # <<>> /\ p \notin Paths /\ <<dirname(p), "dir">> \in node

(* A new name in a directory that exists. *)
AddName(p, type) ==
  /\ Vacant(p)
  /\ node' = node \cup {<<p, type>>}

(* A name that has nothing below it disappears. *)
DropName(x) ==
  /\ x[1] # <<>>
  /\ \A p \in Paths : Inside(x[1], p) => p = x[1]
  /\ node' = node \ {x}

(* A name, and all that is below it, moves to a place that was free. *)
MoveName(f, t) ==
  LET there(p) == t \o SubSeq(p, Len(f) + 1, Len(p))
      moving   == {x \in node : Inside(f, x[1])}
  IN
  /\ f # <<>> /\ Vacant(t) /\ ~Inside(f, t)
  /\ node' = (node \ moving) \cup {<<there(x[1]), x[2]>> : x \in moving}

(* A file system may be mounted with files in it. *)
Init ==
  /\ <<<<>>, "dir">> \in node
  /\ \A x \in node : x[1] # <<>> => <<dirname(x[1]), "dir">> \in node
  /\ \A x, y \in node : x[1] = y[1] => x = y

Next ==
  \/ \E p \in Path, type \in {"dir", "file", "link"} : AddName(p, type)
  \/ \E x \in node : DropName(x)
  \/ \E f \in Paths, t \in Path : MoveName(f, t)

Spec == Init /\ [][Next]_node
=============================================================================
