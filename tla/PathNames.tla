----------------------------- MODULE PathNames ------------------------------
(***************************************************************************)
(* Paths as the handlers of pgfuse.c take them apart: a path is the        *)
(* sequence of the names between its slashes, <<>> the root.               *)
(***************************************************************************)
EXTENDS Naturals, Sequences

(* dirname() and basename() of libgen. *)
dirname(path) == SubSeq(path, 1, Len(path) - 1)

basename(path) == path[Len(path)]

(* The path p is that of d or of something below it. *)
Inside(d, p) == Len(d) <= Len(p) /\ SubSeq(p, 1, Len(d)) = d
=============================================================================
