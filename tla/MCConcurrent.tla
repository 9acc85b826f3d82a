---------------------------- MODULE MCConcurrent ----------------------------
(* Concurrent for TLC: two directories and a file, and calls that meet. *)
EXTENDS Concurrent

C(op, path) == [op |-> op, path |-> path, to |-> <<>>, id |-> 0, off |-> 0, len |-> 0, mode |-> "m"]

File == <<"a", "f">>

Rename(from, to) == [C("rename", from) EXCEPT !.to = to]

WriteTo(off, len) == [C("write", File) EXCEPT !.id = 3, !.off = off, !.len = len]

TreeCalls ==
  {C("create", File), C("create", <<"b", "f">>), C("mkdir", <<"b", "f">>),
   C("rmdir", <<"a">>), C("rmdir", <<"b">>), C("unlink", File),
   [C("symlink", <<"b", "f">>) EXCEPT !.len = 1],
   Rename(File, <<"b", "f">>), Rename(<<"a">>, <<"b", "a">>), Rename(<<"b">>, <<"a", "b">>)}

FileCalls ==
  {C("open", File), [C("chmod", File) EXCEPT !.mode = "n"],
   WriteTo(1, 2), WriteTo(2, 1), [C("truncate", File) EXCEPT !.off = 1],
   [C("truncate", File) EXCEPT !.off = 3], [C("ftruncate", File) EXCEPT !.id = 3, !.off = 2]}

AllCalls == TreeCalls \cup FileCalls

FsckCalls ==
  {Rename(<<"a">>, <<"b", "a">>), Rename(<<"b">>, <<"a", "b">>), C("open", File), WriteTo(1, 2)}

Row(parent, name, type, size) ==
  [parent |-> parent, name |-> name, type |-> type, size |-> size, mode |-> "m"]

Tree(size) ==
  <<0>> :> Row(0, "/", "dir", 0) @@ <<1>> :> Row(0, "a", "dir", 0) @@
  <<2>> :> Row(0, "b", "dir", 0) @@ <<3>> :> Row(1, "f", "file", size)

(* An empty file, and one with two blocks. *)
SmallDbs == {Tree(0), Tree(3) @@ <<3, 0>> :> <<9, 9>> @@ <<3, 1>> :> <<9, 0>>}
=============================================================================
