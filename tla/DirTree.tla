------------------------------ MODULE DirTree -------------------------------
(***************************************************************************)
(* The directory tree: table dir, whose rows point to their parents, and   *)
(* every handler of pgfuse.c that changes it, one transaction each.  A     *)
(* handler that returns an error has rolled back and changes nothing, so   *)
(* it is no step here.  Of the metadata there is one abstract value, of    *)
(* the contents only whether there are rows in table data.                 *)
(***************************************************************************)
EXTENDS Integers, FiniteSets, PathNames

CONSTANTS
  Name,          \* file names
  Id,            \* values of dir.id other than that of the root
  Meta,          \* values of mode, owner and times
  MaxDepth,      \* length of the longest path
  IntMod,        \* 2^32, the values of an int
  LittleEndian,  \* the byte order of the machine pgfuse runs on
  InitialDir     \* the tables dir a file system can be mounted with

(* A name is what is between two slashes of a path. *)
ASSUME DirTreeAssumption ==
  /\ Id \subseteq Nat \ {0}
  /\ "/" \notin Name
  /\ MaxDepth \in Nat
  /\ LittleEndian \in BOOLEAN

(* Ids are bigint in the database and pass through an int on their way     *)
(* into the handlers; beyond 2^31 a lookup would return an error or        *)
(* another file.                                                           *)
ASSUME IdsFitAssumption ==
  /\ IntMod \in Nat /\ IntMod >= 4
  /\ \A i \in Id : i < IntMod \div 2

VARIABLES
  dir,     \* dir[i]: the row with id i
  blocks,  \* the ids with rows in table data
  fhs,     \* the ids the kernel has in a file handle (fi->fh)
  read_only  \* data->read_only, the option of the mount

vars == <<dir, blocks, fhs, read_only>>

Root == 0

NOENT == -2   \* -ENOENT

Row == [parent : Id \cup {Root}, name : Name \cup {"/"}, type : {"dir", "file", "link"}, meta : Meta]

RootRow(m) == [parent |-> Root, name |-> "/", type |-> "dir", meta |-> m]

Path == UNION {[1 .. n -> Name] : n \in 0 .. MaxDepth}

(* A table dir that is a tree: the keys of schema.sql hold, parents are    *)
(* directories, and no row is cut off from the root, that is, the root and *)
(* with every row its children are all there is.                           *)
IsTree(d) ==
  /\ Root \in DOMAIN d
  /\ IsFiniteSet(DOMAIN d) /\ DOMAIN d \subseteq Id \cup {Root}
  /\ \A i \in DOMAIN d : d[i] \in Row
  /\ \E m \in Meta : d[Root] = RootRow(m)
  /\ \A i \in DOMAIN d \ {Root} : d[i].name \in Name
  /\ \A i \in DOMAIN d : d[i].parent \in DOMAIN d /\ d[d[i].parent].type = "dir"
  /\ \A i, j \in DOMAIN d : d[i].parent = d[j].parent /\ d[i].name = d[j].name => i = j
  /\ \A S \in SUBSET DOMAIN d :
       /\ Root \in S
       /\ \A i \in DOMAIN d : d[i].parent \in S => i \in S
       => S = DOMAIN d

(* What is mounted was made by schema.sql and by earlier mounts. *)
ASSUME InitialDirAssumption == \A d \in InitialDir : IsTree(d)

-----------------------------------------------------------------------------
(* SELECT id FROM dir WHERE name = n AND parent_id = d *)
Select(d, n) == {i \in DOMAIN dir : dir[i].parent = d /\ dir[i].name = n}

(* Mutant of Descend: a name that is not found is passed over. *)
DescendAnyway(at, n) ==
  IF dir[at].type # "dir" \/ Select(at, n) = {} THEN at
  ELSE CHOOSE i \in Select(at, n) : TRUE

(* One turn of the loop of psql_path_to_id.  It ends at the first row that *)
(* is no directory, whatever is left of the path.                          *)
Descend(at, n) ==
  IF at = NOENT \/ dir[at].type # "dir" THEN at
  ELSE IF Select(at, n) = {} THEN NOENT
  ELSE CHOOSE i \in Select(at, n) : TRUE

(* psql_path_to_id *)
PathToId(path) ==
  LET walk[k \in 0 .. Len(path)] ==
        IF k = 0 THEN Root ELSE Descend(walk[k - 1], path[k])
  IN walk[Len(path)]

ToInt(x) == LET y == x % IntMod IN IF y < IntMod \div 2 THEN y ELSE y - IntMod

(* The id psql_read_meta_from_path hands to the handlers: an int. *)
LookupId(path) == ToInt(PathToId(path))

Exists(path) == LookupId(path) # NOENT

(* psql_read_meta_from_path finds a directory, or something else *)
IsDir(path) == Exists(path) /\ dir[LookupId(path)].type = "dir"

IsNonDir(path) == Exists(path) /\ dir[LookupId(path)].type # "dir"

Children(i) == {j \in DOMAIN dir : dir[j].parent = i}

(* Mutant of pgfuse_readdir: the root is not left out. *)
pgfuse_readdir_root(path) == {dir[j].name : j \in Children(LookupId(path))}

(* pgfuse_readdir and psql_readdir: the names below path; the root, which  *)
(* is its own parent, is left out.                                         *)
pgfuse_readdir(path) == {dir[j].name : j \in Children(LookupId(path))} \ {"/"}

(* BIGSERIAL hands out an id nothing refers to; the smallest will do. *)
NewId == CHOOSE i \in Id \ (DOMAIN dir \cup fhs) :
           \A j \in Id \ (DOMAIN dir \cup fhs) : i <= j

(* Mutant of Insert: the table has no UNIQUE( name, parent_id ). *)
InsertAgain(path, type, m) ==
  /\ Id \ (DOMAIN dir \cup fhs) # {}
  /\ dir' = [i \in DOMAIN dir \cup {NewId} |->
               IF i = NewId
               THEN [parent |-> LookupId(dirname(path)), name |-> basename(path),
                     type |-> type, meta |-> m]
               ELSE dir[i]]

(* The INSERT of psql_create_file and psql_create_dir; it fails, and the   *)
(* handler with it, on UNIQUE( name, parent_id ).                          *)
Insert(path, type, m) ==
  LET parent == LookupId(dirname(path)) IN
  /\ Id \ (DOMAIN dir \cup fhs) # {}
  /\ Select(parent, basename(path)) = {}
  /\ dir' = [i \in DOMAIN dir \cup {NewId} |->
               IF i = NewId
               THEN [parent |-> parent, name |-> basename(path), type |-> type, meta |-> m]
               ELSE dir[i]]

(* Mutant of BlocksLeft: the rule is for regular files only. *)
BlocksLeftOfLinks(i) == IF dir[i].type = "file" THEN blocks \ {i} ELSE blocks

(* Rule dir_remove: before a row goes, the data of a non-directory does. *)
BlocksLeft(i) == IF dir[i].type # "dir" THEN blocks \ {i} ELSE blocks

(* The foreign keys on parent_id and dir_id: a row that has children, or   *)
(* still has data, is not deleted.                                         *)
Referenced(i) == Children(i) # {} \/ i \in BlocksLeft(i)

(* DELETE FROM dir *)
Delete(i) ==
  /\ ~Referenced(i)
  /\ dir' = [j \in DOMAIN dir \ {i} |-> dir[j]]
  /\ blocks' = BlocksLeft(i)

(* psql_write_meta *)
WriteMeta(i, m) == dir' = [dir EXCEPT ![i].meta = m]

-----------------------------------------------------------------------------
Init ==
  /\ dir \in InitialDir
  /\ blocks \in SUBSET {i \in DOMAIN dir : dir[i].type = "file"}
  /\ fhs = {}
  /\ read_only \in BOOLEAN

(* Mutant of pgfuse_create: the handle is res and not id. *)
pgfuse_create_handle(path, m) ==
  /\ ~read_only
  /\ path # <<>> /\ ~Exists(path)
  /\ IsDir(dirname(path))
  /\ Insert(path, "file", m)
  /\ fhs' = fhs \cup {0}
  /\ UNCHANGED <<blocks, read_only>>

pgfuse_create(path, m) ==
  /\ ~read_only
  /\ path # <<>> /\ ~Exists(path)
  /\ IsDir(dirname(path))
  /\ Insert(path, "file", m)
  /\ fhs' = fhs \cup {NewId}
  /\ UNCHANGED <<blocks, read_only>>

pgfuse_mkdir(path, m) ==
  /\ ~read_only
  /\ path # <<>> /\ IsDir(dirname(path))
  /\ Insert(path, "dir", m)
  /\ UNCHANGED <<blocks, fhs, read_only>>

pgfuse_symlink(path, m) ==
  /\ path # <<>> /\ IsDir(dirname(path))
  /\ ~read_only
  /\ Insert(path, "link", m)
  /\ blocks' = blocks \cup {NewId}
  /\ UNCHANGED <<fhs, read_only>>

(* psql_delete_dir looks for children itself before it deletes. *)
pgfuse_rmdir(path) ==
  /\ path # <<>> /\ IsDir(path)
  /\ ~read_only
  /\ Children(LookupId(path)) = {}
  /\ Delete(LookupId(path))
  /\ UNCHANGED <<fhs, read_only>>

(* Mutant of pgfuse_unlink: it does not look at read_only. *)
pgfuse_unlink_always(path) ==
  /\ IsNonDir(path)
  /\ LookupId(path) \notin fhs
  /\ Delete(LookupId(path))
  /\ UNCHANGED <<fhs, read_only>>

(* libfuse hides a file that is open by renaming it, and unlinks it later. *)
pgfuse_unlink(path) ==
  /\ IsNonDir(path)
  /\ ~read_only
  /\ LookupId(path) \notin fhs
  /\ Delete(LookupId(path))
  /\ UNCHANGED <<fhs, read_only>>

(* meta.parent_id, decoded with ntohl: the high half on a little-endian    *)
(* machine, which is zero.                                                 *)
ReadParentId(i) == IF LittleEndian THEN Root ELSE dir[i].parent

(* Mutant of pgfuse_rename: the row gets a new parent and keeps its name. *)
pgfuse_rename_parent(from, to) ==
  /\ from # <<>> /\ to # <<>> /\ ~Inside(from, to)
  /\ Exists(from)
  /\ ~Exists(to)
  /\ IsDir(dirname(to))
  /\ ~read_only
  /\ dir' = [dir EXCEPT ![LookupId(from)].parent = LookupId(dirname(to))]
  /\ UNCHANGED <<blocks, fhs, read_only>>

(* pgfuse_rename and psql_rename.  The kernel does not ask to move a       *)
(* directory below itself; the code does not look.                         *)
pgfuse_rename(from, to) ==
  /\ from # <<>> /\ to # <<>> /\ ~Inside(from, to)
  /\ Exists(from)
  /\ ~Exists(to)
  /\ IsDir(dirname(to))
  /\ ~read_only
  /\ dir[ReadParentId(LookupId(from))].type = "dir"
  /\ dir' = [dir EXCEPT ![LookupId(from)].parent = LookupId(dirname(to)),
                        ![LookupId(from)].name = basename(to)]
  /\ UNCHANGED <<blocks, fhs, read_only>>

(* pgfuse_open writes the metadata back as it has read it. *)
pgfuse_open(path, rdonly) ==
  /\ IsNonDir(path)
  /\ read_only => rdonly
  /\ WriteMeta(LookupId(path), dir[LookupId(path)].meta)
  /\ fhs' = fhs \cup {LookupId(path)}
  /\ UNCHANGED <<blocks, read_only>>

(* pgfuse_release has nothing to do; the kernel forgets the handle. *)
pgfuse_release(i) ==
  /\ i \in fhs
  /\ fhs' = fhs \ {i}
  /\ UNCHANGED <<dir, blocks, read_only>>

pgfuse_write(i) ==
  /\ i \in fhs
  /\ ~read_only
  /\ i \in DOMAIN dir
  /\ blocks' = blocks \cup {i}
  /\ UNCHANGED <<dir, fhs, read_only>>

(* psql_truncate may delete the last row in table data, if it is a hole    *)
(* that remains.                                                           *)
Truncated(i) ==
  /\ blocks' \in {blocks, blocks \ {i}}
  /\ UNCHANGED <<dir, fhs, read_only>>

pgfuse_truncate(path) ==
  /\ IsNonDir(path)
  /\ ~read_only
  /\ Truncated(LookupId(path))

pgfuse_ftruncate(i) ==
  /\ i \in fhs
  /\ i \in DOMAIN dir
  /\ ~read_only
  /\ Truncated(i)

pgfuse_chmod(path, m) ==
  /\ Exists(path)
  /\ ~read_only
  /\ WriteMeta(LookupId(path), m)
  /\ UNCHANGED <<blocks, fhs, read_only>>

pgfuse_chown(path, m) ==
  /\ Exists(path)
  /\ ~read_only
  /\ WriteMeta(LookupId(path), m)
  /\ UNCHANGED <<blocks, fhs, read_only>>

(* There is no test of read_only in pgfuse_utimens. *)
pgfuse_utimens(path, m) ==
  /\ Exists(path)
  /\ WriteMeta(LookupId(path), m)
  /\ UNCHANGED <<blocks, fhs, read_only>>

Next ==
  \/ \E path \in Path :
       \/ \E m \in Meta :
            \/ pgfuse_create(path, m)
            \/ pgfuse_mkdir(path, m)
            \/ pgfuse_symlink(path, m)
            \/ pgfuse_chmod(path, m)
            \/ pgfuse_chown(path, m)
            \/ pgfuse_utimens(path, m)
       \/ pgfuse_rmdir(path)
       \/ pgfuse_unlink(path)
       \/ \E rdonly \in BOOLEAN : pgfuse_open(path, rdonly)
       \/ pgfuse_truncate(path)
       \/ \E to \in Path : pgfuse_rename(path, to)
  \/ \E i \in Id :
       \/ pgfuse_write(i)
       \/ pgfuse_ftruncate(i)
       \/ pgfuse_release(i)

Spec == Init /\ [][Next]_vars

-----------------------------------------------------------------------------
TypeOK ==
  /\ DOMAIN dir \subseteq Id \cup {Root}
  /\ \A i \in DOMAIN dir : dir[i] \in Row
  /\ blocks \subseteq Id
  /\ fhs \subseteq Id
  /\ read_only \in BOOLEAN

(* The rows one step below the row x[2], whose path is x[1]. *)
Below(x) == {<<Append(x[1], dir[j].name), j>> : j \in Children(x[2]) \ {Root}}

(* The rows k steps below the root, with the paths that lead to them. *)
Level[k \in Nat] ==
  IF k = 0 THEN {<<<<>>, Root>>} ELSE UNION {Below(x) : x \in Level[k - 1]}

(* The paths that parent pointers spell, with the rows they belong to.  A  *)
(* tree has fewer levels than rows.                                        *)
Located == UNION {Level[k] : k \in 0 .. Cardinality(DOMAIN dir)}

(* "We don't want to implement an fsck": every row can be reached from the *)
(* root by exactly one path, and only directories have something below     *)
(* them.  Nothing is orphaned, on a cycle or there twice, although every   *)
(* handler changes one row and sees only that row and its parent.          *)
EveryRowHasOnePath ==
  /\ {x[2] : x \in Located} = DOMAIN dir
  /\ \A x, y \in Located : x[1] = y[1] <=> x[2] = y[2]
  /\ \A i \in DOMAIN dir : dir[dir[i].parent].type = "dir"

(* psql_read_meta_from_path finds the row of every path there is, up to    *)
(* the largest id, and nothing for a path with nothing at it in a          *)
(* directory there is.                                                     *)
LookupFinds ==
  /\ \A x \in Located : LookupId(x[1]) = x[2]
  /\ \A x \in Located : \A n \in Name :
       /\ dir[x[2]].type = "dir"
       /\ Append(x[1], n) \notin {y[1] : y \in Located}
       => LookupId(Append(x[1], n)) = NOENT

(* pgfuse_readdir lists in every directory the names at which lookup finds *)
(* something, and each of them once.                                       *)
ReaddirListsWhatLookupFinds ==
  \A x \in Located : dir[x[2]].type = "dir" =>
    /\ pgfuse_readdir(x[1]) = {n \in Name : Exists(Append(x[1], n))}
    /\ Cardinality(pgfuse_readdir(x[1])) = Cardinality(Children(x[2]) \ {Root})

(* "Garbage collect deleted file entries": the foreign keys never stand in *)
(* the way of a removal.  What unlink finds can be deleted whatever it     *)
(* contains, since rule dir_remove takes its blocks away and nothing ever  *)
(* has it as a parent; a directory can be deleted once psql_delete_dir has *)
(* found it to be empty, since no handler gives blocks to a directory.     *)
RemovalsAreNotRefused ==
  \A i \in DOMAIN dir \ {Root} :
    Referenced(i) => dir[i].type = "dir" /\ Children(i) # {}

(* The names users see. *)
NodeMap == {<<x[1], dir[x[2]].type>> : x \in Located}

N == INSTANCE Namespace WITH node <- NodeMap

(* Parent pointers do what paths do: a rename of one row moves the whole   *)
(* tree below it, and nothing else.                                        *)
ImplementsNamespace == N!Spec

(* A read-only mount changes no name and no data. *)
ReadOnlyKeepsFiles ==
  [][read_only => UNCHANGED <<NodeMap, blocks>>]_vars
=============================================================================
