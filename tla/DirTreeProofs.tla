---------------------------- MODULE DirTreeProofs ---------------------------
(***************************************************************************)
(* Proofs about DirTree for all sets of names, ids and metadata, and for   *)
(* trees of every size and depth: the handlers keep a tree.                *)
(***************************************************************************)
EXTENDS TreeProofs

(* A path of the kernel is a sequence of names; other than the root's it   *)
(* has a directory and a last name.                                        *)
LEMMA PathParts ==
  ASSUME NEW path \in Path
  PROVE  /\ path \in Seq(Name)
         /\ path # <<>> => /\ dirname(path) \in Seq(Name) /\ basename(path) \in Name
                           /\ path = Append(dirname(path), basename(path))
<1>1. path \in Seq(Name)
  BY DirTreeAssumption DEF Path, DirTreeAssumption
<1>2. ASSUME path # <<>>
      PROVE  /\ dirname(path) \in Seq(Name) /\ basename(path) \in Name
             /\ path = Append(dirname(path), basename(path))
  <2>1. PICK q \in Seq(Name), n \in Name : path = Append(q, n)
    BY <1>1, <1>2, SequenceEmptyOrAppend
  <2>2. dirname(path) = q
    BY <2>1, AppendProperties DEF dirname
  <2>3. basename(path) = n
    BY <2>1, AppendProperties DEF basename
  <2> QED
    BY <2>1, <2>2, <2>3
<1> QED
  BY <1>1, <1>2

(* A sequence hands out an id that nothing has. *)
LEMMA NewIdIsNew ==
  ASSUME Id \ (DOMAIN dir \cup fhs) # {}
  PROVE  NewId \in Id /\ NewId \notin DOMAIN dir /\ NewId \notin fhs
<1> DEFINE F == Id \ (DOMAIN dir \cup fhs)
<1>1. F \subseteq Nat
  BY DirTreeAssumption DEF DirTreeAssumption
<1>2. \E i \in F : \A j \in F : i <= j
  BY <1>1, SmallestNumber
<1>3. NewId \in F
  BY <1>2 DEF NewId
<1> QED
  BY <1>3

(* The row a lookup of a path other than the root's has found. *)
LEMMA FoundRow ==
  ASSUME IsTree(dir), NEW path \in Path, Exists(path)
  PROVE  LookupId(path) \in DOMAIN dir /\ (path # <<>> => LookupId(path) # Root)
BY PathParts, LookupIsExact

(* The INSERT of pgfuse_create, pgfuse_mkdir and pgfuse_symlink. *)
LEMMA InsertStep ==
  ASSUME IsTree(dir), NEW path \in Path, path # <<>>, IsDir(dirname(path)),
         NEW type \in {"dir", "file", "link"}, NEW m \in Meta, Insert(path, type, m)
  PROVE  /\ IsTree(dir')
         /\ NewId \in Id /\ NewId \notin DOMAIN dir /\ NewId \notin fhs
         /\ DOMAIN dir' = DOMAIN dir \cup {NewId}
         /\ dir'[NewId].type = type
         /\ \A i \in DOMAIN dir : dir'[i] = dir[i]
<1> DEFINE p == LookupId(dirname(path))
           n == basename(path)
<1>1. p \in DOMAIN dir /\ dir[p].type = "dir" /\ n \in Name
  BY PathParts, LookupIsExact DEF IsDir
<1>2. NewId \in Id /\ NewId \notin DOMAIN dir /\ NewId \notin fhs
  BY NewIdIsNew DEF Insert
<1>3. \A i \in DOMAIN dir : ~(dir[i].parent = p /\ dir[i].name = n)
  BY DEF Insert, Select
<1> HIDE DEF p, n
<1>4. dir' = [i \in DOMAIN dir \cup {NewId} |->
                IF i = NewId THEN [parent |-> p, name |-> n, type |-> type, meta |-> m] ELSE dir[i]]
  BY DEF Insert, p, n
<1>5. /\ DOMAIN dir' = DOMAIN dir \cup {NewId}
      /\ \A i \in DOMAIN dir : dir'[i] = dir[i]
      /\ dir'[NewId] = [parent |-> p, name |-> n, type |-> type, meta |-> m]
  BY <1>2, <1>4
<1>6. dir'[NewId] \in Row /\ dir'[NewId].parent = p /\ dir'[NewId].name = n /\ dir'[NewId].type = type
  BY <1>1, <1>5 DEF IsTree, Row
<1>7. IsTree(dir')
  BY <1>1, <1>2, <1>3, <1>5, <1>6, InsertKeepsTree
<1> QED
  BY <1>2, <1>5, <1>6, <1>7

(* The DELETE of pgfuse_rmdir and pgfuse_unlink. *)
LEMMA DeleteStep ==
  ASSUME IsTree(dir), NEW a \in DOMAIN dir \ {Root}, Delete(a)
  PROVE  /\ IsTree(dir')
         /\ DOMAIN dir' = DOMAIN dir \ {a}
         /\ \A i \in DOMAIN dir' : dir'[i] = dir[i]
<1>1. \A i \in DOMAIN dir : dir[i].parent # a
  BY DEF Delete, Referenced, Children
<1>2. dir' = [j \in DOMAIN dir \ {a} |-> dir[j]]
  BY DEF Delete
<1>3. IsTree(dir')
  BY <1>1, <1>2, DeleteKeepsTree
<1> QED
  BY <1>2, <1>3

(* The UPDATE of psql_write_meta leaves the tree as it is. *)
LEMMA MetaStep ==
  ASSUME IsTree(dir), NEW a \in DOMAIN dir, NEW m \in Meta, WriteMeta(a, m)
  PROVE  /\ IsTree(dir')
         /\ DOMAIN dir' = DOMAIN dir
         /\ \A i \in DOMAIN dir : /\ dir'[i].parent = dir[i].parent
                                  /\ dir'[i].name = dir[i].name
                                  /\ dir'[i].type = dir[i].type
<1>1. DOMAIN dir' = DOMAIN dir
  BY DEF WriteMeta
<1>2. \A i \in DOMAIN dir \ {a} : dir'[i] = dir[i]
  BY DEF WriteMeta
<1>3. dir[a] \in Row
  BY DEF IsTree
<1>4. dir'[a] = [dir[a] EXCEPT !.meta = m]
  BY DEF WriteMeta
<1>5. /\ dir'[a] \in Row
      /\ dir'[a].parent = dir[a].parent
      /\ dir'[a].name = dir[a].name
      /\ dir'[a].type = dir[a].type
  BY <1>3, <1>4 DEF Row
<1>6. \A i \in DOMAIN dir : /\ dir'[i] \in Row
                            /\ dir'[i].parent = dir[i].parent
                            /\ dir'[i].name = dir[i].name
                            /\ dir'[i].type = dir[i].type
  BY <1>2, <1>5 DEF IsTree
<1>7. IsTree(dir')
  BY <1>1, <1>6, SameTree
<1> QED
  BY <1>1, <1>6, <1>7

(* What is below a directory stays below it one name further down. *)
LEMMA PrefixAppend ==
  ASSUME NEW s \in Seq(Name), NEW t \in Seq(Name), NEW n \in Name, Inside(s, t)
  PROVE  Inside(s, Append(t, n))
<1>1. Len(s) \in Nat /\ Len(t) \in Nat /\ Len(s) <= Len(t) /\ Len(Append(t, n)) = Len(t) + 1
  BY LenProperties, AppendProperties DEF Inside
<1>2. \A i \in 1 .. Len(s) : Append(t, n)[i] = t[i]
  BY <1>1, AppendProperties
<1>3. SubSeq(Append(t, n), 1, Len(s)) = SubSeq(t, 1, Len(s))
  BY <1>1, <1>2
<1> QED
  BY <1>1, <1>3 DEF Inside

(* and what was not below it before the last name is the directory itself. *)
LEMMA PrefixOfAppend ==
  ASSUME NEW s \in Seq(Name), NEW t \in Seq(Name), NEW n \in Name,
         Inside(s, Append(t, n)), ~Inside(s, t)
  PROVE  s = Append(t, n)
<1> DEFINE u == Append(t, n)
<1>1. /\ Len(s) \in Nat /\ Len(t) \in Nat /\ Len(u) = Len(t) + 1 /\ u \in Seq(Name)
      /\ Len(s) <= Len(u) /\ s = SubSeq(u, 1, Len(s))
  BY LenProperties, AppendProperties DEF Inside
<1>2. \A i \in 1 .. Len(t) : u[i] = t[i]
  BY <1>1, AppendProperties, SMTT(30)
<1>3. CASE Len(s) <= Len(t)
  <2>1. SubSeq(u, 1, Len(s)) = SubSeq(t, 1, Len(s))
    BY <1>1, <1>2, <1>3
  <2> QED
    BY <1>1, <1>3, <2>1 DEF Inside
<1>4. CASE Len(s) = Len(u)
  BY <1>1, <1>4, SMTT(30)
<1>5. Len(s) <= Len(t) \/ Len(s) = Len(u)
  <2>1. \A x, y, z \in Nat : x <= z /\ z = y + 1 => x <= y \/ x = z
    OBVIOUS
  <2>2. Len(u) \in Nat
    BY <1>1
  <2> HIDE DEF u
  <2> QED
    BY <1>1, <2>1, <2>2
<1> QED
  BY <1>3, <1>4, <1>5

(* A directory that a lookup has found is among the located rows. *)
LEMMA FoundDir ==
  ASSUME IsTree(dir), NEW p \in Seq(Name), IsDir(p)
  PROVE  /\ LookupId(p) \in DOMAIN dir /\ dir[LookupId(p)].type = "dir"
         /\ <<p, LookupId(p)>> \in Level[Len(p)] /\ Len(p) \in Nat
         /\ <<p, LookupId(p)>> \in Located
<1>1. LookupId(p) \in DOMAIN dir /\ dir[LookupId(p)].type = "dir" /\ LookupId(p) = PathToId(p)
  BY LookupIsExact DEF IsDir
<1>2. PathToId(p) # NOENT
  BY <1>1, DirTreeAssumption DEF NOENT, Root, IsTree, DirTreeAssumption
<1>3. <<p, LookupId(p)>> \in Level[Len(p)] /\ Len(p) \in Nat
  BY <1>1, <1>2, FoundDirIsThere, LenProperties
<1> QED
  BY <1>1, <1>3, LocatedIsEveryLevel

(* The part of the tree that moves with a row does not have the new        *)
(* directory, as long as the kernel asks for no move of a directory below  *)
(* itself.                                                                 *)
LEMMA NotBelowItself ==
  ASSUME IsTree(dir), NEW from \in Seq(Name), Exists(from),
         NEW p \in Seq(Name), IsDir(p), ~Inside(from, p)
  PROVE  \E X : /\ LookupId(from) \in X
                /\ LookupId(p) \notin X
                /\ \A i \in DOMAIN dir \ {Root} : dir[i].parent \in X => i \in X
<1> DEFINE r == LookupId(from)
           q == LookupId(p)
<1>1. r \in DOMAIN dir
  BY LookupIsExact
<1>2. /\ q \in DOMAIN dir /\ dir[q].type = "dir"
      /\ <<p, q>> \in Level[Len(p)] /\ Len(p) \in Nat
  BY FoundDir
<1>3. CASE dir[r].type # "dir"
  <2> DEFINE X == {r}
  <2>1. q \notin X /\ \A i \in DOMAIN dir : dir[i].parent \notin X
    BY <1>2, <1>3 DEF IsTree
  <2> QED
    BY <2>1
<1>4. CASE dir[r].type = "dir"
  <2> DEFINE X == {i \in DOMAIN dir : \E k \in Nat : \E y \in Level[k] : y[2] = i /\ Inside(from, y[1])}
  <2>1. r \in X
    <3>1. <<from, r>> \in Level[Len(from)] /\ Len(from) \in Nat
      BY <1>4, FoundDir DEF IsDir
    <3>2. Inside(from, from)
      BY <3>1 DEF Inside
    <3> QED
      BY <1>1, <3>1, <3>2
  <2>2. q \notin X
    <3> SUFFICES ASSUME NEW k \in Nat, NEW y \in Level[k], y[2] = q, Inside(from, y[1])
                 PROVE  FALSE
      OBVIOUS
    <3>1. y = <<p, q>>
      BY <1>2, OnePathOnly
    <3> QED
      BY <3>1
  <2>3. ASSUME NEW i \in DOMAIN dir \ {Root}, dir[i].parent \in X PROVE i \in X
    <3>1. PICK k \in Nat : \E y \in Level[k] : y[2] = dir[i].parent /\ Inside(from, y[1])
      BY <2>3
    <3>2. PICK y \in Level[k] : y[2] = dir[i].parent /\ Inside(from, y[1])
      BY <3>1
    <3> DEFINE z == <<Append(y[1], dir[i].name), i>>
    <3>3. z \in Below(y)
      BY <3>2, BelowMember
    <3>4. z \in Level[k + 1] /\ k + 1 \in Nat /\ z[2] = i
      BY <3>3, LevelBelow
    <3>5. y[1] \in Seq(Name) /\ dir[i].name \in Name
      BY LevelMember DEF Place, IsTree
    <3>6. Inside(from, Append(y[1], dir[i].name))
      BY <3>2, <3>5, PrefixAppend
    <3>7. Inside(from, z[1])
      BY <3>6
    <3> QED
      BY <3>4, <3>7
  <2> HIDE DEF X
  <2> QED
    BY <2>1, <2>2, <2>3
<1> QED
  BY <1>3, <1>4

(* The UPDATE of psql_rename moves a row and keeps a tree. *)
LEMMA RenameStep ==
  ASSUME IsTree(dir), NEW from \in Path, NEW to \in Path, pgfuse_rename(from, to)
  PROVE  /\ IsTree(dir')
         /\ DOMAIN dir' = DOMAIN dir
         /\ \A i \in DOMAIN dir : dir'[i].type = dir[i].type
         /\ LookupId(from) \in DOMAIN dir \ {Root}
         /\ \A i \in DOMAIN dir \ {LookupId(from)} : dir'[i] = dir[i]
         /\ dir'[LookupId(from)].parent = LookupId(dirname(to))
         /\ dir'[LookupId(from)].name = basename(to)
         /\ Select(LookupId(dirname(to)), basename(to)) = {}
<1> DEFINE r == LookupId(from)
           p == dirname(to)
           q == LookupId(p)
           n == basename(to)
<1>1. /\ from \in Seq(Name) /\ p \in Seq(Name) /\ n \in Name /\ to = Append(p, n)
      /\ Exists(from) /\ ~Exists(to) /\ IsDir(p) /\ from # <<>>
  BY PathParts DEF pgfuse_rename
<1>2. r \in DOMAIN dir \ {Root}
  BY <1>1, LookupIsExact
<1>3. q \in DOMAIN dir /\ dir[q].type = "dir" /\ <<p, q>> \in Located
  BY <1>1, FoundDir
<1>4. \A i \in DOMAIN dir : ~(dir[i].parent = q /\ dir[i].name = n)
  <2> DEFINE x == <<p, q>>
  <2>1. x \in Located /\ x[1] = p /\ x[2] = q
    BY <1>3
  <2>2. ~Exists(Append(x[1], n))
    BY <1>1, <2>1
  <2>3. dir[x[2]].type = "dir"
    BY <1>3, <2>1
  <2> HIDE DEF x
  <2>4. ~\E j \in Children(x[2]) \ {Root} : dir[j].name = n
    BY <1>1, <2>1, <2>2, <2>3, LookupInDirectory
  <2>5. dir[Root].name # n
    BY <1>1, DirTreeAssumption DEF IsTree, RootRow, DirTreeAssumption
  <2> QED
    BY <2>1, <2>4, <2>5 DEF Children
<1>5. ~Inside(from, p)
  BY <1>1, PrefixAppend DEF pgfuse_rename
<1>6. PICK X : /\ r \in X
               /\ q \notin X
               /\ \A i \in DOMAIN dir \ {Root} : dir[i].parent \in X => i \in X
  BY <1>1, <1>5, NotBelowItself
<1>7. dir' = [dir EXCEPT ![r].parent = q, ![r].name = n]
  BY DEF pgfuse_rename
<1> HIDE DEF r, q, n
<1>8. DOMAIN dir' = DOMAIN dir /\ \A i \in DOMAIN dir \ {r} : dir'[i] = dir[i]
  BY <1>7
<1>9. dir[r] \in Row
  BY <1>2 DEF IsTree
<1>10. dir'[r] = [[dir[r] EXCEPT !.parent = q] EXCEPT !.name = n]
  BY <1>2, <1>7
<1>11. dir'[r] \in Row /\ dir'[r].parent = q /\ dir'[r].name = n /\ dir'[r].type = dir[r].type
  <2>1. q \in Id \cup {Root} /\ n \in Name \cup {"/"}
    BY <1>1, <1>3 DEF IsTree
  <2> QED
    BY <1>9, <1>10, <2>1 DEF Row
<1>12. IsTree(dir')
  BY <1>1, <1>2, <1>3, <1>4, <1>6, <1>8, <1>11, MoveKeepsTree
<1>13. Select(q, n) = {}
  BY <1>4 DEF Select
<1> QED
  BY <1>2, <1>8, <1>11, <1>12, <1>13 DEF r, q, n

-----------------------------------------------------------------------------
(* The levels of the next state, *)
LEMMA NextLevelEquations ==
  /\ Level'[0] = {<<<<>>, Root>>}
  /\ \A k \in Nat : Level'[k + 1] = (Lower(Level[k]))'
<1>1. (/\ Level[0] = {<<<<>>, Root>>}
       /\ \A k \in Nat : Level[k + 1] = Lower(Level[k]))'
  BY LevelEquations, PTL
<1> QED
  BY <1>1

(* A step that keeps names, parents and types keeps all paths. *)
LEMMA SameRowsSameNames ==
  ASSUME IsTree(dir), DOMAIN dir' = DOMAIN dir,
         \A i \in DOMAIN dir : /\ dir'[i].parent = dir[i].parent
                               /\ dir'[i].name = dir[i].name
                               /\ dir'[i].type = dir[i].type
  PROVE  NodeMap' = NodeMap
<1>1. ASSUME NEW y PROVE Below(y)' = Below(y)
  BY DEF Below, Children
<1> DEFINE T == {k \in Nat : Level'[k] = Level[k]}
<1>2. 0 \in T
  BY LevelEquations, NextLevelEquations
<1>3. ASSUME NEW k \in Nat, k \in T PROVE k + 1 \in T
  <2>1. Level'[k + 1] = (Lower(Level[k]))'
    BY NextLevelEquations, SMTT(30)
  <2>2. (Lower(Level[k]))' = Lower(Level[k])
    BY <1>1, <1>3 DEF Lower
  <2> QED
    BY <2>1, <2>2, LevelEquations
<1> HIDE DEF T
<1>4. \A k \in Nat : Level'[k] = Level[k]
  BY <1>2, <1>3, NumbersBySuccessor DEF T
<1>5. Located' = Located
  <2>1. Cardinality(DOMAIN dir) \in Nat
    BY FS_CardinalityType DEF IsTree
  <2> QED
    BY <1>4, <2>1 DEF Located
<1>6. \A x \in Located : x[2] \in DOMAIN dir
  BY TreesHaveOnePath DEF EveryRowHasOnePath
<1> QED
  BY <1>5, <1>6 DEF NodeMap

-----------------------------------------------------------------------------
(* Data are those of files and links: create and symlink make such rows,   *)
(* write and truncate get their ids from a handle or a lookup.             *)
BlocksOfFiles == \A i \in blocks : i \in DOMAIN dir /\ dir[i].type # "dir"

(* The invariant of the handlers: table dir is a tree, data and handles    *)
(* are those of files and links.                                           *)
DirInv ==
  /\ IsTree(dir)
  /\ blocks \subseteq Id /\ fhs \subseteq Id /\ read_only \in BOOLEAN
  /\ BlocksOfFiles
  /\ \A i \in fhs \cap DOMAIN dir : dir[i].type # "dir"

(* It holds when a file system is mounted, *)
LEMMA DirInvInit == Init => DirInv
<1> SUFFICES ASSUME Init PROVE DirInv
  OBVIOUS
<1>1. IsTree(dir)
  BY InitialDirAssumption DEF InitialDirAssumption, Init
<1>2. \A i \in blocks : i \in DOMAIN dir /\ dir[i].type = "file"
  BY DEF Init
<1>3. dir[Root].type = "dir"
  BY <1>1 DEF IsTree, RootRow
<1>4. DOMAIN dir \subseteq Id \cup {Root}
  BY <1>1 DEF IsTree
<1>5. blocks \subseteq Id
  BY <1>2, <1>3, <1>4
<1>6. BlocksOfFiles
  BY <1>2 DEF BlocksOfFiles
<1>7. fhs = {} /\ read_only \in BOOLEAN
  BY DEF Init
<1> QED
  BY <1>1, <1>5, <1>6, <1>7 DEF DirInv

(* and after every handler. *)
LEMMA DirInvStep == DirInv /\ [Next]_vars => DirInv'
<1> SUFFICES ASSUME DirInv, [Next]_vars PROVE DirInv'
  OBVIOUS
<1>1. IsTree(dir) /\ DOMAIN dir \subseteq Id \cup {Root} /\ dir[Root].type = "dir"
  BY DEF DirInv, IsTree, RootRow
<1>2. ASSUME NEW path \in Path, Exists(path)
      PROVE  LookupId(path) \in DOMAIN dir /\ (path # <<>> => LookupId(path) # Root)
  BY <1>1, <1>2, FoundRow
<1>3. ASSUME NEW path \in Path, IsNonDir(path)
      PROVE  LookupId(path) \in DOMAIN dir \ {Root} /\ dir[LookupId(path)].type # "dir"
  BY <1>1, <1>2, <1>3 DEF IsNonDir
<1>4. ASSUME NEW path \in Path, NEW m \in Meta, pgfuse_create(path, m) PROVE DirInv'
  BY <1>1, <1>4, InsertStep DEF pgfuse_create, DirInv, BlocksOfFiles
<1>5. ASSUME NEW path \in Path, NEW m \in Meta, pgfuse_mkdir(path, m) PROVE DirInv'
  BY <1>1, <1>5, InsertStep DEF pgfuse_mkdir, DirInv, BlocksOfFiles
<1>6. ASSUME NEW path \in Path, NEW m \in Meta, pgfuse_symlink(path, m) PROVE DirInv'
  BY <1>1, <1>6, InsertStep DEF pgfuse_symlink, DirInv, BlocksOfFiles
<1>7. ASSUME NEW path \in Path, pgfuse_rmdir(path) PROVE DirInv'
  <2>1. LookupId(path) \in DOMAIN dir \ {Root} /\ dir[LookupId(path)].type = "dir"
    BY <1>2, <1>7 DEF pgfuse_rmdir, IsDir
  <2> QED
    BY <1>1, <1>7, <2>1, DeleteStep DEF pgfuse_rmdir, Delete, BlocksLeft, DirInv, BlocksOfFiles
<1>8. ASSUME NEW path \in Path, pgfuse_unlink(path) PROVE DirInv'
  <2>1. LookupId(path) \in DOMAIN dir \ {Root} /\ dir[LookupId(path)].type # "dir"
    BY <1>3, <1>8 DEF pgfuse_unlink
  <2> QED
    BY <1>1, <1>8, <2>1, DeleteStep DEF pgfuse_unlink, Delete, BlocksLeft, DirInv, BlocksOfFiles
<1>9. ASSUME NEW path \in Path, NEW to \in Path, pgfuse_rename(path, to) PROVE DirInv'
  <2>1. IsTree(dir') /\ DOMAIN dir' = DOMAIN dir /\ \A i \in DOMAIN dir : dir'[i].type = dir[i].type
    BY <1>1, <1>9, RenameStep, SMTT(30)
  <2> QED
    BY <1>9, <2>1 DEF pgfuse_rename, DirInv, BlocksOfFiles
<1>10. ASSUME NEW path \in Path, NEW rdonly \in BOOLEAN, pgfuse_open(path, rdonly) PROVE DirInv'
  <2> DEFINE i == LookupId(path)
  <2>1. i \in DOMAIN dir \ {Root} /\ dir[i].type # "dir"
    BY <1>3, <1>10, SMTT(30) DEF pgfuse_open
  <2>2. dir[i].meta \in Meta
    BY <2>1 DEF DirInv, IsTree, Row
  <2> QED
    BY <1>1, <1>10, <2>1, <2>2, MetaStep, SMTT(30) DEF pgfuse_open, DirInv, BlocksOfFiles
<1>11. ASSUME NEW path \in Path, NEW m \in Meta, Exists(path), WriteMeta(LookupId(path), m),
              UNCHANGED <<blocks, fhs, read_only>>
       PROVE  DirInv'
  BY <1>1, <1>2, <1>11, MetaStep DEF DirInv, BlocksOfFiles
<1>12. ASSUME NEW i \in Id, pgfuse_write(i) PROVE DirInv'
  BY <1>12 DEF pgfuse_write, DirInv, BlocksOfFiles
<1>13. ASSUME NEW i \in Id, Truncated(i) PROVE DirInv'
  BY <1>13 DEF Truncated, DirInv, BlocksOfFiles
<1>14. ASSUME NEW i \in Id, pgfuse_release(i) PROVE DirInv'
  BY <1>14 DEF pgfuse_release, DirInv, BlocksOfFiles
<1>15. ASSUME NEW path \in Path, pgfuse_truncate(path) PROVE DirInv'
  BY <1>1, <1>3, <1>13, <1>15 DEF pgfuse_truncate
<1>16. CASE UNCHANGED vars
  BY <1>16 DEF vars, DirInv, BlocksOfFiles
<1> QED
  BY <1>4, <1>5, <1>6, <1>7, <1>8, <1>9, <1>10, <1>11, <1>12, <1>13, <1>14, <1>15, <1>16, SMTT(30)
     DEF Next, pgfuse_chmod, pgfuse_chown, pgfuse_utimens, pgfuse_ftruncate

(* Table dir stays a tree, whatever handlers pgfuse is called with. *)
THEOREM DirStaysATree == Spec => []DirInv
BY DirInvInit, DirInvStep, PTL DEF Spec

(* Every variable keeps its type: each handler stores rows of table dir    *)
(* and ids of Id only.                                                     *)
THEOREM DirTypeCorrect == Spec => []TypeOK
<1>1. DirInv => TypeOK
  BY DEF DirInv, IsTree, TypeOK
<1> QED
  BY <1>1, DirStaysATree, PTL

(* No handler of pgfuse.c orphans a row, puts it on a cycle or gives it a  *)
(* second path, in trees of every size, although each one sees only a row  *)
(* and its parent.                                                         *)
THEOREM NoFsckNeeded == Spec => []EveryRowHasOnePath
<1>1. DirInv => EveryRowHasOnePath
  BY TreesHaveOnePath DEF DirInv
<1> QED
  BY <1>1, DirStaysATree, PTL

(* The loop of psql_path_to_id finds every row at its path, and nothing at *)
(* a path where nothing is, at every depth.                                *)
THEOREM LookupsAreExact == Spec => []LookupFinds
<1>1. DirInv => LookupFinds
  BY TreesAreSearched, SMTT(30) DEF DirInv
<1> QED
  BY <1>1, DirStaysATree, PTL

(* pgfuse_readdir lists each name that can be looked up, once. *)
THEOREM ListingsAreExact == Spec => []ReaddirListsWhatLookupFinds
<1>1. DirInv => ReaddirListsWhatLookupFinds
  BY TreesAreListed DEF DirInv
<1> QED
  BY <1>1, DirStaysATree, PTL

(* pgfuse_unlink never fails on a foreign key, and pgfuse_rmdir only when  *)
(* the directory is not empty: rule dir_remove deletes the blocks of files *)
(* and links, directories have none, and files and links have no children. *)
THEOREM KeysAllowRemovals == Spec => []RemovalsAreNotRefused
<1>1. DirInv => RemovalsAreNotRefused
  <2> SUFFICES ASSUME DirInv, NEW i \in DOMAIN dir \ {Root}, Referenced(i)
               PROVE  dir[i].type = "dir" /\ Children(i) # {}
    BY DEF RemovalsAreNotRefused
  <2>1. i \notin BlocksLeft(i)
    BY DEF DirInv, BlocksOfFiles, BlocksLeft
  <2>2. PICK j \in DOMAIN dir : dir[j].parent = i
    BY <2>1 DEF Referenced, Children
  <2>3. dir[i].type = "dir"
    BY <2>2 DEF DirInv, IsTree
  <2> QED
    BY <2>2, <2>3 DEF Children
<1> QED
  BY <1>1, DirStaysATree, PTL

(* On a read-only mount no handler changes a name or data: those that do   *)
(* not look at read_only write metadata only.                              *)
THEOREM ReadOnlyIsKept == Spec => ReadOnlyKeepsFiles
<1>1. DirInv /\ [Next]_vars => [read_only => UNCHANGED <<NodeMap, blocks>>]_vars
  <2> SUFFICES ASSUME DirInv, Next, read_only PROVE NodeMap' = NodeMap /\ blocks' = blocks
    BY Zenon
  <2>1. ASSUME NEW a \in DOMAIN dir, NEW m \in Meta, WriteMeta(a, m) PROVE NodeMap' = NodeMap
    BY <2>1, MetaStep, SameRowsSameNames DEF DirInv
  <2>2. ASSUME NEW path \in Path, NEW rdonly \in BOOLEAN, pgfuse_open(path, rdonly)
        PROVE  NodeMap' = NodeMap /\ blocks' = blocks
    <3>1. LookupId(path) \in DOMAIN dir
      BY <2>2, FoundRow DEF pgfuse_open, IsNonDir, DirInv
    <3>2. dir[LookupId(path)].meta \in Meta
      BY <3>1 DEF DirInv, IsTree, Row
    <3> QED
      BY <2>1, <2>2, <3>1, <3>2 DEF pgfuse_open
  <2>3. ASSUME NEW path \in Path, NEW m \in Meta, pgfuse_utimens(path, m)
        PROVE  NodeMap' = NodeMap /\ blocks' = blocks
    BY <2>1, <2>3, FoundRow DEF pgfuse_utimens, DirInv
  <2>4. ASSUME NEW i \in Id, pgfuse_release(i)
        PROVE  NodeMap' = NodeMap /\ blocks' = blocks
    BY <2>4, SameRowsSameNames DEF pgfuse_release, DirInv
  <2> QED
    BY <2>2, <2>3, <2>4
       DEF Next, pgfuse_create, pgfuse_mkdir, pgfuse_symlink, pgfuse_rmdir, pgfuse_unlink,
           pgfuse_rename, pgfuse_write, pgfuse_truncate, pgfuse_ftruncate, pgfuse_chmod, pgfuse_chown
<1> QED
  BY <1>1, DirStaysATree, PTL DEF Spec, ReadOnlyKeepsFiles
=============================================================================
