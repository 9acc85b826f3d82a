--------------------------- MODULE DirNamesProofs ---------------------------
(***************************************************************************)
(* The handlers of DirTree implement Namespace: what they do to rows with  *)
(* parent pointers is what users see done to paths.                        *)
(***************************************************************************)
EXTENDS DirTreeProofs

(* The path of every row, as a function. *)
IsPathOf(g) ==
  /\ g \in [DOMAIN dir -> Seq(Name)]
  /\ g[Root] = <<>>
  /\ \A i \in DOMAIN dir \ {Root} : g[i] = Append(g[dir[i].parent], dir[i].name)

(* A tree has such a function, *)
LEMMA PathFunction == IsTree(dir) => \E g : IsPathOf(g)
<1> SUFFICES ASSUME IsTree(dir) PROVE \E g : IsPathOf(g)
  OBVIOUS
<1> DEFINE at(i) == CHOOSE x \in Located : x[2] = i
           g == [i \in DOMAIN dir |-> at(i)[1]]
<1>1. ASSUME NEW i \in DOMAIN dir PROVE at(i) \in Located /\ at(i)[2] = i
  BY TreesHaveOnePath DEF EveryRowHasOnePath
<1>2. ASSUME NEW i \in DOMAIN dir, NEW k \in Nat, NEW x \in Level[k], x[2] = i PROVE g[i] = x[1]
  <2>1. PICK m \in Nat : at(i) \in Level[m]
    BY <1>1, LocatedIsEveryLevel
  <2> HIDE DEF at
  <2>2. at(i) = x
    BY <1>1, <1>2, <2>1, OnePathOnly
  <2> QED
    BY <2>2
<1>3. ASSUME NEW i \in DOMAIN dir
      PROVE  \E k \in Nat : at(i) \in Level[k] /\ Place(at(i)[1], i, k)
  <2>1. PICK k \in Nat : at(i) \in Level[k]
    BY <1>1, LocatedIsEveryLevel
  <2> HIDE DEF at
  <2> QED
    BY <1>1, <2>1, LevelMember
<1>4. g \in [DOMAIN dir -> Seq(Name)]
  <2> HIDE DEF at
  <2> QED
    BY <1>3 DEF Place
<1>5. g[Root] = <<>>
  <2>1. <<<<>>, Root>> \in Level[0] /\ Root \in DOMAIN dir
    BY LevelEquations DEF IsTree
  <2> HIDE DEF at, g
  <2> QED
    BY <1>2, <2>1
<1>6. ASSUME NEW i \in DOMAIN dir \ {Root} PROVE g[i] = Append(g[dir[i].parent], dir[i].name)
  <2> DEFINE j == dir[i].parent
  <2>1. j \in DOMAIN dir
    BY DEF IsTree
  <2>2. PICK k \in Nat : at(j) \in Level[k]
    BY <1>3, <2>1
  <2> HIDE DEF at
  <2> DEFINE y == <<Append(at(j)[1], dir[i].name), i>>
  <2>3. y \in Below(at(j))
    BY <1>1, <2>1, BelowMember
  <2>4. y \in Level[k + 1] /\ k + 1 \in Nat /\ y[2] = i
    BY <2>2, <2>3, LevelBelow
  <2>5. g[i] = y[1]
    BY <1>2, <2>4
  <2> QED
    BY <2>1, <2>5
<1> HIDE DEF g
<1> QED
  BY <1>4, <1>5, <1>6 DEF IsPathOf

(* which says where everything is. *)
LEMMA PathsOfATree ==
  IsTree(dir) => \A g : IsPathOf(g) =>
    /\ \A i \in DOMAIN dir : PathToId(g[i]) = i
    /\ \A i, j \in DOMAIN dir : g[i] = g[j] => i = j
    /\ NodeMap = {<<g[i], dir[i].type>> : i \in DOMAIN dir}
<1> SUFFICES ASSUME IsTree(dir), NEW g, IsPathOf(g)
             PROVE  /\ \A i \in DOMAIN dir : PathToId(g[i]) = i
                    /\ \A i, j \in DOMAIN dir : g[i] = g[j] => i = j
                    /\ NodeMap = {<<g[i], dir[i].type>> : i \in DOMAIN dir}
  OBVIOUS
<1> DEFINE S == {i \in DOMAIN dir : \E k \in Nat : <<g[i], i>> \in Level[k]}
<1>1. Root \in S
  <2>1. <<<<>>, Root>> \in Level[0] /\ Root \in DOMAIN dir /\ g[Root] = <<>>
    BY LevelEquations DEF IsTree, IsPathOf
  <2> QED
    BY <2>1
<1>2. ASSUME NEW i \in DOMAIN dir, dir[i].parent \in S PROVE i \in S
  <2>1. CASE i = Root
    BY <1>1, <2>1
  <2>2. CASE i # Root
    <3> DEFINE j == dir[i].parent
               x == <<g[j], j>>
               y == <<Append(g[j], dir[i].name), i>>
    <3>1. PICK k \in Nat : x \in Level[k]
      BY <1>2
    <3>2. y \in Below(x)
      BY <2>2, BelowMember
    <3>3. y \in Level[k + 1] /\ k + 1 \in Nat
      BY <3>1, <3>2, LevelBelow
    <3>4. y = <<g[i], i>>
      BY <2>2 DEF IsPathOf
    <3> QED
      BY <3>3, <3>4
  <2> QED
    BY <2>1, <2>2
<1>3. S \in SUBSET DOMAIN dir
  OBVIOUS
<1> HIDE DEF S
<1>4. S = DOMAIN dir
  BY <1>1, <1>2, <1>3 DEF IsTree
<1>5. ASSUME NEW i \in DOMAIN dir PROVE <<g[i], i>> \in Located
  BY <1>4, LocatedIsEveryLevel DEF S
<1>6. ASSUME NEW x \in Located PROVE x[2] \in DOMAIN dir /\ x[1] = g[x[2]]
  BY <1>5, TreesHaveOnePath DEF EveryRowHasOnePath
<1>7. ASSUME NEW i \in DOMAIN dir PROVE PathToId(g[i]) = i
  <2>1. PICK k \in Nat : <<g[i], i>> \in Level[k]
    BY <1>4 DEF S
  <2> QED
    BY <2>1, LevelMember
<1>8. \A i, j \in DOMAIN dir : g[i] = g[j] => i = j
  BY <1>7
<1>9. NodeMap = {<<g[i], dir[i].type>> : i \in DOMAIN dir}
  <2>1. ASSUME NEW i \in DOMAIN dir PROVE <<g[i], dir[i].type>> \in NodeMap
    <3> DEFINE x == <<g[i], i>>
    <3>1. x \in Located /\ x[1] = g[i] /\ x[2] = i
      BY <1>5
    <3> HIDE DEF x
    <3>2. <<x[1], dir[x[2]].type>> \in NodeMap
      BY <3>1 DEF NodeMap
    <3> QED
      BY <3>1, <3>2
  <2>2. ASSUME NEW x \in Located PROVE \E i \in DOMAIN dir : <<x[1], dir[x[2]].type>> = <<g[i], dir[i].type>>
    BY <1>6
  <2> QED
    BY <2>1, <2>2 DEF NodeMap
<1> QED
  BY <1>7, <1>8, <1>9

(* The same for the state after a step. *)
LEMMA NextPathsOfATree ==
  IsTree(dir') => \A g :
    /\ g \in [DOMAIN dir' -> Seq(Name)]
    /\ g[Root] = <<>>
    /\ \A i \in DOMAIN dir' \ {Root} : g[i] = Append(g[dir'[i].parent], dir'[i].name)
    => NodeMap' = {<<g[i], dir'[i].type>> : i \in DOMAIN dir'}
<1>1. (IsTree(dir) => \A g : IsPathOf(g) =>
        /\ \A i \in DOMAIN dir : PathToId(g[i]) = i
        /\ \A i, j \in DOMAIN dir : g[i] = g[j] => i = j
        /\ NodeMap = {<<g[i], dir[i].type>> : i \in DOMAIN dir})'
  BY PathsOfATree, PTL
<1> QED
  BY <1>1 DEF IsPathOf

(* The paths of Namespace are those of the rows. *)
LEMMA NamesOfPaths ==
  ASSUME IsTree(dir), NEW g, IsPathOf(g)
  PROVE  N!Paths = {g[i] : i \in DOMAIN dir}
<1>1. NodeMap = {<<g[i], dir[i].type>> : i \in DOMAIN dir}
  BY PathsOfATree
<1>2. ASSUME NEW x \in NodeMap PROVE x[1] \in {g[i] : i \in DOMAIN dir}
  BY <1>1
<1>3. ASSUME NEW i \in DOMAIN dir PROVE g[i] \in N!Paths
  <2> DEFINE x == <<g[i], dir[i].type>>
  <2>1. x \in NodeMap /\ x[1] = g[i]
    BY <1>1
  <2> HIDE DEF x
  <2> QED
    BY <2>1 DEF N!Paths
<1> QED
  BY <1>2, <1>3 DEF N!Paths

(* The names of a tree are those of a file system. *)
LEMMA NamesInit == IsTree(dir) => N!Init
<1> SUFFICES ASSUME IsTree(dir) PROVE N!Init
  OBVIOUS
<1>1. PICK g : IsPathOf(g)
  BY PathFunction
<1>2. /\ \A i, j \in DOMAIN dir : g[i] = g[j] => i = j
      /\ NodeMap = {<<g[i], dir[i].type>> : i \in DOMAIN dir}
  BY <1>1, PathsOfATree
<1>3. <<<<>>, "dir">> \in NodeMap
  <2>1. Root \in DOMAIN dir /\ g[Root] = <<>> /\ dir[Root].type = "dir"
    BY <1>1 DEF IsPathOf, IsTree, RootRow
  <2> QED
    BY <1>2, <2>1
<1>4. ASSUME NEW x \in NodeMap, x[1] # <<>> PROVE <<dirname(x[1]), "dir">> \in NodeMap
  <2>1. PICK i \in DOMAIN dir : x = <<g[i], dir[i].type>>
    BY <1>2
  <2>2. i # Root
    BY <1>1, <1>4, <2>1 DEF IsPathOf
  <2> DEFINE j == dir[i].parent
  <2>3. j \in DOMAIN dir /\ dir[j].type = "dir" /\ dir[i].name \in Name
    BY <2>2 DEF IsTree
  <2>4. g[j] \in Seq(Name) /\ g[i] = Append(g[j], dir[i].name)
    BY <1>1, <2>2, <2>3 DEF IsPathOf
  <2>5. dirname(g[i]) = g[j]
    BY <2>3, <2>4, AppendProperties DEF dirname
  <2> QED
    BY <1>2, <2>1, <2>3, <2>5
<1>5. ASSUME NEW x \in NodeMap, NEW y \in NodeMap, x[1] = y[1] PROVE x = y
  BY <1>2, <1>5
<1> QED
  BY <1>3, <1>4, <1>5 DEF N!Init, N!dirname, dirname

(* A directory that a lookup has found is at the path looked up. *)
LEMMA DirIsAtItsPath ==
  ASSUME IsTree(dir), NEW g, IsPathOf(g), NEW p \in Seq(Name), IsDir(p)
  PROVE  g[LookupId(p)] = p
<1> DEFINE q == LookupId(p)
<1>1. /\ \A i \in DOMAIN dir : PathToId(g[i]) = i
      /\ NodeMap = {<<g[i], dir[i].type>> : i \in DOMAIN dir}
  BY PathsOfATree
<1>2. <<p, "dir">> \in NodeMap
  <2> DEFINE x == <<p, q>>
  <2>1. x \in Located /\ x[1] = p /\ x[2] = q /\ dir[q].type = "dir"
    BY FoundDir
  <2> HIDE DEF x
  <2> QED
    BY <2>1 DEF NodeMap
<1>3. PICK i \in DOMAIN dir : p = g[i]
  BY <1>1, <1>2
<1>4. PathToId(p) = q
  BY LookupIsExact
<1> QED
  BY <1>1, <1>3, <1>4

(* A path in a directory that was looked up, where no row is. *)
LEMMA FreeName ==
  ASSUME IsTree(dir), NEW g, IsPathOf(g), NEW path \in Path, path # <<>>, IsDir(dirname(path)),
         Select(LookupId(dirname(path)), basename(path)) = {}
  PROVE  /\ N!Vacant(path)
         /\ LookupId(dirname(path)) \in DOMAIN dir
         /\ g[LookupId(dirname(path))] = dirname(path)
<1> DEFINE p == dirname(path)
           q == LookupId(p)
           n == basename(path)
<1>1. p \in Seq(Name) /\ n \in Name /\ path = Append(p, n)
  BY PathParts
<1>2. q \in DOMAIN dir /\ dir[q].type = "dir" /\ <<p, q>> \in Level[Len(p)] /\ Len(p) \in Nat
  BY <1>1, FoundDir
<1>3. /\ \A i \in DOMAIN dir : PathToId(g[i]) = i
      /\ NodeMap = {<<g[i], dir[i].type>> : i \in DOMAIN dir}
  BY PathsOfATree
<1>4. g[q] = p
  BY <1>1, DirIsAtItsPath
<1>5. ASSUME NEW i \in DOMAIN dir, g[i] = path PROVE FALSE
  <2>1. i # Root
    BY <1>5 DEF IsPathOf
  <2> DEFINE j == dir[i].parent
  <2>2. j \in DOMAIN dir /\ dir[i].name \in Name
    BY <2>1 DEF IsTree
  <2>3. g[j] \in Seq(Name) /\ Append(g[j], dir[i].name) = Append(p, n)
    BY <1>1, <1>5, <2>1, <2>2 DEF IsPathOf
  <2>4. g[j] = p /\ dir[i].name = n
    BY <1>1, <2>2, <2>3, AppendInjective
  <2>5. j = q
    BY <1>2, <1>3, <1>4, <2>2, <2>4
  <2> QED
    BY <2>4, <2>5 DEF Select
<1>6. path \notin N!Paths
  BY <1>5, NamesOfPaths
<1>7. <<p, "dir">> \in NodeMap
  BY <1>2, <1>3, <1>4
<1> QED
  BY <1>2, <1>4, <1>6, <1>7 DEF N!Vacant, N!dirname, dirname

(* pgfuse_create, pgfuse_mkdir and pgfuse_symlink add a name. *)
LEMMA InsertNames ==
  ASSUME IsTree(dir), NEW path \in Path, path # <<>>, IsDir(dirname(path)),
         NEW type \in {"dir", "file", "link"}, NEW m \in Meta, Insert(path, type, m)
  PROVE  N!AddName(path, type)
<1> DEFINE q == LookupId(dirname(path))
           a == NewId
<1>1. PICK g : IsPathOf(g)
  BY PathFunction
<1>2. N!Vacant(path) /\ q \in DOMAIN dir /\ g[q] = dirname(path)
  BY <1>1, FreeName DEF Insert
<1>3. NodeMap = {<<g[i], dir[i].type>> : i \in DOMAIN dir}
  BY <1>1, PathsOfATree
<1>4. /\ IsTree(dir') /\ a \in Id /\ a \notin DOMAIN dir
      /\ DOMAIN dir' = DOMAIN dir \cup {a}
      /\ \A i \in DOMAIN dir : dir'[i] = dir[i]
  BY InsertStep
<1>5. dir'[a] = [parent |-> q, name |-> basename(path), type |-> type, meta |-> m]
  BY DEF Insert
<1>6. path \in Seq(Name) /\ path = Append(dirname(path), basename(path))
  BY PathParts
<1>7. /\ Root \in DOMAIN dir /\ \A i \in DOMAIN dir : dir[i].parent \in DOMAIN dir
      /\ g \in [DOMAIN dir -> Seq(Name)] /\ g[Root] = <<>>
      /\ \A i \in DOMAIN dir \ {Root} : g[i] = Append(g[dir[i].parent], dir[i].name)
  BY <1>1 DEF IsTree, IsPathOf
<1> HIDE DEF q, a
<1> DEFINE h == [i \in DOMAIN dir' |-> IF i = a THEN path ELSE g[i]]
<1>8. h[a] = path /\ \A i \in DOMAIN dir : h[i] = g[i]
  BY <1>4
<1>9. h \in [DOMAIN dir' -> Seq(Name)]
  BY <1>4, <1>6, <1>7
<1> HIDE DEF h
<1>10. \A i \in DOMAIN dir' \ {Root} : h[i] = Append(h[dir'[i].parent], dir'[i].name)
  <2>1. h[a] = Append(h[dir'[a].parent], dir'[a].name)
    <3>1. dir'[a].parent = q /\ dir'[a].name = basename(path)
      BY <1>5
    <3>2. h[q] = dirname(path)
      BY <1>2, <1>8
    <3> QED
      BY <1>6, <1>8, <3>1, <3>2
  <2>2. ASSUME NEW i \in DOMAIN dir \ {Root} PROVE h[i] = Append(h[dir'[i].parent], dir'[i].name)
    BY <1>4, <1>7, <1>8
  <2> QED
    BY <1>4, <2>1, <2>2
<1>11. h[Root] = <<>>
  BY <1>7, <1>8
<1>12. NodeMap' = {<<h[i], dir'[i].type>> : i \in DOMAIN dir'}
  BY <1>4, <1>9, <1>10, <1>11, NextPathsOfATree
<1>13. dir'[a].type = type
  BY <1>5
<1>14. NodeMap' = NodeMap \cup {<<path, type>>}
  <2>1. ASSUME NEW i \in DOMAIN dir PROVE <<h[i], dir'[i].type>> = <<g[i], dir[i].type>>
    BY <1>4, <1>8
  <2>2. <<h[a], dir'[a].type>> = <<path, type>>
    BY <1>8, <1>13
  <2> QED
    BY <1>3, <1>4, <1>12, <2>1, <2>2
<1> QED
  BY <1>2, <1>14 DEF N!AddName

(* A path below another goes through a child of it. *)
LEMMA InsideAChild ==
  ASSUME IsTree(dir), NEW g, IsPathOf(g), NEW a \in DOMAIN dir, NEW i \in DOMAIN dir,
         \A j \in DOMAIN dir \ {Root} : dir[j].parent # a,
         Inside(g[a], g[i])
  PROVE  i = a
<1> DEFINE S == {j \in DOMAIN dir : j = a \/ ~Inside(g[a], g[j])}
<1>1. /\ \A j \in DOMAIN dir : g[j] \in Seq(Name) /\ PathToId(g[j]) = j
      /\ g[Root] = <<>> /\ Root \in DOMAIN dir
  BY PathsOfATree DEF IsPathOf, IsTree
<1>2. Root \in S
  <2>1. ASSUME Inside(g[a], g[Root]) PROVE a = Root
    <3>1. Len(g[a]) \in Nat /\ Len(g[a]) <= 0
      BY <1>1, <2>1, LenProperties DEF Inside
    <3>2. g[a] = <<>>
      BY <1>1, <3>1, EmptySeq
    <3> QED
      BY <1>1, <3>2
  <2> QED
    BY <1>1, <2>1
<1>3. ASSUME NEW j \in DOMAIN dir, dir[j].parent \in S, j # Root, j # a, Inside(g[a], g[j])
      PROVE  FALSE
  <2> DEFINE p == g[dir[j].parent]
             n == dir[j].name
  <2>1. p \in Seq(Name) /\ n \in Name /\ g[j] = Append(p, n)
    BY <1>1, <1>3 DEF IsTree, IsPathOf
  <2>2. ~Inside(g[a], p)
    BY <1>3
  <2>3. g[a] = Append(p, n)
    <3>1. g[a] \in Seq(Name) /\ Inside(g[a], Append(p, n))
      BY <1>1, <1>3, <2>1
    <3> HIDE DEF p, n
    <3> QED
      BY ONLY <2>1, <2>2, <3>1, PrefixOfAppend
  <2> QED
    BY <1>1, <1>3, <2>1, <2>3
<1>4. \A j \in DOMAIN dir : dir[j].parent \in S => j \in S
  BY <1>2, <1>3
<1> HIDE DEF S
<1>5. S \in SUBSET DOMAIN dir
  BY DEF S
<1>6. S = DOMAIN dir
  BY <1>2, <1>4, <1>5 DEF IsTree
<1> QED
  BY <1>6 DEF S

(* pgfuse_rmdir and pgfuse_unlink take a name away. *)
LEMMA DeleteNames ==
  ASSUME IsTree(dir), NEW a \in DOMAIN dir \ {Root}, Delete(a)
  PROVE  \E x \in NodeMap : N!DropName(x)
<1>1. PICK g : IsPathOf(g)
  BY PathFunction
<1>2. /\ \A i, j \in DOMAIN dir : g[i] = g[j] => i = j
      /\ NodeMap = {<<g[i], dir[i].type>> : i \in DOMAIN dir}
  BY <1>1, PathsOfATree
<1>3. /\ IsTree(dir') /\ DOMAIN dir' = DOMAIN dir \ {a}
      /\ \A i \in DOMAIN dir' : dir'[i] = dir[i]
  BY DeleteStep
<1>4. /\ Root \in DOMAIN dir /\ \A i \in DOMAIN dir : dir[i].parent \in DOMAIN dir \ {a}
      /\ g \in [DOMAIN dir -> Seq(Name)] /\ g[Root] = <<>>
      /\ \A i \in DOMAIN dir \ {Root} : g[i] = Append(g[dir[i].parent], dir[i].name)
  BY <1>1 DEF IsTree, IsPathOf, Delete, Referenced, Children
<1> DEFINE h == [i \in DOMAIN dir' |-> g[i]]
<1>5. \A i \in DOMAIN dir' : h[i] = g[i]
  OBVIOUS
<1>6. h \in [DOMAIN dir' -> Seq(Name)]
  BY <1>3, <1>4
<1> HIDE DEF h
<1>7. h[Root] = <<>> /\ \A i \in DOMAIN dir' \ {Root} : h[i] = Append(h[dir'[i].parent], dir'[i].name)
  BY <1>3, <1>4, <1>5
<1>8. NodeMap' = {<<h[i], dir'[i].type>> : i \in DOMAIN dir'}
  BY <1>3, <1>6, <1>7, NextPathsOfATree
<1> DEFINE x == <<g[a], dir[a].type>>
<1>9. x \in NodeMap /\ x[1] = g[a]
  BY <1>2
<1>10. x[1] # <<>>
  BY <1>2, <1>4, <1>9
<1>11. \A p \in N!Paths : N!Inside(x[1], p) => p = x[1]
  <2> SUFFICES ASSUME NEW i \in DOMAIN dir, Inside(g[a], g[i]) PROVE g[i] = g[a]
    BY <1>1, <1>9, NamesOfPaths DEF N!Inside, Inside
  <2> QED
    BY <1>1, <1>4, InsideAChild
<1>12. NodeMap' = NodeMap \ {x}
  <2>1. ASSUME NEW i \in DOMAIN dir', <<h[i], dir'[i].type>> = x PROVE FALSE
    BY <1>2, <1>3, <1>5, <2>1
  <2>2. ASSUME NEW i \in DOMAIN dir' PROVE <<h[i], dir'[i].type>> = <<g[i], dir[i].type>>
    BY <1>3, <1>5
  <2>3. ASSUME NEW y \in NodeMap' PROVE y \in NodeMap /\ y # x
    BY <1>2, <1>3, <1>8, <2>1, <2>2, SMTT(30)
  <2>4. ASSUME NEW y \in NodeMap, y # x PROVE y \in NodeMap'
    BY <1>2, <1>3, <1>8, <2>2, <2>4
  <2> QED
    BY <2>3, <2>4
<1> QED
  BY <1>9, <1>10, <1>11, <1>12 DEF N!DropName

(* Where a path goes when the directory f becomes t. *)
MovedPath(f, t, p) == t \o SubSeq(p, Len(f) + 1, Len(p))

(* The directory itself becomes t, and what is below it stays below it,    *)
(* one name at a time.                                                     *)
LEMMA MovedPaths ==
  ASSUME NEW f \in Seq(Name), NEW t \in Seq(Name)
  PROVE  /\ MovedPath(f, t, f) = t
         /\ \A p \in Seq(Name), n \in Name : Inside(f, p) =>
              /\ MovedPath(f, t, p) \in Seq(Name)
              /\ MovedPath(f, t, Append(p, n)) = Append(MovedPath(f, t, p), n)
<1>1. Len(f) \in Nat
  BY LenProperties
<1>2. SubSeq(f, Len(f) + 1, Len(f)) = <<>>
  BY <1>1, EmptySeq
<1>3. MovedPath(f, t, f) = t
  BY <1>2, ConcatEmptySeq DEF MovedPath
<1>4. ASSUME NEW p \in Seq(Name), NEW n \in Name, Inside(f, p)
      PROVE  /\ MovedPath(f, t, p) \in Seq(Name)
             /\ MovedPath(f, t, Append(p, n)) = Append(MovedPath(f, t, p), n)
  <2> DEFINE k == Len(f) + 1
             u == Append(p, n)
             s == SubSeq(p, k, Len(p))
  <2>1. Len(p) \in Nat /\ Len(f) <= Len(p) /\ k \in 1 .. Len(p) + 1
    BY <1>1, <1>4, LenProperties DEF Inside
  <2>2. s \in Seq(Name) /\ Len(s) = Len(p) - Len(f)
    BY <1>1, <2>1, SubSeqProperties
  <2>3. u \in Seq(Name) /\ Len(u) = Len(p) + 1 /\ u[Len(p) + 1] = n /\ \A i \in 1 .. Len(p) : u[i] = p[i]
    BY <2>1, AppendProperties
  <2>4. SubSeq(u, k, Len(u)) = Append(s, n)
    <3> DEFINE v == SubSeq(u, k, Len(u))
               w == Append(s, n)
               l == Len(p) - Len(f)
    <3>1. l \in Nat /\ k \in Int /\ Len(p) \in Int /\ Len(u) \in Int
      BY <1>1, <2>1, <2>3
    <3>2. v \in Seq(Name) /\ Len(v) = l + 1 /\ \A i \in 1 .. l + 1 : v[i] = u[Len(f) + i]
      <4>1. \A i \in k .. Len(u) : u[i] \in Name
        BY <1>1, <2>1, <2>3, ElementOfSeq
      <4>2. k <= Len(u) /\ Len(u) - k + 1 = l + 1 /\ \A i \in 1 .. l + 1 : k + i - 1 = Len(f) + i
        BY <1>1, <2>1, <2>3
      <4>3. /\ v \in Seq(Name)
            /\ Len(v) = IF k <= Len(u) THEN Len(u) - k + 1 ELSE 0
            /\ \A i \in 1 .. Len(u) - k + 1 : v[i] = u[k + i - 1]
        <5> HIDE DEF u, k
        <5> QED
          BY <3>1, <4>1, SubSeqProperties
      <4> QED
        BY <4>2, <4>3, SMTT(30)
    <3>3. \A i \in 1 .. l : s[i] = p[Len(f) + i]
      <4>1. \A i \in k .. Len(p) : p[i] \in Name
        BY <1>1, <2>1, ElementOfSeq
      <4>2. \A i \in 1 .. Len(p) - k + 1 : s[i] = p[k + i - 1]
        <5> HIDE DEF k
        <5> QED
          BY <3>1, <4>1, SubSeqProperties
      <4> QED
        BY <1>1, <2>1, <4>2
    <3>4. w \in Seq(Name) /\ Len(w) = l + 1 /\ w[l + 1] = n /\ \A i \in 1 .. l : w[i] = s[i]
      <4> HIDE DEF s
      <4> QED
        BY <2>2, <3>1, AppendProperties
    <3> HIDE DEF v, w
    <3>5. ASSUME NEW i \in 1 .. l + 1 PROVE v[i] = w[i]
      <4>1. CASE i = l + 1
        <5>1. Len(f) + i = Len(p) + 1
          BY <1>1, <2>1, <4>1
        <5> QED
          BY <2>3, <3>2, <3>4, <4>1, <5>1, SMTT(30)
      <4>2. CASE i \in 1 .. l
        <5>1. Len(f) + i \in 1 .. Len(p)
          BY <1>1, <2>1, <4>2
        <5>2. v[i] = u[Len(f) + i]
          BY <3>2
        <5>3. u[Len(f) + i] = p[Len(f) + i]
          BY <2>3, <5>1
        <5> QED
          BY <3>3, <3>4, <4>2, <5>2, <5>3
      <4> QED
        BY <3>1, <4>1, <4>2
    <3>6. v = w
      <4>1. \A i \in 1 .. Len(v) : v[i] = w[i]
        BY <3>2, <3>5
      <4> QED
        BY <3>2, <3>4, <4>1, SeqEqual, SMTT(30)
    <3> QED
      BY <3>6 DEF v, w
  <2>5. t \o Append(s, n) = Append(t \o s, n) /\ t \o s \in Seq(Name)
    <3> HIDE DEF s
    <3> QED
      BY <2>2
  <2> QED
    BY <2>4, <2>5 DEF MovedPath
<1> QED
  BY <1>3, <1>4

(* pgfuse_rename moves a name and all that is below it. *)
LEMMA RenameNames ==
  ASSUME IsTree(dir), NEW from \in Path, NEW to \in Path, pgfuse_rename(from, to)
  PROVE  \E f \in N!Paths : N!MoveName(f, to)
<1> DEFINE r == LookupId(from)
           p == dirname(to)
           q == LookupId(p)
           n == basename(to)
<1>1. /\ IsTree(dir') /\ DOMAIN dir' = DOMAIN dir
      /\ \A i \in DOMAIN dir : dir'[i].type = dir[i].type
      /\ r \in DOMAIN dir \ {Root}
      /\ \A i \in DOMAIN dir \ {r} : dir'[i] = dir[i]
      /\ dir'[r].parent = q /\ dir'[r].name = n /\ Select(q, n) = {}
  BY RenameStep
<1>2. PICK g : IsPathOf(g)
  BY PathFunction
<1>3. /\ \A i \in DOMAIN dir : PathToId(g[i]) = i
      /\ \A i, j \in DOMAIN dir : g[i] = g[j] => i = j
      /\ NodeMap = {<<g[i], dir[i].type>> : i \in DOMAIN dir}
  BY <1>2, PathsOfATree
<1>4. /\ from \in Seq(Name) /\ to \in Seq(Name) /\ to # <<>>
      /\ p \in Seq(Name) /\ n \in Name /\ to = Append(p, n)
      /\ Exists(from) /\ IsDir(p) /\ ~Inside(from, to)
  BY PathParts DEF pgfuse_rename
<1>5. N!Vacant(to) /\ q \in DOMAIN dir /\ g[q] = p /\ dir[q].type = "dir"
  BY <1>1, <1>2, <1>4, FreeName, FoundDir
<1>6. /\ Root \in DOMAIN dir /\ \A i \in DOMAIN dir : dir[i].parent \in DOMAIN dir
      /\ \A i \in DOMAIN dir \ {Root} : dir[i].name \in Name
      /\ \A i \in DOMAIN dir : g[i] \in Seq(Name)
      /\ g[Root] = <<>>
      /\ \A i \in DOMAIN dir \ {Root} : g[i] = Append(g[dir[i].parent], dir[i].name)
  BY <1>2 DEF IsTree, IsPathOf
<1> DEFINE f == g[r]
<1>7. f \in Seq(Name) /\ f # <<>> /\ f \in N!Paths
  BY <1>1, <1>2, <1>3, <1>6, NamesOfPaths
<1>8. dir[r].type = "dir" => f = from
  BY <1>1, <1>2, <1>4, DirIsAtItsPath, SMTT(30) DEF IsDir
<1> HIDE DEF r, p, q, n, f
<1>9. ~Inside(f, to)
  <2>1. CASE dir[r].type = "dir"
    BY <1>4, <1>8, <2>1
  <2>2. CASE dir[r].type # "dir"
    <3> SUFFICES ASSUME Inside(f, to) PROVE FALSE
      OBVIOUS
    <3>1. f # to
      BY <1>5, <1>7 DEF N!Vacant
    <3>2. Inside(f, p)
      BY <1>4, <1>7, <3>1, PrefixOfAppend, SMTT(30)
    <3>3. \A j \in DOMAIN dir \ {Root} : dir[j].parent # r
      BY <2>2 DEF IsTree
    <3>4. q = r
      BY <1>1, <1>2, <1>5, <3>2, <3>3, InsideAChild DEF f
    <3> QED
      BY <1>5, <2>2, <3>4
  <2> QED
    BY <2>1, <2>2
<1>10. ~Inside(f, p)
  BY <1>4, <1>7, <1>9, PrefixAppend
<1>11. ~Inside(f, <<>>)
  <2>1. Len(f) \in Nat \ {0} /\ Len(<<>>) = 0
    BY <1>7, EmptySeq
  <2> QED
    BY <2>1 DEF Inside
<1> DEFINE h == [i \in DOMAIN dir |-> IF Inside(f, g[i]) THEN MovedPath(f, to, g[i]) ELSE g[i]]
<1>12. ASSUME NEW i \in DOMAIN dir
       PROVE  /\ Inside(f, g[i]) => h[i] = MovedPath(f, to, g[i])
              /\ ~Inside(f, g[i]) => h[i] = g[i]
              /\ h[i] \in Seq(Name)
  <2>1. ASSUME Inside(f, g[i]) PROVE MovedPath(f, to, g[i]) \in Seq(Name)
    BY <1>4, <1>6, <1>7, <2>1, MovedPaths
  <2> QED
    BY <1>6, <2>1
<1>13. DOMAIN h = DOMAIN dir
  OBVIOUS
<1>14. h \in [DOMAIN dir' -> Seq(Name)]
  BY <1>1, <1>6, <1>7, <1>12
<1> HIDE DEF h
<1>15. h[Root] = <<>>
  BY <1>6, <1>11, <1>12
<1>16. ASSUME NEW i \in DOMAIN dir' \ {Root} PROVE h[i] = Append(h[dir'[i].parent], dir'[i].name)
  <2>1. CASE i = r
    <3>1. Inside(f, f) /\ f = g[r]
      BY <1>7, LenProperties DEF Inside, f
    <3>2. h[r] = to
      BY <1>1, <1>4, <1>7, <1>12, <3>1, MovedPaths
    <3>3. h[q] = p
      BY <1>5, <1>10, <1>12
    <3> QED
      BY <1>1, <1>4, <2>1, <3>2, <3>3
  <2>2. CASE i # r
    <3> DEFINE j == dir[i].parent
               m == dir[i].name
    <3>1. /\ dir'[i].parent = j /\ dir'[i].name = m /\ j \in DOMAIN dir /\ m \in Name
          /\ g[j] \in Seq(Name) /\ g[i] = Append(g[j], m) /\ i \in DOMAIN dir
      BY <1>1, <1>6, <2>2, SMTT(30)
    <3> HIDE DEF j, m
    <3>2. CASE Inside(f, g[j])
      <4>1. Inside(f, g[i])
        BY <1>7, <3>1, <3>2, PrefixAppend
      <4>2. MovedPath(f, to, g[i]) = Append(MovedPath(f, to, g[j]), m)
        <5>1. \A o \in Seq(Name), x \in Name : Inside(f, o) =>
                MovedPath(f, to, Append(o, x)) = Append(MovedPath(f, to, o), x)
          <6>1. f \in Seq(Name) /\ to \in Seq(Name)
            BY <1>4, <1>7
          <6> QED
            BY ONLY <6>1, MovedPaths
        <5>2. MovedPath(f, to, Append(g[j], m)) = Append(MovedPath(f, to, g[j]), m)
          BY <3>1, <3>2, <5>1
        <5> QED
          BY <3>1, <5>2
      <4> QED
        BY <1>12, <3>1, <3>2, <4>1, <4>2
    <3>3. CASE ~Inside(f, g[j])
      <4>1. ~Inside(f, g[i])
        <5>1. g[i] # f
          BY <1>1, <1>3, <2>2, <3>1 DEF f
        <5> QED
          BY <1>7, <3>1, <3>3, <5>1, PrefixOfAppend
      <4> QED
        BY <1>12, <3>1, <3>3, <4>1
    <3> QED
      BY <3>2, <3>3
  <2> QED
    BY <2>1, <2>2
<1>17. NodeMap' = {<<h[i], dir'[i].type>> : i \in DOMAIN dir'}
  BY <1>1, <1>14, <1>15, <1>16, NextPathsOfATree
<1> DEFINE moving == {x \in NodeMap : Inside(f, x[1])}
<1>18. NodeMap' = (NodeMap \ moving) \cup {<<MovedPath(f, to, x[1]), x[2]>> : x \in moving}
  <2>1. ASSUME NEW y \in NodeMap'
        PROVE  y \in (NodeMap \ moving) \cup {<<MovedPath(f, to, x[1]), x[2]>> : x \in moving}
    <3>1. PICK i \in DOMAIN dir : y = <<h[i], dir[i].type>>
      BY <1>1, <1>17, <2>1
    <3> DEFINE x == <<g[i], dir[i].type>>
    <3>2. x \in NodeMap /\ x[1] = g[i] /\ x[2] = dir[i].type
      BY <1>3
    <3> HIDE DEF x
    <3>3. CASE Inside(f, g[i])
      BY <1>12, <3>1, <3>2, <3>3, SMTT(30)
    <3>4. CASE ~Inside(f, g[i])
      <4>1. y = x
        BY <1>12, <3>1, <3>4, SMTT(30) DEF x
      <4> QED
        BY <3>2, <3>4, <4>1, SMTT(30)
    <3> QED
      BY <3>3, <3>4
  <2>2. ASSUME NEW x \in NodeMap, x \notin moving PROVE x \in NodeMap'
    <3>1. PICK i \in DOMAIN dir : x = <<g[i], dir[i].type>>
      BY <1>3
    <3>2. ~Inside(f, g[i])
      BY <2>2, <3>1, SMTT(30)
    <3> QED
      BY <1>1, <1>12, <1>17, <3>1, <3>2, SMTT(30)
  <2>3. ASSUME NEW x \in moving PROVE <<MovedPath(f, to, x[1]), x[2]>> \in NodeMap'
    <3>1. PICK i \in DOMAIN dir : x = <<g[i], dir[i].type>>
      BY <1>3, <2>3
    <3>2. Inside(f, g[i])
      BY <2>3, <3>1
    <3> QED
      BY <1>1, <1>12, <1>17, <3>1, <3>2, SMTT(30)
  <2> QED
    BY <2>1, <2>2, <2>3
<1> QED
  BY <1>5, <1>7, <1>9, <1>18 DEF N!MoveName, N!Inside, Inside, MovedPath

(* The steps of Namespace. *)
LEMMA StepsOfNames ==
  /\ \A p \in Path, type \in {"dir", "file", "link"} : N!AddName(p, type) => N!Next
  /\ \A x \in NodeMap : N!DropName(x) => N!Next
  /\ \A f \in N!Paths, t \in Path : N!MoveName(f, t) => N!Next
BY DEF N!Next

(* Parent pointers do what paths do.  Every handler that changes table dir *)
(* is a step of Namespace, or changes no name: an INSERT adds one name, a  *)
(* DELETE takes away one that has nothing below it, and the UPDATE of one  *)
(* row in psql_rename moves its whole tree and nothing else.               *)
THEOREM DirTreeImplementsNamespace == Spec => ImplementsNamespace
<1>1. Init => N!Init
  BY DirInvInit, NamesInit DEF DirInv
<1>2. DirInv /\ [Next]_vars => [N!Next]_NodeMap
  <2> SUFFICES ASSUME DirInv, [Next]_vars PROVE N!Next \/ NodeMap' = NodeMap
    OBVIOUS
  <2>1. IsTree(dir)
    BY DEF DirInv
  <2>2. ASSUME NEW path \in Path, path # <<>>, IsDir(dirname(path)),
               NEW type \in {"dir", "file", "link"}, NEW m \in Meta, Insert(path, type, m)
        PROVE  N!Next
    BY <2>1, <2>2, InsertNames, StepsOfNames
  <2>3. ASSUME NEW a \in DOMAIN dir \ {Root}, Delete(a) PROVE N!Next
    BY <2>1, <2>3, DeleteNames, StepsOfNames
  <2>4. ASSUME NEW path \in Path, NEW to \in Path, pgfuse_rename(path, to) PROVE N!Next
    BY <2>1, <2>4, RenameNames, StepsOfNames
  <2>5. ASSUME NEW path \in Path, Exists(path), NEW m \in Meta, WriteMeta(LookupId(path), m)
        PROVE  NodeMap' = NodeMap
    BY <2>1, <2>5, FoundRow, MetaStep, SameRowsSameNames
  <2>6. ASSUME NEW path \in Path, NEW rdonly \in BOOLEAN, pgfuse_open(path, rdonly)
        PROVE  NodeMap' = NodeMap
    <3>1. dir[LookupId(path)].meta \in Meta /\ Exists(path)
      BY <2>1, <2>6, FoundRow, SMTT(30) DEF pgfuse_open, IsNonDir, IsTree, Row
    <3> QED
      BY <2>5, <2>6, <3>1, SMTT(30) DEF pgfuse_open
  <2>7. ASSUME dir' = dir PROVE NodeMap' = NodeMap
    BY <2>1, <2>7, SameRowsSameNames
  <2>8. ASSUME NEW path \in Path, pgfuse_rmdir(path) \/ pgfuse_unlink(path)
        PROVE  LookupId(path) \in DOMAIN dir \ {Root} /\ Delete(LookupId(path))
    <3>1. dir[Root].type = "dir"
      BY <2>1 DEF IsTree, RootRow
    <3> QED
      BY <2>1, <2>8, <3>1, FoundRow, SMTT(30) DEF pgfuse_rmdir, pgfuse_unlink, IsDir, IsNonDir
  <2> QED
    BY <2>2, <2>3, <2>4, <2>5, <2>6, <2>7, <2>8
       DEF Next, vars, pgfuse_create, pgfuse_mkdir, pgfuse_symlink, pgfuse_chmod, pgfuse_chown,
           pgfuse_utimens, pgfuse_truncate, pgfuse_write, pgfuse_ftruncate, pgfuse_release, Truncated
<1> QED
  BY <1>1, <1>2, DirStaysATree, PTL DEF Spec, ImplementsNamespace, N!Spec
=============================================================================
