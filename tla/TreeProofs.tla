------------------------------ MODULE TreeProofs -----------------------------
(***************************************************************************)
(* What holds of a table dir that is a tree, of every size and depth: the  *)
(* paths that its parent pointers spell, lookups, listings, and the        *)
(* changes of one row that leave a tree.                                   *)
(***************************************************************************)
EXTENDS DirTree, FiniteSetTheorems, SequenceTheorems, WellFoundedInduction, TLAPS

(* Every set of numbers that is not empty has a smallest one. *)
LEMMA SmallestNumber ==
  ASSUME NEW T, T \subseteq Nat, T # {}
  PROVE  \E x \in T : \A y \in T : x <= y
<1> DEFINE R == OpToRel(<, Nat)
<1>1. IsWellFoundedOn(R, Nat)
  BY NatLessThanWellFounded
<1>2. \A x, y \in Nat : x < y => <<x, y>> \in R
  BY DEF OpToRel
<1> HIDE DEF R
<1>3. PICK x \in T : \A y \in T : ~(<<y, x>> \in R)
  BY <1>1, WFMin
<1>4. ASSUME NEW y \in T PROVE x <= y
  <2>1. ~(y < x)
    BY <1>2, <1>3
  <2> QED
    BY <2>1
<1> QED
  BY <1>4

(* Induction over the numbers, as a fact about sets: the provers cannot    *)
(* make use of the theorems that take a predicate as a parameter.          *)
LEMMA NumbersBySuccessor ==
  ASSUME NEW T, 0 \in T, \A n \in Nat : n \in T => n + 1 \in T
  PROVE  Nat \subseteq T
<1> DEFINE U == Nat \ T
<1>1. SUFFICES ASSUME U # {} PROVE FALSE
  OBVIOUS
<1>2. PICK x \in U : \A y \in U : x <= y
  BY <1>1, SmallestNumber
<1>3. x # 0 /\ x - 1 \in Nat
  OBVIOUS
<1>4. x - 1 \in T
  BY <1>2, <1>3
<1> QED
  BY <1>2, <1>3, <1>4

-----------------------------------------------------------------------------
(* The way psql_path_to_id goes through the first n names of a path. *)
IsWalk(w, path, n) ==
  w = [k \in 0 .. n |-> IF k = 0 THEN Root ELSE Descend(w[k - 1], path[k])]

(* There is such a way, *)
LEMMA WalkExists ==
  ASSUME NEW path, NEW n \in Nat
  PROVE  \E w : IsWalk(w, path, n)
<1> DEFINE T == {k \in Nat : \E w : IsWalk(w, path, k)}
<1>1. 0 \in T
  <2> DEFINE w == [k \in 0 .. 0 |-> Root]
  <2>1. IsWalk(w, path, 0)
    BY DEF IsWalk
  <2> QED
    BY <2>1
<1>2. ASSUME NEW m \in Nat, m \in T PROVE m + 1 \in T
  <2>1. PICK w : IsWalk(w, path, m)
    BY <1>2
  <2> DEFINE v == [k \in 0 .. m + 1 |-> IF k = m + 1 THEN Descend(w[m], path[m + 1]) ELSE w[k]]
  <2>2. IsWalk(v, path, m + 1)
    <3>1. ASSUME NEW k \in 0 .. m + 1
          PROVE  v[k] = IF k = 0 THEN Root ELSE Descend(v[k - 1], path[k])
      <4>1. CASE k = m + 1
        BY <4>1
      <4>2. CASE k # m + 1
        <5>1. k \in 0 .. m /\ (k # 0 => k - 1 \in 0 .. m)
          BY <4>2
        <5>2. v[k] = w[k] /\ (k # 0 => v[k - 1] = w[k - 1])
          BY <5>1
        <5> QED
          BY <2>1, <5>1, <5>2 DEF IsWalk
      <4> QED
        BY <4>1, <4>2
    <3> QED
      BY <3>1 DEF IsWalk
  <2> QED
    BY <2>2
<1> QED
  BY <1>1, <1>2, NumbersBySuccessor

(* and only one: the first steps of two ways are the same. *)
LEMMA WalkUnique ==
  ASSUME NEW path, NEW other, NEW m \in Nat, NEW n \in Nat, m <= n,
         \A k \in 1 .. m : path[k] = other[k],
         NEW w, IsWalk(w, path, m), NEW v, IsWalk(v, other, n)
  PROVE  w[m] = v[m]
<1> DEFINE T == {k \in Nat : k <= m => w[k] = v[k]}
<1>1. 0 \in T
  BY DEF IsWalk
<1>2. ASSUME NEW k \in Nat, k \in T PROVE k + 1 \in T
  <2>1. SUFFICES ASSUME k + 1 <= m PROVE w[k + 1] = v[k + 1]
    OBVIOUS
  <2>2. w[k + 1] = Descend(w[k], path[k + 1])
    BY <2>1 DEF IsWalk
  <2>3. v[k + 1] = Descend(v[k], other[k + 1])
    BY <2>1 DEF IsWalk
  <2> QED
    BY <1>2, <2>1, <2>2, <2>3
<1> HIDE DEF T
<1>3. m \in T
  BY <1>1, <1>2, NumbersBySuccessor
<1> QED
  BY <1>3 DEF T

(* psql_path_to_id goes that way. *)
LEMMA PathToIdWalks ==
  ASSUME NEW path, Len(path) \in Nat
  PROVE  \E w : IsWalk(w, path, Len(path)) /\ PathToId(path) = w[Len(path)]
<1> DEFINE walk == CHOOSE w : IsWalk(w, path, Len(path))
<1>1. IsWalk(walk, path, Len(path))
  BY WalkExists
<1>2. PathToId(path) = walk[Len(path)]
  BY DEF PathToId, IsWalk
<1> QED
  BY <1>1, <1>2

(* The empty path is that of the root, *)
LEMMA LookupRoot == PathToId(<<>>) = Root
BY PathToIdWalks DEF IsWalk

(* and a path is looked up from the directory before it. *)
LEMMA LookupLast ==
  ASSUME NEW p \in Seq(Name), NEW n \in Name
  PROVE  PathToId(Append(p, n)) = Descend(PathToId(p), n)
<1> DEFINE q == Append(p, n)
           m == Len(p)
<1>1. m \in Nat /\ Len(q) = m + 1 /\ q[m + 1] = n /\ \A k \in 1 .. m : p[k] = q[k]
  BY AppendProperties, LenProperties
<1> HIDE DEF q, m
<1>2. PICK w : IsWalk(w, p, m) /\ PathToId(p) = w[m]
  BY <1>1, PathToIdWalks DEF m
<1>3. PICK v : IsWalk(v, q, m + 1) /\ PathToId(q) = v[m + 1]
  BY <1>1, PathToIdWalks
<1>4. w[m] = v[m]
  BY <1>1, <1>2, <1>3, WalkUnique
<1>5. v[m + 1] = Descend(v[m], q[m + 1])
  BY <1>1, <1>3 DEF IsWalk
<1> QED
  BY <1>1, <1>2, <1>3, <1>4, <1>5 DEF q

(* Induction over paths, again as a fact about sets. *)
LEMMA PathsByAppend ==
  ASSUME NEW T, <<>> \in T,
         \A p \in Seq(Name), n \in Name : p \in T => Append(p, n) \in T
  PROVE  Seq(Name) \subseteq T
<1> DEFINE L == {k \in Nat : \A p \in Seq(Name) : Len(p) = k => p \in T}
<1>1. 0 \in L
  BY EmptySeq
<1>2. ASSUME NEW k \in Nat, k \in L PROVE k + 1 \in L
  <2> SUFFICES ASSUME NEW p \in Seq(Name), Len(p) = k + 1 PROVE p \in T
    OBVIOUS
  <2>1. PICK q \in Seq(Name), n \in Name : p = Append(q, n)
    BY SequenceEmptyOrAppend, EmptySeq
  <2>2. Len(q) = k
    BY <2>1, AppendProperties, LenProperties
  <2> QED
    BY <1>2, <2>1, <2>2
<1> HIDE DEF L
<1>3. Nat \subseteq L
  BY <1>1, <1>2, NumbersBySuccessor
<1> QED
  BY <1>3, LenProperties DEF L

-----------------------------------------------------------------------------
(* In a tree the loop of psql_path_to_id is at the root only before the    *)
(* first name, and otherwise at a row or at -ENOENT.                       *)
LEMMA LookupFindsARow ==
  ASSUME IsTree(dir), NEW p \in Seq(Name)
  PROVE  /\ PathToId(p) \in DOMAIN dir \cup {NOENT}
         /\ p # <<>> => PathToId(p) # Root
<1> DEFINE T == {q \in Seq(Name) : /\ PathToId(q) \in DOMAIN dir \cup {NOENT}
                                   /\ q # <<>> => PathToId(q) # Root}
<1>1. <<>> \in T
  BY LookupRoot, EmptySeq DEF IsTree
<1>2. ASSUME NEW q \in Seq(Name), NEW n \in Name, q \in T PROVE Append(q, n) \in T
  <2> DEFINE i == PathToId(q)
  <2>1. PathToId(Append(q, n)) = Descend(i, n) /\ Append(q, n) \in Seq(Name)
    BY LookupLast, AppendProperties
  <2>2. dir[Root].name = "/" /\ dir[Root].type = "dir"
    BY DEF IsTree, RootRow
  <2>3. Select(i, n) \subseteq DOMAIN dir \ {Root}
    BY <2>2, DirTreeAssumption DEF Select, DirTreeAssumption
  <2>4. Descend(i, n) \in (DOMAIN dir \cup {NOENT}) \ {Root}
    <3>1. CASE i = NOENT \/ dir[i].type # "dir"
      BY <1>2, <2>2, <3>1 DEF Descend, NOENT, Root
    <3>2. CASE ~(i = NOENT \/ dir[i].type # "dir")
      BY <2>3, <3>2 DEF Descend, NOENT, Root
    <3> QED
      BY <3>1, <3>2
  <2> QED
    BY <2>1, <2>4
<1> HIDE DEF T
<1>3. Seq(Name) \subseteq T
  BY <1>1, <1>2, PathsByAppend
<1> QED
  BY <1>3 DEF T

(* Ids and -ENOENT come through the int unchanged. *)
LEMMA ToIntKeepsIds ==
  ASSUME NEW x \in Id \cup {Root, NOENT}
  PROVE  ToInt(x) = x
<1> USE IdsFitAssumption, DirTreeAssumption DEF IdsFitAssumption, DirTreeAssumption
<1> DEFINE h == IntMod \div 2
<1>1. h \in Nat /\ 2 <= h /\ h <= IntMod - 2
  OBVIOUS
<1>2. CASE x \in Id \cup {Root}
  <2>1. x \in Nat /\ x < h
    BY <1>1, <1>2 DEF Root
  <2>2. x % IntMod = x
    BY <1>1, <2>1
  <2> QED
    BY <2>1, <2>2 DEF ToInt
<1>3. CASE x = NOENT
  <2>1. x % IntMod = IntMod - 2
    BY <1>3 DEF NOENT
  <2>2. ~(IntMod - 2 < h)
    BY <1>1
  <2> QED
    BY <1>3, <2>1, <2>2 DEF ToInt, NOENT
<1> QED
  BY <1>2, <1>3

(* psql_read_meta_from_path hands the handlers what psql_path_to_id found. *)
LEMMA LookupIsExact ==
  ASSUME IsTree(dir), NEW p \in Seq(Name)
  PROVE  /\ LookupId(p) = PathToId(p)
         /\ Exists(p) <=> LookupId(p) \in DOMAIN dir
         /\ Exists(p) /\ p # <<>> => LookupId(p) \in DOMAIN dir \ {Root}
<1>1. PathToId(p) \in DOMAIN dir \cup {NOENT} /\ (p # <<>> => PathToId(p) # Root)
  BY LookupFindsARow
<1>2. DOMAIN dir \subseteq Id \cup {Root}
  BY DEF IsTree
<1>3. LookupId(p) = PathToId(p)
  BY <1>1, <1>2, ToIntKeepsIds DEF LookupId
<1>4. NOENT \notin DOMAIN dir
  BY <1>2, DirTreeAssumption DEF NOENT, Root, DirTreeAssumption
<1> QED
  BY <1>1, <1>3, <1>4 DEF Exists

-----------------------------------------------------------------------------
(* What is one step below the rows of a level. *)
Lower(S) == UNION {Below(x) : x \in S}

(* The first levels below the root. *)
IsLevels(f, n) ==
  f = [k \in 0 .. n |-> IF k = 0 THEN {<<<<>>, Root>>} ELSE Lower(f[k - 1])]

(* They exist up to any depth, *)
LEMMA LevelsExist ==
  ASSUME NEW n \in Nat
  PROVE  \E f : IsLevels(f, n)
<1> DEFINE T == {k \in Nat : \E f : IsLevels(f, k)}
<1>1. 0 \in T
  <2> DEFINE f == [k \in 0 .. 0 |-> {<<<<>>, Root>>}]
  <2>1. IsLevels(f, 0)
    BY DEF IsLevels
  <2> QED
    BY <2>1
<1>2. ASSUME NEW m \in Nat, m \in T PROVE m + 1 \in T
  <2>1. PICK f : IsLevels(f, m)
    BY <1>2
  <2> DEFINE g == [k \in 0 .. m + 1 |-> IF k = m + 1 THEN Lower(f[m]) ELSE f[k]]
  <2>2. IsLevels(g, m + 1)
    <3>1. ASSUME NEW k \in 0 .. m + 1
          PROVE  g[k] = IF k = 0 THEN {<<<<>>, Root>>} ELSE Lower(g[k - 1])
      <4>1. CASE k = m + 1
        BY <4>1
      <4>2. CASE k # m + 1
        <5>1. k \in 0 .. m /\ (k # 0 => k - 1 \in 0 .. m)
          BY <4>2
        <5>2. g[k] = f[k] /\ (k # 0 => g[k - 1] = f[k - 1])
          BY <5>1
        <5> QED
          BY <2>1, <5>1, <5>2 DEF IsLevels
      <4> QED
        BY <4>1, <4>2
    <3> QED
      BY <3>1 DEF IsLevels
  <2> QED
    BY <2>2
<1> QED
  BY <1>1, <1>2, NumbersBySuccessor

(* and are the same whatever the depth. *)
LEMMA LevelsUnique ==
  ASSUME NEW m \in Nat, NEW f, IsLevels(f, m), NEW g, IsLevels(g, m + 1)
  PROVE  g[m] = f[m]
<1> DEFINE T == {k \in Nat : k <= m => g[k] = f[k]}
<1>1. 0 \in T
  BY DEF IsLevels
<1>2. ASSUME NEW k \in Nat, k \in T PROVE k + 1 \in T
  <2>1. SUFFICES ASSUME k + 1 <= m PROVE g[k + 1] = f[k + 1]
    OBVIOUS
  <2> DEFINE j == k + 1
  <2>2. j \in 0 .. m /\ j \in 0 .. m + 1 /\ j # 0 /\ j - 1 = k
    BY <2>1
  <2> HIDE DEF j
  <2>3. g[j] = Lower(g[j - 1]) /\ f[j] = Lower(f[j - 1])
    BY <2>2 DEF IsLevels
  <2> QED
    BY <1>2, <2>1, <2>2, <2>3 DEF j
<1> HIDE DEF T
<1>3. m \in T
  BY <1>1, <1>2, NumbersBySuccessor
<1> QED
  BY <1>3 DEF T

(* Level is what its definition says. *)
LEMMA LevelEquations ==
  /\ Level[0] = {<<<<>>, Root>>}
  /\ \A k \in Nat : Level[k + 1] = Lower(Level[k])
<1> DEFINE G(n) == CHOOSE f : IsLevels(f, n)
           F == [n \in Nat |-> G(n)[n]]
<1>1. \A n \in Nat : IsLevels(G(n), n)
  BY LevelsExist
<1> HIDE DEF G
<1>2. F = [k \in Nat |-> IF k = 0 THEN {<<<<>>, Root>>} ELSE Lower(F[k - 1])]
  <2>1. F[0] = {<<<<>>, Root>>}
    BY <1>1 DEF IsLevels
  <2>2. ASSUME NEW k \in Nat PROVE F[k + 1] = Lower(F[k])
    <3>1. G(k + 1)[k] = G(k)[k]
      BY <1>1, LevelsUnique
    <3>2. G(k + 1)[k + 1] = Lower(G(k + 1)[k])
      BY <1>1 DEF IsLevels
    <3> QED
      BY <3>1, <3>2
  <2>3. ASSUME NEW k \in Nat, k # 0 PROVE F[k] = Lower(F[k - 1])
    <3>1. k - 1 \in Nat /\ (k - 1) + 1 = k
      BY <2>3
    <3> QED
      BY <2>2, <3>1
  <2> QED
    BY <2>1, <2>3
<1> HIDE DEF F
<1>3. Level = [k \in Nat |-> IF k = 0 THEN {<<<<>>, Root>>} ELSE Lower(Level[k - 1])]
  BY <1>2 DEF Level, Lower
<1>4. ASSUME NEW k \in Nat PROVE Level[k + 1] = Lower(Level[k])
  <2>1. k + 1 \in Nat /\ k + 1 # 0 /\ (k + 1) - 1 = k
    OBVIOUS
  <2> QED
    BY <1>3, <2>1
<1> QED
  BY <1>3, <1>4

(* A row below another one, spelled out, *)
LEMMA BelowMember ==
  \A x, y : x \in Below(y) <=>
    \E j \in DOMAIN dir \ {Root} :
      dir[j].parent = y[2] /\ x = <<Append(y[1], dir[j].name), j>>
BY DEF Below, Children

(* and a level below another one. *)
LEMMA LevelBelow ==
  ASSUME NEW k \in Nat, NEW x
  PROVE  x \in Level[k + 1] <=> \E y \in Level[k] : x \in Below(y)
BY LevelEquations DEF Lower

(* A row, its path, and the level it is on. *)
Place(p, i, k) ==
  /\ p \in Seq(Name) /\ i \in DOMAIN dir
  /\ Len(p) = k
  /\ k # 0 => i # Root

(* The parent of a row is one level up. *)
LEMMA PlaceBelow ==
  ASSUME IsTree(dir), NEW k \in Nat, NEW p, NEW i, Place(p, i, k),
         NEW j \in DOMAIN dir \ {Root}, dir[j].parent = i
  PROVE  /\ Place(Append(p, dir[j].name), j, k + 1)
         /\ PathToId(p) = i => PathToId(Append(p, dir[j].name)) = j
<1> DEFINE n == dir[j].name
<1>1. n \in Name /\ dir[i].type = "dir"
  BY DEF IsTree
<1>2. Append(p, n) \in Seq(Name) /\ Len(Append(p, n)) = k + 1
  BY <1>1, AppendProperties DEF Place
<1>3. ASSUME PathToId(p) = i PROVE PathToId(Append(p, n)) = j
  <2>1. PathToId(Append(p, n)) = Descend(i, n)
    BY <1>1, <1>3, LookupLast DEF Place
  <2>2. Select(i, n) = {j}
    BY DEF Select, IsTree
  <2>3. i # NOENT
    BY DirTreeAssumption DEF Place, IsTree, NOENT, Root, DirTreeAssumption
  <2> QED
    BY <1>1, <2>1, <2>2, <2>3 DEF Descend
<1> QED
  BY <1>2, <1>3 DEF Place

(* What a level holds: rows with their paths, which psql_path_to_id        *)
(* follows to them.                                                        *)
LEMMA LevelMember ==
  ASSUME IsTree(dir), NEW k \in Nat, NEW x \in Level[k]
  PROVE  /\ x = <<x[1], x[2]>>
         /\ Place(x[1], x[2], k)
         /\ PathToId(x[1]) = x[2]
<1> DEFINE P(y, m) == y = <<y[1], y[2]>> /\ Place(y[1], y[2], m) /\ PathToId(y[1]) = y[2]
           T == {m \in Nat : \A y \in Level[m] : P(y, m)}
<1>1. 0 \in T
  <2>1. \A y \in Level[0] : y[1] = <<>> /\ y[2] = Root /\ y = <<y[1], y[2]>>
    BY LevelEquations
  <2>2. Place(<<>>, Root, 0)
    BY EmptySeq DEF Place, IsTree
  <2> HIDE DEF P
  <2>3. ASSUME NEW y \in Level[0] PROVE P(y, 0)
    BY <2>1, <2>2, LookupRoot, Zenon DEF P
  <2> QED
    BY <2>3
<1>2. ASSUME NEW m \in Nat, m \in T PROVE m + 1 \in T
  <2> SUFFICES ASSUME NEW y \in Level[m + 1] PROVE P(y, m + 1)
    OBVIOUS
  <2>1. PICK z \in Level[m] : y \in Below(z)
    BY LevelBelow
  <2>2. PICK j \in DOMAIN dir \ {Root} : dir[j].parent = z[2] /\ y = <<Append(z[1], dir[j].name), j>>
    BY <2>1, BelowMember
  <2>3. Place(z[1], z[2], m) /\ PathToId(z[1]) = z[2]
    BY <1>2
  <2>4. Place(Append(z[1], dir[j].name), j, m + 1) /\ PathToId(Append(z[1], dir[j].name)) = j
    BY <2>2, <2>3, PlaceBelow
  <2> QED
    BY <2>2, <2>4
<1> HIDE DEF T
<1>3. k \in T
  BY <1>1, <1>2, NumbersBySuccessor
<1> QED
  BY <1>3 DEF T

(* Where psql_path_to_id arrives at a directory, that directory is. *)
LEMMA FoundDirIsThere ==
  ASSUME IsTree(dir), NEW p \in Seq(Name),
         PathToId(p) # NOENT, dir[PathToId(p)].type = "dir"
  PROVE  <<p, PathToId(p)>> \in Level[Len(p)]
<1> DEFINE T == {q \in Seq(Name) : PathToId(q) # NOENT /\ dir[PathToId(q)].type = "dir"
                                     => <<q, PathToId(q)>> \in Level[Len(q)]}
<1>1. <<>> \in T
  BY LookupRoot, LevelEquations, EmptySeq
<1>2. ASSUME NEW q \in Seq(Name), NEW n \in Name, q \in T PROVE Append(q, n) \in T
  <2> DEFINE a == PathToId(q)
             i == PathToId(Append(q, n))
             k == Len(q)
  <2>1. i = Descend(a, n) /\ Append(q, n) \in Seq(Name) /\ Len(Append(q, n)) = k + 1 /\ k \in Nat
    BY LookupLast, AppendProperties, LenProperties
  <2>2. SUFFICES ASSUME i # NOENT, dir[i].type = "dir"
                 PROVE  <<Append(q, n), i>> \in Level[k + 1]
    BY <2>1
  <2>3. a # NOENT /\ dir[a].type = "dir" /\ i \in Select(a, n)
    BY <2>1, <2>2 DEF Descend
  <2>4. <<q, a>> \in Level[k]
    BY <1>2, <2>3
  <2>5. i \in DOMAIN dir \ {Root} /\ dir[i].parent = a /\ dir[i].name = n
    BY <2>3, DirTreeAssumption DEF Select, IsTree, RootRow, DirTreeAssumption
  <2>6. <<Append(q, n), i>> \in Below(<<q, a>>)
    BY <2>5, BelowMember
  <2> QED
    BY <2>1, <2>4, <2>6, LevelBelow
<1> HIDE DEF T
<1>3. p \in T
  BY <1>1, <1>2, PathsByAppend
<1> QED
  BY <1>3 DEF T

(* A row that is not the root comes from the level above its own. *)
LEMMA LevelAbove ==
  ASSUME NEW k \in Nat, NEW x \in Level[k + 1]
  PROVE  \E y \in Level[k] :
           /\ x[2] \in DOMAIN dir \ {Root}
           /\ dir[x[2]].parent = y[2]
           /\ x[1] = Append(y[1], dir[x[2]].name)
<1>1. PICK y \in Level[k] : x \in Below(y)
  BY LevelBelow
<1>2. PICK j \in DOMAIN dir \ {Root} : dir[j].parent = y[2] /\ x = <<Append(y[1], dir[j].name), j>>
  BY <1>1, BelowMember
<1> QED
  BY <1>2

(* Parent pointers spell one path for a row, whatever its level. *)
LEMMA OnePathOnly ==
  ASSUME IsTree(dir), NEW k \in Nat, NEW m \in Nat,
         NEW x \in Level[k], NEW y \in Level[m], x[2] = y[2]
  PROVE  x = y /\ k = m
<1> DEFINE T == {l \in Nat : \A v \in Level[l], o \in Nat : \A w \in Level[o] :
                               v[2] = w[2] => v[1] = w[1]}
<1>1. 0 \in T
  <2> SUFFICES ASSUME NEW v \in Level[0], NEW o \in Nat, NEW w \in Level[o], v[2] = w[2]
               PROVE  v[1] = w[1]
    OBVIOUS
  <2>1. v[1] = <<>> /\ v[2] = Root
    BY LevelEquations
  <2>2. Place(w[1], w[2], o)
    BY LevelMember
  <2>3. o = 0
    BY <2>1, <2>2 DEF Place
  <2> QED
    BY <2>1, <2>3, LevelEquations
<1>2. ASSUME NEW l \in Nat, l \in T PROVE l + 1 \in T
  <2> SUFFICES ASSUME NEW v \in Level[l + 1], NEW o \in Nat, NEW w \in Level[o], v[2] = w[2]
               PROVE  v[1] = w[1]
    OBVIOUS
  <2> DEFINE j == v[2]
  <2>1. PICK a \in Level[l] : /\ j \in DOMAIN dir \ {Root}
                              /\ dir[j].parent = a[2]
                              /\ v[1] = Append(a[1], dir[j].name)
    BY LevelAbove
  <2>2. o # 0
    <3>1. \A u \in Level[0] : u[2] = Root
      BY LevelEquations
    <3> QED
      BY <2>1, <3>1
  <2>3. PICK h \in Nat : w \in Level[h + 1]
    <3>1. o - 1 \in Nat /\ o = (o - 1) + 1
      BY <2>2
    <3> QED
      BY <3>1
  <2>4. PICK b \in Level[h] : /\ w[2] \in DOMAIN dir \ {Root}
                              /\ dir[w[2]].parent = b[2]
                              /\ w[1] = Append(b[1], dir[w[2]].name)
    BY <2>3, LevelAbove
  <2>5. a[1] = b[1]
    BY <1>2, <2>1, <2>4
  <2> QED
    BY <2>1, <2>4, <2>5
<1> HIDE DEF T
<1>3. k \in T
  BY <1>1, <1>2, NumbersBySuccessor
<1>4. x[1] = y[1]
  BY <1>3 DEF T
<1>5. x = <<x[1], x[2]>> /\ y = <<y[1], y[2]>> /\ Len(x[1]) = k /\ Len(y[1]) = m
  BY LevelMember DEF Place
<1> QED
  BY <1>4, <1>5

(* Every row is on some level. *)
LEMMA EveryRowOnALevel ==
  ASSUME IsTree(dir), NEW i \in DOMAIN dir
  PROVE  \E k \in Nat : \E x \in Level[k] : x[2] = i
<1> DEFINE S == {j \in DOMAIN dir : \E k \in Nat : \E x \in Level[k] : x[2] = j}
<1>1. Root \in S
  <2>1. <<<<>>, Root>> \in Level[0]
    BY LevelEquations
  <2> QED
    BY <2>1 DEF IsTree
<1>2. ASSUME NEW j \in DOMAIN dir, dir[j].parent \in S PROVE j \in S
  <2>1. CASE j = Root
    BY <1>1, <2>1
  <2>2. CASE j # Root
    <3>1. PICK k \in Nat : \E x \in Level[k] : x[2] = dir[j].parent
      BY <1>2
    <3>2. PICK x \in Level[k] : x[2] = dir[j].parent
      BY <3>1
    <3> DEFINE y == <<Append(x[1], dir[j].name), j>>
    <3>3. y \in Below(x)
      BY <2>2, <3>2, BelowMember
    <3>4. y \in Level[k + 1] /\ k + 1 \in Nat /\ y[2] = j
      BY <3>3, LevelBelow
    <3> QED
      BY <3>4
  <2> QED
    BY <2>1, <2>2
<1> HIDE DEF S
<1>3. S \in SUBSET DOMAIN dir
  BY DEF S
<1>4. S = DOMAIN dir
  BY <1>1, <1>2, <1>3 DEF IsTree
<1> QED
  BY <1>4 DEF S

(* The rows above a row are all different, so a tree has more rows than    *)
(* it is deep.                                                             *)
LEMMA FewerLevelsThanRows ==
  ASSUME IsTree(dir), NEW k \in Nat, NEW x \in Level[k]
  PROVE  k < Cardinality(DOMAIN dir)
<1> DEFINE Up(A, l) == \A j \in A : \E m \in 0 .. l : \E y \in Level[m] : y[2] = j
           T == {l \in Nat : Level[l] = {} \/ \E A \in SUBSET DOMAIN dir : Cardinality(A) = l + 1 /\ Up(A, l)}
<1>1. IsFiniteSet(DOMAIN dir)
  BY DEF IsTree
<1>2. 0 \in T
  <2>1. {Root} \in SUBSET DOMAIN dir /\ Cardinality({Root}) = 1
    BY FS_Singleton DEF IsTree
  <2>2. <<<<>>, Root>> \in Level[0]
    BY LevelEquations
  <2>3. Up({Root}, 0)
    BY <2>2
  <2> HIDE DEF Up
  <2> QED
    BY <2>1, <2>3
<1>3. ASSUME NEW l \in Nat, l \in T PROVE l + 1 \in T
  <2>1. SUFFICES ASSUME NEW y \in Level[l + 1]
                 PROVE  \E A \in SUBSET DOMAIN dir : Cardinality(A) = l + 2 /\ Up(A, l + 1)
    OBVIOUS
  <2> DEFINE j == y[2]
  <2>2. j \in DOMAIN dir /\ Level[l] # {}
    BY LevelAbove
  <2>3. PICK A \in SUBSET DOMAIN dir : Cardinality(A) = l + 1 /\ Up(A, l)
    BY <1>3, <2>2
  <2>4. j \notin A
    <3> SUFFICES ASSUME j \in A PROVE FALSE
      OBVIOUS
    <3>1. PICK m \in 0 .. l : \E z \in Level[m] : z[2] = j
      BY <2>3
    <3>2. PICK z \in Level[m] : z[2] = j
      BY <3>1
    <3>3. l + 1 = m
      BY <3>2, OnePathOnly
    <3> QED
      BY <3>3
  <2>5. Cardinality(A \cup {j}) = l + 2
    <3>1. IsFiniteSet(A)
      BY <1>1, <2>3, FS_Subset
    <3>2. Cardinality(A \cup {j}) = Cardinality(A) + 1
      BY <2>4, <3>1, FS_AddElement
    <3> QED
      BY <2>3, <3>2
  <2>6. Up(A \cup {j}, l + 1)
    <3> SUFFICES ASSUME NEW i \in A \cup {j}
                 PROVE  \E m \in 0 .. l + 1 : \E z \in Level[m] : z[2] = i
      OBVIOUS
    <3>1. CASE i = j
      BY <3>1
    <3>2. CASE i \in A
      BY <2>3, <3>2
    <3> QED
      BY <3>1, <3>2
  <2> HIDE DEF Up
  <2> QED
    BY <2>2, <2>5, <2>6
<1> HIDE DEF T
<1>4. k \in T
  BY <1>2, <1>3, NumbersBySuccessor
<1>5. PICK A \in SUBSET DOMAIN dir : Cardinality(A) = k + 1
  BY <1>4 DEF T
<1>6. Cardinality(A) <= Cardinality(DOMAIN dir) /\ Cardinality(DOMAIN dir) \in Nat
  BY <1>1, FS_Subset, FS_CardinalityType
<1> QED
  BY <1>5, <1>6

(* So Located has the rows of all levels. *)
LEMMA LocatedIsEveryLevel ==
  ASSUME IsTree(dir), NEW x
  PROVE  x \in Located <=> \E k \in Nat : x \in Level[k]
<1> DEFINE c == Cardinality(DOMAIN dir)
<1>1. c \in Nat
  BY FS_CardinalityType DEF IsTree
<1>2. x \in Located <=> \E k \in 0 .. c : x \in Level[k]
  BY DEF Located
<1>3. ASSUME NEW k \in Nat, x \in Level[k] PROVE k \in 0 .. c
  BY <1>1, <1>3, FewerLevelsThanRows
<1> QED
  BY <1>1, <1>2, <1>3

(* In a tree every row has one path. *)
LEMMA TreesHaveOnePath == IsTree(dir) => EveryRowHasOnePath
<1> SUFFICES ASSUME IsTree(dir) PROVE EveryRowHasOnePath
  OBVIOUS
<1>1. ASSUME NEW x \in Located PROVE \E k \in Nat : x \in Level[k]
  BY <1>1, LocatedIsEveryLevel
<1>2. ASSUME NEW x \in Located
      PROVE  x[1] \in Seq(Name) /\ x[2] \in DOMAIN dir /\ PathToId(x[1]) = x[2]
  BY <1>1, LevelMember DEF Place
<1>3. {x[2] : x \in Located} = DOMAIN dir
  <2>1. ASSUME NEW i \in DOMAIN dir PROVE \E x \in Located : x[2] = i
    BY EveryRowOnALevel, LocatedIsEveryLevel
  <2> QED
    BY <1>2, <2>1
<1>4. ASSUME NEW x \in Located, NEW y \in Located PROVE x[1] = y[1] <=> x[2] = y[2]
  <2>1. x[1] = y[1] => x[2] = y[2]
    BY <1>2
  <2>2. x[2] = y[2] => x[1] = y[1]
    BY <1>1, OnePathOnly
  <2> QED
    BY <2>1, <2>2
<1>5. \A i \in DOMAIN dir : dir[dir[i].parent].type = "dir"
  BY DEF IsTree
<1> QED
  BY <1>3, <1>4, <1>5 DEF EveryRowHasOnePath

(* A lookup in a directory finds the row with that name and parent, if     *)
(* there is one.                                                           *)
LEMMA LookupInDirectory ==
  ASSUME IsTree(dir), NEW x \in Located, dir[x[2]].type = "dir", NEW n \in Name
  PROVE  /\ x[2] \in DOMAIN dir /\ LookupId(x[1]) = x[2]
         /\ Append(x[1], n) \in Seq(Name)
         /\ Exists(Append(x[1], n)) <=> \E j \in Children(x[2]) \ {Root} : dir[j].name = n
         /\ ~Exists(Append(x[1], n)) => LookupId(Append(x[1], n)) = NOENT
<1> DEFINE p == x[1]
           i == x[2]
<1>1. PICK k \in Nat : x \in Level[k]
  BY LocatedIsEveryLevel
<1>2. p \in Seq(Name) /\ i \in DOMAIN dir /\ PathToId(p) = i
  BY <1>1, LevelMember DEF Place
<1>3. LookupId(p) = i
  BY <1>2, LookupIsExact
<1>4. Append(p, n) \in Seq(Name) /\ PathToId(Append(p, n)) = Descend(i, n)
  BY <1>2, LookupLast, AppendProperties
<1>5. i # NOENT /\ NOENT \notin DOMAIN dir
  BY <1>2, DirTreeAssumption DEF NOENT, Root, IsTree, DirTreeAssumption
<1>6. Select(i, n) = {j \in Children(i) \ {Root} : dir[j].name = n}
  BY DirTreeAssumption DEF Select, Children, IsTree, RootRow, DirTreeAssumption
<1>7. Descend(i, n) = NOENT <=> Select(i, n) = {}
  <2>1. Select(i, n) \subseteq DOMAIN dir
    BY DEF Select
  <2>2. Descend(i, n) = IF Select(i, n) = {} THEN NOENT ELSE CHOOSE j \in Select(i, n) : TRUE
    BY <1>5 DEF Descend
  <2> QED
    BY <1>5, <2>1, <2>2
<1>8. LookupId(Append(p, n)) = Descend(i, n)
  BY <1>4, LookupIsExact
<1>9. Exists(Append(p, n)) <=> Select(i, n) # {}
  BY <1>7, <1>8 DEF Exists
<1> QED
  BY <1>2, <1>3, <1>4, <1>6, <1>8, <1>9 DEF Exists

(* In a tree lookups find what there is and nothing else. *)
LEMMA TreesAreSearched == IsTree(dir) => LookupFinds
<1> SUFFICES ASSUME IsTree(dir) PROVE LookupFinds
  OBVIOUS
<1>1. ASSUME NEW x \in Located PROVE LookupId(x[1]) = x[2]
  <2>1. PICK k \in Nat : x \in Level[k]
    BY LocatedIsEveryLevel
  <2>2. x[1] \in Seq(Name) /\ PathToId(x[1]) = x[2]
    BY <2>1, LevelMember DEF Place
  <2> QED
    BY <2>2, LookupIsExact
<1>2. ASSUME NEW x \in Located, NEW n \in Name, dir[x[2]].type = "dir",
             Append(x[1], n) \notin {y[1] : y \in Located}
      PROVE  LookupId(Append(x[1], n)) = NOENT
  <2>1. ASSUME NEW j \in Children(x[2]) \ {Root}, dir[j].name = n PROVE FALSE
    <3> DEFINE y == <<Append(x[1], n), j>>
    <3>1. PICK k \in Nat : x \in Level[k]
      BY LocatedIsEveryLevel
    <3>2. y \in Below(x)
      BY <2>1, BelowMember DEF Children
    <3>3. y \in Level[k + 1] /\ k + 1 \in Nat
      BY <3>1, <3>2, LevelBelow
    <3>4. y \in Located
      BY <3>3, LocatedIsEveryLevel
    <3> QED
      BY <1>2, <3>4
  <2> QED
    BY <1>2, <2>1, LookupInDirectory
<1> QED
  BY <1>1, <1>2 DEF LookupFinds

(* In a tree a directory lists the names that can be looked up in it.      *)
LEMMA TreesAreListed == IsTree(dir) => ReaddirListsWhatLookupFinds
<1> SUFFICES ASSUME IsTree(dir), NEW x \in Located, dir[x[2]].type = "dir"
             PROVE  /\ pgfuse_readdir(x[1]) = {n \in Name : Exists(Append(x[1], n))}
                    /\ Cardinality(pgfuse_readdir(x[1])) = Cardinality(Children(x[2]) \ {Root})
  BY SMTT(30) DEF ReaddirListsWhatLookupFinds
<1> DEFINE C == Children(x[2]) \ {Root}
           R == pgfuse_readdir(x[1])
<1>1. LookupId(x[1]) = x[2]
  BY TreesAreSearched DEF LookupFinds
<1>2. dir[Root].name = "/" /\ \A j \in C : dir[j].name \in Name
  BY DEF Children, IsTree, RootRow
<1>3. R = {dir[j].name : j \in C}
  BY <1>1, <1>2, DirTreeAssumption DEF pgfuse_readdir, DirTreeAssumption
<1>4. \A n \in Name : Exists(Append(x[1], n)) <=> \E j \in C : dir[j].name = n
  BY LookupInDirectory
<1>5. R = {n \in Name : Exists(Append(x[1], n))}
  BY <1>2, <1>3, <1>4
<1>6. Cardinality(R) = Cardinality(C)
  <2> DEFINE f == [j \in C |-> dir[j].name]
  <2>1. f \in [C -> R]
    BY <1>3
  <2>2. \A i, j \in C : f[i] = f[j] => i = j
    BY DEF Children, IsTree
  <2>3. \A n \in R : \E j \in C : f[j] = n
    BY <1>3
  <2>4. f \in Bijection(C, R)
    BY <2>1, <2>2, <2>3, Zenon DEF Bijection, Injection, Surjection, IsInjective
  <2>5. IsFiniteSet(C)
    <3>1. C \in SUBSET DOMAIN dir
      BY DEF Children
    <3> QED
      BY <3>1, FS_Subset DEF IsTree
  <2> QED
    BY <2>4, <2>5, FS_Bijection DEF ExistsBijection
<1> QED
  BY <1>5, <1>6

-----------------------------------------------------------------------------
(* A table with the rows of a tree, but for the metadata, is a tree. *)
LEMMA SameTree ==
  ASSUME NEW d, IsTree(d), NEW e, DOMAIN e = DOMAIN d,
         \A i \in DOMAIN d : /\ e[i] \in Row
                             /\ e[i].parent = d[i].parent
                             /\ e[i].name = d[i].name
                             /\ e[i].type = d[i].type
  PROVE  IsTree(e)
<1>1. \E m \in Meta : e[Root] = RootRow(m)
  BY DEF IsTree, RootRow, Row
<1>2. \A S \in SUBSET DOMAIN e :
       /\ Root \in S
       /\ \A i \in DOMAIN e : e[i].parent \in S => i \in S
       => S = DOMAIN e
  BY DEF IsTree
<1> QED
  BY <1>1, <1>2 DEF IsTree

(* A new row in a directory, under a name that is free there. *)
LEMMA InsertKeepsTree ==
  ASSUME NEW d, IsTree(d), NEW a \in Id, a \notin DOMAIN d,
         NEW e, DOMAIN e = DOMAIN d \cup {a}, \A i \in DOMAIN d : e[i] = d[i],
         e[a] \in Row, e[a].name \in Name, e[a].parent \in DOMAIN d, d[e[a].parent].type = "dir",
         \A i \in DOMAIN d : ~(d[i].parent = e[a].parent /\ d[i].name = e[a].name)
  PROVE  IsTree(e)
<1>1. a # Root
  BY DEF IsTree
<1>2. IsFiniteSet(DOMAIN e) /\ DOMAIN e \subseteq Id \cup {Root}
  BY FS_AddElement DEF IsTree
<1>3. \A i \in DOMAIN e : e[i].parent \in DOMAIN e /\ e[e[i].parent].type = "dir"
  BY <1>1 DEF IsTree
<1>4. \A i, j \in DOMAIN e : e[i].parent = e[j].parent /\ e[i].name = e[j].name => i = j
  BY <1>1 DEF IsTree
<1>5. ASSUME NEW S \in SUBSET DOMAIN e, Root \in S,
             \A i \in DOMAIN e : e[i].parent \in S => i \in S
      PROVE  S = DOMAIN e
  <2>1. S \cap DOMAIN d = DOMAIN d
    <3> DEFINE V == S \cap DOMAIN d
    <3>1. V \in SUBSET DOMAIN d /\ Root \in V
      BY <1>5 DEF IsTree
    <3>2. \A i \in DOMAIN d : d[i].parent \in V => i \in V
      BY <1>5
    <3> HIDE DEF V
    <3>3. V = DOMAIN d
      BY <3>1, <3>2 DEF IsTree
    <3> QED
      BY <3>3 DEF V
  <2> QED
    BY <1>5, <2>1
<1>6. \A i \in DOMAIN e : e[i] \in Row
  BY <1>1 DEF IsTree
<1>7. Root \in DOMAIN e /\ \E o \in Meta : e[Root] = RootRow(o)
  BY <1>1 DEF IsTree
<1>8. \A i \in DOMAIN e \ {Root} : e[i].name \in Name
  BY <1>1 DEF IsTree
<1> QED
  BY <1>2, <1>3, <1>4, <1>5, <1>6, <1>7, <1>8, SMTT(30) DEF IsTree

(* A row without children goes. *)
LEMMA DeleteKeepsTree ==
  ASSUME NEW d, IsTree(d), NEW a \in DOMAIN d \ {Root},
         \A i \in DOMAIN d : d[i].parent # a,
         NEW e, e = [i \in DOMAIN d \ {a} |-> d[i]]
  PROVE  IsTree(e)
<1>1. DOMAIN e = DOMAIN d \ {a} /\ \A i \in DOMAIN e : e[i] = d[i]
  OBVIOUS
<1>2. IsFiniteSet(DOMAIN e)
  BY <1>1, FS_RemoveElement DEF IsTree
<1>3. ASSUME NEW S \in SUBSET DOMAIN e, Root \in S,
             \A i \in DOMAIN e : e[i].parent \in S => i \in S
      PROVE  S = DOMAIN e
  <2> DEFINE V == S \cup {a}
  <2>1. V \in SUBSET DOMAIN d /\ Root \in V
    BY <1>1, <1>3
  <2>2. \A i \in DOMAIN d : d[i].parent \in V => i \in V
    BY <1>1, <1>3
  <2> HIDE DEF V
  <2>3. V = DOMAIN d
    BY <2>1, <2>2, SMTT(30) DEF IsTree
  <2> QED
    BY <1>1, <1>3, <2>3 DEF V
<1> QED
  BY <1>1, <1>2, <1>3 DEF IsTree

(* A row goes to another directory, one that is not in the part X of the   *)
(* tree that goes with it.                                                 *)
LEMMA MoveKeepsTree ==
  ASSUME NEW d, IsTree(d), NEW r \in DOMAIN d \ {Root},
         NEW q \in DOMAIN d, d[q].type = "dir",
         NEW n \in Name, \A i \in DOMAIN d : ~(d[i].parent = q /\ d[i].name = n),
         NEW X, r \in X, q \notin X, \A i \in DOMAIN d \ {Root} : d[i].parent \in X => i \in X,
         NEW e, DOMAIN e = DOMAIN d,
         \A i \in DOMAIN d \ {r} : e[i] = d[i],
         e[r] \in Row, e[r].parent = q, e[r].name = n, e[r].type = d[r].type
  PROVE  IsTree(e)
<1>1. \A i \in DOMAIN d : e[i] \in Row /\ e[i].type = d[i].type
  BY SMTT(30) DEF IsTree
<1>2. ASSUME NEW i \in DOMAIN e PROVE e[i].parent \in DOMAIN e /\ e[e[i].parent].type = "dir"
  <2>1. e[i].parent \in DOMAIN d /\ d[e[i].parent].type = "dir"
    BY DEF IsTree
  <2> QED
    BY <1>1, <2>1
<1>3. \A i, j \in DOMAIN e : e[i].parent = e[j].parent /\ e[i].name = e[j].name => i = j
  BY SMTT(30) DEF IsTree
<1>4. ASSUME NEW S \in SUBSET DOMAIN e, Root \in S,
             \A i \in DOMAIN e : e[i].parent \in S => i \in S
      PROVE  S = DOMAIN e
  <2> DEFINE V == S \cup (X \cap DOMAIN d)
  <2>1. V \in SUBSET DOMAIN d /\ Root \in V
    BY <1>4
  <2>2. \A i \in DOMAIN d : d[i].parent \in V => i \in V
    BY <1>4, <2>1
  <2>3. V = DOMAIN d
    <3> HIDE DEF V
    <3> QED
      BY <2>1, <2>2 DEF IsTree
  <2>4. r \in S
    BY <1>4, <2>3
  <2>5. \A i \in DOMAIN d : d[i].parent \in S => i \in S
    BY <1>4, <2>4
  <2> QED
    BY <1>4, <2>5, SMTT(30) DEF IsTree
<1>5. \A i \in DOMAIN e \ {Root} : e[i].name \in Name
  BY DEF IsTree
<1>6. Root \in DOMAIN e /\ \E o \in Meta : e[Root] = RootRow(o)
  BY DEF IsTree
<1> QED
  BY <1>1, <1>2, <1>3, <1>4, <1>5, <1>6 DEF IsTree
=============================================================================
