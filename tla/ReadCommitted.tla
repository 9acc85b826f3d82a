--------------------------- MODULE ReadCommitted ----------------------------
(***************************************************************************)
(* PostgreSQL as the handlers meet it: transactions at isolation level     *)
(* READ COMMITTED on the tables dir and data, with their row locks,        *)
(* primary keys, UNIQUE( name, parent_id ) and foreign keys.  The server   *)
(* is external; what is here is what the statements of pgsql.c rely on.    *)
(* A row of dir has the key <<id>>, a row of data <<dir_id, block_no>>.    *)
(***************************************************************************)
EXTENDS Naturals, Sequences, FiniteSets, TLC, Relation

CONSTANTS
  Handler,  \* the handlers that run at the same time, in one mount or more
  GONE      \* a row that a transaction has deleted

VARIABLES
  db,      \* db[k]: the committed row with key k
  pend,    \* pend[h][k]: what the transaction of h has made of row k
  shared   \* shared[h]: the rows h has locked FOR KEY SHARE

dbvars == <<db, pend, shared>>

IsDirKey(k) == Len(k) = 1

(* What a statement of h sees: the committed rows and its own changes. *)
View(h) ==
  LET all == pend[h] @@ db IN
  [k \in {x \in DOMAIN all : all[x] # GONE} |-> all[k]]

(* The row that refers to k, and the row that k refers to. *)
Owner(k, row) == IF IsDirKey(k) THEN <<row.parent>> ELSE <<k[1]>>

Children(rows, i) == {k \in DOMAIN rows : k # <<i>> /\ Owner(k, rows[k]) = <<i>>}

HasName(k, row, parent, name) ==
  IsDirKey(k) /\ row # GONE /\ row.parent = parent /\ row.name = name

(* A change of g to row k that takes more than FOR NO KEY UPDATE. *)
ChangesKey(g, k) ==
  /\ k \in DOMAIN pend[g] \cap DOMAIN db
  /\ \/ pend[g][k] = GONE
     \/ IsDirKey(k) /\ (pend[g][k].parent # db[k].parent \/ pend[g][k].name # db[k].name)

Others(h) == Handler \ {h}

(* The transactions that h has to wait for to UPDATE row k, ... *)
RowWaits(h, k) == {g \in Others(h) : k \in DOMAIN pend[g] \cap DOMAIN db}

(* ... to delete it or to change its name, ... *)
KeyWaits(h, k) == RowWaits(h, k) \cup {g \in Others(h) : k \in shared[g]}

(* ... to lock it FOR KEY SHARE, as the check of a foreign key does, ... *)
ShareWaits(h, k) == {g \in Others(h) : ChangesKey(g, k)}

(* ... to check that nothing refers to row i that was deleted, ... *)
RefWaits(h, i) == {g \in Others(h) : \E k \in Children(db, i) : ChangesKey(g, k)}

(* ... to enter a key, ... *)
EntryWaits(h, k) == {g \in Others(h) : k \in DOMAIN pend[g]}

(* ... or a name; late are those who have not entered theirs. *)
NameWaits(h, parent, name, late) ==
  {g \in Others(h) : \E k \in DOMAIN pend[g] :
     \/ k \in DOMAIN db /\ HasName(k, db[k], parent, name)
     \/ g \notin late /\ HasName(k, pend[g][k], parent, name)}

NameTaken(h, k, parent, name) ==
  \E x \in DOMAIN View(h) \ {k} : HasName(x, View(h)[x], parent, name)

Write(h, k, row) == pend' = [pend EXCEPT ![h] = k :> row @@ @]

LockShared(h, k) == shared' = [shared EXCEPT ![h] = @ \cup {k}]

EndTransaction(h) ==
  /\ pend' = [pend EXCEPT ![h] = <<>>]
  /\ shared' = [shared EXCEPT ![h] = {}]

Commit(h) == db' = View(h) /\ EndTransaction(h)

Rollback(h) == UNCHANGED db /\ EndTransaction(h)

(* The transactions on a cycle of waits, of which the server aborts one. *)
Deadlocked(waits) ==
  LET tc == TransitiveClosure([x \in Handler \X Handler |-> x[2] \in waits[x[1]]], Handler)
  IN {h \in Handler : tc[h, h]}
=============================================================================
