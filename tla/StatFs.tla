------------------------------- MODULE StatFs -------------------------------
(***************************************************************************)
(* pgfuse_statfs: the table spaces of the tables, the disks they lie on,   *)
(* and the free space of these.  A path is a sequence of tokens, "/" among *)
(* them, so that strncmp is IsPrefix.  The catalog of the database and the *)
(* mounts of the host (/etc/mtab, in the order of mounting) are external.  *)
(***************************************************************************)
EXTENDS Integers, FiniteSets, Sequences, SequencesExt

CONSTANTS
  SizeMod,              \* 2^64, the values of a size_t
  IntMod,               \* 2^32, the values of an int
  INT64_MAX,
  MAX_TABLESPACE_OIDS,
  MountDir,             \* the directories disks are mounted on
  DiskAvail,            \* DiskAvail[d]: the bytes available on the disk of d
  SymLink,              \* SymLink[p]: where the symbolic link p leads
  Catalog               \* the catalogs a database can have

VARIABLES
  mtab,     \* the directories with a disk, in the order of mounting
  catalog   \* oids: of the table spaces of dir, data and their indexes; dflt:
            \* that of the database; location[oid]; superuser; data_directory;
            \* readable: by the user of the mount

Slash == <<"/">>

VarLibPostgres == <<"/", "var", "/", "lib", "/", "postgres">>

ASSUME StatFsAssumption ==
  /\ INT64_MAX = SizeMod \div 2 - 1
  /\ IntMod \in Nat /\ IntMod >= 4
  /\ MAX_TABLESPACE_OIDS \in Nat
  /\ Slash \in MountDir
  /\ \A d \in MountDir : DiskAvail[d] \in Nat

-----------------------------------------------------------------------------
(* get_data_directory: only a superuser can see the setting. *)
get_data_directory == IF catalog.superuser THEN catalog.data_directory ELSE VarLibPostgres

(* get_tablespace_location: nothing is said about the default ones. *)
get_tablespace_location(oid) ==
  IF catalog.location[oid] = <<>> THEN get_data_directory ELSE catalog.location[oid]

get_default_tablespace == catalog.dflt

(* psql_get_tablespace_locations fails on no table spaces or too many.     *)
(* Oid 0 stands for the database's own table space.                        *)
psql_get_tablespace_locations ==
  IF catalog.oids = {} \/ Cardinality(catalog.oids) > MAX_TABLESPACE_OIDS THEN {}
  ELSE {get_tablespace_location(IF oid = 0 THEN get_default_tablespace ELSE oid) : oid \in catalog.oids}

realpath(path) == IF path \in DOMAIN SymLink THEN SymLink[path] ELSE path

(* Mutant of Locations: symbolic links are not resolved. *)
LocationsUnresolved == psql_get_tablespace_locations

(* Links are resolved, unless the user may not read the directories. *)
Locations ==
  {IF catalog.readable THEN realpath(loc) ELSE loc : loc \in psql_get_tablespace_locations}

(* The mount point through which the host finds a path: the last one that  *)
(* contains it, since mounting on a directory hides what was below it.     *)
HoldsPath(d, path) ==
  IsPrefix(d, path) /\ (d = Slash \/ d = path \/ path[Len(d) + 1] = "/")

HoldingDir(path) ==
  mtab[CHOOSE i \in DOMAIN mtab :
         /\ HoldsPath(mtab[i], path)
         /\ \A j \in DOMAIN mtab : HoldsPath(mtab[j], path) => j <= i]

(* Mutant of Matching: blocks_avail is not set to INT64_MAX again. *)
MatchingKeeps(avail, block_size, d) ==
  LET bytes == DiskAvail[HoldingDir(d)] IN
  IF bytes < (avail * block_size) % SizeMod THEN bytes \div block_size ELSE avail

(* A mount point that is a prefix of a location: blocks_avail is set to    *)
(* INT64_MAX, and then to the smaller one of that and what statfs says.    *)
(* Both products are computed in 64 bits.                                  *)
Matching(avail, block_size, d) ==
  LET bytes == DiskAvail[HoldingDir(d)] IN
  IF bytes < (INT64_MAX * block_size) % SizeMod THEN bytes \div block_size ELSE INT64_MAX

(* The loop over the entries of /etc/mtab. *)
BlocksAvail(block_size) ==
  LET step(avail, d) ==
        IF \E loc \in Locations : IsPrefix(d, loc)
        THEN Matching(avail, block_size, d)
        ELSE avail
  IN FoldLeft(step, INT64_MAX, mtab)

(* atoi: the count need not fit into an int. *)
psql_get_fs_blocks_used(dataRows, dirRows) ==
  LET y == (dataRows + dirRows) % IntMod IN IF y < IntMod \div 2 THEN y ELSE y - IntMod

(* atol: a long has the 64 bits of the count. *)
psql_get_fs_files_used(dirRows) == dirRows

(* The reply of pgfuse_statfs when data and dir have that many rows.  A    *)
(* negative count is taken for an error.                                   *)
pgfuse_statfs(block_size, read_only, dataRows, dirRows) ==
  LET avail       == BlocksAvail(block_size)
      blocks_used == psql_get_fs_blocks_used(dataRows, dirRows)
      files_used  == psql_get_fs_files_used(dirRows)
  IN
  IF Locations = {} \/ blocks_used < 0 THEN [res |-> "error"]
  ELSE [res      |-> "ok",
        f_bsize  |-> block_size,
        f_bavail |-> avail,
        f_bfree  |-> avail,
        f_blocks |-> (avail + blocks_used) % SizeMod,
        f_ffree  |-> INT64_MAX,
        f_files  |-> (INT64_MAX + files_used) % SizeMod,
        rdonly   |-> read_only]

-----------------------------------------------------------------------------
InitHost ==
  /\ mtab = <<Slash>>
  /\ catalog \in Catalog

(* The host mounts and unmounts disks. *)
MountDisk(d) ==
  /\ d \notin Range(mtab)
  /\ mtab' = Append(mtab, d)
  /\ UNCHANGED catalog

UnmountDisk(d) ==
  /\ d \in Range(mtab) \ {Slash}
  /\ HoldingDir(d) = d
  /\ mtab' = SelectSeq(mtab, LAMBDA x : x # d)
  /\ UNCHANGED catalog

(* strncmp takes a directory for one that contains another when only the   *)
(* letters of its name are a prefix.                                       *)
NoNameIsPrefix ==
  \A d \in Range(mtab), loc \in psql_get_tablespace_locations :
    IsPrefix(d, realpath(loc)) => HoldsPath(d, realpath(loc))

(* The disks the table spaces lie on. *)
Disks == {HoldingDir(realpath(loc)) : loc \in psql_get_tablespace_locations}
=============================================================================
