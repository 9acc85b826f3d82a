------------------------------ MODULE MCMount -------------------------------
(***************************************************************************)
(* Two mounts, block sizes of one and two bytes, one time before and one   *)
(* after the year 2000; table spaces below a mount point, behind a link,   *)
(* and one whose path begins with the letters of a mount point.            *)
(***************************************************************************)
EXTENDS Mount

Srv    == <<"/", "srv">>
SrvPg  == <<"/", "srv", "/", "pg">>
SrvPg2 == <<"/", "srv", "/", "pg", "2">>

MCMountDir == {Slash, Srv, SrvPg}

MCDiskAvail == Slash :> 13 @@ Srv :> 30 @@ SrvPg :> 44

MCSymLink == VarLibPostgres :> SrvPg

CatalogOf(oids, location, superuser, readable) ==
  [oids |-> oids, dflt |-> 1, location |-> 1 :> <<>> @@ 2 :> location,
   superuser |-> superuser, data_directory |-> Srv, readable |-> readable]

MCCatalog ==
  {CatalogOf({0}, SrvPg, FALSE, TRUE), CatalogOf({0}, SrvPg, FALSE, FALSE),
   CatalogOf({0, 2}, SrvPg, TRUE, TRUE), CatalogOf({2}, SrvPg2, FALSE, TRUE),
   CatalogOf({0, 1, 2}, SrvPg, TRUE, TRUE)}

MCNow == {[sec |-> 12, nsec |-> 7]}

MCTime == MCNow \cup {[sec |-> 3, nsec |-> 5]}

Symmetry == Permutations(Mnt)
=============================================================================
