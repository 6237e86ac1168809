------------------------- MODULE MCPackageLifecycle -------------------------
(* A node with every service, a server without webui and wan, a unit server, *)
(* a node with the wan proxy, and one where nothing was asked for.           *)
EXTENDS PackageLifecycle

MCAskSets == {Services, {"mds", "cds"}, {"cu"}, {"mds", "wan"}, {}}
=============================================================================
