------------------------ MODULE MCCoordinatorBucket ------------------------
(***************************************************************************)
(* CoordinatorBucket with two masters and a slave started for one cluster. *)
(***************************************************************************)
EXTENDS CoordinatorBucket

MCServers == {"m1", "m2", "s1"}
MCRoleOf  == [m1 |-> "master", m2 |-> "master", s1 |-> "slave"]
MCIdOf    == [m1 |-> 1, m2 |-> 1, s1 |-> 1]
MCSyncs   == {}
MCSidOf   == <<>>
MCClients == {}
MCIds     == {1}
=============================================================================
