--------------------------- MODULE MCClusterClock ---------------------------
(***************************************************************************)
(* ClusterClock with the master and the slave of one cluster.              *)
(***************************************************************************)
EXTENDS ClusterClock, TLC

MCServers == {"m1", "s1"}
MCRoleOf  == [m1 |-> "master", s1 |-> "slave"]
MCIdOf    == [m1 |-> 1, s1 |-> 1]
OneServers == {"m1"}
OneRoleOf  == [m1 |-> "master"]
OneIdOf    == [m1 |-> 1]
MCSyncs   == {}
MCSidOf   == <<>>
MCClients == {}
MCIds     == {1}

Symmetry == Permutations(Watchers)
=============================================================================
