----------------------------- MODULE MCCluster -----------------------------
(***************************************************************************)
(* Cluster 1 with a master, a slave, two synchronizers and one client.     *)
(***************************************************************************)
EXTENDS Cluster, TLC

MCServers == {"m1", "s1"}
MCRoleOf  == [m1 |-> "master", s1 |-> "slave"]
MCIdOf    == [m1 |-> 1, s1 |-> 1]
MCSyncs   == {"f1", "g1"}
MCSidOf   == [f1 |-> 1, g1 |-> 1]
NoSync    == {}
NoSidOf   == <<>>
OneSync   == {"f1"}
OneSidOf  == [f1 |-> 1]
OneServers == {"m1"}
OneRoleOf  == [m1 |-> "master"]
OneIdOf    == [m1 |-> 1]
MCClients == {3}
MCIds     == {1}
TwoClients == {3, 4}
TwoIds     == {1, 2}

Symmetry == Permutations(Recs) \cup Permutations(Watchers)
=============================================================================
