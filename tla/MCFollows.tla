----------------------------- MODULE MCFollows -----------------------------
(***************************************************************************)
(* Follows of a client of cluster 1, which follows itself and a user of    *)
(* cluster 2, and follows of three clients.                                *)
(***************************************************************************)
EXTENDS Follows

MCUsers  == {1, 3}
MCHomeOf == [u \in MCUsers |-> (u % 3) + 1]
ThreeUsers  == {1, 3, 6}
ThreeHomeOf == [u \in ThreeUsers |-> (u % 3) + 1]
OneClient == {3}
MCClusters == {1, 2}
=============================================================================
