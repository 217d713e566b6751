-------------------------- MODULE MCSocialNetwork --------------------------
(***************************************************************************)
(* SocialNetwork with two clients, one of which posts twice.               *)
(***************************************************************************)
EXTENDS SocialNetwork

MCNames   == {1, 2}
MCClients == {"a", "b"}
MCNameOf  == [a |-> 1, b |-> 2]
MCMaxPosts == [a |-> 2, b |-> 0]
=============================================================================
