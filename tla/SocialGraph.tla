---------------------------- MODULE SocialGraph ----------------------------
(***************************************************************************)
(* What the users of the tiny social network (MP_2) may rely on: who       *)
(* follows whom changes by joining, following and unfollowing, and by      *)
(* nothing else.  Servers that are interrupted and started again do not    *)
(* show.  Only a mishap, and each is counted, may lose something or make   *)
(* one change at odds with the rest.                                       *)
(***************************************************************************)
EXTENDS Naturals

CONSTANTS Names

VARIABLES
    graph,  \* name -> its followers, itself among them; none for a stranger
    faults  \* how many mishaps so far

graphVars == <<graph, faults>>

Users == {n \in Names : graph[n] # {}}

GraphInit == graph = [n \in Names |-> {}] /\ faults = 0

\* Only a stranger joins.
Join(u) == u \notin Users /\ graph' = [graph EXCEPT ![u] = {u}]

Follow(u, v) == v \in Users /\ graph' = [graph EXCEPT ![v] = @ \cup {u}]

\* Nobody stops following itself.
UnFollow(u, v) == u # v /\ graph' = [graph EXCEPT ![v] = @ \ {u}]

\* what users do to the graph; who follows somebody has joined
Change ==
    \E u \in Names :
        \/ Join(u)
        \/ \E v \in Names : (u \in Users /\ Follow(u, v)) \/ UnFollow(u, v)

\* A mishap: followers are lost, never found, or one follow is a stranger's.
Mishap ==
    /\ faults' = faults + 1
    /\ \/ /\ graph' \in [Names -> SUBSET Names]
          /\ \A n \in Names : graph'[n] \subseteq graph[n]
       \/ Change
       \/ \E u, v \in Names : Follow(u, v)

GraphNext == (Change /\ UNCHANGED faults) \/ Mishap

GraphSpec == GraphInit /\ [][GraphNext]_graphVars
=============================================================================
