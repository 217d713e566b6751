------------------------- MODULE CoordinatorBucket -------------------------
(***************************************************************************)
(* Coordinator implements a LeakyBucket for the master and one for the     *)
(* slave of a record, as long as one thread checks it and the process runs.*)
(***************************************************************************)
EXTENDS Coordinator, Integers

CONSTANTS TheRec, TheWatcher

ASSUME OneWatcherAssumption == Recs = {TheRec} /\ Watchers = {TheWatcher}

\* the heartbeats the thread has not used up, and the one it starts with
Tokens(role) == beats[TheRec][role] + 1 - seen[TheWatcher][role]

Master == INSTANCE LeakyBucket WITH
            tokens <- Tokens("master"), up <- live[TheRec]["master"]
Slave  == INSTANCE LeakyBucket WITH
            tokens <- Tokens("slave"), up <- live[TheRec]["slave"]

\* one run of the coordinator; a restart begins another, from CoordInit
RunNext ==
    \/ \E s \in Servers : ClusterSpawn(s)
    \/ \E id \in Ids, role \in Roles : Gucci(id, role)
    \/ \E c \in Clients : GetConnection(c)
    \/ \E f \in Syncs : FollowerSpawn(f)
    \/ \E w \in Watchers : checkCluster(w)

RunSpec == CoordInit /\ [][RunNext]_coordVars

\* A single checkCluster thread and the handlers around it, the spawns that reject
\* and register a process and the turns that bring one back included, treat the
\* heartbeats of a process as tokens of one bucket and nothing else.
HeartbeatsAreTokens == Master!BucketSpec /\ Slave!BucketSpec
=============================================================================
