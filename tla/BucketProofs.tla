---------------------------- MODULE BucketProofs ----------------------------
(***************************************************************************)
(* The coordinator implements the buckets of CoordinatorBucket, for every  *)
(* number of servers, synchronizers, clients and clusters, and without the *)
(* help of the bound on heartbeats.                                        *)
(***************************************************************************)
EXTENDS CoordinatorBucket, CoordinatorProofs

\* What the mapping needs: the thread has counted nothing before it is started,
\* nothing of a process that is not alive, and never two turns too many.
BucketInv ==
    /\ TypeOK
    /\ \A role \in Roles :
         /\ seen[TheWatcher][role] =< beats[TheRec][role] + 1
         /\ watch[TheWatcher] = Nil => seen[TheWatcher][role] = 0
         /\ ~live[TheRec][role] => seen[TheWatcher][role] = 0

\* A step of LeakyBucket seen from one role of the record.
BucketStep(role) ==
    LET t == Tokens(role)
        up == live[TheRec][role]
    IN
    \/ Tokens(role)' = t /\ (live'[TheRec][role] = up \/ live'[TheRec][role])
    \/ Tokens(role)' = t + 1 /\ live'[TheRec][role] = up
    \/ t > 0 /\ (up \/ t > 1) /\ Tokens(role)' = t - 1 /\ live'[TheRec][role]
    \/ up /\ t = 0 /\ Tokens(role)' = 1 /\ ~live'[TheRec][role]

\* The invariant of one role and the step it makes.
StepOK(role) ==
    /\ BucketStep(role)
    /\ seen'[TheWatcher][role] =< beats'[TheRec][role] + 1
    /\ watch'[TheWatcher] = Nil => seen'[TheWatcher][role] = 0
    /\ ~live'[TheRec][role] => seen'[TheWatcher][role] = 0

\* Initially a bucket holds the one token a thread starts with.
LEMMA InitBucket == CoordInit => BucketInv /\ Master!BucketInit /\ Slave!BucketInit
<1> SUFFICES ASSUME CoordInit PROVE BucketInv /\ Master!BucketInit /\ Slave!BucketInit
  OBVIOUS
<1>1. TypeOK
  BY InitTyped
<1>2. \A role \in Roles : /\ seen[TheWatcher][role] = 0
                          /\ beats[TheRec][role] = 0
                          /\ live[TheRec][role] = FALSE
  BY OneWatcherAssumption DEF CoordInit, EachRole
<1>3. BucketInv
  BY <1>1, <1>2 DEF BucketInv
<1>4. Master!BucketInit /\ Slave!BucketInit
  BY <1>2 DEF Master!BucketInit, Slave!BucketInit, Tokens, Roles
<1> QED
  BY <1>3, <1>4

\* A step that leaves the counters and the liveness of the record alone.
LEMMA BucketFrame ==
    ASSUME BucketInv, UNCHANGED <<live, beats, watchVars>>, NEW role \in Roles
    PROVE  StepOK(role)
BY DEF BucketInv, StepOK, BucketStep, Tokens, watchVars

\* An accepted spawn is a Join of its own role.
LEMMA BucketAccept ==
    ASSUME BucketInv, NEW s \in Servers, SpawnAccept(s), NEW role \in Roles
    PROVE  StepOK(role)
<1> USE OneWatcherAssumption, RolesAssumption, NilAssumption
<1>0. TypeOK
  BY DEF BucketInv
<1>1. /\ spawn_cif[s] = TheRec
      /\ live' = [live EXCEPT ![TheRec][RoleOf[s]] = TRUE]
      /\ UNCHANGED beats
  BY <1>0 DEF SpawnAccept, TypeOK
<1>2. /\ seen'[TheWatcher][role] = seen[TheWatcher][role]
      /\ watch'[TheWatcher] = Nil => watch[TheWatcher] = Nil
  <2>1. CASE RoleOf[s] = "master"
    <3>1. /\ watch[TheWatcher] = Nil
          /\ watch' = [watch EXCEPT ![TheWatcher] = TheRec]
          /\ seen' = [seen EXCEPT ![TheWatcher] = EachRole(0)]
      BY <1>1, <2>1 DEF SpawnAccept, StartWatcher
    <3> QED
      BY <3>1, <1>0 DEF BucketInv, TypeOK, EachRole
  <2>2. CASE RoleOf[s] # "master"
    BY <2>2 DEF SpawnAccept, watchVars
  <2> QED
    BY <2>1, <2>2
<1>3. live'[TheRec][role] = live[TheRec][role] \/ live'[TheRec][role] = TRUE
  BY <1>1, <1>0 DEF TypeOK
<1>4. ~live'[TheRec][role] => ~live[TheRec][role]
  BY <1>1, <1>0 DEF TypeOK
<1>5. Tokens(role)' = Tokens(role)
  BY <1>1, <1>2 DEF Tokens
<1> QED
  BY <1>1, <1>2, <1>3, <1>4, <1>5 DEF StepOK, BucketStep, BucketInv

\* A heartbeat is a token of its own role.
LEMMA BucketBeat ==
    ASSUME BucketInv, NEW id \in Ids, NEW any \in Roles, Gucci(id, any), NEW role \in Roles
    PROVE  StepOK(role)
<1>0. TypeOK
  BY DEF BucketInv
<1>1. /\ c_map[id] = TheRec
      /\ beats' = [beats EXCEPT ![TheRec][any] = @ + 1]
      /\ UNCHANGED <<live, watch, seen>>
  BY <1>0, OneWatcherAssumption DEF Gucci, TypeOK, watchVars
<1>2. /\ beats[TheRec][role] \in Nat
      /\ seen[TheWatcher][role] \in Nat
  BY <1>0, OneWatcherAssumption DEF TypeOK
<1>3. beats'[TheRec][role] = beats[TheRec][role] \/ beats'[TheRec][role] = beats[TheRec][role] + 1
  BY <1>1, <1>0, OneWatcherAssumption DEF TypeOK
<1> QED
  BY <1>1, <1>2, <1>3 DEF StepOK, BucketStep, BucketInv, Tokens

\* A turn takes a token, or finds the bucket empty, or has nothing to do.
LEMMA BucketTurn ==
    ASSUME BucketInv, NEW w \in Watchers, checkCluster(w), NEW role \in Roles
    PROVE  StepOK(role)
<1> USE OneWatcherAssumption
<1>0. TypeOK
  BY DEF BucketInv
<1> DEFINE l == live[TheRec][role]
           b == beats[TheRec][role]
           n == seen[TheWatcher][role]
<1>1. w = TheWatcher /\ watch[w] = TheRec
  BY <1>0 DEF checkCluster, TypeOK
<1>2. l \in BOOLEAN /\ b \in Nat /\ n \in Nat
  BY <1>0 DEF TypeOK
<1>3. /\ live'[TheRec][role] = Checked(l, b, n).live
      /\ beats'[TheRec][role] = Checked(l, b, n).beats
      /\ seen'[TheWatcher][role] = Checked(l, b, n).seen
      /\ UNCHANGED watch
  BY <1>0, <1>1 DEF checkCluster, TypeOK
<1>4. n =< b + 1 /\ (~l => n = 0)
  BY DEF BucketInv
<1>5. CASE n > b
  <2>1. l /\ n = b + 1
    BY <1>2, <1>4, <1>5
  <2>2. /\ ~live'[TheRec][role]
        /\ beats'[TheRec][role] = 0
        /\ seen'[TheWatcher][role] = 0
    BY <1>3, <1>5 DEF Checked
  <2>3. Tokens(role) = 0 /\ Tokens(role)' = 1
    BY <1>2, <2>1, <2>2 DEF Tokens
  <2>4. BucketStep(role)
    BY <2>1, <2>2, <2>3 DEF BucketStep
  <2> QED
    BY <2>2, <2>4 DEF StepOK
<1>6. CASE ~(n > b) /\ (l \/ b > 0)
  <2>1. /\ live'[TheRec][role]
        /\ beats'[TheRec][role] = b
        /\ seen'[TheWatcher][role] = n + 1
    BY <1>3, <1>6 DEF Checked
  <2>2. Tokens(role) = b + 1 - n /\ Tokens(role)' = b + 1 - (n + 1)
    BY <2>1 DEF Tokens
  <2>3. Tokens(role) > 0 /\ Tokens(role)' = Tokens(role) - 1
    BY <1>2, <1>6, <2>2
  <2>5. l \/ Tokens(role) > 1
    BY <1>2, <1>4, <1>6, <2>2
  <2>6. BucketStep(role)
    BY <2>1, <2>3, <2>5 DEF BucketStep
  <2>7. seen'[TheWatcher][role] =< beats'[TheRec][role] + 1
    BY <1>2, <1>6, <2>1
  <2>4. watch'[TheWatcher] # Nil
    BY <1>1, <1>3, NilAssumption
  <2> QED
    BY <2>1, <2>4, <2>6, <2>7 DEF StepOK
<1>7. CASE ~(n > b) /\ ~(l \/ b > 0)
  <2>1. /\ live'[TheRec][role] = l
        /\ beats'[TheRec][role] = b
        /\ seen'[TheWatcher][role] = n
    BY <1>2, <1>3, <1>7 DEF Checked
  <2> QED
    BY <1>2, <1>3, <1>4, <2>1 DEF StepOK, BucketStep, BucketInv, Tokens
<1> QED
  BY <1>5, <1>6, <1>7

\* Every step of the coordinator is a step of each bucket, or leaves it alone.
LEMMA StepBucket ==
    BucketInv /\ [RunNext]_coordVars =>
        BucketInv' /\ [Master!BucketNext]_(Master!bucketVars)
                   /\ [Slave!BucketNext]_(Slave!bucketVars)
<1> SUFFICES ASSUME BucketInv, [RunNext]_coordVars
             PROVE  BucketInv' /\ [Master!BucketNext]_(Master!bucketVars)
                               /\ [Slave!BucketNext]_(Slave!bucketVars)
  OBVIOUS
<1>1. ASSUME NEW role \in Roles PROVE StepOK(role)
  BY <1>1, BucketFrame, BucketAccept, BucketBeat, BucketTurn
     DEF RunNext, ClusterSpawn, SpawnLookup, SpawnInsert, SpawnReject, SpawnReply,
         GetConnection, FollowerSpawn, coordVars, recordVars
<1>2. BucketInv'
  <2>1. TypeOK'
    BY StepTyped DEF BucketInv, RunNext, CoordNext
  <2> QED
    BY <1>1, <2>1 DEF BucketInv, StepOK
<1>3. BucketStep("master") /\ BucketStep("slave")
  BY <1>1 DEF StepOK, Roles
<1>4. \A role \in Roles : live[TheRec][role] \in BOOLEAN /\ live'[TheRec][role] \in BOOLEAN
  BY <1>2, OneWatcherAssumption DEF BucketInv, TypeOK
<1>5. [Master!BucketNext]_(Master!bucketVars)
  BY <1>3, <1>4 DEF BucketStep, Roles, Master!BucketNext, Master!bucketVars, Master!Join,
                    Master!Beat, Master!Survive, Master!Die
<1>6. [Slave!BucketNext]_(Slave!bucketVars)
  BY <1>3, <1>4 DEF BucketStep, Roles, Slave!BucketNext, Slave!bucketVars, Slave!Join,
                    Slave!Beat, Slave!Survive, Slave!Die
<1> QED
  BY <1>2, <1>5, <1>6

\* While one thread checks a record, the coordinator's comparison of two counters
\* that only grow implements one bucket of heartbeats for each process.
THEOREM CoordinatorIsBucket == RunSpec => HeartbeatsAreTokens
BY InitBucket, StepBucket, PTL
   DEF RunSpec, HeartbeatsAreTokens, Master!BucketSpec, Slave!BucketSpec
=============================================================================
