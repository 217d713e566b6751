---------------------------- MODULE Coordinator ----------------------------
(***************************************************************************)
(* The coordinator of the distributed social network, MP_3/tso.cc.         *)
(*                                                                         *)
(* The coordinator keeps one record (struct clustinfo) per cluster: the    *)
(* addresses of its master and slave, whether each is believed alive, how  *)
(* often each has beaten, and its synchronizer.  gRPC runs every handler   *)
(* on a thread of its own, and every accepted master starts one more       *)
(* thread that checks the record for ever.  A handler locks the record,    *)
(* never the map that finds it, so the lookup and the insertion at the     *)
(* head of ClusterSpawn are separate steps.                                *)
(*                                                                         *)
(* The module is open: servers, synchronizers and clients call whenever    *)
(* they like.  Module Cluster says how they really call.                   *)
(***************************************************************************)
EXTENDS Naturals, FiniteSets

CONSTANTS
    Servers,   \* server processes, each at an address of its own
    Syncs,     \* synchronizer processes, each at an address of its own
    Clients,   \* client ids, natural numbers
    Ids,       \* cluster ids, the keys of c_map
    Recs,      \* memory for clustinfo records; bounds how many are allocated
    Watchers,  \* checkCluster threads; bounds how many masters are accepted
    RoleOf,    \* the role a server is started with (-t)
    IdOf,      \* the cluster id a server is started with (-id)
    SidOf,     \* the cluster id a synchronizer is started with (-id)
    MaxBeats,  \* bound on a heartbeat counter
    Nil        \* the null pointer and the empty address

Roles == {"master", "slave"}

\* (cid % 3) + 1 in GetConnection
ServerID(c) == (c % 3) + 1

ASSUME RolesAssumption == RoleOf \in [Servers -> Roles]
ASSUME IdsAssumption   == /\ Ids # {}
                          /\ IdOf \in [Servers -> Ids]
                          /\ SidOf \in [Syncs -> Ids]
                          /\ \A c \in Clients : ServerID(c) \in Ids
ASSUME NilAssumption   == Nil \notin Servers \cup Syncs \cup Recs
ASSUME BoundAssumption == MaxBeats \in Nat

VARIABLES
    c_map,      \* cluster id -> its record
    alloc,      \* the records that have been allocated
    addr,       \* record -> role -> the address registered
    live,       \* record -> role -> master_live, slave_live
    beats,      \* record -> role -> mbeats, sbeats of the record
    follower,   \* record -> its synchronizer
    watch,      \* checkCluster thread -> the record it checks
    seen,       \* checkCluster thread -> role -> its local mbeats, sbeats
    l_map,      \* client -> the synchronizer that was told of it
    reg_c,      \* the registered clients
    spawn_pc,   \* server -> where its ClusterSpawn handler is
    spawn_cif,  \* server -> the handler's local cif
    spawn_resp  \* server -> the partner address in the handler's reply

recordVars == <<addr, live, beats, follower>>
watchVars  == <<watch, seen>>
clientVars == <<l_map, reg_c>>
spawnVars  == <<spawn_pc, spawn_cif, spawn_resp>>
coordVars  == <<c_map, alloc, recordVars, watchVars, clientVars, spawnVars>>

Partner(role) == IF role = "master" THEN "slave" ELSE "master"

EachRole(v) == [role \in Roles |-> v]

CoordInit ==
    /\ c_map = [id \in Ids |-> Nil]
    /\ alloc = {}
    /\ addr = [r \in Recs |-> EachRole(Nil)]
    /\ live = [r \in Recs |-> EachRole(FALSE)]
    /\ beats = [r \in Recs |-> EachRole(0)]
    /\ follower = [r \in Recs |-> Nil]
    /\ watch = [w \in Watchers |-> Nil]
    /\ seen = [w \in Watchers |-> EachRole(0)]
    /\ l_map = [c \in Clients |-> Nil]
    /\ reg_c = {}
    /\ spawn_pc = [s \in Servers |-> "idle"]
    /\ spawn_cif = [s \in Servers |-> Nil]
    /\ spawn_resp = [s \in Servers |-> Nil]

-----------------------------------------------------------------------------
(* ClusterSpawn *)

\* Mutant: the out_of_range of at() is not caught.
SpawnLookupUncaught(s) ==
    /\ spawn_pc[s] = "idle"
    /\ spawn_cif' = [spawn_cif EXCEPT ![s] = c_map[IdOf[s]]]
    /\ spawn_pc' = [spawn_pc EXCEPT ![s] = "lock"]
    /\ UNCHANGED <<c_map, alloc, recordVars, watchVars, clientVars, spawn_resp>>

\* c_map.at(id), with no lock held: the record, or out_of_range
SpawnLookup(s) ==
    /\ spawn_pc[s] = "idle"
    /\ spawn_cif' = [spawn_cif EXCEPT ![s] = c_map[IdOf[s]]]
    /\ spawn_pc' = [spawn_pc EXCEPT ![s] =
                      IF c_map[IdOf[s]] = Nil THEN "insert" ELSE "lock"]
    /\ UNCHANGED <<c_map, alloc, recordVars, watchVars, clientVars, spawn_resp>>

\* the catch block: a new record, put in the map over whatever is there now
SpawnInsert(s) ==
    /\ spawn_pc[s] = "insert"
    /\ \E r \in Recs \ alloc :
         /\ alloc' = alloc \cup {r}
         /\ c_map' = [c_map EXCEPT ![IdOf[s]] = r]
         /\ spawn_cif' = [spawn_cif EXCEPT ![s] = r]
    /\ spawn_pc' = [spawn_pc EXCEPT ![s] = "lock"]
    /\ UNCHANGED <<recordVars, watchVars, clientVars, spawn_resp>>

\* "Double master spawn", "Double slave spawn": CANCELLED, with an empty reply
SpawnReject(s) ==
    LET r == spawn_cif[s] IN
    /\ spawn_pc[s] = "lock"
    /\ live[r][RoleOf[s]]
    /\ spawn_pc' = [spawn_pc EXCEPT ![s] = "reply"]
    /\ spawn_resp' = [spawn_resp EXCEPT ![s] = Nil]
    /\ UNCHANGED <<c_map, alloc, recordVars, watchVars, clientVars, spawn_cif>>

\* Mutant: one thread, started by the first master, is thought to do for all.
StartWatcherOnce(r) ==
    IF \E w \in Watchers : watch[w] # Nil THEN UNCHANGED watchVars
    ELSE \E w \in Watchers :
           /\ watch' = [watch EXCEPT ![w] = r]
           /\ seen' = [seen EXCEPT ![w] = EachRole(0)]

\* a master starts a thread that checks the record and never ends
StartWatcher(r) ==
    \E w \in Watchers :
        /\ watch[w] = Nil
        /\ watch' = [watch EXCEPT ![w] = r]
        /\ seen' = [seen EXCEPT ![w] = EachRole(0)]

\* Mutant: the reply copies the address just registered, not the partner's.
SpawnAcceptOwn(s) ==
    LET r == spawn_cif[s]
        role == RoleOf[s]
    IN
    /\ spawn_pc[s] = "lock"
    /\ ~live[r][role]
    /\ addr' = [addr EXCEPT ![r][role] = s]
    /\ live' = [live EXCEPT ![r][role] = TRUE]
    /\ IF role = "master" THEN StartWatcher(r) ELSE UNCHANGED watchVars
    /\ spawn_resp' = [spawn_resp EXCEPT ![s] =
                        IF live[r][Partner(role)] THEN addr'[r][role] ELSE Nil]
    /\ spawn_pc' = [spawn_pc EXCEPT ![s] = "reply"]
    /\ UNCHANGED <<c_map, alloc, beats, follower, clientVars, spawn_cif>>

\* the critical section of an accepted spawn; the counters are left as they are
SpawnAccept(s) ==
    LET r == spawn_cif[s]
        role == RoleOf[s]
        other == Partner(role)
    IN
    /\ spawn_pc[s] = "lock"
    /\ ~live[r][role]
    /\ addr' = [addr EXCEPT ![r][role] = s]
    /\ live' = [live EXCEPT ![r][role] = TRUE]
    /\ IF role = "master" THEN StartWatcher(r) ELSE UNCHANGED watchVars
    /\ spawn_resp' = [spawn_resp EXCEPT ![s] =
                        IF live[r][other] THEN addr[r][other] ELSE Nil]
    /\ spawn_pc' = [spawn_pc EXCEPT ![s] = "reply"]
    /\ UNCHANGED <<c_map, alloc, beats, follower, clientVars, spawn_cif>>

\* the handler returns spawn_resp[s] to its caller
SpawnReply(s) ==
    /\ spawn_pc[s] = "reply"
    /\ spawn_pc' = [spawn_pc EXCEPT ![s] = "idle"]
    /\ spawn_cif' = [spawn_cif EXCEPT ![s] = Nil]
    /\ spawn_resp' = [spawn_resp EXCEPT ![s] = Nil]
    /\ UNCHANGED <<c_map, alloc, recordVars, watchVars, clientVars>>

-----------------------------------------------------------------------------
(* The other handlers, each one critical section *)

\* the heartbeat of a server that says it has this id and role
Gucci(id, role) ==
    LET r == c_map[id] IN
    /\ r # Nil
    /\ beats[r][role] < MaxBeats
    /\ beats' = [beats EXCEPT ![r][role] = @ + 1]
    /\ UNCHANGED <<c_map, alloc, addr, live, follower, watchVars, clientVars, spawnVars>>

\* Mutant: the master's address, alive or not.
AnswerMaster(c) ==
    LET r == c_map[ServerID(c)] IN IF r = Nil THEN Nil ELSE addr[r]["master"]

\* what GetConnection answers: the slave's address, which may be empty, when the
\* master is not alive; the empty reply of CANCELLED when there is no cluster
Answer(c) ==
    LET r == c_map[ServerID(c)] IN
    IF r = Nil THEN Nil
    ELSE addr[r][IF live[r]["master"] THEN "master" ELSE "slave"]

\* Mutant: a client that is registered already is registered again.
RegistrarAgain(c) ==
    LET r == c_map[ServerID(c)] IN IF r = Nil THEN Nil ELSE follower[r]

\* the synchronizer GetConnection registers the client with, if it does so now
Registrar(c) ==
    LET r == c_map[ServerID(c)] IN
    IF r = Nil \/ c \in reg_c THEN Nil ELSE follower[r]

\* Mutant: reg_c.insert has moved out of the branch that has a synchronizer.
GetConnectionUnled(c) ==
    /\ l_map' = IF Registrar(c) = Nil THEN l_map ELSE [l_map EXCEPT ![c] = Registrar(c)]
    /\ reg_c' = IF c_map[ServerID(c)] = Nil THEN reg_c ELSE reg_c \cup {c}
    /\ UNCHANGED <<c_map, alloc, recordVars, watchVars, spawnVars>>

\* the registration; the status of the newClient call is not looked at
GetConnection(c) ==
    /\ IF Registrar(c) = Nil THEN UNCHANGED clientVars
       ELSE /\ l_map' = [l_map EXCEPT ![c] = Registrar(c)]
            /\ reg_c' = reg_c \cup {c}
    /\ UNCHANGED <<c_map, alloc, recordVars, watchVars, spawnVars>>

\* a synchronizer takes over its cluster; CANCELLED when there is no cluster
FollowerSpawn(f) ==
    LET r == c_map[SidOf[f]] IN
    /\ follower' = IF r = Nil THEN follower ELSE [follower EXCEPT ![r] = f]
    /\ UNCHANGED <<c_map, alloc, addr, live, beats, watchVars, clientVars, spawnVars>>

\* Mutant: >= for >, dead at the first turn without a heartbeat.
CheckedEager(l, b, n) ==
    LET woken  == l \/ b > 0
        missed == n >= b
    IN [live  |-> woken /\ ~missed,
        beats |-> IF missed THEN 0 ELSE b,
        seen  |-> IF missed THEN 0 ELSE IF woken THEN n + 1 ELSE n]

\* Mutant: the local count is not reset at a death.
CheckedUnreset(l, b, n) ==
    LET woken  == l \/ b > 0
        missed == n > b
    IN [live  |-> woken /\ ~missed,
        beats |-> IF missed THEN 0 ELSE b,
        seen  |-> IF woken /\ ~missed THEN n + 1 ELSE n]

\* Mutant: the liveness is not reset at a death.
CheckedUndead(l, b, n) ==
    LET woken  == l \/ b > 0
        missed == n > b
    IN [live  |-> woken,
        beats |-> IF missed THEN 0 ELSE b,
        seen  |-> IF missed THEN 0 ELSE IF woken THEN n + 1 ELSE n]

\* one role's half of checkCluster: l and b from the record, n the local count
Checked(l, b, n) ==
    LET woken  == l \/ b > 0
        missed == n > b
    IN [live  |-> woken /\ ~missed,
        beats |-> IF missed THEN 0 ELSE b,
        seen  |-> IF missed THEN 0 ELSE IF woken THEN n + 1 ELSE n]

\* one turn of a checkCluster thread, ten seconds after the one before
checkCluster(w) ==
    LET r == watch[w]
        after == [role \in Roles |->
                    Checked(live[r][role], beats[r][role], seen[w][role])]
    IN
    /\ r # Nil
    /\ live'  = [live  EXCEPT ![r] = [role \in Roles |-> after[role].live]]
    /\ beats' = [beats EXCEPT ![r] = [role \in Roles |-> after[role].beats]]
    /\ seen'  = [seen  EXCEPT ![w] = [role \in Roles |-> after[role].seen]]
    /\ UNCHANGED <<c_map, alloc, addr, follower, watch, clientVars, spawnVars>>

\* the process is killed and started again: nothing is on disk
Restart ==
    /\ c_map' = [id \in Ids |-> Nil]
    /\ alloc' = {}
    /\ addr' = [r \in Recs |-> EachRole(Nil)]
    /\ live' = [r \in Recs |-> EachRole(FALSE)]
    /\ beats' = [r \in Recs |-> EachRole(0)]
    /\ follower' = [r \in Recs |-> Nil]
    /\ watch' = [w \in Watchers |-> Nil]
    /\ seen' = [w \in Watchers |-> EachRole(0)]
    /\ l_map' = [c \in Clients |-> Nil]
    /\ reg_c' = {}
    /\ spawn_pc' = [s \in Servers |-> "idle"]
    /\ spawn_cif' = [s \in Servers |-> Nil]
    /\ spawn_resp' = [s \in Servers |-> Nil]

ClusterSpawn(s) ==
    SpawnLookup(s) \/ SpawnInsert(s) \/ SpawnReject(s) \/ SpawnAccept(s) \/ SpawnReply(s)

CoordNext ==
    \/ \E s \in Servers : ClusterSpawn(s)
    \/ \E id \in Ids, role \in Roles : Gucci(id, role)
    \/ \E c \in Clients : GetConnection(c)
    \/ \E f \in Syncs : FollowerSpawn(f)
    \/ \E w \in Watchers : checkCluster(w)
    \/ Restart

CoordSpec == CoordInit /\ [][CoordNext]_coordVars

-----------------------------------------------------------------------------
(* What the coordinator promises *)

\* The shape of the coordinator's memory.
TypeOK ==
    /\ c_map \in [Ids -> Recs \cup {Nil}]
    /\ alloc \subseteq Recs
    /\ addr \in [Recs -> [Roles -> Servers \cup {Nil}]]
    /\ live \in [Recs -> [Roles -> BOOLEAN]]
    /\ beats \in [Recs -> [Roles -> Nat]]
    /\ follower \in [Recs -> Syncs \cup {Nil}]
    /\ watch \in [Watchers -> Recs \cup {Nil}]
    /\ seen \in [Watchers -> [Roles -> Nat]]
    /\ l_map \in [Clients -> Syncs \cup {Nil}]
    /\ reg_c \subseteq Clients
    /\ spawn_pc \in [Servers -> {"idle", "insert", "lock", "reply"}]
    /\ spawn_cif \in [Servers -> Recs \cup {Nil}]
    /\ spawn_resp \in [Servers -> Servers \cup {Nil}]
    /\ \A s \in Servers : spawn_pc[s] = "lock" => spawn_cif[s] # Nil

\* GetConnection never sends a client to a server of another cluster, and a
\* ClusterSpawn reply never names a partner of another cluster, whatever records
\* the unlocked insertions of concurrent spawns overwrite.
RoutedHome ==
    /\ \A c \in Clients : Answer(c) # Nil => IdOf[Answer(c)] = ServerID(c)
    /\ \A s \in Servers :
         spawn_resp[s] # Nil => /\ IdOf[spawn_resp[s]] = IdOf[s]
                                /\ RoleOf[spawn_resp[s]] # RoleOf[s]

\* Every client that GetAllUsers lists has a synchronizer, so GetFollowing finds
\* it in l_map, and that synchronizer is one of the client's own cluster.
RegisteredAtHome ==
    \A c \in Clients :
        /\ c \in reg_c => l_map[c] # Nil
        /\ l_map[c] # Nil => SidOf[l_map[c]] = ServerID(c)

\* A record has a master's address just when some thread checks it: no accepted
\* master goes unwatched, not even on a record that was overwritten in the map.
WatchedMaster ==
    \A r \in Recs : addr[r]["master"] # Nil <=> \E w \in Watchers : watch[w] = r

SoleWatcher(w) == \A v \in Watchers : watch[v] = watch[w] => v = w

\* While one thread checks a record its count runs at most one ahead of the
\* heartbeats, so a death is declared at the first turn that finds it ahead.
LeadBounded ==
    \A w \in Watchers : watch[w] # Nil /\ SoleWatcher(w) =>
        \A role \in Roles : seen[w][role] =< beats[watch[w]][role] + 1

=============================================================================
