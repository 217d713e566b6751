------------------------------ MODULE Cluster ------------------------------
(***************************************************************************)
(* The distributed social network as its processes run it: the servers     *)
(* (MP_3/tsd.cc), the synchronizers (MP_3/tsf.cc) and the clients          *)
(* (MP_3/tsc.cc) around one coordinator.                                   *)
(*                                                                         *)
(* A server spawns its cluster at the coordinator, starts its heartbeat,   *)
(* tells its partner it exists, and only then listens.  A synchronizer     *)
(* reports to the coordinator and then listens.  A client asks the         *)
(* coordinator for a server, logs in there, and asks again every five      *)
(* seconds.  Processes crash and are started again; calls are lost.        *)
(***************************************************************************)
EXTENDS Coordinator

CONSTANTS
    Faults,      \* what may go wrong: "server", "sync", "coord", "rpc", "beat"
    MaxFaults,   \* bound on how often something goes wrong
    SerialStart  \* TRUE: runCluster.sh starts a process after the one before it

ASSUME FaultsAssumption == /\ Faults \subseteq {"server", "sync", "coord", "rpc", "beat"}
                           /\ MaxFaults \in Nat
                           /\ SerialStart \in BOOLEAN

VARIABLES
    proc,       \* server -> how far RunServer has come
    beating,    \* server -> its heartbeat thread is running
    s_stub,     \* server -> the partner its s_stub calls
    sync,       \* synchronizer -> how far its RunServer has come
    client_ids, \* synchronizer -> the clients it manages
    cli,        \* client -> how far connectTo has come
    conn,       \* client -> the server its stub_ calls
    faults      \* how often something went wrong so far

serverVars == <<proc, beating, s_stub>>
syncVars   == <<sync, client_ids>>
cliVars    == <<cli, conn>>
vars       == <<coordVars, serverVars, syncVars, cliVars, faults>>

Init ==
    /\ CoordInit
    /\ proc = [s \in Servers |-> "down"]
    /\ beating = [s \in Servers |-> FALSE]
    /\ s_stub = [s \in Servers |-> Nil]
    /\ sync = [f \in Syncs |-> "down"]
    /\ client_ids = [f \in Syncs |-> {}]
    /\ cli = [c \in Clients |-> "off"]
    /\ conn = [c \in Clients |-> Nil]
    /\ faults = 0

Fault(kind) ==
    /\ kind \in Faults
    /\ faults < MaxFaults
    /\ faults' = faults + 1

\* Mutant: the sleeps are left out of the script, starts do not wait.
MayStartAtOnce == TRUE

\* runCluster.sh sleeps between starts, so the earlier one has come up by then
MayStart == SerialStart => /\ \A s \in Servers : /\ proc[s] \in {"down", "serving"}
                                                /\ spawn_pc[s] = "idle"
                           /\ \A f \in Syncs : sync[f] \in {"down", "listening"}

-----------------------------------------------------------------------------
(* RunServer and heartbeat of tsd.cc *)

\* Mutant: the heartbeat thread is started before the call.
ServerStartBeating(s) ==
    /\ proc[s] = "down"
    /\ MayStart
    /\ SpawnLookup(s)
    /\ proc' = [proc EXCEPT ![s] = "spawning"]
    /\ beating' = [beating EXCEPT ![s] = TRUE]
    /\ UNCHANGED <<s_stub, syncVars, cliVars, faults>>

\* the ClusterSpawn call; a server starts again once its last call has returned
ServerStart(s) ==
    /\ proc[s] = "down"
    /\ MayStart
    /\ SpawnLookup(s)
    /\ proc' = [proc EXCEPT ![s] = "spawning"]
    /\ UNCHANGED <<beating, s_stub, syncVars, cliVars, faults>>

\* the coordinator's handler goes on, whether or not its caller still lives
SpawnHandler(s) ==
    /\ SpawnInsert(s) \/ SpawnReject(s) \/ SpawnAccept(s)
    /\ UNCHANGED <<serverVars, syncVars, cliVars, faults>>

\* the call returns; OK or CANCELLED, the heartbeat starts all the same, and a
\* partner in the reply is called next
ReceiveReply(s) ==
    /\ IF proc[s] = "spawning"
       THEN /\ proc' = [proc EXCEPT ![s] = IF spawn_resp[s] = Nil THEN "building" ELSE "poking"]
            /\ beating' = [beating EXCEPT ![s] = TRUE]
            /\ s_stub' = [s_stub EXCEPT ![s] = spawn_resp[s]]
       ELSE UNCHANGED serverVars
    /\ SpawnReply(s)
    /\ UNCHANGED <<syncVars, cliVars, faults>>

\* ClusterSpawn never reaches the coordinator: the same, with an empty reply
SpawnLost(s) ==
    /\ proc[s] = "down"
    /\ MayStart
    /\ Fault("rpc")
    /\ proc' = [proc EXCEPT ![s] = "building"]
    /\ beating' = [beating EXCEPT ![s] = TRUE]
    /\ UNCHANGED <<coordVars, s_stub, syncVars, cliVars>>

\* Mutant: the partner takes its own address for the caller's.
PokeSelf(s) ==
    LET partner == s_stub[s] IN
    /\ proc[s] = "poking"
    /\ s_stub' = IF proc[partner] = "serving"
                 THEN [s_stub EXCEPT ![partner] = partner] ELSE s_stub
    /\ proc' = [proc EXCEPT ![s] = "building"]
    /\ UNCHANGED <<coordVars, beating, syncVars, cliVars, faults>>

\* Mutant: the partner drops the address it is told.
PokeDropped(s) ==
    /\ proc[s] = "poking"
    /\ proc' = [proc EXCEPT ![s] = "building"]
    /\ UNCHANGED <<coordVars, beating, s_stub, syncVars, cliVars, faults>>

\* PokeMaster, whose status is not looked at; a partner that does not listen
\* yet, or no longer, does not hear it
Poke(s) ==
    LET partner == s_stub[s] IN
    /\ proc[s] = "poking"
    /\ s_stub' = IF proc[partner] = "serving"
                 THEN [s_stub EXCEPT ![partner] = s] ELSE s_stub
    /\ proc' = [proc EXCEPT ![s] = "building"]
    /\ UNCHANGED <<coordVars, beating, syncVars, cliVars, faults>>

\* BuildAndStart
Serve(s) ==
    /\ proc[s] = "building"
    /\ proc' = [proc EXCEPT ![s] = "serving"]
    /\ UNCHANGED <<coordVars, beating, s_stub, syncVars, cliVars, faults>>

\* one turn of heartbeat; the thread ends for good when the call is refused
Heartbeat(s) ==
    /\ beating[s]
    /\ IF c_map[IdOf[s]] # Nil
       THEN Gucci(IdOf[s], RoleOf[s]) /\ UNCHANGED beating
       ELSE beating' = [beating EXCEPT ![s] = FALSE] /\ UNCHANGED coordVars
    /\ UNCHANGED <<proc, s_stub, syncVars, cliVars, faults>>

\* the same when the call is lost
HeartbeatLost(s) ==
    /\ beating[s]
    /\ Fault("beat")
    /\ beating' = [beating EXCEPT ![s] = FALSE]
    /\ UNCHANGED <<coordVars, proc, s_stub, syncVars, cliVars>>

ServerCrash(s) ==
    /\ proc[s] # "down"
    /\ Fault("server")
    /\ proc' = [proc EXCEPT ![s] = "down"]
    /\ beating' = [beating EXCEPT ![s] = FALSE]
    /\ s_stub' = [s_stub EXCEPT ![s] = Nil]
    /\ UNCHANGED <<coordVars, syncVars, cliVars>>

-----------------------------------------------------------------------------
(* RunServer of tsf.cc *)

\* FollowerSpawn; the synchronizer goes on even when it was refused
SyncStart(f) ==
    /\ sync[f] = "down"
    /\ MayStart
    /\ FollowerSpawn(f)
    /\ sync' = [sync EXCEPT ![f] = "spawned"]
    /\ UNCHANGED <<serverVars, client_ids, cliVars, faults>>

\* the same when the call is lost
SyncStartLost(f) ==
    /\ sync[f] = "down"
    /\ MayStart
    /\ Fault("rpc")
    /\ sync' = [sync EXCEPT ![f] = "spawned"]
    /\ UNCHANGED <<coordVars, serverVars, client_ids, cliVars>>

\* BuildAndStart
SyncListen(f) ==
    /\ sync[f] = "spawned"
    /\ sync' = [sync EXCEPT ![f] = "listening"]
    /\ UNCHANGED <<coordVars, serverVars, client_ids, cliVars, faults>>

SyncCrash(f) ==
    /\ sync[f] # "down"
    /\ Fault("sync")
    /\ sync' = [sync EXCEPT ![f] = "down"]
    /\ client_ids' = [client_ids EXCEPT ![f] = {}]
    /\ UNCHANGED <<coordVars, serverVars, cliVars>>

\* the newClient call the coordinator makes while it registers c
newClient(c) ==
    LET f == Registrar(c) IN
    client_ids' = IF f # Nil /\ sync[f] = "listening"
                  THEN [client_ids EXCEPT ![f] = @ \cup {c}] ELSE client_ids

-----------------------------------------------------------------------------
(* connectTo and renew_connection of tsc.cc *)

\* connectTo up to Login
Connect(c) ==
    /\ cli[c] = "off"
    /\ GetConnection(c)
    /\ newClient(c)
    /\ conn' = [conn EXCEPT ![c] = Answer(c)]
    /\ cli' = [cli EXCEPT ![c] = "login"]
    /\ UNCHANGED <<serverVars, sync, faults>>

Listening(s) == s # Nil /\ proc[s] = "serving"

\* Login; a client whose login fails exits
Login(c) ==
    /\ cli[c] = "login"
    /\ IF Listening(conn[c])
       THEN cli' = [cli EXCEPT ![c] = "on"] /\ UNCHANGED conn
       ELSE cli' = [cli EXCEPT ![c] = "off"] /\ conn' = [conn EXCEPT ![c] = Nil]
    /\ UNCHANGED <<coordVars, serverVars, syncVars, faults>>

\* Mutant: a renewal looks the address up and registers nobody.
RenewUnregistered(c) ==
    /\ cli[c] = "on"
    /\ conn' = [conn EXCEPT ![c] = Answer(c)]
    /\ UNCHANGED <<coordVars, serverVars, syncVars, cli, faults>>

\* one turn of renew_connection: whatever the reply names, stub_ calls from now on
Renew(c) ==
    /\ cli[c] = "on"
    /\ GetConnection(c)
    /\ newClient(c)
    /\ conn' = [conn EXCEPT ![c] = Answer(c)]
    /\ UNCHANGED <<serverVars, sync, cli, faults>>

\* the same when the call fails: its reply stays empty
RenewLost(c) ==
    /\ cli[c] = "on"
    /\ Fault("rpc")
    /\ conn' = [conn EXCEPT ![c] = Nil]
    /\ UNCHANGED <<coordVars, serverVars, syncVars, cli>>

ClientExit(c) ==
    /\ cli[c] = "on"
    /\ cli' = [cli EXCEPT ![c] = "off"]
    /\ conn' = [conn EXCEPT ![c] = Nil]
    /\ UNCHANGED <<coordVars, serverVars, syncVars, faults>>

-----------------------------------------------------------------------------

CoordTick(w) ==
    /\ checkCluster(w)
    /\ UNCHANGED <<serverVars, syncVars, cliVars, faults>>

\* the coordinator is restarted: the calls it was serving fail at their callers
CoordRestart ==
    /\ Fault("coord")
    /\ Restart
    /\ proc' = [s \in Servers |-> IF proc[s] = "spawning" THEN "building" ELSE proc[s]]
    /\ beating' = [s \in Servers |-> beating[s] \/ proc[s] = "spawning"]
    /\ UNCHANGED <<s_stub, syncVars, cliVars>>

ServerNext(s) ==
    \/ ServerStart(s) \/ SpawnHandler(s) \/ ReceiveReply(s) \/ SpawnLost(s)
    \/ Poke(s) \/ Serve(s) \/ Heartbeat(s) \/ HeartbeatLost(s) \/ ServerCrash(s)

SyncNext(f) == SyncStart(f) \/ SyncStartLost(f) \/ SyncListen(f) \/ SyncCrash(f)

ClientNext(c) == Connect(c) \/ Login(c) \/ Renew(c) \/ RenewLost(c) \/ ClientExit(c)

Next ==
    \/ \E s \in Servers : ServerNext(s)
    \/ \E f \in Syncs : SyncNext(f)
    \/ \E c \in Clients : ClientNext(c)
    \/ \E w \in Watchers : CoordTick(w)
    \/ CoordRestart

Spec == Init /\ [][Next]_vars

\* What the code schedules: handlers return, processes come up, the checking
\* threads keep turning, and a client keeps renewing.  Nothing makes a process
\* start, crash or beat, or a client leave.
Fairness ==
    /\ \A s \in Servers :
         WF_vars(SpawnHandler(s) \/ ReceiveReply(s) \/ Poke(s) \/ Serve(s))
    /\ \A f \in Syncs : WF_vars(SyncListen(f))
    /\ \A c \in Clients : WF_vars(Login(c)) /\ WF_vars(Renew(c))
    /\ \A w \in Watchers : WF_vars(CoordTick(w))

FairSpec == Spec /\ Fairness

-----------------------------------------------------------------------------
(* Safety *)

\* The shape of the processes' state.
ClusterTypeOK ==
    /\ TypeOK
    /\ proc \in [Servers -> {"down", "spawning", "poking", "building", "serving"}]
    /\ beating \in [Servers -> BOOLEAN]
    /\ s_stub \in [Servers -> Servers \cup {Nil}]
    /\ sync \in [Syncs -> {"down", "spawned", "listening"}]
    /\ client_ids \in [Syncs -> SUBSET Clients]
    /\ cli \in [Clients -> {"off", "login", "on"}]
    /\ conn \in [Clients -> Servers \cup {Nil}]
    /\ faults \in 0..MaxFaults

\* However the processes interleave, crash and lose calls, a client's stub_ calls
\* a server of its own cluster and a server's s_stub calls one of the other role
\* in its own cluster.
StubsStayHome ==
    /\ \A c \in Clients : conn[c] # Nil => IdOf[conn[c]] = ServerID(c)
    /\ \A s \in Servers :
         s_stub[s] # Nil => /\ IdOf[s_stub[s]] = IdOf[s]
                            /\ RoleOf[s_stub[s]] # RoleOf[s]

\* A synchronizer runs the threads of a client only while the coordinator names
\* it as that client's: while the coordinator keeps its memory, no client is
\* watched, and its follows announced, by two synchronizers.
ManagedOnce ==
    \A f \in Syncs : \A c \in client_ids[f] : c \in reg_c /\ l_map[c] = f

\* Started one after the other, servers never overwrite a record: every heartbeat
\* of an accepted server is counted on the record that holds its address, the
\* one a checkCluster thread looks at.
BeatsWhereRegistered ==
    \A r \in alloc, role \in Roles :
        addr[r][role] # Nil => c_map[IdOf[addr[r][role]]] = r

\* While every ClusterSpawn arrives, a process believed alive has an address, so
\* the answer GetConnection takes from it is not empty.
LiveHasAddress ==
    \A r \in Recs, role \in Roles : live[r][role] => addr[r][role] # Nil

-----------------------------------------------------------------------------
(* Liveness *)

\* A master that went down for good is eventually not believed alive any more,
\* however many heartbeats it had to its credit.
CrashDetected ==
    \A id \in Ids :
        <>[](\A s \in Servers :
               RoleOf[s] = "master" /\ IdOf[s] = id => proc[s] = "down")
        => <>[](c_map[id] # Nil => ~live[c_map[id]]["master"])

\* A client that stays ends up at the slave when the masters of its cluster went
\* down for good and that one slave goes on listening.
Failover ==
    \A c \in Clients, s \in Servers :
        RoleOf[s] = "slave" /\ IdOf[s] = ServerID(c) =>
            (<>[](/\ cli[c] = "on" /\ proc[s] = "serving"
                  /\ \A m \in Servers :
                       RoleOf[m] = "master" /\ IdOf[m] = ServerID(c) => proc[m] = "down")
             => <>[](conn[c] = s))

\* A client that stays is eventually registered once its cluster has a
\* synchronizer, even one that came after the client.
EventuallyRegistered ==
    \A c \in Clients :
        <>[](/\ cli[c] = "on" /\ c_map[ServerID(c)] # Nil
             /\ follower[c_map[ServerID(c)]] # Nil)
        => <>[](c \in reg_c)
=============================================================================
