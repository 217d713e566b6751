--------------------------- MODULE ClusterProofs ---------------------------
(***************************************************************************)
(* The processes of the cluster around the coordinator, for every number   *)
(* of them, every kind of fault and any number of faults.                  *)
(***************************************************************************)
EXTENDS Cluster, CoordinatorProofs

\* What any process does, the coordinator sees as calls of its handlers, turns of
\* its threads and restarts.
LEMMA StepRefines == [Next]_vars => [CoordNext]_coordVars
<1> SUFFICES ASSUME [Next]_vars PROVE [CoordNext]_coordVars
  OBVIOUS
<1>1. ASSUME NEW s \in Servers, ServerNext(s) PROVE [CoordNext]_coordVars
  <2>1. CASE ServerStart(s)
    BY <2>1 DEF ServerStart, CoordNext, ClusterSpawn
  <2>2. CASE SpawnHandler(s)
    BY <2>2 DEF SpawnHandler, CoordNext, ClusterSpawn
  <2>3. CASE ReceiveReply(s)
    BY <2>3 DEF ReceiveReply, CoordNext, ClusterSpawn
  <2>4. CASE Heartbeat(s)
    <3>1. IdOf[s] \in Ids /\ RoleOf[s] \in Roles
      BY IdsAssumption, RolesAssumption
    <3> QED
      BY <2>4, <3>1 DEF Heartbeat, CoordNext
  <2>5. CASE SpawnLost(s) \/ Poke(s) \/ Serve(s) \/ HeartbeatLost(s) \/ ServerCrash(s)
    BY <2>5 DEF SpawnLost, Poke, Serve, HeartbeatLost, ServerCrash
  <2> QED
    BY <1>1, <2>1, <2>2, <2>3, <2>4, <2>5 DEF ServerNext
<1>2. ASSUME NEW f \in Syncs, SyncNext(f) PROVE [CoordNext]_coordVars
  BY <1>2 DEF SyncNext, SyncStart, SyncStartLost, SyncListen, SyncCrash, CoordNext
<1>3. ASSUME NEW c \in Clients, ClientNext(c) PROVE [CoordNext]_coordVars
  BY <1>3 DEF ClientNext, Connect, Login, Renew, RenewLost, ClientExit, CoordNext
<1>4. ASSUME NEW w \in Watchers, CoordTick(w) PROVE [CoordNext]_coordVars
  BY <1>4 DEF CoordTick, CoordNext
<1>5. CASE CoordRestart
  BY <1>5 DEF CoordRestart, CoordNext
<1>6. CASE UNCHANGED vars
  BY <1>6 DEF vars
<1> QED
  BY <1>1, <1>2, <1>3, <1>4, <1>5, <1>6 DEF Next

\* The cluster uses the coordinator as module Coordinator says: all that is proved
\* of the coordinator holds in the cluster.
THEOREM ClusterRefines == Spec => CoordSpec
<1>1. Init => CoordInit
  BY DEF Init
<1> QED
  BY <1>1, StepRefines, PTL DEF Spec, CoordSpec

-----------------------------------------------------------------------------
(* Stubs stay in their cluster *)

\* The inductive invariant: what the coordinator answers is of the right cluster
\* (HomeInv), and what the processes keep of its answers is typed.
StubInv ==
    /\ HomeInv
    /\ s_stub \in [Servers -> Servers \cup {Nil}]
    /\ conn \in [Clients -> Servers \cup {Nil}]
    /\ proc \in [Servers -> {"down", "spawning", "poking", "building", "serving"}]
    /\ \A s \in Servers : proc[s] = "poking" => s_stub[s] # Nil
    /\ StubsStayHome

\* Initially every stub is empty.
LEMMA InitStubs == Init => StubInv
<1> SUFFICES ASSUME Init PROVE StubInv
  OBVIOUS
<1>1. HomeInv
  BY InitHome DEF Init
<1> QED
  BY <1>1 DEF Init, StubInv, StubsStayHome

\* A step that leaves the processes of the servers and the stubs alone.
LEMMA StubFrame ==
    ASSUME StubInv, HomeInv', UNCHANGED <<proc, s_stub, conn>>
    PROVE  StubInv'
BY DEF StubInv, StubsStayHome

\* What a server does keeps its stub, and its partner's, in the cluster.
LEMMA ServerStubs ==
    ASSUME StubInv, HomeInv', NEW s \in Servers, ServerNext(s)
    PROVE  StubInv'
<1> USE RolesAssumption, NilAssumption
<1>0. TypeOK /\ PartnersHome
  BY DEF StubInv, HomeInv
<1>1. CASE ServerStart(s) \/ SpawnLost(s) \/ Serve(s)
  BY <1>1 DEF ServerStart, SpawnLost, Serve, cliVars, StubInv, StubsStayHome
<1>2. CASE SpawnHandler(s) \/ Heartbeat(s) \/ HeartbeatLost(s)
  BY <1>2, StubFrame DEF SpawnHandler, Heartbeat, HeartbeatLost, cliVars, serverVars
<1>3. CASE ReceiveReply(s)
  <2>1. CASE proc[s] = "spawning"
    <3>1. /\ s_stub' = [s_stub EXCEPT ![s] = spawn_resp[s]]
          /\ proc' = [proc EXCEPT ![s] = IF spawn_resp[s] = Nil THEN "building" ELSE "poking"]
          /\ UNCHANGED conn
      BY <1>3, <2>1 DEF ReceiveReply, cliVars
    <3>2. spawn_resp[s] \in Servers \cup {Nil}
      BY <1>0 DEF TypeOK
    <3>3. spawn_resp[s] # Nil => /\ IdOf[spawn_resp[s]] = IdOf[s]
                                 /\ RoleOf[spawn_resp[s]] # RoleOf[s]
      BY <1>0 DEF PartnersHome
    <3> QED
      BY <3>1, <3>2, <3>3 DEF StubInv, StubsStayHome
  <2>2. CASE proc[s] # "spawning"
    BY <1>3, <2>2, StubFrame DEF ReceiveReply, serverVars, cliVars
  <2> QED
    BY <2>1, <2>2
<1>4. CASE Poke(s)
  <2>1. PICK p \in Servers : p = s_stub[s]
    BY <1>4 DEF Poke, StubInv
  <2>2. IdOf[p] = IdOf[s] /\ RoleOf[p] # RoleOf[s]
    BY <2>1 DEF StubInv, StubsStayHome
  <2>3. /\ s_stub' = s_stub \/ s_stub' = [s_stub EXCEPT ![p] = s]
        /\ proc' = [proc EXCEPT ![s] = "building"]
        /\ UNCHANGED conn
    BY <1>4, <2>1 DEF Poke, cliVars
  <2> QED
    BY <2>2, <2>3 DEF StubInv, StubsStayHome
<1>5. CASE ServerCrash(s)
  <2>1. /\ s_stub' = [s_stub EXCEPT ![s] = Nil]
        /\ proc' = [proc EXCEPT ![s] = "down"]
        /\ UNCHANGED conn
    BY <1>5 DEF ServerCrash, cliVars
  <2> QED
    BY <2>1 DEF StubInv, StubsStayHome
<1> QED
  BY <1>1, <1>2, <1>3, <1>4, <1>5 DEF ServerNext

\* What a client does keeps its stub in the cluster.
LEMMA ClientStubs ==
    ASSUME StubInv, HomeInv', NEW c \in Clients, ClientNext(c)
    PROVE  StubInv'
<1> USE NilAssumption
<1>1. Answer(c) \in Servers \cup {Nil} /\ (Answer(c) # Nil => IdOf[Answer(c)] = ServerID(c))
  BY AnswerHome DEF StubInv
<1>2. CASE Connect(c) \/ Renew(c)
  <2>1. /\ conn' = [conn EXCEPT ![c] = Answer(c)]
        /\ UNCHANGED <<proc, s_stub>>
    BY <1>2 DEF Connect, Renew, serverVars
  <2> QED
    BY <1>1, <2>1 DEF StubInv, StubsStayHome
<1>3. CASE Login(c) \/ RenewLost(c) \/ ClientExit(c)
  <2>1. /\ conn' = conn \/ conn' = [conn EXCEPT ![c] = Nil]
        /\ UNCHANGED <<proc, s_stub>>
    BY <1>3 DEF Login, RenewLost, ClientExit, serverVars
  <2> QED
    BY <2>1 DEF StubInv, StubsStayHome
<1> QED
  BY <1>2, <1>3 DEF ClientNext

\* Every step keeps the stubs in the cluster.
LEMMA StepStubs == StubInv /\ [Next]_vars => StubInv'
<1> SUFFICES ASSUME StubInv, [Next]_vars PROVE StubInv'
  OBVIOUS
<1>0. HomeInv'
  <2>1. HomeInv /\ [CoordNext]_coordVars
    BY StepRefines DEF StubInv
  <2> QED
    BY <2>1, StepTyped, StepOwned, StepPartners, StepRegistered DEF HomeInv
<1>1. ASSUME NEW s \in Servers, ServerNext(s) PROVE StubInv'
  BY <1>0, <1>1, ServerStubs
<1>2. ASSUME NEW f \in Syncs, SyncNext(f) PROVE StubInv'
  BY <1>0, <1>2, StubFrame
     DEF SyncNext, SyncStart, SyncStartLost, SyncListen, SyncCrash, serverVars, cliVars
<1>3. ASSUME NEW c \in Clients, ClientNext(c) PROVE StubInv'
  BY <1>0, <1>3, ClientStubs
<1>4. ASSUME NEW w \in Watchers, CoordTick(w) PROVE StubInv'
  BY <1>0, <1>4, StubFrame DEF CoordTick, serverVars, cliVars
<1>5. CASE CoordRestart
  <2>1. /\ proc' = [s \in Servers |-> IF proc[s] = "spawning" THEN "building" ELSE proc[s]]
        /\ UNCHANGED <<s_stub, conn>>
    BY <1>5 DEF CoordRestart, cliVars
  <2> QED
    BY <1>0, <2>1 DEF StubInv, StubsStayHome
<1>6. CASE UNCHANGED vars
  BY <1>0, <1>6, StubFrame DEF vars, serverVars, cliVars
<1> QED
  BY <1>1, <1>2, <1>3, <1>4, <1>5, <1>6 DEF Next

\* However processes interleave, crash and lose calls, no client and no server
\* ever calls a server of another cluster.
THEOREM ClusterStubsStayHome == Spec => []StubsStayHome
<1>1. StubInv => StubsStayHome
  BY DEF StubInv
<1> QED
  BY <1>1, InitStubs, StepStubs, PTL DEF Spec

-----------------------------------------------------------------------------
(* No client is managed twice *)

ManagedInv ==
    /\ TypeOK
    /\ client_ids \in [Syncs -> SUBSET Clients]
    /\ ManagedOnce

\* A step that registers nobody and tells no synchronizer of a client.
LEMMA ManagedFrame ==
    ASSUME ManagedInv, TypeOK', UNCHANGED <<clientVars, client_ids>>
    PROVE  ManagedInv'
BY DEF ManagedInv, ManagedOnce, clientVars

\* A client is handed to a synchronizer when it is registered, and only then.
LEMMA RegisterManaged ==
    ASSUME ManagedInv, TypeOK', NEW c \in Clients, GetConnection(c), newClient(c)
    PROVE  ManagedInv'
<1> USE NilAssumption
<1>0. TypeOK
  BY DEF ManagedInv
<1>1. CASE Registrar(c) = Nil
  <2>1. UNCHANGED <<clientVars, client_ids>>
    BY <1>1 DEF GetConnection, newClient
  <2> QED
    BY <2>1, ManagedFrame
<1>2. CASE Registrar(c) # Nil
  <2>1. PICK f : f = Registrar(c)
    OBVIOUS
  <2>2. f \in Syncs /\ c \notin reg_c
    <3>1. PICK r : r = c_map[ServerID(c)]
      OBVIOUS
    <3>2. r \in Recs \cup {Nil}
      BY <3>1, <1>0, IdsAssumption DEF TypeOK
    <3>3. r # Nil /\ c \notin reg_c /\ f = follower[r]
      BY <1>2, <2>1, <3>1 DEF Registrar
    <3>4. f \in Syncs \cup {Nil}
      BY <3>2, <3>3, <1>0 DEF TypeOK
    <3> QED
      BY <3>3, <3>4, <1>2, <2>1
  <2>3. /\ l_map' = [l_map EXCEPT ![c] = f]
        /\ reg_c' = reg_c \cup {c}
        /\ \/ client_ids' = client_ids
           \/ client_ids' = [client_ids EXCEPT ![f] = @ \cup {c}]
    BY <1>2, <2>1 DEF GetConnection, newClient
  <2>4. \A g \in Syncs : c \notin client_ids[g]
    BY <2>2 DEF ManagedInv, ManagedOnce
  <2>5. client_ids' \in [Syncs -> SUBSET Clients]
    BY <2>3 DEF ManagedInv
  <2>6. ASSUME NEW g \in Syncs, NEW d \in client_ids'[g]
        PROVE  d \in reg_c' /\ l_map'[d] = g
    <3>1. CASE d = c
      <4>1. g = f
        <5>1. c \notin client_ids[g] /\ c \in client_ids'[g]
          BY <2>4, <2>6, <3>1
        <5>2. client_ids' = [client_ids EXCEPT ![f] = @ \cup {c}]
          BY <2>3, <5>1
        <5> QED
          BY <5>1, <5>2 DEF ManagedInv
      <4> QED
        BY <4>1, <2>3, <3>1, <1>0 DEF TypeOK
    <3>2. CASE d # c
      <4>1. d \in client_ids[g]
        BY <2>3, <2>6, <3>2 DEF ManagedInv
      <4> QED
        BY <4>1, <2>3, <3>2, <1>0 DEF ManagedInv, ManagedOnce, TypeOK
    <3> QED
      BY <3>1, <3>2
  <2> QED
    BY <2>5, <2>6 DEF ManagedInv, ManagedOnce
<1> QED
  BY <1>1, <1>2

\* While the coordinator is not restarted, every step keeps a client with one
\* synchronizer.
LEMMA StepManaged ==
    ASSUME "coord" \notin Faults, ManagedInv, [Next]_vars
    PROVE  ManagedInv'
<1>0. TypeOK'
  BY StepRefines, StepTyped DEF ManagedInv
<1>1. ASSUME NEW s \in Servers, ServerNext(s) PROVE ManagedInv'
  BY <1>0, <1>1, ManagedFrame
     DEF ServerNext, ServerStart, SpawnHandler, ReceiveReply, SpawnLost, Poke, Serve,
         Heartbeat, HeartbeatLost, ServerCrash, SpawnLookup, SpawnInsert, SpawnReject,
         SpawnAccept, SpawnReply, Gucci, coordVars, syncVars
<1>2. ASSUME NEW f \in Syncs, SyncNext(f) PROVE ManagedInv'
  <2>1. CASE SyncStart(f) \/ SyncStartLost(f) \/ SyncListen(f)
    BY <1>0, <2>1, ManagedFrame
       DEF SyncStart, SyncStartLost, SyncListen, FollowerSpawn, coordVars
  <2>2. CASE SyncCrash(f)
    <3>1. client_ids' = [client_ids EXCEPT ![f] = {}] /\ UNCHANGED clientVars
      BY <2>2 DEF SyncCrash, coordVars
    <3> QED
      BY <1>0, <3>1 DEF ManagedInv, ManagedOnce, clientVars
  <2> QED
    BY <1>2, <2>1, <2>2 DEF SyncNext
<1>3. ASSUME NEW c \in Clients, ClientNext(c) PROVE ManagedInv'
  <2>1. CASE Connect(c) \/ Renew(c)
    BY <1>0, <2>1, RegisterManaged DEF Connect, Renew
  <2>2. CASE Login(c) \/ RenewLost(c) \/ ClientExit(c)
    BY <1>0, <2>2, ManagedFrame DEF Login, RenewLost, ClientExit, coordVars, syncVars
  <2> QED
    BY <1>3, <2>1, <2>2 DEF ClientNext
<1>4. ASSUME NEW w \in Watchers, CoordTick(w) PROVE ManagedInv'
  BY <1>0, <1>4, ManagedFrame DEF CoordTick, checkCluster, syncVars
<1>5. ~CoordRestart
  BY DEF CoordRestart, Fault
<1>6. CASE UNCHANGED vars
  BY <1>0, <1>6, ManagedFrame DEF vars, coordVars, syncVars
<1> QED
  BY <1>1, <1>2, <1>3, <1>4, <1>5, <1>6 DEF Next

\* A coordinator that keeps its memory hands a client to one synchronizer only,
\* whatever crashes, replaces another or is not told.
THEOREM ClusterManagedOnce ==
    ASSUME "coord" \notin Faults
    PROVE  Spec => []ManagedOnce
<1>1. Init => ManagedInv
  BY InitTyped DEF Init, ManagedInv, ManagedOnce
<1>2. ManagedInv /\ [Next]_vars => ManagedInv'
  BY StepManaged
<1>3. ManagedInv => ManagedOnce
  BY DEF ManagedInv
<1> QED
  BY <1>1, <1>2, <1>3, PTL DEF Spec

-----------------------------------------------------------------------------
(* Started one after the other, servers share one record *)

\* One handler at a time is between the lookup and the reply, so what it looked
\* up is still what the map holds.
SerialInv ==
    /\ TypeOK
    /\ \A s, t \in Servers : spawn_pc[s] # "idle" /\ spawn_pc[t] # "idle" => s = t
    /\ \A s \in Servers : spawn_pc[s] = "insert" => c_map[IdOf[s]] = Nil
    /\ \A s \in Servers : spawn_pc[s] = "lock" => spawn_cif[s] = c_map[IdOf[s]]
    /\ \A r \in Recs, role \in Roles :
         addr[r][role] # Nil => c_map[IdOf[addr[r][role]]] = r

\* A step that leaves the map, the addresses and the handlers alone.
LEMMA SerialFrame ==
    ASSUME SerialInv, TypeOK', UNCHANGED <<c_map, addr, spawnVars>>
    PROVE  SerialInv'
BY DEF SerialInv, spawnVars

\* The steps of a handler, when it is the only one.
LEMMA HandlerSerial ==
    ASSUME SerialInv, TypeOK', NEW s \in Servers,
           SpawnInsert(s) \/ SpawnReject(s) \/ SpawnAccept(s) \/ SpawnReply(s)
    PROVE  SerialInv'
<1> USE IdsAssumption, NilAssumption
<1>0. TypeOK
  BY DEF SerialInv
<1>1. CASE SpawnInsert(s)
  <2>1. PICK n \in Recs : /\ c_map' = [c_map EXCEPT ![IdOf[s]] = n]
                          /\ spawn_cif' = [spawn_cif EXCEPT ![s] = n]
    BY <1>1 DEF SpawnInsert
  <2>2. /\ spawn_pc[s] = "insert"
        /\ spawn_pc' = [spawn_pc EXCEPT ![s] = "lock"]
        /\ UNCHANGED addr
    BY <1>1 DEF SpawnInsert, recordVars
  <2>3. ASSUME NEW r \in Recs, NEW role \in Roles, addr[r][role] # Nil
        PROVE  c_map'[IdOf[addr[r][role]]] = r
    <3>1. addr[r][role] \in Servers /\ c_map[IdOf[addr[r][role]]] = r
      BY <2>3, <1>0 DEF SerialInv, TypeOK
    <3>2. c_map[IdOf[s]] = Nil
      BY <2>2 DEF SerialInv
    <3> QED
      BY <2>1, <3>1, <3>2, <1>0 DEF TypeOK
  <2> QED
    BY <2>1, <2>2, <2>3, <1>0 DEF SerialInv, TypeOK
<1>2. CASE SpawnReject(s)
  BY <1>2, <1>0 DEF SpawnReject, recordVars, SerialInv, TypeOK
<1>3. CASE SpawnAccept(s)
  <2>1. PICK n \in Recs : n = spawn_cif[s]
    BY <1>3, <1>0 DEF SpawnAccept, TypeOK
  <2>2. /\ addr' = [addr EXCEPT ![n][RoleOf[s]] = s]
        /\ spawn_pc' = [spawn_pc EXCEPT ![s] = "reply"]
        /\ UNCHANGED <<c_map, spawn_cif>>
    BY <1>3, <2>1 DEF SpawnAccept
  <2>3. c_map[IdOf[s]] = n
    BY <1>3, <2>1 DEF SpawnAccept, SerialInv
  <2>4. ASSUME NEW r \in Recs, NEW role \in Roles, addr'[r][role] # Nil
        PROVE  c_map'[IdOf[addr'[r][role]]] = r
    BY <2>2, <2>3, <2>4, <1>0, RolesAssumption DEF SerialInv, TypeOK
  <2>5. \A t \in Servers : spawn_pc'[t] # "idle" => spawn_pc[t] # "idle"
    BY <1>3, <2>2, <1>0 DEF SpawnAccept, TypeOK
  <2> QED
    BY <2>2, <2>4, <2>5, <1>0 DEF SerialInv, TypeOK
<1>4. CASE SpawnReply(s)
  BY <1>4, <1>0 DEF SpawnReply, recordVars, SerialInv, TypeOK
<1> QED
  BY <1>1, <1>2, <1>3, <1>4

\* Every step keeps the handlers apart.
LEMMA StepSerial ==
    ASSUME SerialStart, SerialInv, [Next]_vars
    PROVE  SerialInv'
<1>0. TypeOK /\ TypeOK'
  BY StepRefines, StepTyped DEF SerialInv
<1>1. ASSUME NEW s \in Servers, ServerNext(s) PROVE SerialInv'
  <2>1. CASE ServerStart(s)
    <3>1. \A t \in Servers : spawn_pc[t] = "idle"
      BY <2>1 DEF ServerStart, MayStart
    <3>2. /\ spawn_cif' = [spawn_cif EXCEPT ![s] = c_map[IdOf[s]]]
          /\ spawn_pc' = [spawn_pc EXCEPT ![s] =
                            IF c_map[IdOf[s]] = Nil THEN "insert" ELSE "lock"]
          /\ UNCHANGED <<c_map, addr>>
      BY <2>1 DEF ServerStart, SpawnLookup, recordVars
    <3> QED
      BY <3>1, <3>2, <1>0 DEF SerialInv, TypeOK
  <2>2. CASE SpawnHandler(s) \/ ReceiveReply(s)
    BY <1>0, <2>2, HandlerSerial DEF SpawnHandler, ReceiveReply
  <2>3. CASE Heartbeat(s)
    BY <1>0, <2>3, SerialFrame DEF Heartbeat, Gucci, coordVars, recordVars
  <2>4. CASE SpawnLost(s) \/ Poke(s) \/ Serve(s) \/ HeartbeatLost(s) \/ ServerCrash(s)
    BY <1>0, <2>4, SerialFrame
       DEF SpawnLost, Poke, Serve, HeartbeatLost, ServerCrash, coordVars, recordVars
  <2> QED
    BY <1>1, <2>1, <2>2, <2>3, <2>4 DEF ServerNext
<1>2. ASSUME NEW f \in Syncs, SyncNext(f) PROVE SerialInv'
  BY <1>0, <1>2, SerialFrame
     DEF SyncNext, SyncStart, SyncStartLost, SyncListen, SyncCrash, FollowerSpawn,
         coordVars, recordVars
<1>3. ASSUME NEW c \in Clients, ClientNext(c) PROVE SerialInv'
  BY <1>0, <1>3, SerialFrame
     DEF ClientNext, Connect, Login, Renew, RenewLost, ClientExit, GetConnection,
         coordVars, recordVars
<1>4. ASSUME NEW w \in Watchers, CoordTick(w) PROVE SerialInv'
  BY <1>0, <1>4, SerialFrame DEF CoordTick, checkCluster
<1>5. CASE CoordRestart
  <2>1. /\ \A s \in Servers : spawn_pc'[s] = "idle"
        /\ \A r \in Recs, role \in Roles : addr'[r][role] = Nil
    BY <1>5 DEF CoordRestart, Restart, EachRole
  <2> QED
    BY <1>0, <2>1 DEF SerialInv
<1>6. CASE UNCHANGED vars
  BY <1>0, <1>6, SerialFrame DEF vars, coordVars, recordVars
<1> QED
  BY <1>1, <1>2, <1>3, <1>4, <1>5, <1>6 DEF Next

\* Started one after the other, accepted servers are on the record that their
\* heartbeats reach, through any crashes and restarts, the coordinator's included.
THEOREM ClusterBeatsWhereRegistered ==
    ASSUME SerialStart
    PROVE  Spec => []BeatsWhereRegistered
<1>1. Init => SerialInv
  <2> SUFFICES ASSUME Init PROVE SerialInv
    OBVIOUS
  <2>1. TypeOK
    BY InitTyped DEF Init
  <2> QED
    BY <2>1 DEF Init, CoordInit, EachRole, SerialInv
<1>2. SerialInv /\ [Next]_vars => SerialInv'
  BY StepSerial
<1>3. SerialInv => BeatsWhereRegistered
  BY DEF SerialInv, BeatsWhereRegistered, TypeOK
<1> QED
  BY <1>1, <1>2, <1>3, PTL DEF Spec

-----------------------------------------------------------------------------
(* Who is believed alive has an address *)

\* The record a server's heartbeats reach has an address for its role.
Placed(s) == c_map[IdOf[s]] # Nil /\ addr[c_map[IdOf[s]]][RoleOf[s]] # Nil

\* Who beats was answered, who was answered is on the record its beats reach, and
\* so every record that counts a beat, or is believed alive, has an address.
LiveInv ==
    /\ SerialInv
    /\ beating \in [Servers -> BOOLEAN]
    /\ \A s \in Servers : beating[s] \/ spawn_pc[s] = "reply" => Placed(s)
    /\ \A r \in Recs, role \in Roles :
         live[r][role] \/ beats[r][role] > 0 => addr[r][role] # Nil

\* Initially nobody beats and no record has an address.
LEMMA InitLive == Init => LiveInv
<1> SUFFICES ASSUME Init PROVE LiveInv
  OBVIOUS
<1>1. SerialInv
  BY InitTyped DEF Init, CoordInit, EachRole, SerialInv
<1> QED
  BY <1>1 DEF Init, CoordInit, EachRole, LiveInv

\* A step that leaves the records, the handlers and the heartbeat threads alone,
\* or ends some of these.
LEMMA LiveFrame ==
    ASSUME LiveInv, SerialInv', UNCHANGED <<c_map, addr, live, beats, spawn_pc>>,
           beating' \in [Servers -> BOOLEAN],
           \A s \in Servers : beating'[s] => beating[s]
    PROVE  LiveInv'
BY DEF LiveInv, Placed

\* The steps of a handler.
LEMMA HandlerLive ==
    ASSUME LiveInv, SerialInv', NEW s \in Servers,
           SpawnInsert(s) \/ SpawnReject(s) \/ SpawnAccept(s), UNCHANGED beating
    PROVE  LiveInv'
<1> USE IdsAssumption, NilAssumption, RolesAssumption
<1>0. TypeOK /\ TypeOK' /\ SerialInv
  BY DEF LiveInv, SerialInv
<1>1. CASE SpawnInsert(s)
  <2>1. PICK n \in Recs : c_map' = [c_map EXCEPT ![IdOf[s]] = n]
    BY <1>1 DEF SpawnInsert
  <2>2. /\ c_map[IdOf[s]] = Nil
        /\ spawn_pc' = [spawn_pc EXCEPT ![s] = "lock"]
        /\ UNCHANGED <<addr, live, beats>>
    BY <1>0, <1>1 DEF SpawnInsert, SerialInv, recordVars
  <2>3. ASSUME NEW t \in Servers, Placed(t) PROVE Placed(t)'
    <3>1. IdOf[t] # IdOf[s]
      BY <2>2, <2>3 DEF Placed
    <3> QED
      BY <1>0, <2>1, <2>2, <2>3, <3>1 DEF Placed, TypeOK
  <2>4. \A t \in Servers : spawn_pc'[t] = "reply" => spawn_pc[t] = "reply"
    BY <1>0, <2>2 DEF TypeOK
  <2> QED
    BY <2>2, <2>3, <2>4 DEF LiveInv
<1>2. CASE SpawnReject(s)
  <2>1. /\ spawn_pc[s] = "lock" /\ live[spawn_cif[s]][RoleOf[s]]
        /\ spawn_pc' = [spawn_pc EXCEPT ![s] = "reply"]
        /\ UNCHANGED <<c_map, addr, live, beats>>
    BY <1>2 DEF SpawnReject, recordVars
  <2>2. spawn_cif[s] \in Recs /\ spawn_cif[s] = c_map[IdOf[s]]
    BY <1>0, <2>1 DEF TypeOK, SerialInv
  <2>3. Placed(s)
    BY <2>1, <2>2 DEF LiveInv, Placed
  <2>4. \A t \in Servers : spawn_pc'[t] = "reply" => spawn_pc[t] = "reply" \/ t = s
    BY <1>0, <2>1 DEF TypeOK
  <2> QED
    BY <2>1, <2>3, <2>4 DEF LiveInv, Placed
<1>3. CASE SpawnAccept(s)
  <2>1. PICK n \in Recs : n = spawn_cif[s] /\ n = c_map[IdOf[s]]
    BY <1>0, <1>3 DEF SpawnAccept, TypeOK, SerialInv
  <2>2. /\ addr' = [addr EXCEPT ![n][RoleOf[s]] = s]
        /\ live' = [live EXCEPT ![n][RoleOf[s]] = TRUE]
        /\ spawn_pc' = [spawn_pc EXCEPT ![s] = "reply"]
        /\ UNCHANGED <<c_map, beats>>
    BY <1>3, <2>1 DEF SpawnAccept
  <2>3. ASSUME NEW r \in Recs, NEW role \in Roles
        PROVE  /\ addr[r][role] # Nil => addr'[r][role] # Nil
               /\ live'[r][role] => live[r][role] \/ addr'[r][role] # Nil
               /\ r = n /\ role = RoleOf[s] => addr'[r][role] # Nil
    BY <1>0, <2>2 DEF TypeOK
  <2>4. ASSUME NEW t \in Servers, Placed(t) PROVE Placed(t)'
    <3>1. c_map[IdOf[t]] \in Recs
      BY <1>0, <2>4 DEF Placed, TypeOK
    <3> QED
      BY <2>2, <2>3, <2>4, <3>1 DEF Placed
  <2>5. Placed(s)'
    BY <2>1, <2>2, <2>3 DEF Placed
  <2>6. \A t \in Servers : spawn_pc'[t] = "reply" => spawn_pc[t] = "reply" \/ t = s
    BY <1>0, <2>2 DEF TypeOK
  <2> QED
    BY <2>2, <2>3, <2>4, <2>5, <2>6 DEF LiveInv
<1> QED
  BY <1>1, <1>2, <1>3

\* A heartbeat is counted where the server has its address.
LEMMA BeatLive ==
    ASSUME LiveInv, SerialInv', NEW s \in Servers, beating[s],
           Gucci(IdOf[s], RoleOf[s]), UNCHANGED beating
    PROVE  LiveInv'
<1> USE IdsAssumption, RolesAssumption, NilAssumption
<1>0. TypeOK /\ Placed(s)
  BY DEF LiveInv, SerialInv
<1>1. PICK n \in Recs : n = c_map[IdOf[s]]
  BY <1>0 DEF Placed, TypeOK
<1>2. /\ beats' = [beats EXCEPT ![n][RoleOf[s]] = @ + 1]
      /\ UNCHANGED <<c_map, addr, live, spawn_pc>>
  BY <1>1 DEF Gucci, spawnVars
<1>3. ASSUME NEW r \in Recs, NEW role \in Roles
      PROVE  beats'[r][role] = beats[r][role] \/ (r = n /\ role = RoleOf[s])
  BY <1>0, <1>2 DEF TypeOK
<1>4. addr[n][RoleOf[s]] # Nil
  BY <1>0, <1>1 DEF Placed
<1>5. \A r \in Recs, role \in Roles :
        live'[r][role] \/ beats'[r][role] > 0 => addr'[r][role] # Nil
  BY <1>2, <1>3, <1>4 DEF LiveInv
<1> QED
  BY <1>2, <1>5 DEF LiveInv, Placed

\* A turn of a checking thread wakes nobody that was not alive and has not beaten.
LEMMA TurnLive ==
    ASSUME LiveInv, SerialInv', NEW w \in Watchers, checkCluster(w), UNCHANGED beating
    PROVE  LiveInv'
<1> DEFINE after(r, role) == Checked(live[r][role], beats[r][role], seen[w][role])
<1>0. TypeOK
  BY DEF LiveInv, SerialInv
<1>1. PICK n \in Recs : n = watch[w]
  BY <1>0 DEF checkCluster, TypeOK
<1>2. /\ live'  = [live  EXCEPT ![n] = [role \in Roles |-> after(n, role).live]]
      /\ beats' = [beats EXCEPT ![n] = [role \in Roles |-> after(n, role).beats]]
      /\ UNCHANGED <<c_map, addr, spawn_pc>>
  BY <1>1 DEF checkCluster, spawnVars
<1>3. ASSUME NEW r \in Recs, NEW role \in Roles, live'[r][role] \/ beats'[r][role] > 0
      PROVE  live[r][role] \/ beats[r][role] > 0
  <2>1. CASE r # n
    BY <1>0, <1>2, <1>3, <2>1 DEF TypeOK
  <2>2. CASE r = n
    <3>1. live'[r][role] = after(r, role).live /\ beats'[r][role] = after(r, role).beats
      BY <1>0, <1>2, <2>2 DEF TypeOK
    <3>2. beats[r][role] \in Nat /\ live[r][role] \in BOOLEAN
      BY <1>0 DEF TypeOK
    <3> QED
      BY <1>3, <3>1, <3>2 DEF Checked
  <2> QED
    BY <2>1, <2>2
<1> QED
  BY <1>2, <1>3 DEF LiveInv, Placed

\* What a server does, as long as its ClusterSpawn arrives.
LEMMA ServerLive ==
    ASSUME LiveInv, SerialInv', NEW s \in Servers,
           \/ ServerStart(s) \/ SpawnHandler(s) \/ ReceiveReply(s) \/ Poke(s) \/ Serve(s)
           \/ Heartbeat(s) \/ HeartbeatLost(s) \/ ServerCrash(s)
    PROVE  LiveInv'
<1>0. SerialInv /\ beating \in [Servers -> BOOLEAN]
  BY DEF LiveInv
<1>1. CASE ServerStart(s)
  <2>1. /\ UNCHANGED <<c_map, addr, live, beats, beating>>
        /\ \A t \in Servers : spawn_pc'[t] = "reply" => spawn_pc[t] = "reply"
    BY <1>0, <1>1 DEF ServerStart, SpawnLookup, recordVars, SerialInv, TypeOK
  <2> QED
    BY <1>0, <2>1 DEF LiveInv, Placed
<1>2. CASE SpawnHandler(s)
  BY <1>0, <1>2, HandlerLive DEF SpawnHandler, serverVars
<1>3. CASE ReceiveReply(s)
  <2>1. /\ spawn_pc[s] = "reply" /\ spawn_pc' = [spawn_pc EXCEPT ![s] = "idle"]
        /\ UNCHANGED <<c_map, addr, live, beats>>
        /\ beating' = beating \/ beating' = [beating EXCEPT ![s] = TRUE]
    BY <1>3 DEF ReceiveReply, SpawnReply, recordVars, serverVars
  <2>2. Placed(s)
    BY <2>1 DEF LiveInv
  <2>3. \A t \in Servers : spawn_pc'[t] = "reply" => spawn_pc[t] = "reply"
    BY <1>0, <2>1 DEF SerialInv, TypeOK
  <2> QED
    BY <1>0, <2>1, <2>2, <2>3 DEF LiveInv, Placed
<1>4. CASE Heartbeat(s)
  <2>1. CASE c_map[IdOf[s]] # Nil
    BY <1>0, <1>4, <2>1, BeatLive DEF Heartbeat
  <2>2. CASE c_map[IdOf[s]] = Nil
    BY <1>0, <1>4, <2>2, LiveFrame DEF Heartbeat, coordVars, recordVars, spawnVars
  <2> QED
    BY <2>1, <2>2
<1>5. CASE HeartbeatLost(s) \/ ServerCrash(s)
  BY <1>0, <1>5, LiveFrame DEF HeartbeatLost, ServerCrash, coordVars, recordVars, spawnVars
<1>6. CASE Poke(s) \/ Serve(s)
  BY <1>0, <1>6, LiveFrame DEF Poke, Serve, coordVars, recordVars, spawnVars
<1> QED
  BY <1>1, <1>2, <1>3, <1>4, <1>5, <1>6

\* As long as every ClusterSpawn arrives and the coordinator lives.
LEMMA StepLive ==
    ASSUME SerialStart, "coord" \notin Faults, "rpc" \notin Faults, LiveInv, [Next]_vars
    PROVE  LiveInv'
<1>0. SerialInv' /\ SerialInv /\ beating \in [Servers -> BOOLEAN]
  BY StepSerial DEF LiveInv
<1>1. ASSUME NEW s \in Servers, ServerNext(s) PROVE LiveInv'
  <2>1. ~SpawnLost(s)
    BY DEF SpawnLost, Fault
  <2> QED
    BY <1>0, <1>1, <2>1, ServerLive DEF ServerNext
<1>2. ASSUME NEW f \in Syncs, SyncNext(f) PROVE LiveInv'
  BY <1>0, <1>2, LiveFrame
     DEF SyncNext, SyncStart, SyncStartLost, SyncListen, SyncCrash, FollowerSpawn,
         coordVars, recordVars, spawnVars, serverVars
<1>3. ASSUME NEW c \in Clients, ClientNext(c) PROVE LiveInv'
  BY <1>0, <1>3, LiveFrame
     DEF ClientNext, Connect, Login, Renew, RenewLost, ClientExit, GetConnection,
         coordVars, recordVars, spawnVars, serverVars
<1>4. ASSUME NEW w \in Watchers, CoordTick(w) PROVE LiveInv'
  BY <1>0, <1>4, TurnLive DEF CoordTick, serverVars
<1>5. ~CoordRestart
  BY DEF CoordRestart, Fault
<1>6. CASE UNCHANGED vars
  BY <1>0, <1>6, LiveFrame DEF vars, coordVars, recordVars, spawnVars, serverVars
<1> QED
  BY <1>1, <1>2, <1>3, <1>4, <1>5, <1>6 DEF Next

\* Where servers are started one after the other, every ClusterSpawn arrives and the
\* coordinator keeps its memory, nobody is believed alive who has no address.
THEOREM ClusterLiveHasAddress ==
    ASSUME SerialStart, "coord" \notin Faults, "rpc" \notin Faults
    PROVE  Spec => []LiveHasAddress
<1>1. Init => LiveInv
  BY InitLive
<1>2. LiveInv /\ [Next]_vars => LiveInv'
  BY StepLive
<1>3. LiveInv => LiveHasAddress
  BY DEF LiveInv, LiveHasAddress
<1> QED
  BY <1>1, <1>2, <1>3, PTL DEF Spec

-----------------------------------------------------------------------------
(* Typing *)

\* The state of the processes without that of the coordinator and the stubs.
ProcessesTyped ==
    /\ beating \in [Servers -> BOOLEAN]
    /\ sync \in [Syncs -> {"down", "spawned", "listening"}]
    /\ client_ids \in [Syncs -> SUBSET Clients]
    /\ cli \in [Clients -> {"off", "login", "on"}]
    /\ faults \in 0..MaxFaults

\* A newClient call reaches a synchronizer or nobody.
LEMMA NewClientTyped ==
    ASSUME ProcessesTyped, TypeOK, NEW c \in Clients, newClient(c)
    PROVE  client_ids' \in [Syncs -> SUBSET Clients]
<1>1. Registrar(c) \in Syncs \cup {Nil}
  <2>1. c_map[ServerID(c)] \in Recs \cup {Nil}
    BY IdsAssumption DEF TypeOK
  <2> QED
    BY <2>1 DEF Registrar, TypeOK
<1>2. \/ client_ids' = client_ids
      \/ /\ Registrar(c) \in Syncs
         /\ client_ids' = [client_ids EXCEPT ![Registrar(c)] = @ \cup {c}]
  BY <1>1 DEF newClient
<1> QED
  BY <1>2 DEF ProcessesTyped

\* Every step of every process keeps its state well formed.
LEMMA StepProcesses ==
    ASSUME ProcessesTyped, TypeOK, [Next]_vars
    PROVE  ProcessesTyped'
<1> USE FaultsAssumption
<1>0. \A kind : Fault(kind) => faults' \in 0..MaxFaults
  BY DEF Fault, ProcessesTyped
<1>1. ASSUME NEW s \in Servers, ServerNext(s) PROVE ProcessesTyped'
  <2>1. UNCHANGED <<syncVars, cliVars>>
    BY <1>1
       DEF ServerNext, ServerStart, SpawnHandler, ReceiveReply, SpawnLost, Poke, Serve,
           Heartbeat, HeartbeatLost, ServerCrash
  <2>2. faults' \in 0..MaxFaults
    BY <1>0, <1>1
       DEF ServerNext, ServerStart, SpawnHandler, ReceiveReply, SpawnLost, Poke, Serve,
           Heartbeat, HeartbeatLost, ServerCrash, ProcessesTyped
  <2>3. PICK b \in BOOLEAN : beating' = beating \/ beating' = [beating EXCEPT ![s] = b]
    BY <1>1
       DEF ServerNext, ServerStart, SpawnHandler, ReceiveReply, SpawnLost, Poke, Serve,
           Heartbeat, HeartbeatLost, ServerCrash, serverVars
  <2> QED
    BY <2>1, <2>2, <2>3 DEF ProcessesTyped, syncVars, cliVars
<1>2. ASSUME NEW f \in Syncs, SyncNext(f) PROVE ProcessesTyped'
  <2>1. /\ UNCHANGED <<serverVars, cliVars>>
        /\ faults' \in 0..MaxFaults
    BY <1>0, <1>2
       DEF SyncNext, SyncStart, SyncStartLost, SyncListen, SyncCrash, ProcessesTyped
  <2>2. sync' \in [Syncs -> {"down", "spawned", "listening"}]
    BY <1>2 DEF SyncNext, SyncStart, SyncStartLost, SyncListen, SyncCrash, ProcessesTyped
  <2>3. client_ids' = client_ids \/ client_ids' = [client_ids EXCEPT ![f] = {}]
    BY <1>2 DEF SyncNext, SyncStart, SyncStartLost, SyncListen, SyncCrash
  <2> QED
    BY <2>1, <2>2, <2>3 DEF ProcessesTyped, serverVars, cliVars
<1>3. ASSUME NEW c \in Clients, ClientNext(c) PROVE ProcessesTyped'
  <2>1. /\ UNCHANGED <<serverVars, sync>>
        /\ faults' \in 0..MaxFaults
    BY <1>0, <1>3
       DEF ClientNext, Connect, Login, Renew, RenewLost, ClientExit, ProcessesTyped, syncVars
  <2>2. cli' \in [Clients -> {"off", "login", "on"}]
    BY <1>3 DEF ClientNext, Connect, Login, Renew, RenewLost, ClientExit, ProcessesTyped
  <2>3. client_ids' \in [Syncs -> SUBSET Clients]
    <3>1. CASE Connect(c) \/ Renew(c)
      BY <3>1, NewClientTyped DEF Connect, Renew
    <3>2. CASE Login(c) \/ RenewLost(c) \/ ClientExit(c)
      BY <3>2 DEF Login, RenewLost, ClientExit, syncVars, ProcessesTyped
    <3> QED
      BY <1>3, <3>1, <3>2 DEF ClientNext
  <2> QED
    BY <2>1, <2>2, <2>3 DEF ProcessesTyped, serverVars
<1>4. ASSUME NEW w \in Watchers, CoordTick(w) PROVE ProcessesTyped'
  BY <1>4 DEF CoordTick, ProcessesTyped, serverVars, syncVars, cliVars
<1>5. CASE CoordRestart
  BY <1>0, <1>5 DEF CoordRestart, ProcessesTyped, syncVars, cliVars
<1>6. CASE UNCHANGED vars
  BY <1>6 DEF vars, ProcessesTyped, serverVars, syncVars, cliVars
<1> QED
  BY <1>1, <1>2, <1>3, <1>4, <1>5, <1>6 DEF Next

\* Coordinator, servers, synchronizers and clients keep the shape of their state,
\* whatever goes wrong.
THEOREM ClusterTyped == Spec => []ClusterTypeOK
<1>1. Init => StubInv /\ ProcessesTyped
  BY InitStubs, FaultsAssumption DEF Init, ProcessesTyped
<1>2. StubInv /\ ProcessesTyped /\ [Next]_vars => StubInv' /\ ProcessesTyped'
  BY StepStubs, StepProcesses DEF StubInv, HomeInv
<1>3. StubInv /\ ProcessesTyped => ClusterTypeOK
  BY DEF StubInv, HomeInv, ProcessesTyped, ClusterTypeOK
<1> QED
  BY <1>1, <1>2, <1>3, PTL DEF Spec
=============================================================================
