---------------------------- MODULE ClockProofs ----------------------------
(***************************************************************************)
(* Who is believed dead, and when: the pace of heartbeats and checks, for  *)
(* every number of servers, clusters, threads, periods, slips and crashes. *)
(***************************************************************************)
EXTENDS ClusterClock, ClusterProofs

\* A step in its period is a step of the cluster, and none that loses a call or
\* restarts the coordinator.
LEMMA PacedStepRefines == [PacedNext]_pacedVars => [Next]_vars
<1> SUFFICES ASSUME [PacedNext]_pacedVars PROVE [Next]_vars
  OBVIOUS
<1>1. ASSUME NEW s \in Servers,
             \/ PacedStart(s) \/ PacedHandler(s) \/ PacedReply(s)
             \/ PacedHeartbeat(s) \/ PacedCrash(s)
      PROVE  Next
  BY <1>1
     DEF PacedStart, PacedHandler, PacedReply, PacedHeartbeat, PacedCrash, ServerNext, Next
<1>2. ASSUME NEW w \in Watchers, PacedTick(w) PROVE Next
  BY <1>2 DEF PacedTick, Next
<1>3. CASE Unpaced
  BY <1>3 DEF Unpaced, ServerNext, Next
<1>4. CASE EndPeriod \/ Horizon \/ UNCHANGED pacedVars
  BY <1>4 DEF EndPeriod, Horizon, pacedVars
<1> QED
  BY <1>1, <1>2, <1>3, <1>4 DEF PacedNext

-----------------------------------------------------------------------------
(* What is known of the cluster without its pace *)

GroundInv == StubInv /\ LiveInv /\ WatchInv

\* Initially nothing runs.
LEMMA InitGround == PacedInit => GroundInv
<1>1. PacedInit => Init /\ CoordInit
  BY DEF PacedInit, Init
<1> QED
  BY <1>1, InitStubs, InitLive, InitWatched DEF GroundInv

\* Every step keeps what the proofs of the cluster rest on.
LEMMA StepGround ==
    ASSUME SerialStart, GroundInv, [PacedNext]_pacedVars
    PROVE  GroundInv'
<1>1. [Next]_vars /\ [CoordNext]_coordVars
  BY PacedStepRefines, StepRefines
<1>2. StubInv' /\ WatchInv'
  BY <1>1, StepStubs, StepWatched DEF GroundInv
<1>3. SerialInv'
  BY <1>1, StepSerial DEF GroundInv, LiveInv
<1>4. LiveInv'
  <2>1. LiveInv /\ beating \in [Servers -> BOOLEAN]
    BY DEF GroundInv, LiveInv
  <2>2. ASSUME NEW s \in Servers,
               \/ PacedStart(s) \/ PacedHandler(s) \/ PacedReply(s)
               \/ PacedHeartbeat(s) \/ PacedCrash(s)
        PROVE  LiveInv'
    BY <1>3, <2>1, <2>2, ServerLive
       DEF PacedStart, PacedHandler, PacedReply, PacedHeartbeat, PacedCrash
  <2>3. ASSUME NEW w \in Watchers, PacedTick(w) PROVE LiveInv'
    BY <1>3, <2>1, <2>3, TurnLive DEF PacedTick, CoordTick, serverVars
  <2>4. CASE Unpaced
    BY <1>3, <2>1, <2>4, ServerLive DEF Unpaced
  <2>5. CASE UNCHANGED vars
    BY <1>3, <2>1, <2>5, LiveFrame DEF vars, coordVars, recordVars, spawnVars, serverVars
  <2> QED
    BY <2>2, <2>3, <2>4, <2>5 DEF PacedNext, EndPeriod, Horizon, pacedVars
<1> QED
  BY <1>2, <1>4 DEF GroundInv

-----------------------------------------------------------------------------
(* Typing *)

ClockTyped ==
    /\ due \in [Servers -> {"no", "first", "next"}]
    /\ turn \subseteq Watchers
    /\ heard \subseteq Servers
    /\ missed \in [Servers -> Nat]
    /\ starts \in [Servers -> Nat]
    /\ accepted \subseteq Servers
    /\ slips \in [Servers -> Nat]

\* Every step keeps the clock well formed.
LEMMA StepClock ==
    ASSUME TypeOK, ClockTyped, [PacedNext]_pacedVars
    PROVE  ClockTyped'
<1>1. ASSUME NEW s \in Servers, PacedStart(s) PROVE ClockTyped'
  BY <1>1 DEF PacedStart, ServerStart, SpawnLookup, watchVars, ClockTyped
<1>2. ASSUME NEW s \in Servers, PacedHandler(s) PROVE ClockTyped'
  BY <1>2 DEF PacedHandler, ClockTyped
<1>3. ASSUME NEW s \in Servers, PacedReply(s) PROVE ClockTyped'
  BY <1>3 DEF PacedReply, ReceiveReply, SpawnReply, watchVars, ClockTyped
<1>4. ASSUME NEW s \in Servers, PacedHeartbeat(s) PROVE ClockTyped'
  BY <1>4 DEF PacedHeartbeat, Heartbeat, Gucci, coordVars, watchVars, ClockTyped
<1>5. ASSUME NEW s \in Servers, PacedCrash(s) PROVE ClockTyped'
  BY <1>5 DEF PacedCrash, ServerCrash, coordVars, watchVars, ClockTyped
<1>6. ASSUME NEW w \in Watchers, PacedTick(w) PROVE ClockTyped'
  BY <1>6 DEF PacedTick, CoordTick, checkCluster, ClockTyped
<1>7. CASE Unpaced
  BY <1>7 DEF Unpaced, Poke, Serve, coordVars, watchVars, clockVars, ClockTyped
<1>8. CASE EndPeriod
  BY <1>8 DEF EndPeriod, vars, coordVars, watchVars, ClockTyped
<1>9. CASE UNCHANGED pacedVars
  BY <1>9 DEF pacedVars, vars, coordVars, watchVars, clockVars, ClockTyped
<1> QED
  BY <1>1, <1>2, <1>3, <1>4, <1>5, <1>6, <1>7, <1>8, <1>9 DEF PacedNext, Horizon

-----------------------------------------------------------------------------
(* A server's life *)

\* the record of a server's cluster
Rec(s) == c_map[IdOf[s]]

\* the handler of its ClusterSpawn has yet to decide
Spawning(s) == spawn_pc[s] \in {"insert", "lock"}

\* A server beats from the reply on until it crashes, its beat is due or was heard, it
\* has missed nothing while it is heard or comes up, and is called by nobody before
\* it listens.
Paced(s) ==
    /\ beating[s] <=> proc[s] \in {"poking", "building", "serving"}
    /\ spawn_pc[s] # "idle" => proc[s] \in {"down", "spawning"}
    /\ proc[s] = "spawning" => spawn_pc[s] # "idle"
    /\ due[s] # "no" => beating[s]
    /\ beating[s] /\ due[s] = "no" => s \in heard
    /\ \/ s \in heard \/ due[s] = "first" \/ spawn_pc[s] # "idle"
       \/ proc[s] \notin {"down", "serving"}
       => missed[s] = 0
    /\ starts[s] = 0 => proc[s] = "down" /\ spawn_pc[s] = "idle"
    /\ s \in accepted => proc[s] # "down" /\ ~Spawning(s)
    /\ proc[s] \in {"down", "spawning"} => s_stub[s] = Nil

Turns == \A w \in turn : watch[w] # Nil

PacedInv ==
    /\ GroundInv
    /\ ClockTyped
    /\ Turns
    /\ \A s \in Servers : Paced(s)

\* What the proofs below use of the state's shape.
LEMMA PacedTyped ==
    ASSUME PacedInv
    PROVE  /\ TypeOK /\ HomeInv /\ SerialInv /\ ClockTyped /\ WatchedMaster
           /\ beating \in [Servers -> BOOLEAN]
           /\ s_stub \in [Servers -> Servers \cup {Nil}]
           /\ proc \in [Servers -> {"down", "spawning", "poking", "building", "serving"}]
BY DEF PacedInv, GroundInv, StubInv, HomeInv, LiveInv, WatchInv

\* A server that beats finds its record.
LEMMA BeatCounted ==
    ASSUME PacedInv, NEW s \in Servers, PacedHeartbeat(s)
    PROVE  /\ due[s] # "no" /\ beating[s]
           /\ Rec(s) \in Recs
           /\ beats' = [beats EXCEPT ![Rec(s)][RoleOf[s]] = @ + 1]
           /\ due' = [due EXCEPT ![s] = "no"]
           /\ heard' = heard \cup {s}
           /\ missed' = [missed EXCEPT ![s] = 0]
           /\ UNCHANGED <<c_map, alloc, addr, live, watch, seen, spawn_pc, spawn_cif,
                          spawn_resp, proc, beating, s_stub, turn, starts, accepted, slips>>
<1>1. beating[s] /\ Placed(s)
  BY DEF PacedHeartbeat, Heartbeat, PacedInv, GroundInv, LiveInv
<1>2. Rec(s) \in Recs
  BY <1>1, PacedTyped, IdsAssumption DEF Placed, Rec, TypeOK
<1> QED
  BY <1>1, <1>2, NilAssumption
     DEF PacedHeartbeat, Heartbeat, Gucci, Rec, watchVars, spawnVars

\* Every step keeps a server's life in order.
LEMMA StepPaced ==
    ASSUME SerialStart, PacedInv, [PacedNext]_pacedVars, NEW s \in Servers
    PROVE  Paced(s)'
<1>0. /\ TypeOK /\ SerialInv /\ ClockTyped /\ Paced(s)
      /\ beating \in [Servers -> BOOLEAN]
      /\ s_stub \in [Servers -> Servers \cup {Nil}]
      /\ proc \in [Servers -> {"down", "spawning", "poking", "building", "serving"}]
  BY PacedTyped DEF PacedInv
<1>1. ASSUME NEW t \in Servers, PacedStart(t) PROVE Paced(s)'
  <2>1. /\ proc[t] = "down" /\ spawn_pc[t] = "idle"
        /\ proc' = [proc EXCEPT ![t] = "spawning"]
        /\ \/ spawn_pc' = [spawn_pc EXCEPT ![t] = "insert"]
           \/ spawn_pc' = [spawn_pc EXCEPT ![t] = "lock"]
        /\ missed' = [missed EXCEPT ![t] = 0]
        /\ starts' = [starts EXCEPT ![t] = @ + 1]
        /\ UNCHANGED <<beating, s_stub, due, heard, accepted>>
    BY <1>1 DEF PacedStart, ServerStart, SpawnLookup
  <2> QED
    BY <1>0, <2>1 DEF Paced, Spawning, TypeOK, ClockTyped
<1>2. ASSUME NEW t \in Servers, PacedHandler(t) PROVE Paced(s)'
  <2>1. /\ spawn_pc[t] \in {"insert", "lock"}
        /\ \/ spawn_pc' = [spawn_pc EXCEPT ![t] = "lock"] /\ live' = live
           \/ spawn_pc' = [spawn_pc EXCEPT ![t] = "reply"]
        /\ accepted' = IF proc[t] = "spawning" /\ live' # live
                       THEN accepted \cup {t} ELSE accepted
        /\ UNCHANGED <<proc, beating, s_stub, due, heard, missed, starts>>
    BY <1>2
       DEF PacedHandler, SpawnHandler, SpawnInsert, SpawnReject, SpawnAccept, recordVars,
           serverVars
  <2> QED
    BY <1>0, <2>1 DEF Paced, Spawning, TypeOK, ClockTyped
<1>3. ASSUME NEW t \in Servers, PacedReply(t) PROVE Paced(s)'
  <2>1. /\ spawn_pc[t] = "reply"
        /\ spawn_pc' = [spawn_pc EXCEPT ![t] = "idle"]
        /\ UNCHANGED <<heard, missed, starts, accepted>>
    BY <1>3 DEF PacedReply, ReceiveReply, SpawnReply
  <2>2. CASE proc[t] = "spawning"
    <3>1. /\ \/ proc' = [proc EXCEPT ![t] = "building"]
             \/ proc' = [proc EXCEPT ![t] = "poking"]
          /\ beating' = [beating EXCEPT ![t] = TRUE]
          /\ s_stub' = [s_stub EXCEPT ![t] = spawn_resp[t]]
          /\ due' = [due EXCEPT ![t] = "first"]
      BY <1>0, <1>3, <2>2 DEF PacedReply, ReceiveReply
    <3> QED
      BY <1>0, <2>1, <2>2, <3>1 DEF Paced, Spawning, TypeOK, ClockTyped
  <2>3. CASE proc[t] # "spawning"
    <3>1. proc[t] = "down" /\ ~beating[t]
      BY <2>1, <2>3, PacedTyped DEF PacedInv, Paced
    <3>2. UNCHANGED <<proc, beating, s_stub, due>>
      BY <1>3, <2>3, <3>1 DEF PacedReply, ReceiveReply, serverVars
    <3> QED
      BY <1>0, <2>1, <3>1, <3>2 DEF Paced, Spawning, TypeOK, ClockTyped
  <2> QED
    BY <2>2, <2>3
<1>4. ASSUME NEW t \in Servers, PacedHeartbeat(t) PROVE Paced(s)'
  BY <1>0, <1>4, BeatCounted DEF Paced, Spawning, ClockTyped
<1>5. ASSUME NEW t \in Servers, PacedCrash(t) PROVE Paced(s)'
  <2>1. /\ proc[t] # "down"
        /\ proc' = [proc EXCEPT ![t] = "down"]
        /\ beating' = [beating EXCEPT ![t] = FALSE]
        /\ s_stub' = [s_stub EXCEPT ![t] = Nil]
        /\ due' = [due EXCEPT ![t] = "no"]
        /\ accepted' = accepted \ {t}
        /\ UNCHANGED <<spawn_pc, heard, missed, starts>>
    BY <1>5 DEF PacedCrash, ServerCrash, coordVars, spawnVars
  <2> QED
    BY <1>0, <2>1 DEF Paced, Spawning, TypeOK, ClockTyped
<1>6. ASSUME NEW w \in Watchers, PacedTick(w) PROVE Paced(s)'
  BY <1>0, <1>6
     DEF PacedTick, CoordTick, checkCluster, serverVars, spawnVars, Paced, Spawning
<1>7. CASE Unpaced
  <2>1. PICK t \in Servers : Poke(t) \/ Serve(t)
    BY <1>7 DEF Unpaced
  <2>2. /\ proc[t] \in {"poking", "building"}
        /\ \/ proc' = [proc EXCEPT ![t] = "building"]
           \/ proc' = [proc EXCEPT ![t] = "serving"] /\ proc[t] = "building"
        /\ UNCHANGED <<spawn_pc, beating, due, heard, missed, starts, accepted>>
    BY <1>7, <2>1 DEF Unpaced, Poke, Serve, coordVars, spawnVars, clockVars
  <2>3. proc[s] \in {"down", "spawning"} => s_stub'[s] = s_stub[s]
    BY <1>0, <2>1 DEF Poke, Serve
  <2> QED
    BY <1>0, <2>2, <2>3 DEF Paced, Spawning
<1>8. CASE EndPeriod
  <2>1. /\ proc[s] \in {"down", "serving"} /\ spawn_pc[s] = "idle"
        /\ due'[s] = IF beating[s] THEN "next" ELSE "no"
        /\ due[s] # "no" => due[s] = "next"
        /\ missed'[s] = IF s \in heard THEN 0 ELSE missed[s] + 1
        /\ heard' = {}
        /\ UNCHANGED <<proc, beating, s_stub, spawn_pc, starts, accepted>>
    BY <1>8 DEF EndPeriod, vars, coordVars, spawnVars, serverVars
  <2> QED
    BY <1>0, <2>1 DEF Paced, Spawning
<1>9. CASE UNCHANGED pacedVars
  BY <1>0, <1>9 DEF pacedVars, vars, coordVars, spawnVars, serverVars, clockVars, Paced, Spawning
<1> QED
  BY <1>1, <1>2, <1>3, <1>4, <1>5, <1>6, <1>7, <1>8, <1>9 DEF PacedNext, Horizon

\* Only a thread that runs has a turn.
LEMMA StepTurns ==
    ASSUME PacedInv, [PacedNext]_pacedVars
    PROVE  Turns'
<1>0. TypeOK /\ Turns /\ ClockTyped
  BY PacedTyped DEF PacedInv
<1>1. CASE UNCHANGED <<watch, turn>>
  BY <1>0, <1>1 DEF Turns
<1>2. ASSUME NEW t \in Servers, PacedHandler(t) PROVE Turns'
  <2>1. /\ turn' = turn
        /\ \/ watch' = watch
           \/ \E w \in Watchers, r \in Recs : watch' = [watch EXCEPT ![w] = r]
    BY <1>0, <1>2
       DEF PacedHandler, SpawnHandler, SpawnInsert, SpawnReject, SpawnAccept, StartWatcher,
           watchVars, TypeOK
  <2> QED
    BY <1>0, <2>1, NilAssumption DEF Turns, TypeOK, ClockTyped
<1>3. ASSUME NEW w \in Watchers, PacedTick(w) PROVE Turns'
  BY <1>0, <1>3 DEF PacedTick, CoordTick, checkCluster, Turns
<1>4. CASE EndPeriod
  BY <1>4 DEF EndPeriod, vars, coordVars, watchVars, Turns
<1>5. ASSUME NEW t \in Servers,
             PacedStart(t) \/ PacedReply(t) \/ PacedHeartbeat(t) \/ PacedCrash(t)
      PROVE  Turns'
  BY <1>1, <1>5, BeatCounted
     DEF PacedStart, ServerStart, SpawnLookup, PacedReply, ReceiveReply, SpawnReply,
         PacedCrash, ServerCrash, coordVars, watchVars
<1> QED
  BY <1>1, <1>2, <1>3, <1>4, <1>5
     DEF PacedNext, Unpaced, Poke, Serve, Horizon, pacedVars, vars, coordVars, watchVars,
         clockVars

\* Every step keeps the four.
LEMMA StepPacedInv ==
    ASSUME SerialStart, PacedInv, [PacedNext]_pacedVars
    PROVE  PacedInv'
BY PacedTyped, StepGround, StepClock, StepTurns, StepPaced DEF PacedInv

-----------------------------------------------------------------------------
(* The records and the threads that check them *)

Sole(r)      == \A v, w \in Watchers : watch[v] = r /\ watch[w] = r => v = w
Unwatched(r) == \A w \in Watchers : watch[w] # r

\* What an accepted ClusterSpawn does to the record its heartbeats will reach.
AcceptedOn(s, n) ==
    /\ n = Rec(s)
    /\ ~live[n][RoleOf[s]]
    /\ addr' = [addr EXCEPT ![n][RoleOf[s]] = s]
    /\ live' = [live EXCEPT ![n][RoleOf[s]] = TRUE]
    /\ \/ RoleOf[s] = "slave" /\ UNCHANGED <<watch, seen>>
       \/ /\ RoleOf[s] = "master"
          /\ \E w \in Watchers :
               /\ watch[w] = Nil
               /\ watch' = [watch EXCEPT ![w] = n]
               /\ seen' = [seen EXCEPT ![w] = EachRole(0)]
    /\ spawn_resp' = [spawn_resp EXCEPT ![s] =
                        IF live[n][Partner(RoleOf[s])] THEN addr[n][Partner(RoleOf[s])]
                        ELSE Nil]
    /\ accepted' = IF proc[s] = "spawning" THEN accepted \cup {s} ELSE accepted

\* The three outcomes of a step of a handler.
LEMMA HandlerCases ==
    ASSUME PacedInv, NEW s \in Servers, PacedHandler(s)
    PROVE  /\ Spawning(s)
           /\ \/ SpawnInsert(s) /\ UNCHANGED <<addr, live, watch, seen, spawn_resp, accepted>>
              \/ /\ SpawnReject(s) /\ live[Rec(s)][RoleOf[s]] /\ Rec(s) \in Recs
                 /\ spawn_pc' = [spawn_pc EXCEPT ![s] = "reply"]
                 /\ spawn_resp' = [spawn_resp EXCEPT ![s] = Nil]
                 /\ UNCHANGED <<c_map, addr, live, watch, seen, accepted>>
              \/ /\ SpawnAccept(s) /\ Rec(s) \in Recs /\ AcceptedOn(s, Rec(s))
                 /\ spawn_pc' = [spawn_pc EXCEPT ![s] = "reply"]
                 /\ UNCHANGED <<c_map, alloc>>
           /\ UNCHANGED <<beats, proc, beating, s_stub, due, turn, heard, missed, starts, slips>>
<1>0. TypeOK /\ SerialInv
  BY PacedTyped
<1>1. /\ SpawnInsert(s) \/ SpawnReject(s) \/ SpawnAccept(s)
      /\ accepted' = IF proc[s] = "spawning" /\ live' # live
                     THEN accepted \cup {s} ELSE accepted
      /\ UNCHANGED <<proc, beating, s_stub, due, turn, heard, missed, starts, slips>>
  BY DEF PacedHandler, SpawnHandler, serverVars
<1>2. CASE SpawnInsert(s)
  BY <1>1, <1>2 DEF SpawnInsert, recordVars, watchVars, Spawning
<1>3. ASSUME spawn_pc[s] = "lock" PROVE spawn_cif[s] = Rec(s) /\ Rec(s) \in Recs
  BY <1>0, <1>3 DEF SerialInv, TypeOK, Rec
<1>4. CASE SpawnReject(s)
  BY <1>1, <1>3, <1>4 DEF SpawnReject, recordVars, watchVars, Spawning
<1>5. CASE SpawnAccept(s)
  <2>1. PICK n \in Recs : n = Rec(s) /\ n = spawn_cif[s]
    BY <1>3, <1>5 DEF SpawnAccept
  <2>2. live' = [live EXCEPT ![n][RoleOf[s]] = TRUE] /\ ~live[n][RoleOf[s]]
    BY <1>5, <2>1 DEF SpawnAccept
  <2>3. live' # live
    <3>1. live'[n][RoleOf[s]]
      BY <1>0, <2>2, RolesAssumption DEF TypeOK
    <3> QED
      BY <2>2, <3>1
  <2>4. AcceptedOn(s, n)
    BY <1>1, <1>5, <2>1, <2>2, <2>3, RolesAssumption
       DEF SpawnAccept, StartWatcher, watchVars, AcceptedOn, Roles
  <2> QED
    BY <1>1, <1>5, <2>1, <2>4 DEF SpawnAccept, Spawning
<1> QED
  BY <1>1, <1>2, <1>4, <1>5

\* What Checked makes of one role.
LEMMA CheckedCases ==
    ASSUME NEW l \in BOOLEAN, NEW b \in Nat, NEW n \in Nat
    PROVE  \/ /\ n > b
              /\ ~Checked(l, b, n).live /\ Checked(l, b, n).beats = 0
              /\ Checked(l, b, n).seen = 0
           \/ /\ n =< b /\ (l \/ b > 0)
              /\ Checked(l, b, n).live /\ Checked(l, b, n).beats = b
              /\ Checked(l, b, n).seen = n + 1
           \/ /\ ~l /\ b = 0
              /\ ~Checked(l, b, n).live /\ Checked(l, b, n).beats = 0
              /\ Checked(l, b, n).seen = n
<1>1. CASE n > b
  BY <1>1 DEF Checked
<1>2. CASE ~(n > b) /\ (l \/ b > 0)
  <2>1. n =< b
    BY <1>2
  <2>2. /\ Checked(l, b, n).live /\ Checked(l, b, n).beats = b
        /\ Checked(l, b, n).seen = n + 1
    BY <1>2 DEF Checked
  <2> QED
    BY <1>2, <2>1, <2>2
<1>3. CASE ~(n > b) /\ ~(l \/ b > 0)
  <2>1. ~l /\ b = 0
    BY <1>3
  <2>2. /\ ~Checked(l, b, n).live /\ Checked(l, b, n).beats = 0
        /\ Checked(l, b, n).seen = n
    BY <1>3, <2>1 DEF Checked
  <2> QED
    BY <2>1, <2>2
<1> QED
  BY <1>1, <1>2, <1>3

\* What a turn of a thread does to the record it checks, one role at a time: the role
\* is found dead, is left alive or woken, or sleeps on.
LEMMA TurnCases ==
    ASSUME PacedInv, NEW w \in Watchers, PacedTick(w)
    PROVE  /\ watch[w] \in Recs
           /\ \A role \in Roles :
                \/ /\ seen[w][role] > beats[watch[w]][role]
                   /\ ~live'[watch[w]][role] /\ beats'[watch[w]][role] = 0
                   /\ seen'[w][role] = 0
                \/ /\ seen[w][role] =< beats[watch[w]][role]
                   /\ live[watch[w]][role] \/ beats[watch[w]][role] > 0
                   /\ live'[watch[w]][role]
                   /\ beats'[watch[w]][role] = beats[watch[w]][role]
                   /\ seen'[w][role] = seen[w][role] + 1
                \/ /\ ~live[watch[w]][role] /\ beats[watch[w]][role] = 0
                   /\ ~live'[watch[w]][role] /\ beats'[watch[w]][role] = 0
                   /\ seen'[w][role] = seen[w][role]
           /\ \A r \in Recs : r # watch[w] => live'[r] = live[r] /\ beats'[r] = beats[r]
           /\ \A v \in Watchers : v # w => seen'[v] = seen[v]
           /\ w \in turn /\ turn' = turn \ {w}
           /\ UNCHANGED <<c_map, addr, watch, spawn_pc, spawn_resp, proc, beating, s_stub,
                          due, heard, missed, starts, accepted, slips>>
<1>0. TypeOK
  BY PacedTyped
<1> DEFINE after(r, role) == Checked(live[r][role], beats[r][role], seen[w][role])
<1>1. PICK n \in Recs : n = watch[w]
  BY <1>0 DEF PacedTick, CoordTick, checkCluster, TypeOK
<1>2. /\ live'  = [live  EXCEPT ![n] = [role \in Roles |-> after(n, role).live]]
      /\ beats' = [beats EXCEPT ![n] = [role \in Roles |-> after(n, role).beats]]
      /\ seen'  = [seen  EXCEPT ![w] = [role \in Roles |-> after(n, role).seen]]
  BY <1>1 DEF PacedTick, CoordTick, checkCluster
<1>3. ASSUME NEW role \in Roles
      PROVE  /\ live'[n][role] = after(n, role).live
             /\ beats'[n][role] = after(n, role).beats
             /\ seen'[w][role] = after(n, role).seen
             /\ live[n][role] \in BOOLEAN /\ beats[n][role] \in Nat /\ seen[w][role] \in Nat
  BY <1>0, <1>2 DEF TypeOK
<1>4. ASSUME NEW role \in Roles
      PROVE  \/ /\ seen[w][role] > beats[n][role]
                /\ ~live'[n][role] /\ beats'[n][role] = 0 /\ seen'[w][role] = 0
             \/ /\ seen[w][role] =< beats[n][role]
                /\ live[n][role] \/ beats[n][role] > 0
                /\ live'[n][role] /\ beats'[n][role] = beats[n][role]
                /\ seen'[w][role] = seen[w][role] + 1
             \/ /\ ~live[n][role] /\ beats[n][role] = 0
                /\ ~live'[n][role] /\ beats'[n][role] = 0
                /\ seen'[w][role] = seen[w][role]
  <2> DEFINE l == live[n][role]
             b == beats[n][role]
             t == seen[w][role]
  <2>1. l \in BOOLEAN /\ b \in Nat /\ t \in Nat
    BY <1>3
  <2>2. /\ live'[n][role] = Checked(l, b, t).live
        /\ beats'[n][role] = Checked(l, b, t).beats
        /\ seen'[w][role] = Checked(l, b, t).seen
    BY <1>3
  <2> HIDE DEF l, b, t
  <2>3. \/ t > b /\ ~Checked(l, b, t).live /\ Checked(l, b, t).beats = 0
                 /\ Checked(l, b, t).seen = 0
        \/ t =< b /\ (l \/ b > 0) /\ Checked(l, b, t).live
                  /\ Checked(l, b, t).beats = b /\ Checked(l, b, t).seen = t + 1
        \/ ~l /\ b = 0 /\ ~Checked(l, b, t).live /\ Checked(l, b, t).beats = 0
                      /\ Checked(l, b, t).seen = t
    BY <2>1, CheckedCases
  <2>4. \/ t > b /\ ~live'[n][role] /\ beats'[n][role] = 0 /\ seen'[w][role] = 0
        \/ t =< b /\ (l \/ b > 0) /\ live'[n][role] /\ beats'[n][role] = b
                  /\ seen'[w][role] = t + 1
        \/ ~l /\ b = 0 /\ ~live'[n][role] /\ beats'[n][role] = 0 /\ seen'[w][role] = t
    BY <2>2, <2>3
  <2> QED  BY <2>4 DEF l, b, t
<1>5. /\ \A r \in Recs : r # n => live'[r] = live[r] /\ beats'[r] = beats[r]
      /\ \A v \in Watchers : v # w => seen'[v] = seen[v]
  BY <1>0, <1>2 DEF TypeOK
<1>6. /\ w \in turn /\ turn' = turn \ {w}
      /\ UNCHANGED <<c_map, addr, watch, spawn_pc, spawn_resp, proc, beating, s_stub,
                     due, heard, missed, starts, accepted, slips>>
  BY DEF PacedTick, CoordTick, checkCluster, serverVars, spawnVars
<1> HIDE DEF after
<1> QED
  BY <1>1, <1>4, <1>5, <1>6

\* The steps that leave the records and the threads alone.
LEMMA OtherSteps ==
    ASSUME [PacedNext]_pacedVars
    PROVE  \/ \E s \in Servers : PacedHandler(s) \/ PacedHeartbeat(s)
           \/ \E w \in Watchers : PacedTick(w)
           \/ EndPeriod
           \/ UNCHANGED <<c_map, alloc, addr, live, beats, watch, seen, turn, slips>>
BY DEF PacedNext, PacedStart, ServerStart, SpawnLookup, PacedReply, ReceiveReply, SpawnReply,
       PacedCrash, ServerCrash, Unpaced, Poke, Serve, Horizon, pacedVars, vars, coordVars,
       recordVars, watchVars, clockVars

\* A thread that starts leaves the others with their records.
LEMMA NewWatcher ==
    ASSUME TypeOK, NEW w \in Watchers, watch[w] = Nil, NEW n \in Recs,
           watch' = [watch EXCEPT ![w] = n], NEW r \in Recs, Sole(r)'
    PROVE  Sole(r) /\ (r = n => Unwatched(r))
<1>1. w \in Watchers /\ watch'[w] = n
  BY DEF TypeOK
<1>2. ASSUME NEW v \in Watchers, watch[v] = r PROVE v # w /\ watch'[v] = r
  BY <1>2, NilAssumption DEF TypeOK
<1> QED
  BY <1>1, <1>2 DEF Sole, Unwatched

-----------------------------------------------------------------------------
(* Nobody is believed dead who beats on time *)

\* A thread that is alone with a record counts nothing for a role that is dead.
Asleep ==
    \A w \in Watchers, role \in Roles :
        watch[w] # Nil /\ Sole(watch[w]) /\ ~live[watch[w]][role] => seen[w][role] = 0

LEMMA StepAsleep ==
    ASSUME PacedInv, Asleep, [PacedNext]_pacedVars
    PROVE  Asleep'
<1>0. TypeOK
  BY PacedTyped
<1>1. CASE UNCHANGED <<live, watch, seen>>
  BY <1>1 DEF Asleep, Sole
<1>2. ASSUME NEW s \in Servers, NEW n \in Recs, AcceptedOn(s, n) PROVE Asleep'
  <2>1. ASSUME NEW r \in Recs, NEW role \in Roles, ~live'[r][role] PROVE ~live[r][role]
    BY <1>0, <1>2, <2>1 DEF AcceptedOn, TypeOK
  <2>2. CASE UNCHANGED <<watch, seen>>
    BY <1>0, <2>1, <2>2 DEF Asleep, Sole, TypeOK
  <2>3. ASSUME NEW w \in Watchers, watch[w] = Nil,
               watch' = [watch EXCEPT ![w] = n], seen' = [seen EXCEPT ![w] = EachRole(0)]
        PROVE  Asleep'
    <3> SUFFICES ASSUME NEW v \in Watchers, NEW role \in Roles, watch'[v] # Nil,
                        Sole(watch[v])', ~live'[watch'[v]][role]
                 PROVE  seen'[v][role] = 0
      BY DEF Asleep, Sole
    <3>1. CASE v = w
      BY <1>0, <2>3, <3>1 DEF TypeOK, EachRole
    <3>2. CASE v # w
      <4>1. watch'[v] = watch[v] /\ seen'[v] = seen[v] /\ watch[v] \in Recs
        BY <1>0, <2>3, <3>2 DEF TypeOK
      <4>2. Sole(watch[v])
        <5> SUFFICES ASSUME NEW u \in Watchers, watch[u] = watch[v] PROVE u = v
          BY DEF Sole
        <5>1. u # w /\ watch'[u] = watch'[v]
          BY <1>0, <2>3, <4>1, NilAssumption DEF TypeOK
        <5> QED
          BY <5>1 DEF Sole
      <4> QED
        BY <2>1, <4>1, <4>2 DEF Asleep
    <3> QED
      BY <3>1, <3>2
  <2> QED
    BY <1>2, <2>2, <2>3 DEF AcceptedOn
<1>3. ASSUME NEW s \in Servers, PacedHandler(s) PROVE Asleep'
  BY <1>1, <1>2, <1>3, HandlerCases
<1>4. ASSUME NEW w \in Watchers, PacedTick(w) PROVE Asleep'
  <2> SUFFICES ASSUME NEW v \in Watchers, NEW role \in Roles, watch[v] # Nil,
                      Sole(watch[v]), ~live'[watch[v]][role]
               PROVE  seen'[v][role] = 0
    BY <1>4, TurnCases DEF Asleep, Sole
  <2>1. CASE v = w
    BY <1>4, <2>1, TurnCases DEF Asleep
  <2>2. CASE v # w
    <3>1. watch[v] # watch[w] /\ watch[v] \in Recs
      BY <1>0, <2>2 DEF Sole, TypeOK
    <3>2. live'[watch[v]] = live[watch[v]] /\ seen'[v] = seen[v]
      BY <1>4, <2>2, <3>1, TurnCases
    <3> QED
      BY <3>2 DEF Asleep
  <2> QED
    BY <2>1, <2>2
<1>5. ASSUME NEW s \in Servers, PacedHeartbeat(s) PROVE Asleep'
  BY <1>1, <1>5, BeatCounted
<1>6. CASE EndPeriod
  BY <1>1, <1>6 DEF EndPeriod, vars, coordVars, recordVars, watchVars
<1> QED
  BY <1>1, <1>3, <1>4, <1>5, <1>6, OtherSteps

\* the beat a master's first turn is late by, the beat a server has yet to send, and
\* the turn a thread has yet to take
Base(s)   == IF RoleOf[s] = "master" THEN 1 ELSE 0
Owed(s)   == IF due[s] # "no" \/ proc[s] = "spawning" THEN 1 ELSE 0
ToTurn(w) == IF w \in turn THEN 1 ELSE 0

\* Its record is checked by nobody, or by one thread and few of its beats slipped.
OnTime(s) == \/ Unwatched(Rec(s))
             \/ Sole(Rec(s)) /\ slips[s] =< Base(s)

\* A thread's count of turns stays behind the beats, sent and owed.
Credited(s, w) ==
    Base(s) + seen[w][RoleOf[s]] + ToTurn(w)
      =< beats[Rec(s)][RoleOf[s]] + Owed(s) + slips[s]

Kept(s) ==
    s \in accepted /\ OnTime(s) =>
      /\ Rec(s) \in Recs /\ addr[Rec(s)][RoleOf[s]] = s /\ live[Rec(s)][RoleOf[s]]
      /\ \A w \in Watchers : watch[w] = Rec(s) => Credited(s, w)

\* A server whose ClusterSpawn was accepted has its record.
LEMMA AcceptedPlaced ==
    ASSUME PacedInv, NEW s \in accepted
    PROVE  /\ s \in Servers /\ Rec(s) \in Recs /\ ~Spawning(s)
           /\ addr[Rec(s)][RoleOf[s]] # Nil
<1>0. TypeOK /\ ClockTyped /\ LiveInv
  BY PacedTyped DEF PacedInv, GroundInv
<1>1. s \in Servers /\ Paced(s)
  BY <1>0 DEF ClockTyped, PacedInv
<1>2. beating[s] \/ spawn_pc[s] = "reply"
  BY <1>0, <1>1, PacedTyped DEF Paced, Spawning, TypeOK
<1> QED
  BY <1>0, <1>1, <1>2, IdsAssumption DEF LiveInv, Placed, Rec, TypeOK, Paced

\* A step that leaves the records and the threads alone.
LEMMA KeptFrame ==
    ASSUME NEW s \in Servers, Kept(s), s \in accepted' => s \in accepted,
           UNCHANGED <<addr, live, beats, watch, seen, turn, slips>>,
           s \in accepted => Rec(s)' = Rec(s) /\ Owed(s)' = Owed(s)
    PROVE  Kept(s)'
<1>1. s \in accepted /\ OnTime(s)' => OnTime(s)
  BY DEF OnTime, Unwatched, Sole
<1>2. ASSUME s \in accepted, NEW w \in Watchers, Credited(s, w) PROVE Credited(s, w)'
  BY <1>2 DEF Credited, ToTurn, Base
<1> QED
  BY <1>1, <1>2 DEF Kept

\* An accepted spawn counts the new server in, and leaves the others theirs.
LEMMA AcceptKept ==
    ASSUME PacedInv, Asleep, NEW s \in Servers, Kept(s), NEW t \in Servers, PacedHandler(t),
           Rec(t) \in Recs, AcceptedOn(t, Rec(t)), UNCHANGED c_map
    PROVE  Kept(s)'
<1>0. /\ TypeOK /\ ClockTyped /\ Turns
      /\ RoleOf[s] \in Roles /\ RoleOf[t] \in Roles
      /\ UNCHANGED <<beats, due, proc, turn, slips>>
  BY PacedTyped, HandlerCases, RolesAssumption DEF PacedInv
<1>1. PICK n \in Recs : n = Rec(t)
  OBVIOUS
<1>2. /\ ~live[n][RoleOf[t]]
      /\ addr' = [addr EXCEPT ![n][RoleOf[t]] = t]
      /\ live' = [live EXCEPT ![n][RoleOf[t]] = TRUE]
      /\ \/ accepted' = accepted
         \/ accepted' = accepted \cup {t} /\ proc[t] = "spawning"
  <2>1. AcceptedOn(t, n)
    BY <1>1
  <2> QED
    BY <2>1 DEF AcceptedOn
<1>3. Spawning(t) /\ t \notin accepted
  BY HandlerCases, AcceptedPlaced
<1>4. Rec(s)' = Rec(s) /\ Owed(s)' = Owed(s) /\ Base(s)' = Base(s)
  BY <1>0 DEF Rec, Owed, Base
<1> SUFFICES ASSUME s \in accepted', OnTime(s)'
             PROVE  /\ Rec(s) \in Recs
                    /\ addr'[Rec(s)][RoleOf[s]] = s /\ live'[Rec(s)][RoleOf[s]]
                    /\ \A w \in Watchers : watch'[w] = Rec(s) => Credited(s, w)'
  BY <1>4 DEF Kept
<1>5. PICK r \in Recs : r = Rec(s)
  BY <1>1, <1>2, AcceptedPlaced
<1>6. ASSUME NEW w \in Watchers,
             Base(s) + seen'[w][RoleOf[s]] + ToTurn(w) =< beats[r][RoleOf[s]] + Owed(s) + slips[s]
      PROVE  Credited(s, w)'
  BY <1>0, <1>4, <1>5, <1>6 DEF Credited, ToTurn
<1>7. /\ beats[r][RoleOf[s]] \in Nat /\ slips[s] \in Nat /\ Owed(s) \in {0, 1}
      /\ Base(s) \in {0, 1}
      /\ \A w \in Watchers : ToTurn(w) \in {0, 1} /\ seen[w][RoleOf[s]] \in Nat
  BY <1>0 DEF TypeOK, ClockTyped, Owed, Base, ToTurn
\* a thread that starts, at the turn after this one
<1>8. ASSUME NEW w \in Watchers, watch[w] = Nil, seen' = [seen EXCEPT ![w] = EachRole(0)]
      PROVE  seen'[w][RoleOf[s]] = 0 /\ ToTurn(w) = 0
  BY <1>0, <1>8 DEF TypeOK, EachRole, Turns, ToTurn
<1>9. CASE s = t
  <2>1. Owed(s) = 1 /\ r = n
    BY <1>1, <1>2, <1>3, <1>5, <1>9 DEF Owed
  <2>2. addr'[r][RoleOf[s]] = s /\ live'[r][RoleOf[s]]
    BY <1>0, <1>2, <1>9, <2>1 DEF TypeOK
  <2>3. ASSUME NEW w \in Watchers, watch'[w] = r PROVE Credited(s, w)'
    <3>1. Sole(r)'
      BY <1>4, <1>5, <2>3 DEF OnTime, Unwatched, Sole
    <3>2. CASE RoleOf[t] = "slave" /\ UNCHANGED <<watch, seen>>
      <4>1. watch[w] = r /\ Sole(r) /\ ~live[r][RoleOf[s]]
        BY <1>2, <1>9, <2>1, <2>3, <3>1, <3>2 DEF Sole
      <4>2. seen[w][RoleOf[s]] = 0
        BY <1>0, <4>1, NilAssumption DEF Asleep
      <4>3. Base(s) = 0
        BY <1>9, <3>2 DEF Base
      <4> QED
        BY <1>6, <1>7, <2>1, <3>2, <4>2, <4>3
    <3>3. ASSUME NEW v \in Watchers, watch[v] = Nil, watch' = [watch EXCEPT ![v] = n],
                 seen' = [seen EXCEPT ![v] = EachRole(0)]
          PROVE  Credited(s, w)'
      <4>1. watch'[v] = r
        BY <1>0, <2>1, <3>3 DEF TypeOK
      <4>2. v = w
        BY <2>3, <3>1, <4>1 DEF Sole
      <4>3. seen'[w][RoleOf[s]] = 0 /\ ToTurn(w) = 0
        BY <1>8, <3>3, <4>2
      <4> QED
        BY <1>6, <1>7, <2>1, <4>3
    <3> QED
      BY <1>1, <3>2, <3>3 DEF AcceptedOn
  <2> QED
    BY <1>5, <2>2, <2>3
<1>10. CASE s # t
  <2>1. s \in accepted
    BY <1>2, <1>10
  <2>2. OnTime(s) /\ (r = n /\ watch' # watch => Unwatched(r))
    <3>1. CASE watch' = watch
      BY <1>0, <1>4, <3>1 DEF OnTime, Unwatched, Sole
    <3>2. ASSUME NEW v \in Watchers, watch[v] = Nil, watch' = [watch EXCEPT ![v] = n]
          PROVE  OnTime(s) /\ (r = n => Unwatched(r))
      <4>1. CASE Unwatched(r)'
        <5>1. Unwatched(r) /\ r # n
          BY <1>0, <3>2, <4>1, NilAssumption DEF Unwatched, TypeOK
        <5> QED
          BY <1>5, <5>1 DEF OnTime
      <4>2. CASE Sole(r)'
        <5>1. Sole(r) /\ (r = n => Unwatched(r))
          BY <1>0, <3>2, <4>2, NewWatcher
        <5>2. Unwatched(r)' \/ slips[s] =< Base(s)
          BY <1>0, <1>4, <1>5 DEF OnTime, Unwatched
        <5> QED
          BY <1>5, <4>1, <5>1, <5>2 DEF OnTime
      <4> QED
        BY <1>4, <1>5, <4>1, <4>2 DEF OnTime, Unwatched, Sole
    <3> QED
      BY <1>1, <3>1, <3>2 DEF AcceptedOn
  <2>3. /\ addr[r][RoleOf[s]] = s /\ live[r][RoleOf[s]]
        /\ \A w \in Watchers : watch[w] = r => Credited(s, w)
    BY <1>5, <2>1, <2>2 DEF Kept
  <2>4. r # n \/ RoleOf[s] # RoleOf[t]
    BY <1>2, <2>3
  <2>5. addr'[r][RoleOf[s]] = s /\ live'[r][RoleOf[s]]
    BY <1>0, <1>2, <2>3, <2>4 DEF TypeOK
  <2>6. ASSUME NEW w \in Watchers, watch'[w] = r PROVE Credited(s, w)'
    <3>1. CASE UNCHANGED <<watch, seen>>
      BY <1>5, <1>6, <2>3, <2>6, <3>1 DEF Credited
    <3>2. ASSUME NEW v \in Watchers, RoleOf[t] = "master", watch[v] = Nil,
                 watch' = [watch EXCEPT ![v] = n], seen' = [seen EXCEPT ![v] = EachRole(0)]
          PROVE  Credited(s, w)'
      <4>1. CASE w = v
        <5>1. Base(s) = 0
          <6>1. r = n
            BY <1>0, <2>6, <3>2, <4>1 DEF TypeOK
          <6> QED
            BY <2>4, <3>2, <6>1 DEF Base
        <5>2. seen'[w][RoleOf[s]] = 0 /\ ToTurn(w) = 0
          BY <1>8, <3>2, <4>1
        <5> QED
          BY <1>6, <1>7, <5>1, <5>2
      <4>2. CASE w # v
        <5>1. watch[w] = r /\ seen'[w] = seen[w]
          BY <1>0, <2>6, <3>2, <4>2 DEF TypeOK
        <5> QED
          BY <1>5, <1>6, <2>3, <5>1 DEF Credited
      <4> QED
        BY <4>1, <4>2
    <3> QED
      BY <1>1, <3>1, <3>2 DEF AcceptedOn
  <2> QED
    BY <1>5, <2>5, <2>6
<1> QED
  BY <1>9, <1>10

\* A beat is counted when it is sent.
LEMMA BeatKept ==
    ASSUME PacedInv, NEW s \in Servers, Kept(s), NEW t \in Servers, PacedHeartbeat(t)
    PROVE  Kept(s)'
<1>0. TypeOK /\ ClockTyped /\ RoleOf[s] \in Roles
  BY PacedTyped, RolesAssumption
<1>1. PICK n \in Recs : n = Rec(t)
  BY BeatCounted
<1>2. /\ beats' = [beats EXCEPT ![n][RoleOf[t]] = @ + 1]
      /\ due' = [due EXCEPT ![t] = "no"]
      /\ UNCHANGED <<c_map, addr, live, watch, seen, turn, slips, proc, accepted>>
  BY <1>1, BeatCounted
<1>3. /\ Rec(s)' = Rec(s) /\ (OnTime(s)' => OnTime(s)) /\ Base(s)' = Base(s)
  BY <1>2 DEF Rec, OnTime, Unwatched, Sole, Base
<1> SUFFICES ASSUME s \in accepted, Rec(s) \in Recs, NEW w \in Watchers, Credited(s, w)
             PROVE  Credited(s, w)'
  BY <1>2, <1>3 DEF Kept
<1>4. PICK r \in Recs : r = Rec(s)
  OBVIOUS
<1>5. /\ beats[r][RoleOf[s]] \in Nat /\ slips[s] \in Nat /\ Owed(s) \in {0, 1}
      /\ Base(s) \in {0, 1} /\ ToTurn(w) \in {0, 1} /\ seen[w][RoleOf[s]] \in Nat
  BY <1>0 DEF TypeOK, ClockTyped, Owed, Base, ToTurn
<1>6. Owed(s)' \in {0, 1} /\ ToTurn(w)' = ToTurn(w)
  BY <1>2 DEF Owed, ToTurn
<1>7. beats'[r][RoleOf[s]] + Owed(s)' >= beats[r][RoleOf[s]] + Owed(s)
  <2>1. CASE s = t
    <3>1. beats'[r][RoleOf[s]] = beats[r][RoleOf[s]] + 1
      BY <1>0, <1>1, <1>2, <1>4, <2>1 DEF TypeOK
    <3> QED
      BY <1>5, <1>6, <3>1
  <2>2. CASE s # t
    <3>1. Owed(s)' = Owed(s)
      BY <1>0, <1>2, <2>2 DEF Owed, ClockTyped
    <3>2. beats'[r][RoleOf[s]] >= beats[r][RoleOf[s]] /\ beats'[r][RoleOf[s]] \in Nat
      BY <1>0, <1>2 DEF TypeOK
    <3> QED
      BY <1>5, <3>1, <3>2
  <2> QED
    BY <2>1, <2>2
<1>8. beats'[r][RoleOf[s]] \in Nat
  BY <1>0, <1>2 DEF TypeOK
<1>9. Base(s) + seen[w][RoleOf[s]] + ToTurn(w)
        =< beats'[r][RoleOf[s]] + Owed(s)' + slips[s]
  BY <1>4, <1>5, <1>6, <1>7, <1>8 DEF Credited
<1> QED
  BY <1>2, <1>3, <1>4, <1>6, <1>9 DEF Credited

\* A turn finds a server that beats on time alive, and counts itself.
LEMMA TurnKept ==
    ASSUME PacedInv, NEW s \in Servers, Kept(s), NEW v \in Watchers, PacedTick(v)
    PROVE  Kept(s)'
<1>0. TypeOK /\ ClockTyped /\ RoleOf[s] \in Roles
  BY PacedTyped, RolesAssumption
<1>1. UNCHANGED <<c_map, addr, watch, proc, due, accepted, slips>>
  BY TurnCases
<1>2. /\ Rec(s)' = Rec(s) /\ (OnTime(s)' => OnTime(s)) /\ Base(s)' = Base(s)
      /\ Owed(s)' = Owed(s)
  BY <1>1 DEF Rec, OnTime, Unwatched, Sole, Base, Owed
<1> SUFFICES ASSUME s \in accepted, OnTime(s), Rec(s) \in Recs, live[Rec(s)][RoleOf[s]],
                    \A w \in Watchers : watch[w] = Rec(s) => Credited(s, w)
             PROVE  /\ live'[Rec(s)][RoleOf[s]]
                    /\ \A w \in Watchers : watch[w] = Rec(s) => Credited(s, w)'
  BY <1>1, <1>2 DEF Kept
<1>3. PICK r \in Recs : r = Rec(s)
  OBVIOUS
<1>4. ASSUME NEW w \in Watchers
      PROVE  /\ beats[r][RoleOf[s]] \in Nat /\ slips[s] \in Nat /\ Owed(s) \in {0, 1}
             /\ Base(s) \in {0, 1} /\ ToTurn(w) \in {0, 1} /\ seen[w][RoleOf[s]] \in Nat
  BY <1>0 DEF TypeOK, ClockTyped, Owed, Base, ToTurn
<1>5. CASE watch[v] # r
  <2>1. live'[r] = live[r] /\ beats'[r] = beats[r]
    BY <1>5, TurnCases
  <2>2. ASSUME NEW w \in Watchers, watch[w] = r PROVE Credited(s, w)'
    <3>1. seen'[w] = seen[w] /\ ToTurn(w)' = ToTurn(w)
      BY <1>5, <2>2, TurnCases DEF ToTurn
    <3> QED
      BY <1>1, <1>2, <1>3, <2>1, <2>2, <3>1 DEF Credited
  <2> QED
    BY <1>3, <2>1, <2>2
<1>6. CASE watch[v] = r
  <2>1. Sole(r) /\ slips[s] =< Base(s) /\ Credited(s, v)
    BY <1>3, <1>6 DEF OnTime, Unwatched
  <2>2. ToTurn(v) = 1 /\ ToTurn(v)' = 0
    BY TurnCases DEF ToTurn
  <2>3. seen[v][RoleOf[s]] =< beats[r][RoleOf[s]]
    BY <1>3, <1>4, <2>1, <2>2 DEF Credited
  <2>4. /\ live'[r][RoleOf[s]]
        /\ beats'[r][RoleOf[s]] = beats[r][RoleOf[s]]
        /\ seen'[v][RoleOf[s]] = seen[v][RoleOf[s]] + 1
    <3>1. ~(seen[v][RoleOf[s]] > beats[r][RoleOf[s]])
      BY <1>4, <2>3
    <3> QED
      BY <1>0, <1>3, <1>6, <3>1, TurnCases
  <2>5. Credited(s, v)'
    BY <1>1, <1>2, <1>3, <1>4, <2>1, <2>2, <2>4 DEF Credited
  <2> QED
    BY <1>3, <1>6, <2>1, <2>4, <2>5 DEF Sole
<1> QED
  BY <1>5, <1>6

\* At the end of a period every thread has a turn to take and every server that runs a
\* beat to send; one that was still to be sent has slipped.
LEMMA PeriodKept ==
    ASSUME PacedInv, NEW s \in Servers, Kept(s), EndPeriod
    PROVE  Kept(s)'
<1>0. TypeOK /\ ClockTyped /\ RoleOf[s] \in Roles /\ Paced(s)
  BY PacedTyped, RolesAssumption DEF PacedInv
<1>1. /\ UNCHANGED <<c_map, addr, live, beats, watch, seen, proc, beating, accepted>>
      /\ turn = {}
      /\ proc[s] \in {"down", "serving"}
      /\ due'[s] = IF beating[s] THEN "next" ELSE "no"
      /\ slips'[s] = slips[s] + IF due[s] # "no" THEN 1 ELSE 0
  BY DEF EndPeriod, vars, coordVars, recordVars, watchVars, serverVars
<1>2. slips[s] \in Nat /\ slips'[s] >= slips[s] /\ Base(s) \in {0, 1}
  BY <1>0, <1>1 DEF ClockTyped, Base
<1>3. Rec(s)' = Rec(s) /\ (OnTime(s)' => OnTime(s)) /\ Base(s)' = Base(s)
  <2>1. slips'[s] =< Base(s) => slips[s] =< Base(s)
    BY <1>1, <1>2
  <2> QED
    BY <1>1, <2>1 DEF Rec, OnTime, Unwatched, Sole, Base
<1> SUFFICES ASSUME s \in accepted, Rec(s) \in Recs, NEW w \in Watchers, Credited(s, w)
             PROVE  Credited(s, w)'
  BY <1>1, <1>3 DEF Kept
<1>4. /\ beats[Rec(s)][RoleOf[s]] \in Nat /\ seen[w][RoleOf[s]] \in Nat
      /\ ToTurn(w) = 0 /\ ToTurn(w)' \in {0, 1}
  BY <1>0, <1>1 DEF TypeOK, ToTurn
<1>5. beating[s] /\ proc[s] = "serving"
  BY <1>0, <1>1 DEF Paced
<1>6. Owed(s)' = 1 /\ slips'[s] = slips[s] + Owed(s)
  BY <1>1, <1>5 DEF Owed
<1>7. Owed(s) \in {0, 1}
  BY DEF Owed
<1> QED
  BY <1>1, <1>2, <1>3, <1>4, <1>6, <1>7 DEF Credited

\* Every step keeps the credit of a server that was accepted.
LEMMA StepKept ==
    ASSUME PacedInv, Asleep, NEW s \in Servers, Kept(s), [PacedNext]_pacedVars
    PROVE  Kept(s)'
<1>0. /\ TypeOK /\ ClockTyped /\ Paced(s)
      /\ proc \in [Servers -> {"down", "spawning", "poking", "building", "serving"}]
  BY PacedTyped DEF PacedInv
<1> DEFINE same == UNCHANGED <<addr, live, beats, watch, seen, turn, slips>>
<1>1. ASSUME NEW t \in Servers, PacedHandler(t) PROVE Kept(s)'
  <2>1. CASE AcceptedOn(t, Rec(t)) /\ Rec(t) \in Recs /\ UNCHANGED c_map
    BY <1>1, <2>1, AcceptKept
  <2>2. CASE SpawnReject(t) /\ UNCHANGED <<c_map, addr, live, watch, seen, accepted>>
    <3>1. same /\ UNCHANGED <<c_map, due, proc, accepted>>
      BY <1>1, <2>2, HandlerCases
    <3> QED
      BY <3>1, KeptFrame DEF Rec, Owed
  <2>3. CASE SpawnInsert(t) /\ UNCHANGED <<addr, live, watch, seen, spawn_resp, accepted>>
    <3>1. same /\ UNCHANGED <<due, proc, accepted>>
      BY <1>1, <2>3, HandlerCases
    <3>2. PICK n \in Recs : c_map' = [c_map EXCEPT ![IdOf[t]] = n]
      BY <2>3 DEF SpawnInsert
    <3>3. c_map[IdOf[t]] = Nil
      BY <2>3, PacedTyped DEF SpawnInsert, SerialInv
    <3>4. ASSUME s \in accepted PROVE Rec(s)' = Rec(s)
      <4>1. IdOf[s] # IdOf[t]
        BY <3>3, <3>4, AcceptedPlaced, NilAssumption DEF Rec
      <4> QED
        BY <1>0, <3>2, <4>1, IdsAssumption DEF Rec, TypeOK
    <3> QED
      BY <3>1, <3>4, KeptFrame DEF Owed
  <2> QED
    BY <1>1, <2>1, <2>2, <2>3, HandlerCases
<1>2. ASSUME NEW t \in Servers, PacedStart(t) \/ PacedCrash(t) PROVE Kept(s)'
  <2>1. same /\ UNCHANGED c_map
    BY <1>2 DEF PacedStart, ServerStart, SpawnLookup, PacedCrash, ServerCrash, coordVars,
                recordVars, watchVars
  <2>2. /\ s \in accepted' => s \in accepted
        /\ s = t => s \notin accepted'
        /\ s # t => due'[s] = due[s] /\ proc'[s] = proc[s]
    BY <1>0, <1>2
       DEF PacedStart, ServerStart, PacedCrash, ServerCrash, ClockTyped, Paced
  <2>3. CASE s = t
    BY <2>2, <2>3 DEF Kept
  <2>4. CASE s # t
    BY <2>1, <2>2, <2>4, KeptFrame DEF Rec, Owed
  <2> QED
    BY <2>3, <2>4
<1>3. ASSUME NEW t \in Servers, PacedReply(t) PROVE Kept(s)'
  <2>1. same /\ UNCHANGED <<c_map, accepted>>
    BY <1>3 DEF PacedReply, ReceiveReply, SpawnReply, recordVars, watchVars
  <2>2. s # t \/ proc[t] # "spawning" => proc'[s] = proc[s] /\ (s # t => due'[s] = due[s])
    BY <1>0, <1>3 DEF PacedReply, ReceiveReply, serverVars, ClockTyped
  <2>3. s = t /\ proc[t] = "spawning" => due'[s] = "first"
    BY <1>0, <1>3, PacedTyped DEF PacedReply, ReceiveReply, ClockTyped
  <2>4. s = t /\ s \in accepted => proc[t] = "spawning"
    BY <1>0, <1>3 DEF PacedReply, ReceiveReply, SpawnReply, Paced
  <2>5. s \in accepted => Owed(s)' = Owed(s)
    BY <2>2, <2>3, <2>4 DEF Owed
  <2> QED
    BY <2>1, <2>5, KeptFrame DEF Rec
<1>4. ASSUME NEW t \in Servers, PacedHeartbeat(t) PROVE Kept(s)'
  BY <1>4, BeatKept
<1>5. ASSUME NEW w \in Watchers, PacedTick(w) PROVE Kept(s)'
  BY <1>5, TurnKept
<1>6. CASE Unpaced
  <2>1. same /\ UNCHANGED <<c_map, accepted, due>>
    BY <1>6 DEF Unpaced, Poke, Serve, coordVars, recordVars, watchVars, clockVars
  <2>2. proc[s] = "spawning" <=> proc'[s] = "spawning"
    BY <1>0, <1>6 DEF Unpaced, Poke, Serve
  <2> QED
    BY <2>1, <2>2, KeptFrame DEF Rec, Owed
<1>7. CASE EndPeriod
  BY <1>7, PeriodKept
<1>8. CASE UNCHANGED pacedVars
  BY <1>8, KeptFrame
     DEF pacedVars, vars, coordVars, recordVars, watchVars, serverVars, clockVars, Rec, Owed
<1> HIDE DEF same
<1> QED
  BY <1>1, <1>2, <1>3, <1>4, <1>5, <1>6, <1>7, <1>8 DEF PacedNext, Horizon

KeptInv == PacedInv /\ Asleep /\ \A s \in Servers : Kept(s)

\* Initially nobody was started, accepted or believed alive.
LEMMA InitKept == PacedInit => KeptInv
<1> SUFFICES ASSUME PacedInit PROVE KeptInv
  OBVIOUS
<1> USE DEF PacedInit
<1>1. GroundInv
  BY InitGround
<1>2. ClockTyped
  BY DEF ClockTyped
<1>3. Turns /\ Asleep /\ \A s \in Servers : Kept(s)
  BY DEF Init, CoordInit, Turns, Asleep, Kept
<1>4. \A s \in Servers : Paced(s)
  BY DEF Init, CoordInit, Paced, Spawning
<1> QED
  BY <1>1, <1>2, <1>3, <1>4 DEF KeptInv, PacedInv

LEMMA StepKeptInv ==
    ASSUME SerialStart, KeptInv, [PacedNext]_pacedVars
    PROVE  KeptInv'
BY StepPacedInv, StepAsleep, StepKept DEF KeptInv

\* Where servers are started one after the other, nobody whose heartbeats come in time
\* is believed dead while no two threads check its record, whatever crashes, restarts and
\* other clusters there are around it.
THEOREM ClockNoFalseDeath ==
    ASSUME SerialStart
    PROVE  PacedSpec => []NoFalseDeath
<1>1. PacedInit => KeptInv
  BY InitKept
<1>2. KeptInv /\ [PacedNext]_pacedVars => KeptInv'
  BY StepKeptInv
<1>3. KeptInv => NoFalseDeath
  <2> SUFFICES ASSUME KeptInv, NEW s \in accepted,
                      \A v, w \in Watchers : {watch[v], watch[w]} = {Rec(s)} => v = w,
                      slips[s] =< IF RoleOf[s] = "master" THEN 1 ELSE 0
               PROVE  BelievedAlive(s)
    BY DEF NoFalseDeath, Rec
  <2>1. TypeOK /\ ClockTyped /\ s \in Servers /\ Rec(s) \in Recs
    BY PacedTyped, AcceptedPlaced DEF KeptInv
  <2>2. Sole(Rec(s))
    BY DEF Sole
  <2>3. Kept(s) /\ OnTime(s)
    BY <2>1, <2>2 DEF KeptInv, OnTime, Base
  <2> QED
    BY <2>1, <2>3 DEF Kept, BelievedAlive
<1> QED
  BY <1>1, <1>2, <1>3, PTL DEF PacedSpec

-----------------------------------------------------------------------------
(* A silent master is believed dead in time *)

\* runCluster.sh starts one server of each role in a cluster.
OneEach == \A s, t \in Servers : RoleOf[s] = RoleOf[t] /\ IdOf[s] = IdOf[t] => s = t

\* It crashed in an earlier period.
Silent(s) == IF proc[s] = "down" /\ s \notin heard THEN 1 ELSE 0

\* The turns a thread has counted and the starts outweigh the beats and, once the record
\* is awake, the periods without one; a thread that is two ahead has just become so.
Counted(s, w) ==
    LET b == beats[Rec(s)]["master"]
        n == seen[w]["master"] + ToTurn(w) + starts[s]
    IN
    /\ b + Owed(s) =< n
    /\ live[Rec(s)]["master"] \/ b > 0 =>
         /\ b + Owed(s) + missed[s] + Silent(s) =< n
         /\ b + 2 =< seen[w]["master"] => missed[s] =< ToTurn(w)

Detected(s) ==
    RoleOf[s] = "master" /\ Rec(s) # Nil /\ addr[Rec(s)]["master"] # Nil =>
        \E w \in Watchers : watch[w] = Rec(s) /\ Counted(s, w)

\* Servers on one record are of one cluster.
LEMMA SameRecord ==
    ASSUME PacedInv, NEW s \in Servers, NEW t \in Servers, Rec(s) \in Recs, Rec(s) = Rec(t)
    PROVE  IdOf[s] = IdOf[t]
<1>1. OwnedBy(Rec(s), IdOf[s])
  BY PacedTyped, OwnerUnique, IdsAssumption DEF Rec
<1> QED
  BY <1>1, IdsAssumption DEF OwnedBy, Rec

\* The address on a server's record, for its role, is its own.
LEMMA OwnRecord ==
    ASSUME OneEach, PacedInv, NEW s \in Servers, Rec(s) \in Recs,
           addr[Rec(s)][RoleOf[s]] # Nil
    PROVE  addr[Rec(s)][RoleOf[s]] = s
<1>1. OwnedBy(Rec(s), IdOf[s])
  BY PacedTyped, OwnerUnique, IdsAssumption DEF Rec
<1>2. addr[Rec(s)][RoleOf[s]] \in Servers
  BY PacedTyped, RolesAssumption DEF TypeOK
<1> QED
  BY <1>1, <1>2, RolesAssumption DEF OwnedBy, OneEach

\* The numbers that Counted compares.
LEMMA CountedTyped ==
    ASSUME PacedInv, NEW s \in Servers
    PROVE  /\ starts[s] \in Nat /\ missed[s] \in Nat
           /\ Owed(s) \in {0, 1} /\ Silent(s) \in {0, 1}
           /\ Owed(s) + Silent(s) =< 1 /\ Owed(s) =< starts[s]
           /\ spawn_pc[s] # "idle" => starts[s] > 0
           /\ \A r \in Recs : beats[r]["master"] \in Nat
           /\ \A w \in Watchers : seen[w]["master"] \in Nat /\ ToTurn(w) \in {0, 1}
<1>1. TypeOK /\ ClockTyped /\ Paced(s)
  BY PacedTyped DEF PacedInv
<1>2. starts[s] \in Nat /\ missed[s] \in Nat
  BY <1>1 DEF ClockTyped
<1>3. starts[s] = 0 => Owed(s) = 0 /\ spawn_pc[s] = "idle"
  BY <1>1, PacedTyped DEF Paced, Owed
<1>4. Owed(s) = 1 => Silent(s) = 0
  BY <1>1, PacedTyped DEF Paced, Owed, Silent
<1>5. /\ Owed(s) \in {0, 1} /\ Silent(s) \in {0, 1}
      /\ \A w \in Watchers : ToTurn(w) \in {0, 1}
  BY DEF Owed, Silent, ToTurn
<1> QED
  BY <1>1, <1>2, <1>3, <1>4, <1>5 DEF TypeOK, Roles

\* A step that leaves the master's part of its record, its threads and its count alone.
LEMMA DetectedFrame ==
    ASSUME NEW s \in Servers, Detected(s), Rec(s)' = Rec(s),
           UNCHANGED <<watch, seen, turn, starts, missed>>,
           Rec(s) # Nil => /\ addr'[Rec(s)]["master"] = addr[Rec(s)]["master"]
                           /\ beats'[Rec(s)]["master"] = beats[Rec(s)]["master"]
                           /\ live'[Rec(s)]["master"] = live[Rec(s)]["master"],
           Owed(s)' = Owed(s), Silent(s)' = Silent(s)
    PROVE  Detected(s)'
<1>1. ASSUME Rec(s) # Nil, NEW w \in Watchers, Counted(s, w) PROVE Counted(s, w)'
  BY <1>1 DEF Counted, ToTurn
<1> QED
  BY <1>1 DEF Detected

\* A server that is started owes a beat, and is given one more.
LEMMA StartDetected ==
    ASSUME PacedInv, NEW s \in Servers, Detected(s), NEW t \in Servers, PacedStart(t)
    PROVE  Detected(s)'
<1>0. ClockTyped /\ Paced(t) /\ Rec(s) \in Recs \cup {Nil}
      /\ proc \in [Servers -> {"down", "spawning", "poking", "building", "serving"}]
  BY PacedTyped, IdsAssumption DEF PacedInv, Rec, TypeOK
<1>1. /\ proc[t] = "down" /\ proc' = [proc EXCEPT ![t] = "spawning"]
      /\ starts' = [starts EXCEPT ![t] = @ + 1]
      /\ missed' = [missed EXCEPT ![t] = 0]
      /\ UNCHANGED <<c_map, addr, live, beats, watch, seen, turn, due, heard>>
  BY DEF PacedStart, ServerStart, SpawnLookup, recordVars, watchVars
<1>2. Rec(s)' = Rec(s)
  BY <1>1 DEF Rec
<1> SUFFICES ASSUME RoleOf[s] = "master", Rec(s) \in Recs, NEW w \in Watchers, Counted(s, w)
             PROVE  Counted(s, w)'
  BY <1>0, <1>1, <1>2 DEF Detected
<1>3. CASE s # t
  <2>1. /\ Owed(s)' = Owed(s) /\ Silent(s)' = Silent(s) /\ ToTurn(w)' = ToTurn(w)
        /\ starts'[s] = starts[s] /\ missed'[s] = missed[s]
    BY <1>0, <1>1, <1>3 DEF Owed, Silent, ToTurn, ClockTyped
  <2> QED
    BY <1>1, <1>2, <2>1 DEF Counted
<1>4. CASE s = t
  <2>1. Owed(s) = 0
    BY <1>0, <1>1, <1>4 DEF Paced, Owed
  <2>2. /\ Owed(s)' = 1 /\ Silent(s)' = 0 /\ ToTurn(w)' = ToTurn(w)
        /\ starts'[s] = starts[s] + 1 /\ missed'[s] = 0
    BY <1>0, <1>1, <1>4 DEF Owed, Silent, ToTurn, ClockTyped
  <2> QED
    BY <1>1, <1>2, <2>1, <2>2, CountedTyped DEF Counted
<1> QED
  BY <1>3, <1>4

\* A beat that is owed is sent, and ends the silence.
LEMMA BeatDetected ==
    ASSUME OneEach, PacedInv, NEW s \in Servers, Detected(s), NEW t \in Servers,
           PacedHeartbeat(t)
    PROVE  Detected(s)'
<1>0. /\ TypeOK /\ ClockTyped /\ Paced(t) /\ Rec(s) \in Recs \cup {Nil}
      /\ RoleOf[s] \in Roles /\ RoleOf[t] \in Roles
  BY PacedTyped, IdsAssumption, RolesAssumption DEF PacedInv, Rec, TypeOK
<1>1. PICK n \in Recs : n = Rec(t)
  BY BeatCounted
<1>2. /\ due[t] # "no" /\ beating[t]
      /\ beats' = [beats EXCEPT ![n][RoleOf[t]] = @ + 1]
      /\ due' = [due EXCEPT ![t] = "no"]
      /\ heard' = heard \cup {t}
      /\ missed' = [missed EXCEPT ![t] = 0]
      /\ UNCHANGED <<c_map, addr, live, watch, seen, proc, turn, starts>>
  BY <1>1, BeatCounted
<1>3. Rec(s)' = Rec(s)
  BY <1>2 DEF Rec
<1> SUFFICES ASSUME RoleOf[s] = "master", Rec(s) \in Recs, NEW w \in Watchers, Counted(s, w)
             PROVE  Counted(s, w)'
  BY <1>0, <1>2, <1>3 DEF Detected
<1>4. CASE s # t
  <2>1. Rec(s) # n \/ RoleOf[t] # "master"
    BY <1>1, <1>4, SameRecord DEF OneEach
  <2>2. beats'[Rec(s)]["master"] = beats[Rec(s)]["master"]
    BY <1>0, <1>2, <2>1 DEF TypeOK, Roles
  <2>3. /\ Owed(s)' = Owed(s) /\ Silent(s)' = Silent(s) /\ ToTurn(w)' = ToTurn(w)
        /\ missed'[s] = missed[s]
    BY <1>0, <1>2, <1>4 DEF Owed, Silent, ToTurn, ClockTyped
  <2> QED
    BY <1>2, <1>3, <2>2, <2>3 DEF Counted
<1>5. CASE s = t
  <2>1. Owed(s) = 1 /\ Owed(s)' = 0 /\ Silent(s)' = 0
    BY <1>0, <1>2, <1>5 DEF Owed, Silent, Paced, ClockTyped
  <2>2. ToTurn(w)' = ToTurn(w) /\ missed'[s] = 0
    BY <1>0, <1>2, <1>5 DEF ToTurn, ClockTyped
  <2>3. beats'[Rec(s)]["master"] = beats[Rec(s)]["master"] + 1
    BY <1>0, <1>1, <1>2, <1>5 DEF TypeOK
  <2> QED
    BY <1>2, <1>3, <2>1, <2>2, <2>3, CountedTyped DEF Counted
<1> QED
  BY <1>4, <1>5

\* An accepted master is checked by a thread that starts from nothing, or by one that
\* checked it before.
LEMMA AcceptDetected ==
    ASSUME OneEach, PacedInv, NEW s \in Servers, Detected(s), NEW t \in Servers,
           PacedHandler(t), Rec(t) \in Recs, AcceptedOn(t, Rec(t)), UNCHANGED c_map
    PROVE  Detected(s)'
<1>0. /\ TypeOK /\ Turns /\ Paced(t) /\ RoleOf[t] \in Roles
      /\ Rec(s) \in Recs \cup {Nil}
      /\ Spawning(t)
      /\ UNCHANGED <<beats, due, proc, turn, heard, missed, starts>>
  BY PacedTyped, HandlerCases, RolesAssumption, IdsAssumption DEF PacedInv, Rec, TypeOK
<1>1. PICK n \in Recs : n = Rec(t)
  OBVIOUS
<1>2. /\ AcceptedOn(t, n)
      /\ addr' = [addr EXCEPT ![n][RoleOf[t]] = t]
      /\ live' = [live EXCEPT ![n][RoleOf[t]] = TRUE]
  BY <1>1 DEF AcceptedOn
<1>3. /\ Rec(s)' = Rec(s) /\ Owed(s)' = Owed(s) /\ Silent(s)' = Silent(s)
      /\ \A w \in Watchers : ToTurn(w)' = ToTurn(w)
  BY <1>0 DEF Rec, Owed, Silent, ToTurn
<1>4. \A w \in Watchers : watch[w] # Nil => watch'[w] = watch[w] /\ seen'[w] = seen[w]
  BY <1>0, <1>2 DEF AcceptedOn, TypeOK
<1> SUFFICES ASSUME RoleOf[s] = "master", Rec(s) \in Recs, addr'[Rec(s)]["master"] # Nil
             PROVE  \E w \in Watchers : watch'[w] = Rec(s) /\ Counted(s, w)'
  BY <1>0, <1>3 DEF Detected
<1>5. CASE s # t
  <2>1. Rec(s) # n \/ RoleOf[t] # "master"
    BY <1>1, <1>5, SameRecord DEF OneEach
  <2>2. /\ addr'[Rec(s)]["master"] = addr[Rec(s)]["master"]
        /\ live'[Rec(s)]["master"] = live[Rec(s)]["master"]
    <3>1. ASSUME NEW r \in Recs, r # n \/ RoleOf[t] # "master"
          PROVE  /\ addr'[r]["master"] = addr[r]["master"]
                 /\ live'[r]["master"] = live[r]["master"]
      <4>1. CASE r # n
        BY <1>0, <1>2, <3>1, <4>1 DEF TypeOK
      <4>2. CASE r = n /\ RoleOf[t] # "master"
        <5>1. addr'[n] = [addr[n] EXCEPT ![RoleOf[t]] = t]
          BY <1>0, <1>2 DEF TypeOK
        <5>2. live'[n] = [live[n] EXCEPT ![RoleOf[t]] = TRUE]
          BY <1>0, <1>2 DEF TypeOK
        <5>3. "master" \in Roles /\ addr[n] \in [Roles -> Servers \cup {Nil}]
              /\ live[n] \in [Roles -> BOOLEAN]
          BY <1>0 DEF TypeOK, Roles
        <5>4. addr'[n]["master"] = addr[n]["master"]
          BY <4>2, <5>1, <5>3
        <5>5. live'[n]["master"] = live[n]["master"]
          BY <4>2, <5>2, <5>3
        <5> QED
          BY <4>2, <5>4, <5>5
      <4> QED
        BY <3>1, <4>1, <4>2
    <3> QED
      BY <2>1, <3>1
  <2>3. PICK w \in Watchers : watch[w] = Rec(s) /\ Counted(s, w)
    BY <2>2, NilAssumption DEF Detected
  <2>4. watch'[w] = Rec(s) /\ seen'[w] = seen[w]
    BY <1>4, <2>3, NilAssumption
  <2> QED
    BY <1>0, <1>3, <2>2, <2>3, <2>4 DEF Counted
<1>6. CASE s = t
  <2>1. starts[s] > 0 /\ missed[s] = 0
    BY <1>0, <1>6, CountedTyped DEF Paced, Spawning
  <2>2. CASE addr[n]["master"] = Nil
    <3>1. beats[n]["master"] = 0
      BY <1>0, <2>2 DEF PacedInv, GroundInv, LiveInv, TypeOK, Roles
    <3>2. PICK w \in Watchers : /\ watch[w] = Nil
                                /\ watch' = [watch EXCEPT ![w] = n]
                                /\ seen' = [seen EXCEPT ![w] = EachRole(0)]
      BY <1>2, <1>6 DEF AcceptedOn
    <3>3. watch'[w] = n /\ seen'[w]["master"] = 0 /\ ToTurn(w) = 0
      BY <1>0, <3>2 DEF TypeOK, EachRole, Roles, Turns, ToTurn
    <3>4. Counted(s, w)'
      BY <1>0, <1>1, <1>3, <1>6, <2>1, <3>1, <3>3, CountedTyped DEF Counted
    <3> QED
      BY <1>1, <1>6, <3>3, <3>4
  <2>3. CASE addr[n]["master"] # Nil
    <3>1. PICK w \in Watchers : watch[w] = n /\ Counted(s, w)
      BY <1>1, <1>6, <2>3, NilAssumption DEF Detected
    <3>2. watch'[w] = n /\ seen'[w] = seen[w]
      BY <1>4, <3>1, NilAssumption
    <3>3. ~live[n]["master"]
      BY <1>2, <1>6 DEF AcceptedOn
    <3>4. CASE beats[n]["master"] > 0
      BY <1>0, <1>1, <1>3, <1>6, <3>1, <3>2, <3>4 DEF Counted
    <3>5. CASE beats[n]["master"] = 0
      <4>1. /\ Owed(s) + Silent(s) =< seen[w]["master"] + ToTurn(w) + starts[s]
            /\ Owed(s) =< seen[w]["master"] + ToTurn(w) + starts[s]
        BY <2>1, CountedTyped
      <4>2. Counted(s, w)'
        BY <1>0, <1>1, <1>3, <1>6, <2>1, <3>2, <3>5, <4>1, CountedTyped DEF Counted
      <4> QED
        BY <1>1, <1>6, <3>2, <4>2
    <3>6. beats[n]["master"] = 0 \/ beats[n]["master"] > 0
      BY CountedTyped
    <3> QED
      BY <1>1, <1>6, <3>2, <3>4, <3>5, <3>6
  <2> QED
    BY <2>2, <2>3
<1> QED
  BY <1>5, <1>6

\* A turn adds to its thread's count what it takes from its turns to come; the turn that
\* finds its thread ahead starts the record anew.
LEMMA TurnDetected ==
    ASSUME PacedInv, NEW s \in Servers, Detected(s), NEW v \in Watchers, PacedTick(v)
    PROVE  Detected(s)'
<1>0. TypeOK /\ Rec(s) \in Recs \cup {Nil}
  BY PacedTyped, IdsAssumption DEF Rec, TypeOK
<1>1. UNCHANGED <<c_map, addr, watch, proc, due, heard, missed, starts>>
  BY TurnCases
<1>2. /\ Rec(s)' = Rec(s) /\ Owed(s)' = Owed(s) /\ Silent(s)' = Silent(s)
      /\ \A w \in Watchers : w # v => ToTurn(w)' = ToTurn(w) /\ seen'[w] = seen[w]
  BY <1>1, TurnCases DEF Rec, Owed, Silent, ToTurn
<1> SUFFICES ASSUME RoleOf[s] = "master", Rec(s) \in Recs,
                    NEW w \in Watchers, watch[w] = Rec(s), Counted(s, w)
             PROVE  Counted(s, w)'
  BY <1>0, <1>1, <1>2 DEF Detected
<1>3. PICK r \in Recs : r = Rec(s)
  OBVIOUS
<1>4. CASE watch[v] # r
  <2>1. live'[r] = live[r] /\ beats'[r] = beats[r] /\ w # v
    BY <1>3, <1>4, TurnCases
  <2> QED
    BY <1>1, <1>2, <1>3, <2>1 DEF Counted
<1>5. CASE watch[v] = r
  <2> DEFINE b == beats[r]["master"]
             n == seen[v]["master"]
  <2>1. \/ n > b /\ ~live'[r]["master"] /\ beats'[r]["master"] = 0 /\ seen'[v]["master"] = 0
        \/ /\ n =< b /\ (live[r]["master"] \/ b > 0) /\ live'[r]["master"]
           /\ beats'[r]["master"] = b /\ seen'[v]["master"] = n + 1
        \/ /\ ~live[r]["master"] /\ b = 0 /\ ~live'[r]["master"]
           /\ beats'[r]["master"] = 0 /\ seen'[v]["master"] = n
    BY <1>5, TurnCases DEF Roles
  <2>2. ToTurn(v) = 1 /\ ToTurn(v)' = 0
    BY TurnCases DEF ToTurn
  <2>3. CASE w # v
    <3>1. seen'[w] = seen[w] /\ ToTurn(w)' = ToTurn(w)
      BY <1>2, <2>3
    <3>2. seen[w]["master"] + ToTurn(w) + starts[s] >= Owed(s)
      BY CountedTyped
    <3> QED
      BY <1>1, <1>2, <1>3, <2>1, <3>1, <3>2, CountedTyped DEF Counted
  <2>4. CASE w = v
    <3>1. CASE ~live'[r]["master"] /\ beats'[r]["master"] = 0
      <4>1. seen'[v]["master"] \in Nat
        BY <2>1, CountedTyped
      <4>2. seen'[v]["master"] + 0 + starts[s] >= Owed(s)
        BY <4>1, CountedTyped
      <4> QED
        BY <1>1, <1>2, <1>3, <2>2, <2>4, <3>1, <4>1, <4>2, CountedTyped DEF Counted
    <3>2. CASE /\ n =< b /\ (live[r]["master"] \/ b > 0) /\ live'[r]["master"]
               /\ beats'[r]["master"] = b /\ seen'[v]["master"] = n + 1
      BY <1>1, <1>2, <1>3, <2>2, <2>4, <3>2, CountedTyped DEF Counted
    <3> QED
      BY <2>1, <3>1, <3>2
  <2> QED
    BY <2>3, <2>4
<1> QED
  BY <1>4, <1>5

\* A crash gives back the beat that was owed, or the period it was heard in.
LEMMA SilenceDetected ==
    ASSUME PacedInv, NEW s \in Servers, Detected(s), NEW t \in Servers, PacedCrash(t)
    PROVE  Detected(s)'
<1>0. /\ ClockTyped /\ Paced(t)
      /\ proc \in [Servers -> {"down", "spawning", "poking", "building", "serving"}]
  BY PacedTyped DEF PacedInv
<1>1. /\ proc[t] # "down" /\ proc' = [proc EXCEPT ![t] = "down"]
      /\ due' = [due EXCEPT ![t] = "no"]
      /\ UNCHANGED <<c_map, addr, live, beats, watch, seen, turn, heard, missed, starts>>
  BY DEF PacedCrash, ServerCrash, coordVars, recordVars, watchVars
<1>2. CASE s # t
  <2>1. Owed(s)' = Owed(s) /\ Silent(s)' = Silent(s)
    BY <1>0, <1>1, <1>2 DEF Owed, Silent, ClockTyped
  <2> QED
    BY <1>1, <2>1, DetectedFrame DEF Rec
<1>3. CASE s = t
  <2>1. Silent(s) = 0 /\ Owed(s)' = 0
    BY <1>0, <1>1, <1>3 DEF Owed, Silent, ClockTyped
  <2>2. Silent(s)' =< Owed(s) /\ Silent(s)' \in {0, 1} /\ Owed(s) \in {0, 1}
    <3>1. Owed(s) = 0 => s \in heard
      BY <1>0, <1>1, <1>3 DEF Owed, Paced
    <3> QED
      BY <1>1, <3>1 DEF Owed, Silent
  <2>3. ASSUME RoleOf[s] = "master", Rec(s) # Nil, addr[Rec(s)]["master"] # Nil
        PROVE  \E w \in Watchers : watch[w] = Rec(s) /\ Counted(s, w)'
    <3>1. PICK w \in Watchers : watch[w] = Rec(s) /\ Counted(s, w)
      BY <2>3 DEF Detected
    <3>2. Rec(s) \in Recs /\ Rec(s)' = Rec(s) /\ ToTurn(w)' = ToTurn(w)
      BY <1>1, <2>3, PacedTyped, IdsAssumption DEF Rec, TypeOK, ToTurn
    <3>3. Counted(s, w)'
      BY <1>1, <2>1, <2>2, <3>1, <3>2, CountedTyped DEF Counted
    <3> QED
      BY <3>1, <3>3
  <2> QED
    BY <1>1, <2>3 DEF Detected, Rec
<1> QED
  BY <1>2, <1>3

\* A period that ends gives every thread a turn, and every server that runs a beat, or
\* one that crashed a period of silence.
LEMMA PeriodDetected ==
    ASSUME PacedInv, NEW s \in Servers, Detected(s), EndPeriod
    PROVE  Detected(s)'
<1>0. TypeOK /\ ClockTyped /\ Paced(s) /\ Rec(s) \in Recs \cup {Nil}
  BY PacedTyped, IdsAssumption DEF PacedInv, Rec, TypeOK
<1>1. /\ UNCHANGED <<c_map, addr, live, beats, watch, seen, proc, beating, starts>>
      /\ turn = {} /\ turn' = {w \in Watchers : watch[w] # Nil}
      /\ proc[s] \in {"down", "serving"}
      /\ due'[s] = IF beating[s] THEN "next" ELSE "no"
      /\ missed'[s] = IF s \in heard THEN 0 ELSE missed[s] + 1
      /\ heard' = {}
  BY DEF EndPeriod, vars, coordVars, recordVars, watchVars, serverVars
<1>2. Rec(s)' = Rec(s)
  BY <1>1 DEF Rec
<1> SUFFICES ASSUME RoleOf[s] = "master", Rec(s) \in Recs,
                    NEW w \in Watchers, watch[w] = Rec(s), Counted(s, w)
             PROVE  Counted(s, w)'
  BY <1>0, <1>1, <1>2 DEF Detected
<1>3. ToTurn(w) = 0 /\ ToTurn(w)' = 1
  BY <1>1, NilAssumption DEF ToTurn
<1>4. /\ beating[s] <=> proc[s] = "serving"
      /\ Owed(s)' = IF beating[s] THEN 1 ELSE 0
      /\ Silent(s)' = IF beating[s] THEN 0 ELSE 1
  BY <1>0, <1>1 DEF Paced, Owed, Silent
<1>5. CASE s \in heard
  BY <1>1, <1>2, <1>3, <1>4, <1>5, CountedTyped DEF Counted
<1>6. CASE s \notin heard
  <2>1. Owed(s) = Owed(s)' /\ Silent(s)' = Silent(s)
    BY <1>0, <1>1, <1>4, <1>6 DEF Paced, Owed, Silent
  <2> QED
    BY <1>1, <1>2, <1>3, <1>6, <2>1, CountedTyped DEF Counted
<1> QED
  BY <1>5, <1>6

\* Every step keeps the count.
LEMMA StepDetected ==
    ASSUME OneEach, PacedInv, NEW s \in Servers, Detected(s), [PacedNext]_pacedVars
    PROVE  Detected(s)'
<1>0. /\ TypeOK /\ HomeInv /\ ClockTyped /\ Rec(s) \in Recs \cup {Nil}
      /\ proc \in [Servers -> {"down", "spawning", "poking", "building", "serving"}]
  BY PacedTyped, IdsAssumption DEF Rec, TypeOK
<1> DEFINE same == UNCHANGED <<addr, live, beats, watch, seen, turn, starts, missed, heard>>
<1>1. ASSUME NEW t \in Servers, PacedHandler(t) PROVE Detected(s)'
  <2>1. CASE AcceptedOn(t, Rec(t)) /\ Rec(t) \in Recs /\ UNCHANGED c_map
    BY <1>1, <2>1, AcceptDetected
  <2>2. CASE SpawnReject(t) /\ UNCHANGED <<c_map, addr, live, watch, seen, accepted>>
    <3>1. same /\ UNCHANGED <<c_map, due, proc>>
      BY <1>1, <2>2, HandlerCases
    <3> QED
      BY <3>1, DetectedFrame DEF Rec, Owed, Silent
  <2>3. CASE SpawnInsert(t) /\ UNCHANGED <<addr, live, watch, seen, spawn_resp, accepted>>
    <3>1. same /\ UNCHANGED <<due, proc>>
      BY <1>1, <2>3, HandlerCases
    <3>2. PICK n \in Recs \ alloc : c_map' = [c_map EXCEPT ![IdOf[t]] = n]
      BY <2>3 DEF SpawnInsert
    <3>3. CASE IdOf[s] = IdOf[t]
      <4>1. Rec(s)' = n
        BY <1>0, <3>2, <3>3, IdsAssumption DEF Rec, TypeOK
      <4>2. addr[n]["master"] = Nil
        BY <1>0 DEF HomeInv, Owned, Untouched, Roles
      <4> QED
        BY <3>1, <4>1, <4>2 DEF Detected
    <3>4. CASE IdOf[s] # IdOf[t]
      <4>1. Rec(s)' = Rec(s)
        BY <1>0, <3>2, <3>4, IdsAssumption DEF Rec, TypeOK
      <4> QED
        BY <3>1, <4>1, DetectedFrame DEF Owed, Silent
    <3> QED
      BY <3>3, <3>4
  <2> QED
    BY <1>1, <2>1, <2>2, <2>3, HandlerCases
<1>2. ASSUME NEW t \in Servers, PacedStart(t) PROVE Detected(s)'
  BY <1>2, StartDetected
<1>3. ASSUME NEW t \in Servers, PacedReply(t) PROVE Detected(s)'
  <2>1. same /\ UNCHANGED <<c_map, accepted>>
    BY <1>3 DEF PacedReply, ReceiveReply, SpawnReply, recordVars, watchVars
  <2>2. CASE proc[t] = "spawning"
    <3>1. /\ due' = [due EXCEPT ![t] = "first"]
          /\ \/ proc' = [proc EXCEPT ![t] = "building"]
             \/ proc' = [proc EXCEPT ![t] = "poking"]
      BY <1>0, <1>3, <2>2, PacedTyped DEF PacedReply, ReceiveReply
    <3>2. Owed(s)' = Owed(s) /\ Silent(s)' = Silent(s)
      BY <1>0, <2>1, <2>2, <3>1 DEF Owed, Silent, ClockTyped
    <3> QED
      BY <2>1, <3>2, DetectedFrame DEF Rec
  <2>3. CASE proc[t] # "spawning"
    <3>1. proc[t] = "down" /\ ~beating[t]
      BY <1>3, <2>3 DEF PacedReply, ReceiveReply, SpawnReply, PacedInv, Paced
    <3>2. UNCHANGED <<proc, due>>
      BY <1>3, <2>3, <3>1 DEF PacedReply, ReceiveReply, serverVars
    <3> QED
      BY <2>1, <3>2, DetectedFrame DEF Rec, Owed, Silent
  <2> QED
    BY <2>2, <2>3
<1>4. ASSUME NEW t \in Servers, PacedHeartbeat(t) PROVE Detected(s)'
  BY <1>4, BeatDetected
<1>5. ASSUME NEW t \in Servers, PacedCrash(t) PROVE Detected(s)'
  BY <1>5, SilenceDetected
<1>6. ASSUME NEW w \in Watchers, PacedTick(w) PROVE Detected(s)'
  BY <1>6, TurnDetected
<1>7. CASE Unpaced
  <2>1. same /\ UNCHANGED <<c_map, due>>
    BY <1>7 DEF Unpaced, Poke, Serve, coordVars, recordVars, watchVars, clockVars
  <2>2. proc'[s] = proc[s] \/ {proc[s], proc'[s]} \subseteq {"poking", "building", "serving"}
    BY <1>0, <1>7 DEF Unpaced, Poke, Serve
  <2>3. Owed(s)' = Owed(s) /\ Silent(s)' = Silent(s)
    BY <2>1, <2>2 DEF Owed, Silent
  <2> QED
    BY <2>1, <2>3, DetectedFrame DEF Rec
<1>8. CASE EndPeriod
  BY <1>8, PeriodDetected
<1>9. CASE UNCHANGED pacedVars
  BY <1>9, DetectedFrame
     DEF pacedVars, vars, coordVars, recordVars, watchVars, serverVars, clockVars, Rec, Owed,
         Silent
<1> HIDE DEF same
<1> QED
  BY <1>1, <1>2, <1>3, <1>4, <1>5, <1>6, <1>7, <1>8, <1>9 DEF PacedNext, Horizon

DetectedInv == PacedInv /\ \A s \in Servers : Detected(s)

\* Where servers are started one after the other, one of each role in a cluster, a
\* master that falls silent is believed dead two periods later, and one more for every
\* time it was started, whatever crashes and slips there are.
THEOREM ClockDetectedInTime ==
    ASSUME SerialStart, OneEach
    PROVE  PacedSpec => []DetectedInTime
<1>1. PacedInit => DetectedInv
  <2> SUFFICES ASSUME PacedInit PROVE DetectedInv
    OBVIOUS
  <2>1. PacedInv
    BY InitKept DEF KeptInv
  <2>2. \A s \in Servers : Detected(s)
    BY IdsAssumption DEF PacedInit, Init, CoordInit, Detected, Rec
  <2> QED
    BY <2>1, <2>2 DEF DetectedInv
<1>2. DetectedInv /\ [PacedNext]_pacedVars => DetectedInv'
  BY StepPacedInv, StepDetected DEF DetectedInv
<1>3. DetectedInv => DetectedInTime
  <2> SUFFICES ASSUME DetectedInv, NEW s \in Servers, RoleOf[s] = "master",
                      missed[s] >= starts[s] + 2, BelievedAlive(s)
               PROVE  FALSE
    BY DEF DetectedInTime
  <2>1. PacedInv /\ Paced(s) /\ Detected(s) /\ SerialInv
    BY PacedTyped DEF DetectedInv, PacedInv
  <2>2. PICK r \in Recs : addr[r]["master"] = s /\ live[r]["master"]
    BY DEF BelievedAlive
  <2>3. Rec(s) = r
    BY <2>1, <2>2, NilAssumption DEF SerialInv, Rec, Roles
  <2>4. PICK w \in Watchers : Counted(s, w)
    BY <2>1, <2>2, <2>3, NilAssumption DEF Detected
  <2>5. /\ beats[r]["master"] + Owed(s) + missed[s] + Silent(s)
             =< seen[w]["master"] + ToTurn(w) + starts[s]
        /\ beats[r]["master"] + 2 =< seen[w]["master"] => missed[s] =< ToTurn(w)
    BY <2>2, <2>3, <2>4 DEF Counted
  <2>6. Owed(s) = 0 /\ Silent(s) = 0
    BY <2>1, <2>5, CountedTyped
  <2>7. missed[s] = 0
    BY <2>1, <2>6, PacedTyped DEF Owed, Silent, Paced
  <2> QED
    BY <2>1, <2>7, CountedTyped
<1> QED
  BY <1>1, <1>2, <1>3, PTL DEF PacedSpec

-----------------------------------------------------------------------------
(* A master and its slave hear of each other *)

\* The first life of a server: it has no address before its ClusterSpawn is decided,
\* it is accepted then, and a master starts the only thread that checks its record.
FirstLife(s) ==
    /\ starts[s] = 0 \/ (starts[s] = 1 /\ Spawning(s)) =>
         \A r \in Recs : addr[r][RoleOf[s]] # s
    /\ starts[s] = 1 /\ proc[s] # "down" /\ ~Spawning(s) => s \in accepted
    /\ RoleOf[s] = "master" /\ starts[s] = 1 /\ Rec(s) # Nil => Sole(Rec(s))

\* Whoever comes up second is told of the first, and tells it: the master knows the
\* slave, is about to, or listens while the slave is about to call.
Meet(m, s) ==
    /\ RoleOf[m] = "master" /\ RoleOf[s] = "slave" /\ IdOf[m] = IdOf[s]
    /\ starts[m] = 1 /\ starts[s] = 1 /\ proc[m] # "down" /\ proc[s] # "down"
    /\ slips[m] =< 1
    => \/ s_stub[m] # Nil
       \/ /\ proc[m] = "spawning" /\ proc[s] = "serving"
          /\ Spawning(m) \/ spawn_resp[m] # Nil
       \/ /\ proc[m] = "serving"
          /\ \/ proc[s] = "spawning" /\ (Spawning(s) \/ spawn_resp[s] # Nil)
             \/ proc[s] = "poking"

\* A record that no master was accepted on is checked by nobody.
LEMMA NobodyWatches ==
    ASSUME PacedInv, NEW r \in Recs, addr[r]["master"] = Nil
    PROVE  Unwatched(r) /\ Sole(r)
BY PacedTyped DEF WatchedMaster, Unwatched, Sole

\* The record that awaits a server's first ClusterSpawn has no address for its role.
LEMMA FirstVacant ==
    ASSUME OneEach, PacedInv, NEW s \in Servers, FirstLife(s), Rec(s) \in Recs,
           starts[s] = 0 \/ (starts[s] = 1 /\ Spawning(s))
    PROVE  addr[Rec(s)][RoleOf[s]] = Nil /\ ~live[Rec(s)][RoleOf[s]]
<1>1. addr[Rec(s)][RoleOf[s]] = Nil
  BY OwnRecord DEF FirstLife
<1> QED
  BY <1>1, RolesAssumption DEF PacedInv, GroundInv, LiveInv

\* A step that leaves the addresses and the threads alone.
LEMMA FirstFrame ==
    ASSUME NEW s \in Servers, FirstLife(s), UNCHANGED <<addr, watch>>, Rec(s)' = Rec(s),
           starts'[s] = starts[s], Spawning(s)' <=> Spawning(s),
           proc'[s] # "down" => proc[s] # "down" /\ (s \in accepted => s \in accepted')
    PROVE  FirstLife(s)'
<1>1. Rec(s) # Nil /\ Sole(Rec(s)) => Sole(Rec(s))'
  BY DEF Sole
<1> QED
  BY <1>1 DEF FirstLife

\* The first ClusterSpawn of a server is accepted.
LEMMA HandlerFirst ==
    ASSUME OneEach, PacedInv, NEW s \in Servers, FirstLife(s), NEW t \in Servers,
           PacedHandler(t)
    PROVE  FirstLife(s)'
<1>0. /\ TypeOK /\ HomeInv /\ ClockTyped /\ Paced(s) /\ Spawning(t)
      /\ RoleOf[s] \in Roles /\ RoleOf[t] \in Roles
      /\ UNCHANGED <<proc, starts>>
  BY PacedTyped, HandlerCases, RolesAssumption DEF PacedInv
<1>1. CASE SpawnInsert(t) /\ UNCHANGED <<addr, live, watch, seen, spawn_resp, accepted>>
  <2>1. PICK n \in Recs \ alloc : c_map' = [c_map EXCEPT ![IdOf[t]] = n]
    BY <1>1 DEF SpawnInsert
  <2>2. Spawning(s)' <=> Spawning(s)
    BY <1>0, <1>1 DEF SpawnInsert, Spawning, TypeOK
  <2>3. CASE IdOf[s] = IdOf[t]
    <3>1. Rec(s)' = n
      BY <1>0, <2>1, <2>3, IdsAssumption DEF Rec, TypeOK
    <3>2. Sole(n)
      BY <1>0, NobodyWatches DEF HomeInv, Owned, Untouched, Roles
    <3>3. Sole(Rec(s))'
      BY <1>1, <3>1, <3>2 DEF Sole
    <3> QED
      BY <1>0, <1>1, <2>2, <3>3 DEF FirstLife
  <2>4. CASE IdOf[s] # IdOf[t]
    <3>1. Rec(s)' = Rec(s)
      BY <1>0, <2>1, <2>4, IdsAssumption DEF Rec, TypeOK
    <3> QED
      BY <1>0, <1>1, <2>2, <3>1, FirstFrame
  <2> QED
    BY <2>3, <2>4
<1>2. CASE /\ SpawnReject(t) /\ live[Rec(t)][RoleOf[t]] /\ Rec(t) \in Recs
           /\ spawn_pc' = [spawn_pc EXCEPT ![t] = "reply"]
           /\ UNCHANGED <<c_map, addr, live, watch, seen, accepted>>
  <2>1. CASE s = t
    <3>1. starts[s] # 1 /\ starts[s] # 0
      BY <1>0, <1>2, <2>1, FirstVacant DEF Paced, Spawning
    <3> QED
      BY <1>0, <3>1 DEF FirstLife
  <2>2. CASE s # t
    <3>1. Spawning(s)' <=> Spawning(s)
      BY <1>0, <1>2, <2>2 DEF Spawning, TypeOK
    <3> QED
      BY <1>0, <1>2, <3>1, FirstFrame DEF Rec
  <2> QED
    BY <2>1, <2>2
<1>3. CASE /\ Rec(t) \in Recs /\ AcceptedOn(t, Rec(t)) /\ UNCHANGED c_map
           /\ spawn_pc' = [spawn_pc EXCEPT ![t] = "reply"]
  <2>1. PICK n \in Recs : n = Rec(t) /\ AcceptedOn(t, n)
    BY <1>3
  <2>2. /\ addr' = [addr EXCEPT ![n][RoleOf[t]] = t]
        /\ accepted' = IF proc[t] = "spawning" THEN accepted \cup {t} ELSE accepted
        /\ Rec(s)' = Rec(s) /\ Rec(s) \in Recs \cup {Nil}
    BY <1>0, <1>3, <2>1, IdsAssumption DEF AcceptedOn, Rec, TypeOK
  <2>3. CASE s = t
    <3>1. ~Spawning(s)' /\ starts[s] # 0
      BY <1>0, <1>3, <2>3 DEF Spawning, TypeOK, Paced
    <3>2. proc[s] # "down" => s \in accepted'
      BY <1>0, <2>2, <2>3 DEF Paced, Spawning
    <3>3. ASSUME RoleOf[s] = "master", starts[s] = 1 PROVE Sole(n)'
      <4>1. Unwatched(n)
        BY <1>0, <2>1, <2>3, <3>3, FirstVacant, NobodyWatches
      <4>2. PICK w \in Watchers : watch' = [watch EXCEPT ![w] = n]
        BY <2>1, <2>3, <3>3 DEF AcceptedOn
      <4> QED
        BY <1>0, <4>1, <4>2 DEF Sole, Unwatched, TypeOK
    <3>4. RoleOf[s] = "master" /\ starts[s] = 1 => Sole(Rec(s))'
      BY <2>1, <2>2, <2>3, <3>3 DEF Sole
    <3> QED
      BY <1>0, <3>1, <3>2, <3>4 DEF FirstLife
  <2>4. CASE s # t
    <3>1. Spawning(s)' <=> Spawning(s)
      BY <1>0, <1>3, <2>4 DEF Spawning, TypeOK
    <3>2. ASSUME NEW r \in Recs, addr[r][RoleOf[s]] # s PROVE addr'[r][RoleOf[s]] # s
      BY <1>0, <2>2, <2>4, <3>2 DEF TypeOK
    <3>3. ASSUME RoleOf[s] = "master", Rec(s) # Nil, Sole(Rec(s)) PROVE Sole(Rec(s))'
      <4>1. CASE UNCHANGED watch
        BY <2>2, <3>3, <4>1 DEF Sole
      <4>2. ASSUME NEW w \in Watchers, RoleOf[t] = "master", watch[w] = Nil,
                   watch' = [watch EXCEPT ![w] = n]
            PROVE  Sole(Rec(s))'
        <5>1. Rec(s) # n
          BY <2>1, <2>4, <3>3, <4>2, SameRecord DEF OneEach
        <5> QED
          BY <1>0, <2>2, <3>3, <4>2, <5>1 DEF Sole, TypeOK
      <4> QED
        BY <2>1, <4>1, <4>2 DEF AcceptedOn
    <3> QED
      BY <1>0, <2>2, <3>1, <3>2, <3>3 DEF FirstLife
  <2> QED
    BY <2>3, <2>4
<1> QED
  BY <1>1, <1>2, <1>3, HandlerCases

\* Every step keeps the first lives in order.
LEMMA StepFirst ==
    ASSUME OneEach, PacedInv, NEW s \in Servers, FirstLife(s), [PacedNext]_pacedVars
    PROVE  FirstLife(s)'
<1>0. /\ TypeOK /\ ClockTyped /\ Rec(s) \in Recs \cup {Nil}
      /\ proc \in [Servers -> {"down", "spawning", "poking", "building", "serving"}]
  BY PacedTyped, IdsAssumption DEF Rec, TypeOK
<1>1. ASSUME NEW t \in Servers, PacedStart(t) PROVE FirstLife(s)'
  <2>1. /\ UNCHANGED <<c_map, addr, watch, accepted>>
        /\ proc' = [proc EXCEPT ![t] = "spawning"]
        /\ starts' = [starts EXCEPT ![t] = @ + 1]
        /\ \/ spawn_pc' = [spawn_pc EXCEPT ![t] = "insert"]
           \/ spawn_pc' = [spawn_pc EXCEPT ![t] = "lock"]
    BY <1>1 DEF PacedStart, ServerStart, SpawnLookup, recordVars, watchVars
  <2>2. CASE s # t
    BY <1>0, <2>1, <2>2, FirstFrame DEF Rec, Spawning, TypeOK, ClockTyped
  <2>3. CASE s = t
    <3>1. starts'[s] = starts[s] + 1 /\ starts[s] \in Nat /\ Spawning(s)'
      BY <1>0, <2>1, <2>3 DEF Spawning, TypeOK, ClockTyped
    <3>2. ASSUME starts[s] = 0, RoleOf[s] = "master", Rec(s) # Nil PROVE Sole(Rec(s))
      BY <1>0, <3>2, FirstVacant, NobodyWatches
    <3>3. Rec(s)' = Rec(s) /\ (Sole(Rec(s)) => Sole(Rec(s))')
      BY <2>1 DEF Rec, Sole
    <3> QED
      BY <2>1, <3>1, <3>2, <3>3 DEF FirstLife
  <2> QED
    BY <2>2, <2>3
<1>2. ASSUME NEW t \in Servers, PacedHandler(t) PROVE FirstLife(s)'
  BY <1>2, HandlerFirst
<1>3. ASSUME NEW t \in Servers, PacedReply(t) PROVE FirstLife(s)'
  <2>1. /\ UNCHANGED <<c_map, addr, watch, starts, accepted>>
        /\ spawn_pc[t] = "reply" /\ spawn_pc' = [spawn_pc EXCEPT ![t] = "idle"]
        /\ proc'[s] # "down" => proc[s] # "down"
    BY <1>0, <1>3
       DEF PacedReply, ReceiveReply, SpawnReply, recordVars, watchVars, serverVars
  <2>2. Spawning(s)' <=> Spawning(s)
    BY <1>0, <2>1 DEF Spawning, TypeOK
  <2> QED
    BY <2>1, <2>2, FirstFrame DEF Rec
<1>4. ASSUME NEW t \in Servers, PacedHeartbeat(t) PROVE FirstLife(s)'
  BY <1>4, BeatCounted, FirstFrame DEF Rec, Spawning
<1>5. ASSUME NEW t \in Servers, PacedCrash(t) PROVE FirstLife(s)'
  <2>1. /\ UNCHANGED <<c_map, addr, watch, starts, spawn_pc>>
        /\ proc' = [proc EXCEPT ![t] = "down"]
        /\ accepted' = accepted \ {t}
    BY <1>5 DEF PacedCrash, ServerCrash, coordVars, recordVars, watchVars, spawnVars
  <2> QED
    BY <1>0, <2>1, FirstFrame DEF Rec, Spawning
<1>6. ASSUME NEW w \in Watchers, PacedTick(w) PROVE FirstLife(s)'
  BY <1>6, TurnCases, FirstFrame DEF Rec, Spawning
<1>7. CASE Unpaced
  <2>1. /\ UNCHANGED <<c_map, addr, watch, starts, spawn_pc, accepted>>
        /\ proc'[s] # "down" => proc[s] # "down"
    BY <1>0, <1>7
       DEF Unpaced, Poke, Serve, coordVars, recordVars, watchVars, spawnVars, clockVars
  <2> QED
    BY <2>1, FirstFrame DEF Rec, Spawning
<1>8. CASE EndPeriod \/ UNCHANGED pacedVars
  BY <1>8, FirstFrame
     DEF EndPeriod, pacedVars, vars, coordVars, recordVars, watchVars, spawnVars, serverVars,
         clockVars, Rec, Spawning
<1> QED
  BY <1>1, <1>2, <1>3, <1>4, <1>5, <1>6, <1>7, <1>8 DEF PacedNext, Horizon

FirstInv == KeptInv /\ \A s \in Servers : FirstLife(s)

\* A step that leaves the lives of the two alone.
LEMMA MeetFrame ==
    ASSUME NEW m \in Servers, NEW s \in Servers, Meet(m, s),
           proc'[m] = proc[m], proc'[s] = proc[s],
           starts'[m] = starts[m], starts'[s] = starts[s],
           slips'[m] =< 1 => slips[m] =< 1,
           s_stub[m] # Nil => s_stub'[m] # Nil,
           Spawning(m) \/ spawn_resp[m] # Nil => Spawning(m)' \/ spawn_resp'[m] # Nil,
           Spawning(s) \/ spawn_resp[s] # Nil => Spawning(s)' \/ spawn_resp'[s] # Nil
    PROVE  Meet(m, s)'
BY DEF Meet

\* The reply that an accepted spawn of one takes to the other.
LEMMA AcceptMeet ==
    ASSUME OneEach, FirstInv, NEW m \in Servers, NEW s \in Servers, NEW t \in Servers,
           Meet(m, s), PacedHandler(t), Rec(t) \in Recs, AcceptedOn(t, Rec(t)),
           spawn_pc' = [spawn_pc EXCEPT ![t] = "reply"]
    PROVE  Meet(m, s)'
<1>0. /\ TypeOK /\ PacedInv /\ Paced(m) /\ Paced(s) /\ Spawning(t)
      /\ FirstLife(m) /\ FirstLife(s) /\ Kept(m) /\ Kept(s)
      /\ UNCHANGED <<proc, starts, slips, s_stub>>
  BY PacedTyped, HandlerCases DEF FirstInv, KeptInv, PacedInv
<1> SUFFICES ASSUME RoleOf[m] = "master", RoleOf[s] = "slave", IdOf[m] = IdOf[s],
                    starts[m] = 1, starts[s] = 1, proc[m] # "down", proc[s] # "down",
                    slips[m] =< 1, s_stub[m] = Nil
             PROVE  \/ /\ proc[m] = "spawning" /\ proc[s] = "serving"
                       /\ Spawning(m)' \/ spawn_resp'[m] # Nil
                    \/ /\ proc[m] = "serving"
                       /\ \/ proc[s] = "spawning" /\ (Spawning(s)' \/ spawn_resp'[s] # Nil)
                          \/ proc[s] = "poking"
  BY <1>0 DEF Meet
<1>1. Rec(m) = Rec(s) /\ m # s
  BY DEF Rec
<1>2. PICK n \in Recs : n = Rec(t)
  OBVIOUS
<1>3. spawn_resp' = [spawn_resp EXCEPT ![t] =
                       IF live[n][Partner(RoleOf[t])] THEN addr[n][Partner(RoleOf[t])]
                       ELSE Nil]
  BY <1>2 DEF AcceptedOn
<1>4. CASE t = m
  <2>1. proc[m] = "spawning" /\ proc[s] = "serving"
    BY <1>0, <1>4 DEF Meet, Paced, Spawning
  <2>2. s \in accepted
    BY <1>0, <2>1 DEF FirstLife, Paced, Spawning
  <2>3. Unwatched(n)
    BY <1>0, <1>2, <1>4, FirstVacant, NobodyWatches
  <2>4. live[n]["slave"] /\ addr[n]["slave"] = s
    BY <1>0, <1>1, <1>2, <1>4, <2>2, <2>3 DEF Kept, OnTime
  <2>5. spawn_resp'[m] = s
    BY <1>0, <1>3, <1>4, <2>4 DEF Partner, TypeOK
  <2> QED
    BY <2>1, <2>5, NilAssumption
<1>5. CASE t = s
  <2>1. proc[m] = "serving" /\ proc[s] = "spawning"
    BY <1>0, <1>5 DEF Meet, Paced, Spawning
  <2>2. m \in accepted
    BY <1>0, <2>1 DEF FirstLife, Paced, Spawning
  <2>3. Sole(n)
    BY <1>0, <1>1, <1>2, <1>5, NilAssumption DEF FirstLife
  <2>4. live[n]["master"] /\ addr[n]["master"] = m
    BY <1>0, <1>1, <1>2, <1>5, <2>2, <2>3 DEF Kept, OnTime, Base
  <2>5. spawn_resp'[s] = m
    BY <1>0, <1>3, <1>5, <2>4 DEF Partner, TypeOK
  <2> QED
    BY <2>1, <2>5, NilAssumption
<1>6. CASE t # m /\ t # s
  <2>1. /\ spawn_resp'[m] = spawn_resp[m] /\ spawn_resp'[s] = spawn_resp[s]
        /\ Spawning(m)' <=> Spawning(m)
        /\ Spawning(s)' <=> Spawning(s)
    BY <1>0, <1>3, <1>6 DEF Spawning, TypeOK
  <2> QED
    BY <2>1 DEF Meet
<1> QED
  BY <1>4, <1>5, <1>6

\* Every step brings the two closer.
LEMMA StepMeet ==
    ASSUME SerialStart, OneEach, FirstInv, NEW m \in Servers, NEW s \in Servers, Meet(m, s),
           [PacedNext]_pacedVars
    PROVE  Meet(m, s)'
<1>0. /\ TypeOK /\ ClockTyped /\ PacedInv /\ Paced(m) /\ Paced(s)
      /\ FirstLife(m) /\ FirstLife(s) /\ StubInv
      /\ proc \in [Servers -> {"down", "spawning", "poking", "building", "serving"}]
      /\ s_stub \in [Servers -> Servers \cup {Nil}]
  BY PacedTyped DEF FirstInv, KeptInv, PacedInv, GroundInv
<1>1. ASSUME NEW t \in Servers, PacedStart(t) PROVE Meet(m, s)'
  <2>1. /\ UNCHANGED <<s_stub, spawn_resp, slips>>
        /\ proc[t] = "down" /\ proc' = [proc EXCEPT ![t] = "spawning"]
        /\ starts' = [starts EXCEPT ![t] = @ + 1]
        /\ \/ spawn_pc' = [spawn_pc EXCEPT ![t] = "insert"]
           \/ spawn_pc' = [spawn_pc EXCEPT ![t] = "lock"]
        /\ \A u \in Servers : proc[u] \in {"down", "serving"}
    BY <1>1 DEF PacedStart, ServerStart, SpawnLookup, MayStart
  <2>2. Spawning(t)'
    BY <1>0, <2>1 DEF Spawning, TypeOK
  <2>3. CASE t # m /\ t # s
    BY <1>0, <2>1, <2>3, MeetFrame DEF Spawning, TypeOK, ClockTyped
  <2>4. CASE t = m \/ t = s
    BY <1>0, <2>1, <2>2, <2>4 DEF Meet, ClockTyped
  <2> QED
    BY <2>3, <2>4
<1>2. ASSUME NEW t \in Servers, PacedHandler(t) PROVE Meet(m, s)'
  <2>0. UNCHANGED <<proc, starts, slips, s_stub>>
    BY <1>0, <1>2, HandlerCases
  <2>1. CASE /\ Rec(t) \in Recs /\ AcceptedOn(t, Rec(t))
             /\ spawn_pc' = [spawn_pc EXCEPT ![t] = "reply"]
    BY <1>2, <2>1, AcceptMeet
  <2>2. CASE SpawnInsert(t) /\ UNCHANGED <<addr, live, watch, seen, spawn_resp, accepted>>
    <3>1. (Spawning(s)' <=> Spawning(s)) /\ (Spawning(m)' <=> Spawning(m))
      BY <1>0, <2>2 DEF SpawnInsert, Spawning, TypeOK
    <3> QED
      BY <2>0, <2>2, <3>1, MeetFrame
  <2>3. CASE /\ SpawnReject(t) /\ live[Rec(t)][RoleOf[t]] /\ Rec(t) \in Recs
             /\ spawn_pc' = [spawn_pc EXCEPT ![t] = "reply"]
             /\ spawn_resp' = [spawn_resp EXCEPT ![t] = Nil]
    <3>1. CASE t # m /\ t # s
      <4>1. /\ (Spawning(s)' <=> Spawning(s)) /\ (Spawning(m)' <=> Spawning(m))
            /\ spawn_resp'[m] = spawn_resp[m] /\ spawn_resp'[s] = spawn_resp[s]
        BY <1>0, <2>3, <3>1 DEF Spawning, TypeOK
      <4> QED
        BY <2>0, <4>1, MeetFrame
    <3>2. CASE t = m \/ t = s
      <4>1. FirstLife(t) /\ Spawning(t)
        BY <1>0, <1>2, <3>2, HandlerCases
      <4>2. starts[t] # 1
        BY <1>0, <2>3, <4>1, FirstVacant
      <4> QED
        BY <2>0, <3>2, <4>2 DEF Meet
    <3> QED
      BY <3>1, <3>2
  <2> QED
    BY <1>0, <1>2, <2>1, <2>2, <2>3, HandlerCases
<1>3. ASSUME NEW t \in Servers, PacedReply(t) PROVE Meet(m, s)'
  <2>1. /\ UNCHANGED <<starts, slips>>
        /\ spawn_pc[t] = "reply" /\ spawn_pc' = [spawn_pc EXCEPT ![t] = "idle"]
        /\ spawn_resp' = [spawn_resp EXCEPT ![t] = Nil]
        /\ proc[t] = "spawning" =>
             /\ proc' = [proc EXCEPT ![t] =
                           IF spawn_resp[t] = Nil THEN "building" ELSE "poking"]
             /\ s_stub' = [s_stub EXCEPT ![t] = spawn_resp[t]]
        /\ proc[t] # "spawning" => UNCHANGED <<proc, s_stub>>
    BY <1>3 DEF PacedReply, ReceiveReply, SpawnReply, serverVars
  <2>2. \A u \in Servers : u # t =>
          /\ Spawning(u)' <=> Spawning(u)
          /\ spawn_resp'[u] = spawn_resp[u] /\ proc'[u] = proc[u] /\ s_stub'[u] = s_stub[u]
    BY <1>0, <2>1 DEF Spawning, TypeOK
  <2>3. CASE t # m /\ t # s
    BY <2>1, <2>2, <2>3, MeetFrame
  <2>4. CASE t = m
    <3>1. CASE proc[m] # "spawning"
      BY <1>0, <2>1, <2>4, <3>1 DEF Meet, Paced
    <3>2. CASE proc[m] = "spawning"
      <4>1. s_stub[m] = Nil /\ ~Spawning(m) /\ s_stub'[m] = spawn_resp[m]
        BY <1>0, <2>1, <2>4, <3>2 DEF Paced, Spawning
      <4>2. RoleOf[m] = "master" /\ RoleOf[s] = "slave" => proc'[s] = proc[s]
        BY <2>2, <2>4
      <4> QED
        BY <2>1, <3>2, <4>1, <4>2 DEF Meet
    <3> QED
      BY <3>1, <3>2
  <2>5. CASE t = s
    <3>1. CASE proc[s] # "spawning"
      BY <1>0, <2>1, <2>5, <3>1 DEF Meet, Paced
    <3>2. CASE proc[s] = "spawning"
      <4>1. /\ ~Spawning(s)
            /\ proc'[s] = IF spawn_resp[s] = Nil THEN "building" ELSE "poking"
        BY <1>0, <2>1, <2>5, <3>2 DEF Spawning
      <4>2. RoleOf[m] = "master" /\ RoleOf[s] = "slave" =>
              proc'[m] = proc[m] /\ s_stub'[m] = s_stub[m]
        BY <2>2, <2>5
      <4> QED
        BY <2>1, <3>2, <4>1, <4>2 DEF Meet
    <3> QED
      BY <3>1, <3>2
  <2> QED
    BY <2>3, <2>4, <2>5
<1>4. ASSUME NEW t \in Servers, PacedHeartbeat(t) PROVE Meet(m, s)'
  BY <1>0, <1>4, BeatCounted, MeetFrame DEF Spawning
<1>5. ASSUME NEW t \in Servers, PacedCrash(t) PROVE Meet(m, s)'
  <2>1. /\ UNCHANGED <<starts, slips, spawn_pc, spawn_resp>>
        /\ proc' = [proc EXCEPT ![t] = "down"]
        /\ s_stub' = [s_stub EXCEPT ![t] = Nil]
    BY <1>5 DEF PacedCrash, ServerCrash, coordVars, spawnVars
  <2>2. CASE t # m /\ t # s
    BY <1>0, <2>1, <2>2, MeetFrame DEF Spawning
  <2>3. CASE t = m \/ t = s
    BY <1>0, <2>1, <2>3 DEF Meet
  <2> QED
    BY <2>2, <2>3
<1>6. ASSUME NEW w \in Watchers, PacedTick(w) PROVE Meet(m, s)'
  BY <1>0, <1>6, TurnCases, MeetFrame DEF Spawning
<1>7. CASE Unpaced
  <2>1. UNCHANGED <<starts, slips, spawn_pc, spawn_resp>>
    BY <1>7 DEF Unpaced, Poke, Serve, coordVars, spawnVars, clockVars
  <2>2. ASSUME NEW t \in Servers, Serve(t) PROVE Meet(m, s)'
    <3>1. /\ proc[t] = "building" /\ proc' = [proc EXCEPT ![t] = "serving"]
          /\ UNCHANGED s_stub
      BY <2>2 DEF Serve
    <3>2. CASE t # m /\ t # s
      BY <1>0, <2>1, <3>1, <3>2, MeetFrame DEF Spawning
    <3>3. CASE t = m \/ t = s
      BY <1>0, <2>1, <3>1, <3>3 DEF Meet
    <3> QED
      BY <3>2, <3>3
  <2>3. ASSUME NEW t \in Servers, Poke(t) PROVE Meet(m, s)'
    <3>1. PICK p \in Servers : p = s_stub[t]
      BY <1>0, <2>3 DEF Poke, StubInv
    <3>2. IdOf[p] = IdOf[t] /\ RoleOf[p] # RoleOf[t]
      BY <1>0, <3>1, NilAssumption DEF StubInv, StubsStayHome
    <3>3. /\ proc[t] = "poking" /\ proc' = [proc EXCEPT ![t] = "building"]
          /\ s_stub' = IF proc[p] = "serving" THEN [s_stub EXCEPT ![p] = t] ELSE s_stub
      BY <2>3, <3>1 DEF Poke
    <3>4. s_stub[m] # Nil => s_stub'[m] # Nil
      BY <1>0, <3>3, NilAssumption
    <3>5. CASE t # m /\ t # s
      BY <1>0, <2>1, <3>3, <3>4, <3>5, MeetFrame DEF Spawning
    <3>6. CASE t = m
      BY <1>0, <2>1, <3>3, <3>4, <3>6 DEF Meet
    <3>7. CASE t = s
      <4> SUFFICES ASSUME RoleOf[m] = "master", RoleOf[s] = "slave", IdOf[m] = IdOf[s]
                   PROVE  Meet(m, s)'
        BY DEF Meet
      <4>1. p = m
        BY <3>2, <3>7, RolesAssumption DEF OneEach, Roles
      <4>2. proc[m] = "serving" => s_stub'[m] # Nil
        BY <1>0, <3>3, <4>1, NilAssumption
      <4> QED
        BY <1>0, <2>1, <3>3, <3>4, <3>7, <4>2 DEF Meet
    <3> QED
      BY <3>5, <3>6, <3>7
  <2> QED
    BY <1>7, <2>2, <2>3 DEF Unpaced
<1>8. CASE EndPeriod
  <2>1. /\ UNCHANGED <<proc, starts, s_stub, spawn_pc, spawn_resp>>
        /\ slips'[m] = slips[m] \/ slips'[m] = slips[m] + 1
    BY <1>0, <1>8 DEF EndPeriod, vars, coordVars, spawnVars, serverVars, ClockTyped
  <2>2. slips'[m] =< 1 => slips[m] =< 1
    BY <1>0, <2>1 DEF ClockTyped
  <2> QED
    BY <1>0, <2>1, <2>2, MeetFrame DEF Spawning
<1>9. CASE UNCHANGED pacedVars
  BY <1>9, MeetFrame
     DEF pacedVars, vars, coordVars, spawnVars, serverVars, clockVars, Spawning
<1> QED
  BY <1>1, <1>2, <1>3, <1>4, <1>5, <1>6, <1>7, <1>8, <1>9 DEF PacedNext, Horizon

MeetInv == FirstInv /\ \A m, s \in Servers : Meet(m, s)

\* Where servers are started one after the other, one of each role in a cluster, a master
\* and a slave in their first lives that both listen have met: the master, of whose beats
\* at most one slipped, replicates to the slave.
THEOREM ClockMasterKnowsSlave ==
    ASSUME SerialStart, OneEach
    PROVE  PacedSpec => []MasterKnowsSlave
<1>1. PacedInit => MeetInv
  <2> SUFFICES ASSUME PacedInit PROVE MeetInv
    OBVIOUS
  <2>1. KeptInv
    BY InitKept
  <2>2. \A s \in Servers : FirstLife(s)
    BY RolesAssumption, NilAssumption
       DEF PacedInit, Init, CoordInit, EachRole, FirstLife, Spawning
  <2>3. \A m, s \in Servers : Meet(m, s)
    BY DEF PacedInit, Meet
  <2> QED
    BY <2>1, <2>2, <2>3 DEF MeetInv, FirstInv
<1>2. MeetInv /\ [PacedNext]_pacedVars => MeetInv'
  <2> SUFFICES ASSUME MeetInv, [PacedNext]_pacedVars PROVE MeetInv'
    OBVIOUS
  <2>1. KeptInv' /\ FirstInv /\ PacedInv
    BY StepKeptInv DEF MeetInv, FirstInv, KeptInv
  <2>2. \A s \in Servers : FirstLife(s)'
    BY <2>1, StepFirst DEF FirstInv
  <2>3. \A m, s \in Servers : Meet(m, s)'
    BY <2>1, StepMeet DEF MeetInv
  <2> QED
    BY <2>1, <2>2, <2>3 DEF MeetInv, FirstInv
<1>3. MeetInv => MasterKnowsSlave
  BY DEF MeetInv, Meet, MasterKnowsSlave
<1> QED
  BY <1>1, <1>2, <1>3, PTL DEF PacedSpec
=============================================================================
