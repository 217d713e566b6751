------------------------- MODULE CoordinatorProofs -------------------------
(***************************************************************************)
(* Safety of the coordinator for every number of servers, synchronizers,   *)
(* clients, clusters, records and checking threads.                        *)
(***************************************************************************)
EXTENDS Coordinator, TLAPS

(* Typing *)

\* The coordinator starts with an empty, well-typed memory.
LEMMA InitTyped == CoordInit => TypeOK
BY NilAssumption DEF CoordInit, TypeOK, EachRole

\* A turn of a checking thread keeps a role's counters natural numbers.
LEMMA CheckedTyped ==
    ASSUME NEW l \in BOOLEAN, NEW b \in Nat, NEW n \in Nat
    PROVE  /\ Checked(l, b, n).live \in BOOLEAN
           /\ Checked(l, b, n).beats \in Nat
           /\ Checked(l, b, n).seen \in Nat
BY DEF Checked

\* Every step of every handler and thread keeps the memory well typed.
LEMMA StepTyped == TypeOK /\ [CoordNext]_coordVars => TypeOK'
<1> SUFFICES ASSUME TypeOK, [CoordNext]_coordVars PROVE TypeOK'
  OBVIOUS
<1> USE RolesAssumption, IdsAssumption, NilAssumption
<1>1. ASSUME NEW s \in Servers, SpawnLookup(s) PROVE TypeOK'
  BY <1>1 DEF TypeOK, SpawnLookup, recordVars, watchVars, clientVars
<1>2. ASSUME NEW s \in Servers, SpawnInsert(s) PROVE TypeOK'
  BY <1>2 DEF TypeOK, SpawnInsert, recordVars, watchVars, clientVars
<1>3. ASSUME NEW s \in Servers, SpawnReject(s) PROVE TypeOK'
  BY <1>3 DEF TypeOK, SpawnReject, recordVars, watchVars, clientVars
<1>4. ASSUME NEW s \in Servers, SpawnAccept(s) PROVE TypeOK'
  <2>1. addr' \in [Recs -> [Roles -> Servers \cup {Nil}]]
    BY <1>4 DEF TypeOK, SpawnAccept
  <2>2. live' \in [Recs -> [Roles -> BOOLEAN]]
    BY <1>4 DEF TypeOK, SpawnAccept
  <2>3. watch' \in [Watchers -> Recs \cup {Nil}] /\ seen' \in [Watchers -> [Roles -> Nat]]
    <3>1. CASE RoleOf[s] = "master"
      <4>1. spawn_cif[s] \in Recs \cup {Nil}
        BY DEF TypeOK
      <4>2. StartWatcher(spawn_cif[s])
        BY <1>4, <3>1 DEF SpawnAccept
      <4> QED
        BY <4>1, <4>2 DEF TypeOK, StartWatcher, EachRole
    <3>2. CASE RoleOf[s] # "master"
      BY <1>4, <3>2 DEF TypeOK, SpawnAccept, watchVars
    <3> QED
      BY <3>1, <3>2
  <2>4. spawn_resp' \in [Servers -> Servers \cup {Nil}]
    <3>1. spawn_cif[s] \in Recs /\ Partner(RoleOf[s]) \in Roles
      BY <1>4 DEF TypeOK, SpawnAccept, Partner, Roles
    <3> QED
      BY <1>4, <3>1 DEF TypeOK, SpawnAccept
  <2> QED
    BY <1>4, <2>1, <2>2, <2>3, <2>4 DEF TypeOK, SpawnAccept, clientVars
<1>5. ASSUME NEW s \in Servers, SpawnReply(s) PROVE TypeOK'
  BY <1>5 DEF TypeOK, SpawnReply, recordVars, watchVars, clientVars
<1>6. ASSUME NEW id \in Ids, NEW role \in Roles, Gucci(id, role) PROVE TypeOK'
  BY <1>6 DEF TypeOK, Gucci, watchVars, clientVars, spawnVars
<1>7. ASSUME NEW c \in Clients, GetConnection(c) PROVE TypeOK'
  <2>1. Registrar(c) \in Syncs \cup {Nil}
    BY DEF TypeOK, Registrar
  <2> QED
    BY <1>7, <2>1 DEF TypeOK, GetConnection, recordVars, watchVars, clientVars, spawnVars
<1>8. ASSUME NEW f \in Syncs, FollowerSpawn(f) PROVE TypeOK'
  BY <1>8 DEF TypeOK, FollowerSpawn, watchVars, clientVars, spawnVars
<1>9. ASSUME NEW w \in Watchers, checkCluster(w) PROVE TypeOK'
  <2> DEFINE r == watch[w]
             after == [role \in Roles |-> Checked(live[r][role], beats[r][role], seen[w][role])]
  <2>1. r \in Recs
    BY <1>9 DEF TypeOK, checkCluster
  <2>2. \A role \in Roles : /\ after[role].live \in BOOLEAN
                            /\ after[role].beats \in Nat
                            /\ after[role].seen \in Nat
    BY <2>1, CheckedTyped DEF TypeOK
  <2>3. /\ live' = [live EXCEPT ![r] = [role \in Roles |-> after[role].live]]
        /\ beats' = [beats EXCEPT ![r] = [role \in Roles |-> after[role].beats]]
        /\ seen' = [seen EXCEPT ![w] = [role \in Roles |-> after[role].seen]]
        /\ UNCHANGED <<c_map, alloc, addr, follower, watch, clientVars, spawnVars>>
    BY <1>9 DEF checkCluster
  <2> HIDE DEF after
  <2> QED
    BY <2>1, <2>2, <2>3 DEF TypeOK, clientVars, spawnVars
<1>10. CASE Restart
  BY <1>10 DEF TypeOK, Restart, EachRole
<1>11. CASE UNCHANGED coordVars
  BY <1>11 DEF TypeOK, coordVars, recordVars, watchVars, clientVars, spawnVars
<1> QED
  BY <1>1, <1>2, <1>3, <1>4, <1>5, <1>6, <1>7, <1>8, <1>9, <1>10, <1>11
     DEF CoordNext, ClusterSpawn

\* TypeOK holds of the coordinator whatever the callers do.
THEOREM CoordTyped == CoordSpec => []TypeOK
BY InitTyped, StepTyped, PTL DEF CoordSpec

-----------------------------------------------------------------------------
(* Every record belongs to one cluster *)

\* All that leads to record r, or is written in it, is of cluster id.
OwnedBy(r, id) ==
    /\ \A i \in Ids : c_map[i] = r => i = id
    /\ \A s \in Servers : spawn_cif[s] = r => IdOf[s] = id
    /\ \A role \in Roles :
         addr[r][role] # Nil => /\ IdOf[addr[r][role]] = id
                                /\ RoleOf[addr[r][role]] = role
    /\ follower[r] # Nil => SidOf[follower[r]] = id

\* Nothing leads to a record that was not allocated, and nothing is in it.
Untouched(r) ==
    /\ \A i \in Ids : c_map[i] # r
    /\ \A s \in Servers : spawn_cif[s] # r
    /\ \A role \in Roles : addr[r][role] = Nil
    /\ follower[r] = Nil

\* The insertion may overwrite a record in the map, but a record never changes
\* hands: it is what RoutedHome and RegisteredAtHome rest on.
Owned ==
    /\ \A r \in Recs : \E id \in Ids : OwnedBy(r, id)
    /\ \A r \in Recs \ alloc : Untouched(r)

PartnersHome ==
    \A s \in Servers :
        spawn_resp[s] # Nil => /\ IdOf[spawn_resp[s]] = IdOf[s]
                               /\ RoleOf[spawn_resp[s]] # RoleOf[s]

HomeInv == TypeOK /\ Owned /\ PartnersHome /\ RegisteredAtHome

\* Initially no record is allocated, so any cluster owns it.
LEMMA InitHome == CoordInit => HomeInv
<1> SUFFICES ASSUME CoordInit PROVE HomeInv
  OBVIOUS
<1> USE IdsAssumption, NilAssumption
<1>1. TypeOK
  BY InitTyped
<1>2. ASSUME NEW r \in Recs PROVE Untouched(r)
  BY DEF CoordInit, EachRole, Untouched
<1>3. ASSUME NEW r \in Recs, NEW id \in Ids PROVE OwnedBy(r, id)
  BY DEF CoordInit, EachRole, OwnedBy
<1>4. PartnersHome /\ RegisteredAtHome
  BY DEF CoordInit, PartnersHome, RegisteredAtHome
<1> QED
  BY <1>1, <1>2, <1>3, <1>4 DEF HomeInv, Owned

\* A record that is reached from cluster id is owned by it.
LEMMA OwnerUnique ==
    ASSUME HomeInv, NEW r \in Recs
    PROVE  /\ \A i \in Ids : c_map[i] = r => OwnedBy(r, i)
           /\ \A s \in Servers : spawn_cif[s] = r => OwnedBy(r, IdOf[s])
<1>1. PICK id \in Ids : OwnedBy(r, id)
  BY DEF HomeInv, Owned
<1> QED
  BY <1>1, IdsAssumption DEF OwnedBy

\* A step that leaves the map, the handlers, the addresses and the synchronizers
\* alone leaves the ownership alone.
LEMMA OwnedFrame ==
    ASSUME HomeInv, UNCHANGED <<c_map, alloc, addr, follower, spawn_cif>>
    PROVE  Owned'
BY DEF HomeInv, Owned, OwnedBy, Untouched

\* Every step keeps a record with its cluster.
LEMMA StepOwned == HomeInv /\ [CoordNext]_coordVars => Owned'
<1> SUFFICES ASSUME HomeInv, [CoordNext]_coordVars PROVE Owned'
  OBVIOUS
<1> USE RolesAssumption, IdsAssumption, NilAssumption
<1>0. TypeOK /\ TypeOK'
  BY StepTyped DEF HomeInv
<1>1. ASSUME NEW s \in Servers, SpawnLookup(s) PROVE Owned'
  <2>1. UNCHANGED <<c_map, alloc, addr, follower>>
        /\ spawn_cif' = [spawn_cif EXCEPT ![s] = c_map[IdOf[s]]]
    BY <1>1 DEF SpawnLookup, recordVars
  <2>2. ASSUME NEW r \in Recs PROVE \E id \in Ids : OwnedBy(r, id)'
    <3>1. CASE c_map[IdOf[s]] = r
      <4>1. OwnedBy(r, IdOf[s])
        BY <3>1, OwnerUnique
      <4>2. OwnedBy(r, IdOf[s])'
        BY <4>1, <2>1, <1>0 DEF OwnedBy, TypeOK
      <4> QED
        BY <4>2
    <3>2. CASE c_map[IdOf[s]] # r
      <4>1. PICK id \in Ids : OwnedBy(r, id)
        BY DEF HomeInv, Owned
      <4>2. OwnedBy(r, id)'
        BY <4>1, <3>2, <2>1, <1>0 DEF OwnedBy, TypeOK
      <4> QED
        BY <4>2
    <3> QED
      BY <3>1, <3>2
  <2>3. ASSUME NEW r \in Recs \ alloc PROVE Untouched(r)'
    BY <2>1, <1>0 DEF HomeInv, Owned, Untouched, TypeOK
  <2> QED
    BY <2>1, <2>2, <2>3 DEF Owned
<1>2. ASSUME NEW s \in Servers, SpawnInsert(s) PROVE Owned'
  <2>1. PICK n \in Recs \ alloc : /\ alloc' = alloc \cup {n}
                                  /\ c_map' = [c_map EXCEPT ![IdOf[s]] = n]
                                  /\ spawn_cif' = [spawn_cif EXCEPT ![s] = n]
    BY <1>2 DEF SpawnInsert
  <2>2. UNCHANGED <<addr, follower>>
    BY <1>2 DEF SpawnInsert, recordVars
  <2>3. Untouched(n)
    BY DEF HomeInv, Owned
  <2>4. OwnedBy(n, IdOf[s])'
    BY <2>1, <2>2, <2>3, <1>0 DEF OwnedBy, Untouched, TypeOK
  <2>5. ASSUME NEW r \in Recs, r # n, NEW id \in Ids, OwnedBy(r, id) PROVE OwnedBy(r, id)'
    BY <2>1, <2>2, <2>5, <1>0 DEF OwnedBy, TypeOK
  <2>6. ASSUME NEW r \in Recs \ alloc' PROVE Untouched(r)'
    BY <2>1, <2>2, <1>0 DEF HomeInv, Owned, Untouched, TypeOK
  <2> QED
    BY <2>4, <2>5, <2>6 DEF HomeInv, Owned
<1>3. ASSUME NEW s \in Servers, SpawnReject(s) PROVE Owned'
  BY <1>3, OwnedFrame DEF SpawnReject, recordVars
<1>4. ASSUME NEW s \in Servers, SpawnAccept(s) PROVE Owned'
  <2>0. PICK n : n = spawn_cif[s]
    OBVIOUS
  <2>1. /\ n \in Recs
        /\ addr' = [addr EXCEPT ![n][RoleOf[s]] = s]
        /\ UNCHANGED <<c_map, alloc, follower, spawn_cif>>
    BY <2>0, <1>4, <1>0 DEF SpawnAccept, TypeOK
  <2>2. OwnedBy(n, IdOf[s])
    BY <2>0, <2>1, OwnerUnique
  <2>3. OwnedBy(n, IdOf[s])'
    BY <2>1, <2>2, <1>0 DEF OwnedBy, TypeOK
  <2>4. ASSUME NEW r \in Recs, r # n, NEW id \in Ids, OwnedBy(r, id) PROVE OwnedBy(r, id)'
    BY <2>1, <2>4, <1>0 DEF OwnedBy, TypeOK
  <2>5. n \in alloc
    BY <2>0, <2>1 DEF HomeInv, Owned, Untouched
  <2>6. ASSUME NEW r \in Recs \ alloc' PROVE Untouched(r)'
    BY <2>1, <2>5, <1>0 DEF HomeInv, Owned, Untouched, TypeOK
  <2> QED
    BY <2>1, <2>3, <2>4, <2>6 DEF HomeInv, Owned
<1>5. ASSUME NEW s \in Servers, SpawnReply(s) PROVE Owned'
  <2>1. /\ UNCHANGED <<c_map, alloc, addr, follower>>
        /\ spawn_cif' = [spawn_cif EXCEPT ![s] = Nil]
    BY <1>5 DEF SpawnReply, recordVars
  <2>2. ASSUME NEW r \in Recs, NEW id \in Ids, OwnedBy(r, id) PROVE OwnedBy(r, id)'
    BY <2>1, <2>2, <1>0 DEF OwnedBy, TypeOK
  <2>3. ASSUME NEW r \in Recs \ alloc' PROVE Untouched(r)'
    BY <2>1, <1>0 DEF HomeInv, Owned, Untouched, TypeOK
  <2> QED
    BY <2>2, <2>3 DEF HomeInv, Owned
<1>6. ASSUME NEW id \in Ids, NEW role \in Roles, Gucci(id, role) PROVE Owned'
  BY <1>6, OwnedFrame DEF Gucci, spawnVars
<1>7. ASSUME NEW c \in Clients, GetConnection(c) PROVE Owned'
  BY <1>7, OwnedFrame DEF GetConnection, recordVars, spawnVars
<1>8. ASSUME NEW f \in Syncs, FollowerSpawn(f) PROVE Owned'
  <2>0. PICK n : n = c_map[SidOf[f]]
    OBVIOUS
  <2>1. UNCHANGED <<c_map, alloc, addr, spawn_cif>>
    BY <1>8 DEF FollowerSpawn, spawnVars
  <2>2. CASE n = Nil
    BY <2>0, <1>8, <2>1, <2>2, OwnedFrame DEF FollowerSpawn
  <2>3. CASE n # Nil
    <3>1. n \in Recs /\ follower' = [follower EXCEPT ![n] = f]
      BY <2>0, <1>8, <2>3, <1>0 DEF FollowerSpawn, TypeOK
    <3>2. OwnedBy(n, SidOf[f]) /\ n \in alloc
      BY <2>0, <3>1, OwnerUnique DEF HomeInv, Owned, Untouched
    <3>3. OwnedBy(n, SidOf[f])'
      BY <2>1, <3>1, <3>2, <1>0 DEF OwnedBy, TypeOK
    <3>4. ASSUME NEW r \in Recs, r # n, NEW id \in Ids, OwnedBy(r, id) PROVE OwnedBy(r, id)'
      BY <2>1, <3>1, <3>4, <1>0 DEF OwnedBy, TypeOK
    <3>5. ASSUME NEW r \in Recs \ alloc' PROVE Untouched(r)'
      BY <2>1, <3>1, <3>2, <1>0 DEF HomeInv, Owned, Untouched, TypeOK
    <3> QED
      BY <3>1, <3>3, <3>4, <3>5 DEF HomeInv, Owned
  <2> QED
    BY <2>2, <2>3
<1>9. ASSUME NEW w \in Watchers, checkCluster(w) PROVE Owned'
  BY <1>9, OwnedFrame DEF checkCluster, spawnVars
<1>10. CASE Restart
  <2>1. ASSUME NEW r \in Recs PROVE Untouched(r)'
    BY <1>10 DEF Restart, EachRole, Untouched
  <2>2. ASSUME NEW r \in Recs, NEW id \in Ids PROVE OwnedBy(r, id)'
    BY <1>10 DEF Restart, EachRole, OwnedBy
  <2> QED
    BY <2>1, <2>2 DEF Owned
<1>11. CASE UNCHANGED coordVars
  BY <1>11, OwnedFrame DEF coordVars, recordVars, spawnVars
<1> QED
  BY <1>1, <1>2, <1>3, <1>4, <1>5, <1>6, <1>7, <1>8, <1>9, <1>10, <1>11
     DEF CoordNext, ClusterSpawn

\* A reply names a partner out of the caller's own record, so of its own cluster.
LEMMA StepPartners == HomeInv /\ [CoordNext]_coordVars => PartnersHome'
<1> SUFFICES ASSUME HomeInv, [CoordNext]_coordVars PROVE PartnersHome'
  OBVIOUS
<1> USE RolesAssumption, IdsAssumption, NilAssumption
<1>0. TypeOK /\ PartnersHome
  BY DEF HomeInv
<1>1. ASSUME NEW s \in Servers, SpawnAccept(s) PROVE PartnersHome'
  <2> DEFINE n == spawn_cif[s]
             other == Partner(RoleOf[s])
  <2>1. n \in Recs /\ other \in Roles /\ other # RoleOf[s]
    BY <1>1, <1>0 DEF SpawnAccept, TypeOK, Partner, Roles
  <2>2. OwnedBy(n, IdOf[s])
    BY <2>1, OwnerUnique
  <2>3. spawn_resp' = [spawn_resp EXCEPT ![s] = IF live[n][other] THEN addr[n][other] ELSE Nil]
    BY <1>1 DEF SpawnAccept
  <2>4. spawn_resp'[s] # Nil => spawn_resp'[s] = addr[n][other]
    BY <2>3, <1>0 DEF TypeOK
  <2> HIDE DEF other
  <2> QED
    BY <2>1, <2>2, <2>3, <2>4, <1>0 DEF PartnersHome, OwnedBy, TypeOK
<1>2. ASSUME NEW s \in Servers, SpawnReject(s) \/ SpawnReply(s) PROVE PartnersHome'
  BY <1>2, <1>0 DEF SpawnReject, SpawnReply, PartnersHome, TypeOK
<1>3. ASSUME UNCHANGED spawn_resp PROVE PartnersHome'
  BY <1>3, <1>0 DEF PartnersHome
<1>4. CASE Restart
  BY <1>4 DEF Restart, PartnersHome
<1> QED
  BY <1>1, <1>2, <1>3, <1>4
     DEF CoordNext, ClusterSpawn, SpawnLookup, SpawnInsert, Gucci, GetConnection,
         FollowerSpawn, checkCluster, coordVars, spawnVars

\* A client is registered with the synchronizer in its own cluster's record.
LEMMA StepRegistered == HomeInv /\ [CoordNext]_coordVars => RegisteredAtHome'
<1> SUFFICES ASSUME HomeInv, [CoordNext]_coordVars PROVE RegisteredAtHome'
  OBVIOUS
<1> USE IdsAssumption, NilAssumption
<1>0. TypeOK /\ RegisteredAtHome
  BY DEF HomeInv
<1>1. ASSUME NEW c \in Clients, GetConnection(c) PROVE RegisteredAtHome'
  <2>1. CASE Registrar(c) = Nil
    BY <1>1, <2>1, <1>0 DEF GetConnection, clientVars, RegisteredAtHome
  <2>2. CASE Registrar(c) # Nil
    <3> DEFINE r == c_map[ServerID(c)]
    <3>1. r \in Recs /\ Registrar(c) = follower[r]
      BY <2>2, <1>0 DEF Registrar, TypeOK
    <3>2. OwnedBy(r, ServerID(c))
      BY <3>1, OwnerUnique
    <3>3. SidOf[Registrar(c)] = ServerID(c)
      BY <2>2, <3>1, <3>2 DEF OwnedBy
    <3> QED
      BY <1>1, <2>2, <3>3, <1>0 DEF GetConnection, RegisteredAtHome, TypeOK
  <2> QED
    BY <2>1, <2>2
<1>2. ASSUME UNCHANGED clientVars PROVE RegisteredAtHome'
  BY <1>2, <1>0 DEF clientVars, RegisteredAtHome
<1>3. CASE Restart
  BY <1>3 DEF Restart, RegisteredAtHome
<1> QED
  BY <1>1, <1>2, <1>3
     DEF CoordNext, ClusterSpawn, SpawnLookup, SpawnInsert, SpawnReject, SpawnAccept,
         SpawnReply, Gucci, FollowerSpawn, checkCluster, coordVars

\* What GetConnection answers is out of the record of the client's cluster.
LEMMA AnswerHome ==
    ASSUME HomeInv, NEW c \in Clients, Answer(c) # Nil
    PROVE  Answer(c) \in Servers /\ IdOf[Answer(c)] = ServerID(c)
<1> DEFINE r == c_map[ServerID(c)]
           role == IF live[r]["master"] THEN "master" ELSE "slave"
<1>1. r \in Recs /\ role \in Roles /\ Answer(c) = addr[r][role]
  BY IdsAssumption, NilAssumption DEF Answer, HomeInv, TypeOK, Roles
<1>2. OwnedBy(r, ServerID(c))
  BY <1>1, OwnerUnique, IdsAssumption
<1> HIDE DEF r, role
<1> QED
  BY <1>1, <1>2 DEF OwnedBy, HomeInv, TypeOK

\* The inductive invariant holds in every reachable state.
THEOREM CoordHome == CoordSpec => []HomeInv
<1>1. CoordInit => HomeInv
  BY InitHome
<1>2. HomeInv /\ [CoordNext]_coordVars => HomeInv'
  <2> SUFFICES ASSUME HomeInv, [CoordNext]_coordVars PROVE HomeInv'
    OBVIOUS
  <2> QED
    BY StepTyped, StepOwned, StepPartners, StepRegistered DEF HomeInv
<1> QED
  BY <1>1, <1>2, PTL DEF CoordSpec

\* GetConnection and ClusterSpawn never answer with a server of another cluster.
THEOREM CoordRoutedHome == CoordSpec => []RoutedHome
<1>1. HomeInv => RoutedHome
  BY AnswerHome DEF HomeInv, PartnersHome, RoutedHome
<1> QED
  BY <1>1, CoordHome, PTL

\* A registered client has a synchronizer, and it is one of its own cluster.
THEOREM CoordRegisteredAtHome == CoordSpec => []RegisteredAtHome
<1>1. HomeInv => RegisteredAtHome
  BY DEF HomeInv
<1> QED
  BY <1>1, CoordHome, PTL

-----------------------------------------------------------------------------
(* The checking threads: no accepted master goes unwatched, and a thread that is alone
   with a record never counts more than one turn beyond the heartbeats. *)

WatchInv == TypeOK /\ WatchedMaster /\ LeadBounded

\* Initially no address is registered and no thread runs.
LEMMA InitWatched == CoordInit => WatchInv
<1> SUFFICES ASSUME CoordInit PROVE WatchInv
  OBVIOUS
<1>1. TypeOK
  BY InitTyped
<1>2. WatchedMaster /\ LeadBounded
  BY NilAssumption DEF CoordInit, EachRole, WatchedMaster, LeadBounded, Roles
<1> QED
  BY <1>1, <1>2 DEF WatchInv

\* What a turn leaves of one role's counters: from at most one ahead, a thread's
\* count stays at most one ahead.
LEMMA CheckedLead ==
    ASSUME NEW l \in BOOLEAN, NEW b \in Nat, NEW n \in Nat, n =< b + 1
    PROVE  Checked(l, b, n).seen =< Checked(l, b, n).beats + 1
BY DEF Checked

\* A step that starts no thread and registers no master keeps WatchedMaster.
LEMMA WatchedFrame ==
    ASSUME WatchedMaster, UNCHANGED <<watch, addr>>
    PROVE  WatchedMaster'
BY DEF WatchedMaster

\* A step that turns no thread and takes no heartbeat away keeps LeadBounded.
LEMMA LeadFrame ==
    ASSUME LeadBounded, UNCHANGED <<watch, seen, beats>>
    PROVE  LeadBounded'
BY DEF LeadBounded, SoleWatcher

\* Registering a master and starting its thread is one step.
LEMMA AcceptWatched ==
    ASSUME WatchInv, TypeOK', NEW s \in Servers, SpawnAccept(s)
    PROVE  WatchedMaster' /\ LeadBounded'
<1> USE RolesAssumption, NilAssumption
<1>0. TypeOK /\ WatchedMaster /\ LeadBounded
  BY DEF WatchInv
<1>1. PICK r : r = spawn_cif[s]
  OBVIOUS
<1>2. /\ r \in Recs
      /\ addr' = [addr EXCEPT ![r][RoleOf[s]] = s]
      /\ UNCHANGED beats
  BY <1>1, <1>0 DEF SpawnAccept, TypeOK
<1>3. CASE RoleOf[s] = "master"
  <2>1. PICK w \in Watchers : /\ watch[w] = Nil
                              /\ watch' = [watch EXCEPT ![w] = r]
                              /\ seen' = [seen EXCEPT ![w] = EachRole(0)]
    BY <1>1, <1>3 DEF SpawnAccept, StartWatcher
  <2>2. WatchedMaster'
    <3>1. addr'[r]["master"] = s /\ watch'[w] = r
      BY <2>1, <1>2, <1>3, <1>0 DEF TypeOK, Roles
    <3>2. ASSUME NEW q \in Recs, q # r
          PROVE  /\ addr'[q]["master"] = addr[q]["master"]
                 /\ \A v \in Watchers : watch'[v] = q <=> watch[v] = q
      BY <2>1, <3>2, <1>2, <1>0 DEF TypeOK
    <3>3. ASSUME NEW q \in Recs
          PROVE  addr'[q]["master"] # Nil <=> \E v \in Watchers : watch'[v] = q
      BY <3>1, <3>2, <1>0 DEF WatchedMaster
    <3> QED
      BY <3>3 DEF WatchedMaster
  <2>3. LeadBounded'
    <3> SUFFICES ASSUME NEW v \in Watchers, watch'[v] # Nil, SoleWatcher(v)',
                        NEW role \in Roles
                 PROVE  seen'[v][role] =< beats'[watch'[v]][role] + 1
      BY DEF LeadBounded
    <3>1. CASE v = w
      <4>1. seen'[v][role] = 0
        BY <2>1, <3>1, <1>0 DEF TypeOK, EachRole
      <4>2. beats'[watch'[v]][role] \in Nat
        BY <1>2, <2>1, <3>1, <1>0 DEF TypeOK
      <4> QED
        BY <4>1, <4>2
    <3>2. CASE v # w
      <4>1. watch'[v] = watch[v] /\ seen'[v] = seen[v]
        BY <2>1, <3>2, <1>0 DEF TypeOK
      <4>2. SoleWatcher(v)
        <5>1. ASSUME NEW u \in Watchers, watch[u] = watch[v] PROVE u = v
          <6>1. u # w
            BY <5>1, <2>1, <4>1
          <6>2. watch'[u] = watch'[v]
            BY <6>1, <5>1, <4>1, <2>1, <1>0 DEF TypeOK
          <6> QED
            BY <6>2 DEF SoleWatcher
        <5> QED
          BY <5>1 DEF SoleWatcher
      <4> QED
        BY <4>1, <4>2, <1>2, <1>0 DEF LeadBounded
    <3> QED
      BY <3>1, <3>2
  <2> QED
    BY <2>2, <2>3
<1>4. CASE RoleOf[s] # "master"
  <2>1. UNCHANGED <<watch, seen>>
    BY <1>4 DEF SpawnAccept, watchVars
  <2>2. \A q \in Recs : addr'[q]["master"] = addr[q]["master"]
    BY <1>2, <1>4, <1>0 DEF TypeOK, Roles
  <2> QED
    BY <1>2, <2>1, <2>2, <1>0, LeadFrame DEF WatchedMaster
<1> QED
  BY <1>3, <1>4

\* A heartbeat only lowers the lead of the threads.
LEMMA BeatLead ==
    ASSUME WatchInv, NEW id \in Ids, NEW role \in Roles, Gucci(id, role)
    PROVE  LeadBounded'
<1>0. TypeOK /\ LeadBounded
  BY DEF WatchInv
<1>1. /\ c_map[id] \in Recs
      /\ beats' = [beats EXCEPT ![c_map[id]][role] = @ + 1]
      /\ UNCHANGED <<watch, seen>>
  BY <1>0 DEF Gucci, TypeOK, watchVars
<1>2. ASSUME NEW r \in Recs, NEW any \in Roles PROVE beats'[r][any] >= beats[r][any]
  BY <1>1, <1>0 DEF TypeOK
<1> SUFFICES ASSUME NEW w \in Watchers, watch[w] # Nil, SoleWatcher(w), NEW any \in Roles
             PROVE  seen[w][any] =< beats'[watch[w]][any] + 1
  BY <1>1 DEF LeadBounded, SoleWatcher
<1>3. watch[w] \in Recs
  BY <1>0 DEF TypeOK
<1>4. /\ seen[w][any] =< beats[watch[w]][any] + 1
      /\ beats'[watch[w]][any] >= beats[watch[w]][any]
  BY <1>2, <1>3, <1>0 DEF LeadBounded
<1>5. /\ seen[w][any] \in Nat
      /\ beats[watch[w]][any] \in Nat
      /\ beats'[watch[w]][any] \in Nat
  BY <1>1, <1>3, <1>0 DEF TypeOK
<1> QED
  BY <1>4, <1>5

\* A turn of a thread that shares its record may break the lead of the others:
\* then none of them is alone, and LeadBounded says nothing of them.
LEMMA TurnLead ==
    ASSUME WatchInv, NEW w \in Watchers, checkCluster(w)
    PROVE  LeadBounded'
<1>0. TypeOK /\ LeadBounded
  BY DEF WatchInv
<1>1. PICK r : r = watch[w]
  OBVIOUS
<1> DEFINE after(role) == Checked(live[r][role], beats[r][role], seen[w][role])
<1>2. /\ r \in Recs
      /\ beats' = [beats EXCEPT ![r] = [role \in Roles |-> after(role).beats]]
      /\ seen' = [seen EXCEPT ![w] = [role \in Roles |-> after(role).seen]]
      /\ UNCHANGED watch
  BY <1>0, <1>1 DEF checkCluster, TypeOK
<1> SUFFICES ASSUME NEW v \in Watchers, watch[v] # Nil, SoleWatcher(v), NEW role \in Roles
             PROVE  seen'[v][role] =< beats'[watch[v]][role] + 1
  BY <1>2 DEF LeadBounded, SoleWatcher
<1>3. CASE watch[v] = r
  <2>1. v = w
    BY <1>1, <1>3 DEF SoleWatcher
  <2>2. /\ live[r][role] \in BOOLEAN
        /\ beats[r][role] \in Nat
        /\ seen[w][role] \in Nat
        /\ seen[w][role] =< beats[r][role] + 1
    BY <1>2, <1>3, <2>1, <1>0 DEF TypeOK, LeadBounded
  <2>3. after(role).seen =< after(role).beats + 1
    BY <2>2, CheckedLead
  <2>4. beats'[r][role] = after(role).beats /\ seen'[w][role] = after(role).seen
    BY <1>2, <1>0 DEF TypeOK
  <2> HIDE DEF after
  <2> QED
    BY <2>1, <2>3, <2>4, <1>3
<1>4. CASE watch[v] # r
  <2>1. v # w
    BY <1>1, <1>4
  <2>2. seen'[v] = seen[v] /\ beats'[watch[v]] = beats[watch[v]]
    BY <1>2, <1>4, <2>1, <1>0 DEF TypeOK
  <2> QED
    BY <2>2, <1>0 DEF LeadBounded
<1> QED
  BY <1>3, <1>4

\* Every step keeps the two.
LEMMA StepWatched == WatchInv /\ [CoordNext]_coordVars => WatchInv'
<1> SUFFICES ASSUME WatchInv, [CoordNext]_coordVars PROVE WatchInv'
  OBVIOUS
<1>0. TypeOK /\ WatchedMaster /\ LeadBounded /\ TypeOK'
  BY StepTyped DEF WatchInv
<1>1. ASSUME NEW s \in Servers, SpawnAccept(s) PROVE WatchedMaster' /\ LeadBounded'
  BY <1>0, <1>1, AcceptWatched
<1>2. ASSUME NEW id \in Ids, NEW role \in Roles, Gucci(id, role)
      PROVE  WatchedMaster' /\ LeadBounded'
  <2>1. WatchedMaster'
    BY <1>0, <1>2, WatchedFrame DEF Gucci, watchVars
  <2>2. LeadBounded'
    BY <1>2, BeatLead
  <2> QED
    BY <2>1, <2>2
<1>3. ASSUME NEW w \in Watchers, checkCluster(w) PROVE WatchedMaster' /\ LeadBounded'
  <2>1. WatchedMaster'
    BY <1>0, <1>3, WatchedFrame DEF checkCluster
  <2>2. LeadBounded'
    BY <1>3, TurnLead
  <2> QED
    BY <2>1, <2>2
<1>4. ASSUME UNCHANGED <<addr, beats, watchVars>> PROVE WatchedMaster' /\ LeadBounded'
  BY <1>0, <1>4, WatchedFrame, LeadFrame DEF watchVars
<1>5. ASSUME Restart PROVE WatchedMaster' /\ LeadBounded'
  <2>1. \A w \in Watchers : watch'[w] = Nil
    BY <1>5 DEF Restart
  <2>2. \A r \in Recs : addr'[r]["master"] = Nil
    BY <1>5 DEF Restart, EachRole, Roles
  <2> QED
    BY <2>1, <2>2, NilAssumption DEF WatchedMaster, LeadBounded
<1> QED
  BY <1>0, <1>1, <1>2, <1>3, <1>4, <1>5
     DEF CoordNext, ClusterSpawn, SpawnLookup, SpawnInsert, SpawnReject, SpawnReply,
         GetConnection, FollowerSpawn, coordVars, recordVars, WatchInv

\* The inductive invariant holds in every reachable state.
THEOREM CoordWatched == CoordSpec => []WatchInv
BY InitWatched, StepWatched, PTL DEF CoordSpec

\* No accepted master goes unwatched, and nothing else is watched.
THEOREM CoordWatchedMaster == CoordSpec => []WatchedMaster
<1>1. WatchInv => WatchedMaster
  BY DEF WatchInv
<1> QED
  BY <1>1, CoordWatched, PTL

\* A thread that is alone with a record is at most one turn ahead of its heartbeats.
THEOREM CoordLeadBounded == CoordSpec => []LeadBounded
<1>1. WatchInv => LeadBounded
  BY DEF WatchInv
<1> QED
  BY <1>1, CoordWatched, PTL
=============================================================================
