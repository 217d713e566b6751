--------------------------- MODULE FollowsProofs ---------------------------
(***************************************************************************)
(* The propagation of follows, for every set of users and clusters, every  *)
(* schedule of deaths and files of every length.                           *)
(***************************************************************************)
EXTENDS Follows, SequenceTheorems, WellFoundedInduction, TLAPS

Lists == [following : Seq(Users), followers : Seq(Users)]

\* The memory of a server: lists for some users of its cluster.
IsDb(db, s) ==
    /\ db = [u \in DOMAIN db |-> db[u]]
    /\ DOMAIN db \subseteq Users
    /\ \A u \in DOMAIN db : HomeOf[u] = s[1] /\ db[u] \in Lists

IsMem(mem) ==
    /\ mem = [s \in Servers |-> mem[s]]
    /\ \A s \in Servers : IsDb(mem[s], s)

Typed == FollowsTypeOK /\ IsMem(client_db)

-----------------------------------------------------------------------------
(* Files and sets of users *)

\* A set of announcements that is not empty has a first one.
LEMMA FirstUser ==
    ASSUME NEW S \in SUBSET Users, S # {}
    PROVE  LET v == CHOOSE w \in S : \A x \in S : w =< x IN v \in S
<1>1. S \subseteq Nat
  BY UsersAssumption
<1>2. PICK w \in S : \A x \in S : ~ (<<x, w>> \in OpToRel(<, Nat))
  BY <1>1, NatLessThanWellFounded, WFMin
<1>3. ASSUME NEW x \in S PROVE w =< x
  <2>1. x \in Nat /\ w \in Nat
    BY <1>1
  <2>2. ~ (x < w)
    BY <1>2, <2>1, Zenon DEF OpToRel
  <2> QED
    BY <2>1, <2>2
<1> QED
  BY <1>3

\* What there is to read of a file is a sequence of users.
LEMMA EntriesTyped ==
    ASSUME NEW file \in Seq(Users) \cup {NoFile}
    PROVE  /\ Entries(file) \in Seq(Users)
           /\ Range(Entries(file)) \subseteq Users
<1>1. Entries(file) \in Seq(Users)
  BY EmptySeq DEF Entries
<1> QED
  BY <1>1, RangeOfSeq

\* Appending a user to a file adds it to what is read of it.
LEMMA RangeAppend ==
    ASSUME NEW s \in Seq(Users), NEW e \in Users
    PROVE  Range(Append(s, e)) = Range(s) \cup {e}
<1>1. /\ Append(s, e) \in Seq(Users)
      /\ Len(Append(s, e)) = Len(s) + 1
      /\ \A i \in 1..Len(s) : Append(s, e)[i] = s[i]
      /\ Append(s, e)[Len(s) + 1] = e
  BY AppendProperties
<1>2. DOMAIN s = 1..Len(s) /\ Len(s) \in Nat /\ DOMAIN Append(s, e) = 1..(Len(s) + 1)
  BY <1>1, LenProperties
<1>3. 1..(Len(s) + 1) = (1..Len(s)) \cup {Len(s) + 1}
  BY <1>2
<1> QED
  BY <1>1, <1>2, <1>3 DEF Range

\* Appending a user that is not in a file keeps its entries different.
LEMMA InjectiveAppend ==
    ASSUME NEW s \in Seq(Users), IsInjective(s), NEW e \in Users, e \notin Range(s)
    PROVE  IsInjective(Append(s, e))
<1>1. /\ Append(s, e) \in Seq(Users)
      /\ Len(Append(s, e)) = Len(s) + 1
      /\ \A i \in 1..Len(s) : Append(s, e)[i] = s[i]
      /\ Append(s, e)[Len(s) + 1] = e
  BY AppendProperties
<1>2. DOMAIN s = 1..Len(s) /\ Len(s) \in Nat /\ DOMAIN Append(s, e) = 1..(Len(s) + 1)
  BY <1>1, LenProperties
<1>3. \A i \in 1..Len(s) : s[i] # e
  BY <1>2 DEF Range
<1>4. ASSUME NEW i \in 1..(Len(s) + 1), NEW j \in 1..(Len(s) + 1),
             Append(s, e)[i] = Append(s, e)[j]
      PROVE  i = j
  <2>1. CASE i = Len(s) + 1 /\ j = Len(s) + 1
    BY <2>1
  <2>2. CASE i # Len(s) + 1 /\ j # Len(s) + 1
    <3>1. i \in 1..Len(s) /\ j \in 1..Len(s)
      BY <1>2, <2>2
    <3> QED
      BY <3>1, <1>1, <1>2, <1>4 DEF IsInjective
  <2>3. CASE i = Len(s) + 1 /\ j # Len(s) + 1
    <3>1. j \in 1..Len(s)
      BY <1>2, <2>3
    <3> QED
      BY <3>1, <1>1, <1>3, <1>4, <2>3
  <2>4. CASE i # Len(s) + 1 /\ j = Len(s) + 1
    <3>1. i \in 1..Len(s)
      BY <1>2, <2>4
    <3> QED
      BY <3>1, <1>1, <1>3, <1>4, <2>4
  <2> QED
    BY <2>1, <2>2, <2>3, <2>4
<1> QED
  BY <1>2, <1>4 DEF IsInjective

-----------------------------------------------------------------------------
(* The memory of the servers *)

\* A server that is up no longer, and what the others know after a call.
LEMMA EndsTyped ==
    ASSUME Typed, NEW S, NEW mem, IsMem(mem), Ends(S, mem)
    PROVE  /\ up' \in [Servers -> BOOLEAN] /\ s_stub' \in [Servers -> BOOLEAN]
           /\ IsMem(client_db')
<1>1. ASSUME NEW s \in Servers PROVE IsDb(client_db'[s], s)
  <2>1. CASE s \in S
    BY <2>1 DEF Ends, IsDb, NoClients
  <2>2. CASE s \notin S
    BY <2>2 DEF Ends, IsMem
  <2> QED
    BY <2>1, <2>2
<1> QED
  BY <1>1 DEF Ends, IsMem, Typed, FollowsTypeOK

\* What the memory of a server becomes when a client logs in.
LEMMA LoginTyped ==
    ASSUME Typed, NEW s \in Servers, NEW db, IsDb(db, s), NEW u \in Users, HomeOf[u] = s[1]
    PROVE  IsDb(login_help(db, u), s)
<1>1. /\ Entries(follows[u]) \in Seq(Users)
      /\ followedBy[u] \in Seq(Users)
  BY EntriesTyped DEF Typed, FollowsTypeOK
<1> QED
  BY <1>1 DEF IsDb, login_help, Lists

\* What a server remembers of a follow.
LEMMA LearnedTyped ==
    ASSUME NEW s, NEW db, IsDb(db, s), NEW u \in Users, NEW v \in Users
    PROVE  IsDb(Learned(db, u, v), s)
<1> DEFINE new(x) == [following |-> IF x = u THEN Append(db[x].following, v) ELSE db[x].following,
                      followers |-> IF x = v THEN Append(db[x].followers, u) ELSE db[x].followers]
<1>1. ASSUME NEW x \in DOMAIN db PROVE new(x) \in Lists
  <2>1. db[x] \in Lists
    BY DEF IsDb
  <2> QED
    BY <2>1 DEF Lists
<1>2. Learned(db, u, v) = [x \in DOMAIN db |-> new(x)]
  BY DEF Learned
<1> HIDE DEF new
<1> QED
  BY <1>1, <1>2 DEF IsDb

\* What its partner makes of the lists it is sent.
LEMMA FollowUpdateTyped ==
    ASSUME NEW s, NEW db, IsDb(db, s), NEW u \in Users, NEW lists \in Lists
    PROVE  IsDb(FollowUpdate(db, u, lists), s)
<1>1. [following |-> <<>>, followers |-> lists.followers \o lists.following] \in Lists
  BY DEF Lists
<1> QED
  BY <1>1 DEF IsDb, FollowUpdate

-----------------------------------------------------------------------------
(* Typing *)

\* One value of a function is replaced by another of its range.
LEMMA ExceptTyped ==
    ASSUME NEW A, NEW B, NEW f \in [A -> B], NEW a \in A, NEW b \in B
    PROVE  [f EXCEPT ![a] = b] \in [A -> B]
OBVIOUS

\* Initially no user is known anywhere.
LEMMA InitTyped == Init => Typed
<1> SUFFICES ASSUME Init PROVE Typed
  OBVIOUS
<1>1. IsMem(client_db)
  BY DEF Init, IsMem, IsDb, NoClients
<1>2. FollowsTypeOK
  BY KillAssumption DEF Init, FollowsTypeOK, NoClients
<1> QED
  BY <1>1, <1>2 DEF Typed

\* A client's follow, whatever the servers make of it.
LEMMA FollowTyped ==
    ASSUME Typed, NEW u \in Users, NEW v \in Users, Follow(u, v)
    PROVE  Typed'
<1> DEFINE s == Server(u)
           o == Partner(s)
           db == client_db[s]
           old == IF u \in DOMAIN db THEN db[u] ELSE [following |-> <<>>, followers |-> <<>>]
           new == [old EXCEPT !.following = Append(@, v)]
           mem == [client_db EXCEPT ![s] = Learned(db, u, v)]
<1>0. FollowsTypeOK /\ IsMem(client_db)
  BY DEF Typed
<1>1. s \in Servers /\ s[1] = HomeOf[u]
  BY <1>0, HomeAssumption DEF Follow, Served, Server, At, FollowsTypeOK, Servers
<1>2. o \in Servers /\ o # s /\ o[1] = HomeOf[u]
  BY <1>1 DEF Partner, Servers
<1>3. IsDb(db, s) /\ IsDb(client_db[o], o)
  BY <1>0, <1>1, <1>2 DEF IsMem
<1>4. old \in Lists
  BY <1>3 DEF IsDb, Lists
<1>5. new \in Lists
  <2> HIDE DEF old
  <2>1. Append(old.following, v) \in Seq(Users)
    BY <1>4 DEF Lists
  <2> QED
    BY <1>4, <2>1 DEF Lists
<1>6. IsMem(mem)
  <2>1. IsDb(Learned(db, u, v), s)
    BY <1>3, LearnedTyped
  <2>2. ASSUME NEW t \in Servers PROVE mem[t] = IF t = s THEN Learned(db, u, v) ELSE client_db[t]
    BY <1>0 DEF IsMem
  <2> HIDE DEF db, s
  <2>3. mem = [t \in Servers |-> mem[t]]
    BY <1>0 DEF IsMem
  <2> HIDE DEF mem
  <2> QED
    BY <1>0, <2>1, <2>2, <2>3 DEF IsMem
<1>7. IsMem([mem EXCEPT ![o] = FollowUpdate(@, u, new)])
  <2> DEFINE both == [mem EXCEPT ![o] = FollowUpdate(@, u, new)]
  <2>1. IsDb(FollowUpdate(mem[o], u, new), o)
    <3>1. IsDb(mem[o], o)
      BY <1>6, <1>2 DEF IsMem
    <3> QED
      BY <3>1, <1>5, FollowUpdateTyped
  <2> HIDE DEF mem, new, o, s, db, old
  <2>2. ASSUME NEW t \in Servers PROVE both[t] = IF t = o THEN FollowUpdate(mem[o], u, new) ELSE mem[t]
    BY <1>6 DEF IsMem
  <2>3. both = [t \in Servers |-> both[t]]
    BY <1>6 DEF IsMem
  <2> HIDE DEF both
  <2>4. IsMem(both)
    BY <1>6, <2>1, <2>2, <2>3 DEF IsMem
  <2> QED
    BY <2>4 DEF both
<1>8. PICK S, m : Ends(S, m) /\ IsMem(m)
  <2> HIDE DEF mem, new
  <2> QED
    BY <1>0, <1>6, <1>7 DEF Follow, mem, new, db, o, s, old
<1>9. /\ up' \in [Servers -> BOOLEAN] /\ s_stub' \in [Servers -> BOOLEAN]
      /\ IsMem(client_db')
  BY <1>8, EndsTyped
<1>10. /\ follows' \in [Users -> Seq(Users) \cup {NoFile}]
       /\ moment' \in [Users -> {"before", "edge", "later"}]
       /\ UNCHANGED followedBy
  <2>1. Append(Entries(follows[u]), v) \in Seq(Users)
    <3>1. Entries(follows[u]) \in Seq(Users)
      BY <1>0, EntriesTyped DEF FollowsTypeOK
    <3> QED
      BY <3>1
  <2>2. \/ UNCHANGED <<follows, followedBy, moment>>
        \/ /\ follows' = [follows EXCEPT ![u] = Append(Entries(@), v)]
           /\ Written(u)
           /\ UNCHANGED followedBy
    BY DEF Follow, fileVars
  <2>3. Written(u) => moment' \in [Users -> {"before", "edge", "later"}]
    BY <1>0 DEF Written, FollowsTypeOK
  <2>4. follows' \in [Users -> Seq(Users) \cup {NoFile}]
    <3>1. follows \in [Users -> Seq(Users) \cup {NoFile}]
      BY <1>0 DEF FollowsTypeOK
    <3> QED
      BY <2>1, <2>2, <3>1, ExceptTyped
  <2> QED
    BY <2>2, <2>3, <2>4, <1>0 DEF FollowsTypeOK
<1> HIDE DEF mem, new, db, o, s, old
<1>11. UNCHANGED <<conn, reg_c, syncVars>> /\ faults' \in 0..MaxFaults
  BY <1>0, KillAssumption DEF Follow, Fault, FollowsTypeOK
<1> QED
  BY <1>0, <1>9, <1>10, <1>11
     DEF Typed, FollowsTypeOK, IsMem, IsDb, Lists, syncVars, threadVars

\* A client logs in and its server tells the partner.
LEMMA LoginStepTyped ==
    ASSUME Typed, NEW u \in Users, NEW role \in {"master", "slave"}, Login(u, role)
    PROVE  Typed'
<1> DEFINE s == At(u, role)
<1>0. FollowsTypeOK /\ IsMem(client_db)
  BY DEF Typed
<1>1. s \in Servers /\ s[1] = HomeOf[u] /\ Partner(s)[1] = HomeOf[u]
  BY HomeAssumption DEF At, Servers, Partner
<1>2. ASSUME NEW t \in Servers PROVE IsDb(client_db'[t], t)
  <2>1. IsDb(client_db[t], t)
    BY <1>0 DEF IsMem
  <2>2. t = s \/ t = Partner(s) => IsDb(login_help(client_db[t], u), t)
    BY <1>1, <2>1, LoginTyped
  <2> QED
    BY <2>1, <2>2 DEF Login
<1>3. client_db' = [t \in Servers |-> client_db'[t]]
  BY DEF Login
<1>4. IsMem(client_db')
  BY <1>2, <1>3 DEF IsMem
<1>5. conn' \in [Users -> {"off", "master", "slave"}]
  BY <1>0 DEF Login, FollowsTypeOK
<1> QED
  BY <1>0, <1>4, <1>5
     DEF Login, Typed, FollowsTypeOK, IsMem, IsDb, Lists, syncVars, threadVars, fileVars

\* Every step keeps files, memories and threads well formed.
LEMMA StepTyped == Typed /\ [Next]_vars => Typed'
<1> SUFFICES ASSUME Typed, [Next]_vars PROVE Typed'
  OBVIOUS
<1>0. FollowsTypeOK /\ IsMem(client_db)
  BY DEF Typed
<1> USE DEF Typed, FollowsTypeOK, fileVars, serverVars, threadVars, syncVars
<1>1. ASSUME NEW u \in Users, GetConnection(u) PROVE Typed'
  <2>1. client_ids' \in [Clusters -> SUBSET Users]
    <3>1. client_ids \in [Clusters -> SUBSET Users] /\ HomeOf[u] \in Clusters
      BY <1>0, HomeAssumption
    <3>2. client_ids[HomeOf[u]] \cup {u} \in SUBSET Users
      BY <3>1
    <3>3. \/ UNCHANGED client_ids
          \/ client_ids' = [client_ids EXCEPT ![HomeOf[u]] = client_ids[HomeOf[u]] \cup {u}]
      BY <1>1 DEF GetConnection
    <3> QED
      BY <3>1, <3>2, <3>3, ExceptTyped
  <2>2. thread' \in [Users -> {"none", "starting", "creating", "watching"}]
    BY <1>0, <1>1 DEF GetConnection
  <2> QED
    BY <1>0, <1>1, <2>1, <2>2 DEF GetConnection
<1>2. ASSUME NEW u \in Users, ReadFollows(u) PROVE Typed'
  <2>1. Range(Entries(follows[u])) \subseteq Users
    BY <1>0, EntriesTyped
  <2> QED
    BY <1>0, <1>2, <2>1 DEF ReadFollows
<1>3. ASSUME NEW u \in Users, CreateFollows(u) PROVE Typed'
  BY <1>0, <1>3, EmptySeq DEF CreateFollows
<1>4. ASSUME NEW u \in Users, Look(u) PROVE Typed'
  <2>1. Range(Entries(follows[u])) \subseteq Users
    BY <1>0, EntriesTyped
  <2>2. Range(Entries(follows[u])) # {} => Range(follows[u]) = Range(Entries(follows[u]))
    BY DEF Entries, Range
  <2>3. following' \in [Users -> SUBSET Users] /\ diff' \in [Users -> SUBSET Users]
    <3> DEFINE new == Range(Entries(follows[u])) \ following[u]
    <3>1. new \in SUBSET Users
      BY <2>1
    <3>2. \/ UNCHANGED <<following, diff>>
          \/ /\ new # {}
             /\ following' = [following EXCEPT ![u] = Range(follows[u])]
             /\ diff' = [diff EXCEPT ![u] = new]
      BY <1>4 DEF Look
    <3>3. new # {} => Range(follows[u]) \in SUBSET Users
      BY <2>1, <2>2
    <3>4. following \in [Users -> SUBSET Users] /\ diff \in [Users -> SUBSET Users]
      BY <1>0
    <3> HIDE DEF new
    <3>5. CASE UNCHANGED <<following, diff>>
      BY <3>4, <3>5
    <3>6. CASE /\ new # {}
               /\ following' = [following EXCEPT ![u] = Range(follows[u])]
               /\ diff' = [diff EXCEPT ![u] = new]
      <4>1. [following EXCEPT ![u] = Range(follows[u])] \in [Users -> SUBSET Users]
        BY <3>3, <3>4, <3>6, ExceptTyped
      <4>2. [diff EXCEPT ![u] = new] \in [Users -> SUBSET Users]
        BY <3>1, <3>4, ExceptTyped
      <4> QED
        BY <3>6, <4>1, <4>2
    <3> QED
      BY <3>2, <3>5, <3>6
  <2> QED
    BY <1>0, <1>4, <2>3 DEF Look
<1>5. ASSUME NEW u \in Users, Announce(u) PROVE Typed'
  <2> DEFINE v == CHOOSE w \in diff[u] : \A x \in diff[u] : w =< x
  <2>1. v \in Users
    <3>1. diff[u] \in SUBSET Users /\ diff[u] # {}
      BY <1>0, <1>5 DEF Announce
    <3> QED
      BY <3>1, FirstUser
  <2>2. followedBy' = followedBy \/ followedBy' = [followedBy EXCEPT ![v] = Append(@, u)]
    BY <1>5 DEF Announce, Following
  <2>3. followedBy' \in [Users -> Seq(Users)]
    <3> HIDE DEF v
    <3> QED
      <4>1. followedBy \in [Users -> Seq(Users)]
        BY <1>0
      <4>2. Append(followedBy[v], u) \in Seq(Users)
        BY <2>1, <4>1
      <4> QED
        BY <2>1, <2>2, <4>1, <4>2, ExceptTyped
  <2>4. diff' \in [Users -> SUBSET Users]
    BY <1>0, <1>5 DEF Announce
  <2> QED
    BY <1>0, <1>5, <2>3, <2>4 DEF Announce
<1>6. ASSUME NEW u \in Users, NEW role \in {"master", "slave"}, Login(u, role) PROVE Typed'
  BY <1>6, LoginStepTyped DEF Typed
<1>7. ASSUME NEW u \in Users, NEW role \in {"master", "slave"}, Renew(u, role) PROVE Typed'
  BY <1>0, <1>7 DEF Renew, IsMem, IsDb, Lists
<1>8. ASSUME NEW u \in Users, NEW v \in Users, Follow(u, v) PROVE Typed'
  BY <1>8, FollowTyped DEF Typed
<1>9. ASSUME NEW s \in Servers, ServerCrash(s) PROVE Typed'
  <2>1. /\ up' \in [Servers -> BOOLEAN] /\ s_stub' \in [Servers -> BOOLEAN]
        /\ IsMem(client_db')
    BY <1>0, <1>9, EndsTyped DEF ServerCrash, Typed
  <2>2. faults' \in 0..MaxFaults
    BY <1>0, <1>9, KillAssumption DEF ServerCrash, Fault
  <2> QED
    BY <1>0, <1>9, <2>1, <2>2 DEF ServerCrash, IsMem, IsDb, Lists
<1>10. ASSUME NEW s \in Servers, ServerStart(s) PROVE Typed'
  <2>1. s_stub' \in [Servers -> BOOLEAN]
    <3>1. PICK met \in {FALSE, up[Partner(s)]} :
            s_stub' = [s_stub EXCEPT ![s] = met, ![Partner(s)] = @ \/ met]
      BY <1>10 DEF ServerStart
    <3>2. Partner(s) \in Servers
      BY DEF Partner, Servers
    <3>3. met \in BOOLEAN
      BY <1>0, <3>2
    <3> QED
      BY <1>0, <3>1, <3>2, <3>3
  <2> QED
    BY <1>0, <1>10, <2>1 DEF ServerStart
<1>11. ASSUME NEW c \in Clusters, SyncCrash(c) PROVE Typed'
  <2>1. faults' \in 0..MaxFaults
    BY <1>0, <1>11, KillAssumption DEF SyncCrash, Fault
  <2> QED
    BY <1>0, <1>11, <2>1 DEF SyncCrash
<1>12. ASSUME NEW c \in Clusters, SyncStart(c) PROVE Typed'
  BY <1>0, <1>12 DEF SyncStart
<1>13. CASE UNCHANGED vars
  BY <1>0, <1>13 DEF vars
<1> QED
  BY <1>1, <1>2, <1>3, <1>4, <1>5, <1>6, <1>7, <1>8, <1>9, <1>10, <1>11, <1>12, <1>13
     DEF Next, Watch

\* Files, memories and threads keep their shape in every reachable state.
THEOREM FollowsTyped == Spec => []Typed
BY InitTyped, StepTyped, PTL DEF Spec

\* The shape of files, memories and threads.
THEOREM FollowsTypedOK == Spec => []FollowsTypeOK
<1>1. Typed => FollowsTypeOK
  BY DEF Typed
<1> QED
  BY <1>1, FollowsTyped, PTL

-----------------------------------------------------------------------------
(* Announcements *)

\* A thread runs for a registered user only, and what it has yet to announce are
\* follows it knows, that are on file.
ThreadSound ==
    \A u \in Users :
        /\ thread[u] # "none" => u \in reg_c
        /\ diff[u] # {} => thread[u] = "watching"
        /\ diff[u] \subseteq following[u] \cap Range(Entries(follows[u]))

\* A follow that was announced is on file; its user's thread, which is never
\* started a second time, has read the file and does not hold the follow for new.
Settled(u, v) ==
    /\ u \in reg_c
    /\ v \in Range(Entries(follows[u]))
    /\ thread[u] \in {"none", "watching"}
    /\ thread[u] = "watching" => v \in following[u] \ diff[u]

AnnouncedSound ==
    /\ ThreadSound
    /\ \A u, v \in Users : u \in Range(followedBy[v]) => Settled(u, v)
    /\ AnnouncedOnce

AnnounceInv == Typed /\ AnnouncedSound

\* Initially nothing is on file.
LEMMA InitSound == Init => AnnounceInv
<1> SUFFICES ASSUME Init PROVE AnnouncedSound
  BY InitTyped DEF AnnounceInv
<1>1. \A v \in Users : followedBy[v] = <<>> /\ DOMAIN followedBy[v] = {}
  BY DEF Init
<1>2. ThreadSound
  BY DEF Init, ThreadSound
<1> QED
  BY <1>1, <1>2 DEF AnnouncedSound, AnnouncedOnce, IsInjective, Range

\* A step that announces nothing keeps the invariant when it keeps the threads
\* sound and every follow settled that was announced.
LEMMA QuietSound ==
    ASSUME AnnounceInv, UNCHANGED followedBy, ThreadSound',
           ASSUME NEW u \in Users, NEW v \in Users, Settled(u, v) PROVE Settled(u, v)'
    PROVE  AnnouncedSound'
BY DEF AnnounceInv, AnnouncedSound, AnnouncedOnce

\* A step of the servers keeps the follows on file, and the threads alone.
LEMMA ServerSound ==
    ASSUME AnnounceInv, UNCHANGED <<followedBy, reg_c, threadVars>>,
           ASSUME NEW u \in Users
           PROVE  Range(Entries(follows[u])) \subseteq Range(Entries(follows'[u]))
    PROVE  AnnouncedSound'
<1>1. ThreadSound'
  BY DEF AnnounceInv, AnnouncedSound, ThreadSound, threadVars
<1>2. ASSUME NEW u \in Users, NEW v \in Users, Settled(u, v) PROVE Settled(u, v)'
  BY <1>2 DEF Settled, threadVars
<1> QED
  BY <1>1, <1>2, QuietSound

\* A client's follow adds to its file.
LEMMA FollowSound ==
    ASSUME AnnounceInv, NEW u \in Users, NEW v \in Users, Follow(u, v)
    PROVE  AnnouncedSound'
<1>0. FollowsTypeOK
  BY DEF AnnounceInv, Typed
<1>1. /\ UNCHANGED <<followedBy, reg_c, threadVars>>
      /\ UNCHANGED follows \/ follows' = [follows EXCEPT ![u] = Append(Entries(@), v)]
  BY DEF Follow, fileVars, syncVars
<1>2. ASSUME NEW x \in Users
      PROVE  Range(Entries(follows[x])) \subseteq Range(Entries(follows'[x]))
  <2>1. CASE UNCHANGED follows
    BY <2>1
  <2>2. CASE follows' = [follows EXCEPT ![u] = Append(Entries(@), v)]
    <3>1. Entries(follows[u]) \in Seq(Users)
      BY <1>0, EntriesTyped DEF FollowsTypeOK
    <3>2. follows'[x] = IF x = u THEN Append(Entries(follows[u]), v) ELSE follows[x]
      BY <1>0, <2>2 DEF FollowsTypeOK
    <3>3. Append(Entries(follows[u]), v) # NoFile
      BY <3>1, FileAssumption
    <3>4. Range(Append(Entries(follows[u]), v)) = Range(Entries(follows[u])) \cup {v}
      BY <3>1, RangeAppend
    <3>5. Entries(Append(Entries(follows[u]), v)) = Append(Entries(follows[u]), v)
      BY <3>3 DEF Entries
    <3> QED
      BY <3>2, <3>4, <3>5
  <2> QED
    BY <1>1, <2>1, <2>2
<1> QED
  BY <1>1, <1>2, ServerSound

\* A user whose thread starts, or makes its file, has announced nothing.
LEMMA StartSound ==
    ASSUME AnnounceInv, NEW u \in Users, thread[u] \in {"starting", "creating"},
           ReadFollows(u) \/ CreateFollows(u)
    PROVE  AnnouncedSound'
<1>0. FollowsTypeOK /\ ThreadSound
  BY DEF AnnounceInv, Typed, AnnouncedSound
<1>1. UNCHANGED <<followedBy, reg_c, diff>>
  BY DEF ReadFollows, CreateFollows
<1>2. ASSUME NEW x \in Users, x # u
      PROVE  thread'[x] = thread[x] /\ following'[x] = following[x] /\ follows'[x] = follows[x]
  BY <1>0, <1>2 DEF FollowsTypeOK, ReadFollows, CreateFollows
<1>3. diff[u] = {}
  BY <1>0 DEF ThreadSound
<1>4. ThreadSound'
  BY <1>0, <1>1, <1>2, <1>3 DEF ThreadSound
<1>5. ASSUME NEW x \in Users, NEW y \in Users, Settled(x, y) PROVE Settled(x, y)'
  BY <1>1, <1>2, <1>5 DEF Settled
<1> QED
  BY <1>1, <1>4, <1>5, QuietSound

\* A look holds only follows for new that were not known.
LEMMA LookSound ==
    ASSUME AnnounceInv, NEW u \in Users, Look(u)
    PROVE  AnnouncedSound'
<1> DEFINE new == Range(Entries(follows[u])) \ following[u]
<1>0. FollowsTypeOK /\ ThreadSound
  BY DEF AnnounceInv, Typed, AnnouncedSound
<1>1. UNCHANGED <<followedBy, reg_c, thread, follows>> /\ thread[u] = "watching" /\ diff[u] = {}
  BY DEF Look
<1>2. \/ UNCHANGED <<following, diff>>
      \/ /\ new # {}
         /\ following' = [following EXCEPT ![u] = Range(follows[u])]
         /\ diff' = [diff EXCEPT ![u] = new]
  BY DEF Look
<1>3. CASE UNCHANGED <<following, diff>>
  BY <1>1, <1>3, ServerSound DEF threadVars
<1>4. CASE /\ new # {}
           /\ following' = [following EXCEPT ![u] = Range(follows[u])]
           /\ diff' = [diff EXCEPT ![u] = new]
  <2>1. Range(follows[u]) = Range(Entries(follows[u]))
    BY <1>4 DEF Entries, Range
  <2>2. following'[u] = Range(Entries(follows[u])) /\ diff'[u] = new
    BY <1>0, <1>4, <2>1 DEF FollowsTypeOK
  <2>3. ASSUME NEW x \in Users, x # u
        PROVE  following'[x] = following[x] /\ diff'[x] = diff[x]
    BY <1>0, <1>4, <2>3 DEF FollowsTypeOK
  <2>4. ThreadSound'
    BY <1>0, <1>1, <2>2, <2>3 DEF ThreadSound
  <2>5. ASSUME NEW x \in Users, NEW y \in Users, Settled(x, y) PROVE Settled(x, y)'
    BY <1>1, <2>2, <2>3, <2>5 DEF Settled
  <2> QED
    BY <1>1, <2>4, <2>5, QuietSound
<1> QED
  BY <1>2, <1>3, <1>4

\* What is announced was new, and is no longer.
LEMMA AnnounceSound ==
    ASSUME AnnounceInv, NEW u \in Users, Announce(u)
    PROVE  AnnouncedSound'
<1>0. FollowsTypeOK /\ ThreadSound /\ AnnouncedSound
  BY DEF AnnounceInv, Typed, AnnouncedSound
<1>1. PICK v \in Users :
        /\ v \in diff[u]
        /\ followedBy' = followedBy \/ followedBy' = [followedBy EXCEPT ![v] = Append(@, u)]
        /\ diff' = [diff EXCEPT ![u] = @ \ {v}]
  <2>1. diff[u] \in SUBSET Users /\ diff[u] # {}
    BY <1>0 DEF Announce, FollowsTypeOK
  <2>2. LET v == CHOOSE w \in diff[u] : \A x \in diff[u] : w =< x IN
          /\ v \in diff[u]
          /\ followedBy' = followedBy \/ followedBy' = [followedBy EXCEPT ![v] = Append(@, u)]
          /\ diff' = [diff EXCEPT ![u] = @ \ {v}]
    BY <2>1, FirstUser DEF Announce, Following
  <2> QED
    BY <2>1, <2>2
<1>2. UNCHANGED <<follows, reg_c, thread, following>>
  BY DEF Announce
<1>3. /\ diff'[u] = diff[u] \ {v}
      /\ \A x \in Users \ {u} : diff'[x] = diff[x]
  BY <1>0, <1>1 DEF FollowsTypeOK
<1>4. ThreadSound'
  BY <1>0, <1>2, <1>3 DEF ThreadSound
<1>5. ASSUME NEW x \in Users, NEW y \in Users, Settled(x, y) PROVE Settled(x, y)'
  BY <1>2, <1>3, <1>5 DEF Settled
<1>6. CASE followedBy' = followedBy
  BY <1>4, <1>5, <1>6, QuietSound
<1>7. CASE followedBy' = [followedBy EXCEPT ![v] = Append(@, u)]
  <2>1. followedBy[v] \in Seq(Users) /\ IsInjective(followedBy[v])
    BY <1>0 DEF FollowsTypeOK, AnnouncedSound, AnnouncedOnce
  <2>2. /\ followedBy'[v] = Append(followedBy[v], u)
        /\ \A y \in Users \ {v} : followedBy'[y] = followedBy[y]
    BY <1>0, <1>7 DEF FollowsTypeOK
  <2>3. thread[u] = "watching" /\ v \in following[u] /\ v \in Range(Entries(follows[u]))
    BY <1>0, <1>1 DEF ThreadSound
  <2>4. u \notin Range(followedBy[v])
    BY <1>0, <1>1, <2>3 DEF AnnouncedSound, Settled
  <2>5. AnnouncedOnce'
    BY <1>0, <2>1, <2>2, <2>4, InjectiveAppend DEF AnnouncedSound, AnnouncedOnce
  <2>6. Settled(u, v)'
    BY <1>0, <1>2, <1>3, <2>3 DEF Settled, ThreadSound
  <2>7. ASSUME NEW x \in Users, NEW y \in Users, x \in Range(followedBy'[y])
        PROVE  Settled(x, y)'
    <3>1. x \in Range(followedBy[y]) \/ (x = u /\ y = v)
      <4>1. Range(Append(followedBy[v], u)) = Range(followedBy[v]) \cup {u}
        BY <2>1, RangeAppend
      <4>2. followedBy'[y] = IF y = v THEN Append(followedBy[v], u) ELSE followedBy[y]
        BY <2>2
      <4> QED
        BY <2>7, <4>1, <4>2
    <3>2. CASE x \in Range(followedBy[y])
      BY <1>0, <1>5, <3>2 DEF AnnouncedSound
    <3> QED
      BY <2>6, <3>1, <3>2
  <2> QED
    BY <1>4, <2>5, <2>7 DEF AnnouncedSound
<1> QED
  BY <1>1, <1>6, <1>7

\* What a synchronizer forgets when it dies is never started again.
LEMMA SyncCrashSound ==
    ASSUME AnnounceInv, NEW c \in Clusters, SyncCrash(c)
    PROVE  AnnouncedSound'
<1>0. FollowsTypeOK /\ ThreadSound
  BY DEF AnnounceInv, Typed, AnnouncedSound
<1>1. UNCHANGED <<follows, followedBy, reg_c>>
  BY DEF SyncCrash, fileVars
<1>2. ASSUME NEW u \in Users
      PROVE  /\ thread'[u] = IF HomeOf[u] = c THEN "none" ELSE thread[u]
             /\ following'[u] = IF HomeOf[u] = c THEN {} ELSE following[u]
             /\ diff'[u] = IF HomeOf[u] = c THEN {} ELSE diff[u]
  BY DEF SyncCrash
<1>3. ThreadSound'
  BY <1>0, <1>1, <1>2 DEF ThreadSound
<1>4. ASSUME NEW u \in Users, NEW v \in Users, Settled(u, v) PROVE Settled(u, v)'
  BY <1>1, <1>2, <1>4 DEF Settled
<1> QED
  BY <1>1, <1>3, <1>4, QuietSound

\* A user is registered once, and its thread starts then or never.
LEMMA RegisterSound ==
    ASSUME AnnounceInv, NEW u \in Users, GetConnection(u)
    PROVE  AnnouncedSound'
<1>0. FollowsTypeOK /\ ThreadSound
  BY DEF AnnounceInv, Typed, AnnouncedSound
<1>1. /\ UNCHANGED <<follows, followedBy, following, diff>>
      /\ u \notin reg_c /\ reg_c' = reg_c \cup {u}
      /\ thread' = thread \/ thread' = [thread EXCEPT ![u] = "starting"]
  BY DEF GetConnection, fileVars
<1>2. /\ thread[u] = "none" /\ diff[u] = {}
      /\ \A x \in Users \ {u} : thread'[x] = thread[x]
  <2>1. thread[u] = "none" /\ diff[u] = {}
    BY <1>0, <1>1 DEF ThreadSound
  <2>2. thread \in [Users -> {"none", "starting", "creating", "watching"}]
    BY <1>0 DEF FollowsTypeOK
  <2> QED
    BY <1>1, <2>1, <2>2
<1>3. ThreadSound'
  BY <1>0, <1>1, <1>2 DEF ThreadSound
<1>4. ASSUME NEW x \in Users, NEW v \in Users, Settled(x, v) PROVE Settled(x, v)'
  BY <1>1, <1>2, <1>4 DEF Settled
<1> QED
  BY <1>1, <1>3, <1>4, QuietSound

\* Every step keeps the invariant.
LEMMA StepSound == AnnounceInv /\ [Next]_vars => AnnounceInv'
<1> SUFFICES ASSUME AnnounceInv, [Next]_vars PROVE AnnouncedSound'
  BY StepTyped DEF AnnounceInv
<1>1. ASSUME UNCHANGED <<follows, followedBy, reg_c, threadVars>> PROVE AnnouncedSound'
  BY <1>1, ServerSound
<1>2. ASSUME NEW u \in Users, Watch(u) PROVE AnnouncedSound'
  <2>1. ReadFollows(u) \/ CreateFollows(u) => AnnouncedSound'
    BY StartSound DEF ReadFollows, CreateFollows
  <2> QED
    BY <1>2, <2>1, LookSound, AnnounceSound DEF Watch
<1>3. ASSUME NEW u \in Users, NEW role \in {"master", "slave"}, Login(u, role) \/ Renew(u, role)
      PROVE  AnnouncedSound'
  BY <1>1, <1>3 DEF Login, Renew, fileVars, syncVars
<1>4. ASSUME NEW s \in Servers, ServerCrash(s) \/ ServerStart(s) PROVE AnnouncedSound'
  BY <1>1, <1>4 DEF ServerCrash, ServerStart, fileVars, syncVars
<1>5. ASSUME NEW c \in Clusters, SyncStart(c) PROVE AnnouncedSound'
  BY <1>1, <1>5 DEF SyncStart, fileVars
<1>6. CASE UNCHANGED vars
  BY <1>1, <1>6 DEF vars, fileVars, syncVars
<1> QED
  BY <1>2, <1>3, <1>4, <1>5, <1>6, RegisterSound, FollowSound, SyncCrashSound DEF Next

\* The inductive invariant holds in every reachable state.
THEOREM FollowsSound == Spec => []AnnounceInv
BY InitSound, StepSound, PTL DEF Spec

\* Nobody is listed in a followedBy.txt who does not follow.
THEOREM FollowsAnnounced == Spec => []AnnouncedIsFollowed
<1>1. AnnounceInv => AnnouncedIsFollowed
  BY DEF AnnounceInv, AnnouncedSound, AnnouncedIsFollowed, Settled
<1> QED
  BY <1>1, FollowsSound, PTL

\* No follow is listed twice.
THEOREM FollowsAnnouncedOnce == Spec => []AnnouncedOnce
<1>1. AnnounceInv => AnnouncedOnce
  BY DEF AnnounceInv, AnnouncedSound
<1> QED
  BY <1>1, FollowsSound, PTL
=============================================================================
