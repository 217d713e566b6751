------------------------------ MODULE Follows ------------------------------
(***************************************************************************)
(* How a follow travels through the distributed social network.            *)
(*                                                                         *)
(* A client asks a server of its cluster to follow a user.  The server     *)
(* (MP_3/tsd.cc) writes it to the client's follows.txt, into its own       *)
(* memory, and to its partner.  The synchronizer (MP_3/tsf.cc) of the      *)
(* client's cluster has a thread per client, which looks at follows.txt    *)
(* every thirty seconds and announces what is new to the synchronizer of   *)
(* the user followed, which writes the user's followedBy.txt.  All the     *)
(* files are in one directory, the one runCluster.sh is started in.        *)
(*                                                                         *)
(* The cluster is up from the start: how its processes find each other,    *)
(* and who is answered by whom, is module Cluster.                         *)
(***************************************************************************)
EXTENDS Naturals, FiniteSets, Sequences, Functions

CONSTANTS
    Users,      \* client ids
    Clusters,   \* cluster ids; each has a master, a slave and a synchronizer
    HomeOf,     \* the cluster of a user
    Clients,    \* the users whose clients log in; others are only registered
    Faults,     \* what may be killed: "server", "sync"
    MaxFaults,  \* bound on how often something is killed
    MaxFollows, \* bound on the entries of a follows.txt
    NoFile      \* a file that does not exist

ASSUME UsersAssumption == Users \subseteq Nat
ASSUME HomeAssumption  == HomeOf \in [Users -> Clusters] /\ Clients \subseteq Users
ASSUME KillAssumption  == Faults \subseteq {"server", "sync"} /\ MaxFaults \in Nat
ASSUME FileAssumption  == MaxFollows \in Nat /\ NoFile \notin Seq(Users)

Servers == Clusters \X {"master", "slave"}

VARIABLES
    follows,    \* user -> the entries of follows.txt
    followedBy, \* user -> the entries of followedBy.txt
    moment,     \* user -> when follows.txt was last written: before its thread
                \* last looked, in the second after that, or later
    up,         \* server -> it listens
    client_db,  \* server -> the users it knows -> their client_following and
                \* client_followers
    s_stub,     \* server -> it has a stub of its partner
    conn,       \* user -> the server its client's stub calls, by role
    reg_c,      \* the users the coordinator has registered
    sync,       \* cluster -> its synchronizer listens
    client_ids, \* cluster -> the users its synchronizer manages
    thread,     \* user -> how far its checkFollowUpdates has come
    following,  \* user -> the thread's set of the follows it knows
    diff,       \* user -> the new follows it has yet to announce
    faults      \* how often something was killed so far

fileVars   == <<follows, followedBy, moment>>
serverVars == <<up, client_db, s_stub>>
threadVars == <<thread, following, diff>>
syncVars   == <<sync, client_ids, threadVars>>
vars == <<fileVars, serverVars, conn, reg_c, syncVars, faults>>

NoClients == <<>>

\* the entries of a file, none when there is no file
Entries(file) == IF file = NoFile THEN <<>> ELSE file

Partner(s) == <<s[1], IF s[2] = "master" THEN "slave" ELSE "master">>

\* as if the coordinator counted the clusters from the next one on
AtNext(u, role) == <<CHOOSE c \in Clusters : c # HomeOf[u], role>>

\* a server of a user's cluster, (id % 3) + 1
At(u, role) == <<HomeOf[u], role>>

\* the server that the client of u calls
Server(u) == At(u, conn[u])

Served(u) == conn[u] # "off" /\ up[Server(u)]

Managed(u) == u \in client_ids[HomeOf[u]]

Init ==
    /\ follows = [u \in Users |-> NoFile]
    /\ followedBy = [u \in Users |-> <<>>]
    /\ moment = [u \in Users |-> "before"]
    /\ up = [s \in Servers |-> TRUE]
    /\ client_db = [s \in Servers |-> NoClients]
    /\ s_stub = [s \in Servers |-> TRUE]
    /\ conn = [u \in Users |-> "off"]
    /\ reg_c = {}
    /\ sync = [c \in Clusters |-> TRUE]
    /\ client_ids = [c \in Clusters |-> {}]
    /\ thread = [u \in Users |-> "none"]
    /\ following = [u \in Users |-> {}]
    /\ diff = [u \in Users |-> {}]
    /\ faults = 0

Fault(kind) ==
    /\ kind \in Faults
    /\ faults < MaxFaults
    /\ faults' = faults + 1

\* the processes in S end, and the others know mem
Ends(S, mem) ==
    /\ up' = [s \in Servers |-> up[s] /\ s \notin S]
    /\ s_stub' = [s \in Servers |-> s_stub[s] /\ s \notin S]
    /\ client_db' = [s \in Servers |-> IF s \in S THEN NoClients ELSE mem[s]]

-----------------------------------------------------------------------------
(* Login and Follow of tsd.cc *)

\* login_help and populate_following: who is new is read from the files
login_help(db, u) ==
    [x \in DOMAIN db \cup {u} |->
        IF x \in DOMAIN db THEN db[x]
        ELSE [following |-> Entries(follows[u]), followers |-> followedBy[u]]]

\* a client that the coordinator knows logs in and its server tells the partner
Login(u, role) ==
    LET s == At(u, role) IN
    /\ u \in reg_c \cap Clients
    /\ conn[u] = "off"
    /\ role = "slave" => faults > 0
    /\ up[s]
    /\ conn' = [conn EXCEPT ![u] = role]
    /\ client_db' = [t \in Servers |->
                       IF t = s \/ (t = Partner(s) /\ s_stub[s] /\ up[t])
                       THEN login_help(client_db[t], u) ELSE client_db[t]]
    /\ UNCHANGED <<fileVars, up, s_stub, reg_c, syncVars, faults>>

\* the stub of a client is replaced, without a login; a master that came back may
\* still be believed dead
Renew(u, role) ==
    /\ conn[u] # "off"
    /\ role = "slave" => faults > 0
    /\ up[At(u, role)]
    /\ conn' = [conn EXCEPT ![u] = role]
    /\ UNCHANGED <<fileVars, serverVars, reg_c, syncVars, faults>>

\* what a thread's last look makes of a file written now: the clock counts whole
\* seconds, and a file written while the thread is busy is too old the next time
Written(u) ==
    \E when \in IF diff[u] # {} THEN {"edge"} ELSE {"edge", "later"} :
        moment' = [moment EXCEPT ![u] =
                     IF moment[u] = "later" THEN "later" ELSE when]

\* the memory of a server after u's follow of v
Learned(db, u, v) ==
    [x \in DOMAIN db |->
        [following |-> IF x = u THEN Append(db[x].following, v) ELSE db[x].following,
         followers |-> IF x = v THEN Append(db[x].followers, u) ELSE db[x].followers]]

\* FollowUpdate at the partner: both lists end up in the followers
FollowUpdate(db, u, lists) ==
    [db EXCEPT ![u] = [following |-> <<>>,
                       followers |-> lists.followers \o lists.following]]

\* A client's follow.  find_user's -1 for an unknown client is used as an index
\* and what is found there is a client without follows, or ends the process; the
\* lists of users known to the server are copied over the end of an empty list,
\* which ends it.  It may also be killed with the follow on file and the partner
\* not told.
Follow(u, v) ==
    LET s == Server(u)
        o == Partner(s)
        db == client_db[s]
        old == IF u \in DOMAIN db THEN db[u] ELSE [following |-> <<>>, followers |-> <<>>]
        new == [old EXCEPT !.following = Append(@, v)]
        mem == [client_db EXCEPT ![s] = Learned(db, u, v)]
    IN
    /\ Served(u)
    /\ v \in DOMAIN db \/ v # u
    /\ v \notin Range(old.following)
    /\ Len(Entries(follows[u])) < MaxFollows
    /\ \/ /\ u \notin DOMAIN db
          /\ Ends({s}, client_db)
          /\ UNCHANGED <<fileVars, faults>>
       \/ /\ follows' = [follows EXCEPT ![u] = Append(Entries(@), v)]
          /\ Written(u)
          /\ UNCHANGED followedBy
          /\ \/ Fault("server") /\ Ends({s}, client_db)
             \/ ~s_stub[s] /\ Ends({}, mem) /\ UNCHANGED faults
             \/ s_stub[s] /\ v \in DOMAIN db /\ Ends({s}, client_db) /\ UNCHANGED faults
             \/ s_stub[s] /\ v \notin DOMAIN db /\ ~up[o] /\ Ends({}, mem) /\ UNCHANGED faults
             \/ /\ s_stub[s] /\ v \notin DOMAIN db /\ up[o]
                /\ IF u \in DOMAIN client_db[o]
                   THEN Ends({}, [mem EXCEPT ![o] = FollowUpdate(@, u, new)])
                   ELSE \E S \in {{}, {o}} : Ends(S, mem)
                /\ UNCHANGED faults
    /\ UNCHANGED <<conn, reg_c, syncVars>>

ServerCrash(s) ==
    /\ up[s]
    /\ Fault("server")
    /\ Ends({s}, client_db)
    /\ UNCHANGED <<fileVars, conn, reg_c, syncVars>>

\* a server starts again and meets its partner, or is rejected and does not
ServerStart(s) ==
    /\ ~up[s]
    /\ up' = [up EXCEPT ![s] = TRUE]
    /\ \E met \in {FALSE, up[Partner(s)]} :
         s_stub' = [s_stub EXCEPT ![s] = met,
                                  ![Partner(s)] = @ \/ met]
    /\ UNCHANGED <<fileVars, client_db, conn, reg_c, syncVars, faults>>

-----------------------------------------------------------------------------
(* newClient, checkFollowUpdates and Following of tsf.cc *)

\* the coordinator registers a client and tells its synchronizer, if it hears it
GetConnection(u) ==
    /\ u \notin reg_c
    /\ reg_c' = reg_c \cup {u}
    /\ IF sync[HomeOf[u]]
       THEN /\ client_ids' = [client_ids EXCEPT ![HomeOf[u]] = @ \cup {u}]
            /\ thread' = [thread EXCEPT ![u] = "starting"]
       ELSE UNCHANGED <<client_ids, thread>>
    /\ UNCHANGED <<fileVars, serverVars, conn, sync, following, diff, faults>>

\* the thread reads what is on file, or finds no file
ReadFollows(u) ==
    /\ thread[u] = "starting"
    /\ thread' = [thread EXCEPT ![u] =
                    IF follows[u] = NoFile THEN "creating" ELSE "watching"]
    /\ following' = [following EXCEPT ![u] = Range(Entries(follows[u]))]
    /\ moment' = [moment EXCEPT ![u] = "before"]
    /\ UNCHANGED <<follows, followedBy, serverVars, conn, reg_c, sync, client_ids,
                   diff, faults>>

\* it makes the file, which may be there by now, and empties it
CreateFollows(u) ==
    /\ thread[u] = "creating"
    /\ follows' = [follows EXCEPT ![u] = <<>>]
    /\ moment' = [moment EXCEPT ![u] = "before"]
    /\ thread' = [thread EXCEPT ![u] = "watching"]
    /\ UNCHANGED <<followedBy, serverVars, conn, reg_c, sync, client_ids,
                   following, diff, faults>>

\* as if the set of known follows were not brought up to date
LookForgetful(u) ==
    LET new == Range(Entries(follows[u])) \ following[u] IN
    /\ thread[u] = "watching"
    /\ diff[u] = {}
    /\ moment' = [moment EXCEPT ![u] = "before"]
    /\ diff' = [diff EXCEPT ![u] = IF moment[u] = "later" THEN new ELSE {}]
    /\ UNCHANGED <<follows, followedBy, serverVars, conn, reg_c, sync, client_ids,
                   thread, following, faults>>

\* thirty seconds later: a file that was not written lately is not read
Look(u) ==
    LET new == Range(Entries(follows[u])) \ following[u] IN
    /\ thread[u] = "watching"
    /\ diff[u] = {}
    /\ moment' = [moment EXCEPT ![u] = "before"]
    /\ IF moment[u] = "later" /\ new # {}
       THEN /\ following' = [following EXCEPT ![u] = Range(follows[u])]
            /\ diff' = [diff EXCEPT ![u] = new]
       ELSE UNCHANGED <<following, diff>>
    /\ UNCHANGED <<follows, followedBy, serverVars, conn, reg_c, sync, client_ids,
                   thread, faults>>

\* as if the two ids of a FollowPair were swapped
FollowingSwapped(u, v) ==
    followedBy' = IF Managed(v) THEN [followedBy EXCEPT ![u] = Append(@, v)]
                  ELSE followedBy

\* Following at the synchronizer of v, or this one's own write: an unknown user
\* is refused
Following(u, v) ==
    followedBy' = IF Managed(v) THEN [followedBy EXCEPT ![v] = Append(@, u)]
                  ELSE followedBy

\* as if a follow that cannot be announced ended the loop
AnnounceBreaks(u) ==
    LET v == CHOOSE w \in diff[u] : \A x \in diff[u] : w =< x IN
    /\ diff[u] # {}
    /\ IF Managed(v) \/ v \in reg_c THEN Following(u, v) ELSE UNCHANGED followedBy
    /\ diff' = [diff EXCEPT ![u] = IF v \in reg_c THEN @ \ {v} ELSE {}]
    /\ UNCHANGED <<follows, moment, serverVars, conn, reg_c, sync, client_ids,
                   thread, following, faults>>

\* the next new follow: GetFollowing refuses a user that is not registered, and
\* nothing that fails is tried again
Announce(u) ==
    LET v == CHOOSE w \in diff[u] : \A x \in diff[u] : w =< x IN
    /\ diff[u] # {}
    /\ IF Managed(v) \/ v \in reg_c THEN Following(u, v) ELSE UNCHANGED followedBy
    /\ diff' = [diff EXCEPT ![u] = @ \ {v}]
    /\ UNCHANGED <<follows, moment, serverVars, conn, reg_c, sync, client_ids,
                   thread, following, faults>>

\* the synchronizer is killed, and with it what it knew
SyncCrash(c) ==
    LET lost(f, v) == [u \in Users |-> IF HomeOf[u] = c THEN v ELSE f[u]] IN
    /\ sync[c]
    /\ Fault("sync")
    /\ sync' = [sync EXCEPT ![c] = FALSE]
    /\ client_ids' = [client_ids EXCEPT ![c] = {}]
    /\ thread' = lost(thread, "none")
    /\ following' = lost(following, {})
    /\ diff' = lost(diff, {})
    /\ UNCHANGED <<fileVars, serverVars, conn, reg_c>>

SyncStart(c) ==
    /\ ~sync[c]
    /\ sync' = [sync EXCEPT ![c] = TRUE]
    /\ UNCHANGED <<fileVars, serverVars, conn, reg_c, client_ids, threadVars, faults>>

Watch(u) == ReadFollows(u) \/ CreateFollows(u) \/ Look(u) \/ Announce(u)

Next ==
    \/ \E u \in Users :
         \/ GetConnection(u)
         \/ Watch(u)
         \/ \E role \in {"master", "slave"} : Login(u, role) \/ Renew(u, role)
         \/ \E v \in Users : Follow(u, v)
    \/ \E s \in Servers : ServerCrash(s) \/ ServerStart(s)
    \/ \E c \in Clusters : SyncCrash(c) \/ SyncStart(c)

Spec == Init /\ [][Next]_vars

\* A thread keeps turning; nothing makes a client follow or a process start.
Fairness == \A u \in Users : WF_vars(Watch(u))

FairSpec == Spec /\ Fairness

-----------------------------------------------------------------------------

\* The shape of files, memories and threads.
FollowsTypeOK ==
    /\ follows \in [Users -> Seq(Users) \cup {NoFile}]
    /\ followedBy \in [Users -> Seq(Users)]
    /\ moment \in [Users -> {"before", "edge", "later"}]
    /\ up \in [Servers -> BOOLEAN]
    /\ s_stub \in [Servers -> BOOLEAN]
    /\ \A s \in Servers : \A u \in DOMAIN client_db[s] :
         /\ HomeOf[u] = s[1]
         /\ client_db[s][u] \in [following : Seq(Users), followers : Seq(Users)]
    /\ conn \in [Users -> {"off", "master", "slave"}]
    /\ reg_c \subseteq Users
    /\ sync \in [Clusters -> BOOLEAN]
    /\ client_ids \in [Clusters -> SUBSET Users]
    /\ thread \in [Users -> {"none", "starting", "creating", "watching"}]
    /\ following \in [Users -> SUBSET Users]
    /\ diff \in [Users -> SUBSET Users]
    /\ faults \in 0..MaxFaults

\* A user's followedBy.txt lists those only whose follow is on file, whoever
\* wrote it there.
AnnouncedIsFollowed ==
    \A u, v \in Users :
        u \in Range(followedBy[v]) => v \in Range(Entries(follows[u]))

\* No follow is announced twice, although files are read again and again,
\* synchronizers are restarted and clients follow again what a server forgot.
AnnouncedOnce == \A v \in Users : IsInjective(followedBy[v])

\* A follow written at a good moment is announced, unless one of the two
\* synchronizers dies first.
Announced ==
    \A u, v \in Users :
        /\ thread[u] = "watching" /\ moment[u] = "later"
        /\ v \in Range(Entries(follows[u])) \ following[u]
        /\ Managed(v)
        ~> \/ u \in Range(followedBy[v])
           \/ ~Managed(v) \/ thread[u] = "none"

\* A server ends only when it is killed: none dies of what a client asks.
FollowKillsNobody ==
    [][\A s \in Servers : up[s] /\ ~up'[s] => faults' # faults]_vars
=============================================================================
