# A verification project for the machine problems

The repository holds four programs: a chat room server (`MP1`), a social network
on one server (`MP_2`), the same network distributed over clusters that survive
the crash of a master (`MP_3`), and two map-reduce jobs (`MP_5`). This directory
has TLA+ models of the first three, the configurations TLC checks them with, and
proofs, checked by TLAPS, of what matters most about them.

Contents: [inventory](#inventory), [plan](#plan), [modules](#modules),
[runs](#runs), [fairness](#fairness), [proofs](#proofs),
[what the models leave out](#what-the-models-leave-out).

## Inventory

### MP_3: the distributed social network

Four kinds of processes, all talking gRPC, whose handlers run on threads of their
own. `runCluster.sh <id>` starts a master, a slave and a synchronizer of one
cluster a second apart; there is one coordinator; a client with the number `n`
belongs to cluster `n % 3 + 1`. All user files are in the directory the processes
are started in.

| component | state | operations | talks to |
|---|---|---|---|
| coordinator, `tso.cc` | `c_map`: cluster id -> record (addresses, who is believed alive, heartbeat counters, synchronizer); `reg_c`, `l_map`: registered clients and their synchronizers; a thread `checkCluster` for each accepted master | `ClusterSpawn`, `GetConnection`, `Gucci` (a heartbeat), `FollowerSpawn`, `GetAllUsers`, `GetFollowing`, one turn of `checkCluster` every ten seconds | calls `newClient` at synchronizers |
| server, `tsd.cc` | `client_db`: users with whom they follow and who follows them; `s_stub`: the partner; the user files | `RunServer` (spawn, start the heartbeat, poke the partner, listen), `Login`, `Follow`, `List`, `Timeline` with a thread per stream, and for the partner `LoginUpdate`, `FollowUpdate`, `PokeMaster` | coordinator, partner |
| synchronizer, `tsf.cc` | `client_ids`; for each client two threads, with the follows that were on file at their last look | `newClient`, `checkFollowUpdates` and `checkTimelineUpdates` every thirty seconds, `Following`, `newMessage` | coordinator, other synchronizers, the user files |
| client, `tsc.cc` | `stub_` | `connectTo`, `Login`, `renew_connection` every five seconds, the commands, timeline mode | coordinator, a server |

What is hard there: handlers interleave and lock a record, never the map that finds
it; a master is declared dead by comparing two counters that are never reset
together; every restart adds a checking thread to the same record; processes start,
crash and start again in any order and each tells the others about itself once, in
a call that may be lost; a client's stub is replaced under it; files are the only
link between a server and its synchronizer, and both sides look at the clock to
decide what is new.

What makes it correct:

- coordinator: no answer leads to another cluster; every record with a master is
  checked; a process that beats is never declared dead and a silent one is in the
  end, within a known number of periods;
- servers and clients: stubs stay in their cluster; a client ends up at the slave
  when the master is gone; no call of a client ends a server;
- synchronizers: a client is managed by one of them; each follow and each post is
  passed on, once.

### MP1: the chat room

`crsd.cpp` is one process. `main` accepts connections on the base port and gives
each a thread `command_server`, which serves CREATE, DELETE, JOIN and LIST under one
lock over the table of rooms (`DB`). Each room has a port and runs `chat_server`
(accepts members), a `cs_daemon` for each member (queues what it says),
`bs_daemon` (sends what is queued to all the others) and `deletion_awaiter` (says
farewell, cancels and joins the threads). `crc.cpp` is the client: one connection
per command, then a connection to a room until the room is deleted or the user
presses CTRL-C, and from there the program starts itself anew.

What is hard: five kinds of threads with a queue under a lock and a list of
descriptors under none; descriptors that are closed by one thread, given to a new
connection and still in use by another; a lock held across the end of a room;
clients that vanish. What makes it correct: rooms have ports of their own, nobody
hears another room, messages arrive once and in order, a deletion ends, and a
client that leaves harms nobody.

### MP_2: the social network on one server

`tsd.cc` is one server and `tsc.cc` with `client.h` its client.

| component | state | operations |
|---|---|---|
| server | `db`: users, each with its followers, whether it is logged in, and the stream of the call that is in timeline mode; `user.txt`, the saved table; a timeline file for each user | `Login`, `Follow`, `UnFollow`, `List`, `Timeline` (bind the stream, then read posts and distribute each: own file, then file and stream of every follower), `parse_dump` at the start, `signal_callback_handler` at an interrupt |
| client | its stub, then its stream with a thread that reads it | `connectTo` with `Login`, the commands, `processTimeline` |

What is hard there: calls run on threads of their own and nothing is locked; a stream
pointer outlives the call it belongs to; a file and a stream are written one after
the other while a client reads the file and binds the stream; the interrupt handler
saves user by user while other calls go on; the table is removed once it has been
read, so that a kill loses it; `loggedIn` is reset only by a restart.

What makes it correct: who follows whom survives restarts; a saved table can be
loaded; every post reaches every follower's file, once and in order; a timeline
shows no post twice.

### MP_5, the protocol files and the build

`TimeOfDay.java` and `SleepTime.java` are Hadoop jobs: a mapper cuts the hour out of
a record and a reducer sums. They hold no state and nothing interacts in this code.
`sns.proto` declares the messages, the `sns.pb.*` and `sns.grpc.pb.*` files are
generated from it, and the Makefiles build. None of these is modelled.

## Plan

In this order, the most important behaviour first:

1. `Coordinator`, the one process everything depends on. *done, with proofs*
2. `LeakyBucket`, what a checking thread promises about a process, and
   `CoordinatorBucket`, which shows that the coordinator keeps it. *done, with proof*
3. `Cluster`, which composes the coordinator with servers, synchronizers and
   clients, with crashes, restarts and lost calls. *done, with proofs*
4. `ClusterClock`, the same with the pace of the two ten-second sleeps. *done, with
   proofs*
5. `Follows`: a follow on its way from a client to a file at the other end. *done, with proofs*
6. `Timeline`: a post on its way to a follower's screen, by the clock. *done, with proofs*
7. `ChatRoom`: MP1. *done, with proofs*
8. `SocialGraph`, who follows whom in MP_2 as its users see it, and `SocialNetwork`,
   the server that keeps it through interrupts and restarts. *done, with proofs*
9. Proofs of the types and the safety invariants of `Follows`, `SocialNetwork`,
   `ChatRoom`, `Timeline`, `Cluster` and `ClusterClock`. *done*
10. Not done: an abstract specification of a room, a queue of messages in one order for
    everybody, with `ChatRoom` as its refinement.

Composition: `Cluster` extends `Coordinator` and each of its actions contains the
coordinator's handler it calls; `ClusterClock` extends `Cluster` and each of its
actions contains one of `Cluster`'s; `CoordinatorBucket` extends `Coordinator` and
instantiates `LeakyBucket`, as `SocialNetwork` does `SocialGraph`. `Follows`, `Timeline`,
`ChatRoom` and `SocialNetwork` stand alone:
`Follows` and `Timeline` take a cluster that is up, which `Cluster` is about.

## Modules

Definitions have the names of the functions they model where TLA+ allows it, and
`PROJECT.json` gives the lines of each. A definition whose comment begins with "as
if" or "Mutant" is never used by a specification: it is the definition next to it
with a plausible bug, kept to show that a property notices it.

### Coordinator (`MP_3/tso.cc`)

`c_map` maps an id to a record in `Recs`, and `addr`, `live`, `beats` and `follower`
are the fields of a record. `ClusterSpawn` runs in four steps, since the handler
locks the record only after it has found or made it: `SpawnLookup` (the lookup, or
the exception that says there is none), `SpawnInsert` (a new record into the map),
`SpawnReject` or `SpawnAccept` (under the record's lock: role taken, or registered,
with the partner's address in the reply and, for a master, a new thread), and
`SpawnReply`. `GetConnection`, `Gucci` and `FollowerSpawn` hold what they read for
one short stretch and are one action each. `checkCluster` is one turn of one
thread: `Checked` compares a role's counter with the thread's count. `Restart`
forgets everything. The module is open: anybody calls at any time.

### LeakyBucket and CoordinatorBucket

`LeakyBucket` has a number of tokens: a heartbeat adds one, a turn takes one, and the
turn that finds none declares the process dead. `CoordinatorBucket` maps it to
`beats - seen + 1` of one thread, once for the master and once for the slave.

### Cluster (`tso.cc`, `tsd.cc`, `tsf.cc`, `tsc.cc`, `runCluster.sh`)

A server is `down`, `spawning` (its `ClusterSpawn` is at the coordinator), `poking`
(it has a partner's address and calls it), `building` or `serving`. Its heartbeat
thread starts when the spawn returns, whatever it returned, and ends for good at the
first call that fails. A synchronizer reports and then listens. A client asks,
logs in, and from then on takes whatever the coordinator answers for its stub.
Faults of five kinds, of which a run allows some: a server or a synchronizer
crashes, the coordinator restarts, a call is lost, a heartbeat is lost.
`SerialStart` says that `runCluster.sh` starts one process after the other.

### ClusterClock

Time passes in periods of ten seconds. In each, every checking thread turns once
and every heartbeat thread beats once, in any order, except that a beat may slip
into the next period, as it does now and then since its period is ten seconds and
the time of a call. `missed` counts the whole periods since a server started or beat
last, and `slips` its beats that were late. `MasterKnowsSlave` is stated while a
master's beats slipped once at most: after two, its record may be dead when the slave
starts, which is then told of no master.

### Follows (`tsd.cc`, `tsf.cc`)

`Follow` is the handler with everything it does: the memory of the server, the
line in `follows.txt`, and `FollowUpdate` at the partner, which puts both lists where
the followers belong. A user that `find_user` does not know is used as the index -1;
the read finds an empty user or ends the process. `std::copy` into an empty repeated
field ends the process when both users are known and there is a partner; that is
the finding `follow_kills`. A kill may also come between the file and the partner: the
follow is then on file and in nobody's memory. The thread of a client in its
synchronizer first reads the file or creates it (`ReadFollows`, `CreateFollows`), then every thirty seconds
`Look`s whether it was edited in the last thirty, and announces what is new, one
user after the other (`Announce`, `Following`). `moment` is what the clock says of the
last edit when the thread will look: the period is a bit longer than thirty seconds
and the clock counts whole seconds, so an edit right after a look may be too old at
the next.

### Timeline (`tsd.cc`, `tsf.cc`)

A clock of whole seconds. `Timeline` writes a post with the time at which it was made;
`Look` is one turn of `checkTimelineUpdates` for one author: of the posts, those not
older than `Period` are appended to the receiver's file, the newest first. `Open`
floods a stream with the last lines, `Poll` is one turn of `catchTimlineUpdates`.
A file that is only created, by an empty `newMessage` or by `Open`, counts as edited
too: `edited` is what `stat` says of it. `Early` is what `parseMessage` makes of a local
time: the hour it takes off is right in summer (0) and wrong in winter. The properties
speak of the time at which a post was made, not of the time read from its line, so that
`MissedAtEdge` and `SkippedWhenOvertaken` hold in summer only.

### ChatRoom (`MP1/crsd.cpp`, `MP1/crc.cpp`)

`conns` are the connections ever made, each with what is on its way in both
directions, whether its client still has it open (`up`), and what its next use at the
server yields (`err`): nothing; ECONNRESET, once, when the client closed it with
something unread; or, once the server has sent to a closed connection or has met that
error, SIGPIPE at the next `send`. `fds` is the table of descriptors, and a thread
that waits in `recv` is a record with the descriptor it was given and the
connection it waits on, which part company when the descriptor is closed and given
out again. `Connect` is a client's connection to the base port and `Command` what its
user types then; `Create`, `Join`, `Delete` and `Removed` are the commands under the
lock, and `Delete` keeps the lock until the room has ended. `Listen`, `Accept`, `Read`,
`ReadOn`, `ReadFails`, `Broadcast`, `CloseAll`, `Farewell`, `Cancel` and `EndRoom` are the
steps of a room's threads. `Listen` may fail for every port, as `socket`, `bind` and
`listen` may. `Read` takes everything that has arrived and forgets all but the first
message, as a C string in a buffer does. `Broadcast` is the loop of `send`s for one
message: it stops at the first that fails, which ends `bs_daemon` or, for SIGPIPE, the
process. The loop is one step because each `send` touches a connection of its own, and
the descriptors of a pool are closed by nobody but `CloseAll`, the loop after the
farewell, which is a step of its own. `Leave` is the way out after a farewell, `Quit`
the interrupt.
A `JOIN` in small letters is obeyed but its connection is not closed, since
`toupper` is applied in one test and not in the other: `Lowercase` users write so.

### SocialGraph and SocialNetwork (`MP_2/tsd.cc`, `MP_2/tsc.cc`, `MP_2/client.h`)

`SocialGraph` has one variable, for each name its followers, and `Join`, `Follow` and
`UnFollow` change it. A `Mishap` is counted and may lose followers, or make one change
at odds with the rest, but never invents any others.

`SocialNetwork` is the server with its clients. `phase` is where the server's life is:
`Start`, `Load` (one line of `user.txt`) and `Serve` (grab the followers, remove the
file, listen), then `Interrupt`, `CloseUser` (one user is saved and its stream set to
null) and `Exit`. `Login`, `Follow` and `UnFollow` are one action each; a `Timeline` call has
a program counter: `Bind`, `Read` (a post, with the author's own file), `Notify` (one
follower: whether it has a stream, then its file), `Write` (its stream), `Posted`,
`EndCall`. Of the client there are `Timeline` (it shows the file and sends the join
message), `Post` and `Leave`. Names are numbers in the order of the names, since the
loop over followers and the saving walk a sorted map. `stream[n]` is the client whose
call the stream is of, even after that client left, and `Gone` when the call has
returned. What can go wrong, each a kind in `Faults` and counted: the server is killed
(`"kill"`), interrupted while it loads (`"early"`), a call runs on while the table is
saved (`"late"`), or a write to a stream that is gone ends the process (`"stream"`; one
that does not end it is no fault and loses nothing). `torn` is a history variable and
no state of the program: it says that the server died while it was writing `user.txt`,
or that somebody logged in for the first time when the save had passed its name. Only
in these two cases may the file name a user who has no line in it, which no later start
survives (`db->at` throws), and `Restartable` says that there is no third. `KeptGraph` maps the two to one
graph: followers count where they are kept, in memory while the server serves, in
`user.txt` while it is down or loading, and on either side of `saved` in between.

## Runs

Every property of a passing run has a mutant in `PROJECT.json`, a definition with a
bug that makes TLC report that property.

| run | instance and bounds | shows |
|---|---|---|
| `bucket` | two masters and a slave of one cluster, one record, one thread, counters up to 3 | `HeartbeatsAreTokens`. Three beats let a bucket fill, empty and fill again |
| `chaos` | master, slave and synchronizer of cluster 1, a client there and one of a cluster without servers; two records, two threads, counters up to 1, one fault of any kind, simultaneous starts | `RoutedHome`, `RegisteredAtHome`, `WatchedMaster`, `StubsStayHome`, `LeadBounded` under every interleaving of handlers. Two records let two handlers race for one cluster, two threads share a record |
| `live` | master, slave, client; two records, serial starts, two server crashes | `BeatsWhereRegistered`, `LiveHasAddress`, and under fairness `CrashDetected`, `Failover`. Two crashes are a crash of each server, or of one, its restart, and another; the second record is what two first spawns at once would make, as they do in the mutant |
| `synchronizers` | one master, two synchronizers of its cluster, one client; two faults | `ManagedOnce`, `EventuallyRegistered` |
| `clock` | master and slave, six periods, two crashes, one slip each, serial starts | `NoFalseDeath`, `DetectedInTime`, `MasterKnowsSlave`. Six periods hold a start, a crash, a restart, a second crash and its detection |
| `follows` | users 1 and 3 in two clusters, one client, two follows, one kill of a server, also between the file and the partner, or of a synchronizer | `AnnouncedIsFollowed`, `AnnouncedOnce`, and under fairness `Announced` |
| `timeline` | summer (`Early = 0`), two authors, three posts, a period of 4 seconds, seconds 4 to 9, threads late by up to a second, posts up to a second on their way | `SentOnce`, `MissedAtEdge`, `ShownTwice`, `SkippedWhenOvertaken`. That is the last look before the start and up to two more of each author; the code's period of 30 only adds seconds in which nothing is at an edge |
| `chat` | two clients, one of which creates and deletes; from the state in which it has made two rooms and joined one, and the other client the second; a third room, four more connections, two messages, one interrupt; ports 1 to 4, the base port is 3 | `OwnPorts`, `RoomIsolated`, `HeardInOrder`, and under fairness `DeleteEnds`. The start (`Open` of `MCChatRoom`) is six connections into the behaviours of `Spec` (TLC reaches it from `Init` in eighteen steps), so that two rooms with a member each talk at once; the third room meets the base port and then the largest short, and may fail to listen; four connections suffice to delete a room, to create one, and to come back on a descriptor that was closed |
| `social` | two users, one posts twice and one reads; two faults of any kinds, a page of one post, interrupts and restarts without a bound | `GraphKept`, `Restartable`, `FiledInOrder`, `ShownOnce`, and under fairness `Delivered`. Two posts are what order and repetition need, and the second client leaves, comes back and opens its timeline at any time; two faults let one prepare for the other, as a late call before a kill. A stranger who logs in behind the save matters only with a third user whom it then follows: the run does not reach that, the proof of `Restartable` covers it |
| `second_watcher` | one master, three crashes, no slips, fourteen periods | violates `AliveUnlessMissed` |
| `follow_kills` | three clients, no kills | violates `FollowKillsNobody` |
| `leave_kills` | two clients, one room, six connections, two messages, one interrupt, from `Init` | violates `LeavingIsHarmless` |

`timeline` and `chat` do not check for deadlock: in both the bounds (the last second,
the last connection) let the system stop.

The three violations are disagreements between the code and what it says of itself:

- `second_watcher`: tso.cc:321 says that missing two heartbeats is a failure. A
  checking thread never ends, and an accepted master starts another one on the same
  record, so after two lives of the master the older thread, whose count belongs to
  the earlier life, declares it dead although it missed nothing.
- `follow_kills`: tsd.cc copies the follow lists over the end of an empty repeated
  field, so a follow between two users the server knows ends the server when it has
  a partner.
- `leave_kills`: crc_guides.txt:104 tells the user to leave a room with CTRL-C. The
  descriptor stays in the pool, and the second message sent to it raises SIGPIPE,
  which ends the server with all its rooms.

Two facts TLC shows on variants of the passing configurations and that no run
repeats: without `SerialStart`, two first spawns of a cluster make two records and
`BeatsWhereRegistered` fails (tso.cc:98), and with `Early` as large as `Period`, as in
winter, `MissedAtEdge` fails at the first post, because no post is ever young
enough to be sent (tsf.cc:275); that none is, is the theorem `TimelineWinter`.

The bounds on counters stand in guards and are named: `MaxBeats`, `MaxFaults`,
`MaxPeriods`, `MaxSlips`, `MaxFollows`, `MaxPosts`, `MaxTime`, `MaxRooms`, `MaxConns`,
`MaxSaid`, `MaxQuits`; `MaxFaults` also bounds the faults of `SocialNetwork`; `Recs` bounds the records and `Watchers` the accepted masters.

## Fairness

- `Cluster` (`FairSpec`): the steps of a handler and of `RunServer` that follow a call,
  the synchronizer's `BuildAndStart`, a client's login and its renewals, and the
  turns of the checking threads are weakly fair, because they are loops with a sleep
  or straight-line code. Starts, crashes, exits and heartbeats are not: nothing makes
  them happen. `Failover` therefore assumes a slave that goes on serving and a client
  that stays, and concludes that the client's stub is the slave from some time on.
- `Follows`: the thread of a client keeps turning (a loop with `sleep`), nothing else.
- `SocialNetwork`: the thread of a `Timeline` call runs while the server serves. Clients
  and the server's life are free.
- `ChatRoom`: the threads of a room and the one that deletes it run; clients do not have
  to do anything. `DeleteEnds` allows for the death of the process, which `leave_kills`
  shows to be possible.

## Proofs

TLC checks the instances above; the following hold for every number of servers,
clusters, clients, users, rooms, records, threads, posts and faults, from the
assumptions declared with the constants: roles and ids are functions from the
processes, every client's cluster is an id, names and users are numbers, and the null
values are none of the processes, clients or records. What a theorem assumes besides
stands in its last column or in the text below.

| theorem | says | argument |
|---|---|---|
| `CoordTyped` | `TypeOK` | each handler and thread, step by step |
| `CoordHome` | the inductive invariant `HomeInv` | see below |
| `CoordRoutedHome`, `CoordRegisteredAtHome` | `RoutedHome`, `RegisteredAtHome` | from `HomeInv` |
| `CoordWatchedMaster`, `CoordLeadBounded` | `WatchedMaster`, `LeadBounded` | `WatchInv` |
| `CoordinatorIsBucket` | the coordinator implements `LeakyBucket` for both roles | `BucketInv` |
| `ClusterRefines` | every step of `Cluster` is a step of the coordinator's specification or leaves it alone | action by action |
| `ClusterStubsStayHome` | `StubsStayHome` | `StubInv`, on top of `HomeInv` |
| `ClusterManagedOnce` | `ManagedOnce` while the coordinator does not restart | `ManagedInv` |
| `ClusterBeatsWhereRegistered` | `BeatsWhereRegistered` with serial starts | `SerialInv` |
| `ClusterLiveHasAddress` | `LiveHasAddress` with serial starts, no lost call and a coordinator that stays up | `LiveInv`, on top of `SerialInv` |
| `ClusterTyped` | `ClusterTypeOK` | `StubInv` with the shapes of the processes |
| `ClockNoFalseDeath` | `NoFalseDeath` with serial starts | `KeptInv`, on top of `StubInv`, `LiveInv` and `WatchInv` |
| `ClockDetectedInTime` | `DetectedInTime` with serial starts and one server of each role in a cluster (`OneEach`) | `DetectedInv`, on top of the same three |
| `ClockMasterKnowsSlave` | `MasterKnowsSlave` with serial starts and `OneEach` | `MeetInv`, on top of `KeptInv` |
| `FollowsTypedOK` | `FollowsTypeOK` | `Typed` |
| `FollowsAnnounced`, `FollowsAnnouncedOnce` | `AnnouncedIsFollowed`, `AnnouncedOnce` | `AnnounceInv` |
| `SocialTyped` | `SocialTypeOK` | call by call |
| `SocialKept` | the server with its files implements `SocialGraph` | `GraphInv` |
| `SocialRestartable` | `Restartable`, whatever faults there were | `SavedInv` |
| `SocialFiledInOrder` | `FiledInOrder` | `FiledInv` |
| `SocialShownOnce` | `ShownOnce` | `ShownInv`, on top of `FiledInv` |
| `TimelineHolds` | the inductive invariant `TimelineInv` | see below |
| `TimelineTyped`, `TimelineSentOnce`, `TimelineShownTwice` | `TimelineTypeOK`, `SentOnce`, `ShownTwice` | from `TimelineInv` |
| `TimelineMissedAtEdge`, `TimelineSkippedWhenOvertaken` | `MissedAtEdge`, `SkippedWhenOvertaken`, in summer (`Early = 0`) | from `TimelineInv` |
| `TimelineWinter` | when `Early >= Period`, nothing is ever sent to a follower | no post is ever recent |
| `ChatOwnPorts` | `OwnPorts` while `FirstPort + MaxRooms =< MaxShort` | `PortInv` |
| `ChatTyped`, `ChatIsolated` | `ChatTypeOK`, `RoomIsolated` | `ChatInv` |
| `ChatHeardInOrder` | `HeardInOrder` | `OrderInv`, on top of `ChatInv` |

- `HomeInv`. `RoutedHome` is not inductive: an answer is read from a record that the map
  led to, possibly by a handler that looked it up before another handler replaced
  it. The invariant says that every record is owned by one id: everything that
  leads to it, the map and the local pointers of handlers, and everything written in
  it, addresses and synchronizer, belongs to that id; a record never allocated is
  untouched and owned by any.
- `WatchInv`. `WatchedMaster` relates records and threads in both directions; it
  survives only because registering a master and starting its thread is one step
  under the record's lock. `LeadBounded` (a thread alone with its record is at most
  one turn ahead of the heartbeats) is inductive with it and with the types.
- `BucketInv` adds to the bound on the count that a thread which does not run, and a
  role that is believed dead, have the count 0. Without it a `Join` would change the
  tokens.
- `StubInv` adds that a server which pokes has somebody to poke: the reply that made it
  poke held an address, and `HomeInv` says of which cluster.
- `ManagedInv` is `ManagedOnce` with the types: a client is handed to a synchronizer in
  the step that registers it, and never again.
- `SerialInv` says that at most one handler of `ClusterSpawn` runs, that one which is
  about to insert a record still finds none in the map, and that one which waits for
  the lock holds the record the map has. `BeatsWhereRegistered` alone says nothing of
  the handlers that are under way.
- `LiveInv` says that the record which the heartbeats of a server reach has an address
  for its role once they run or are about to (`Placed`), and that a role with a counter
  above 0, or believed alive, has one. The theorem's three conditions are needed: a lost `ClusterSpawn` is
  ignored by the server, which beats all the same; a coordinator that restarts
  forgets addresses; and two first spawns at once put heartbeats on the wrong record.
- `PacedInv`, on which the theorems of `ClusterClock` rest, says where a server is in its
  life and period: it beats from the reply on until it crashes, a running one has a
  beat due or was heard in this period, and what is due to be checked is a thread that
  runs. In `ClusterClock` no call is lost and the coordinator stays up, so that `LiveInv`
  holds under its conditions.
- `KeptInv`. `NoFalseDeath` says nothing of counts, and counts are what a thread goes by.
  The invariant is a balance: the turns a thread has counted, and the one to come in
  this period, are no more than the beats it has received, the one still owed and those
  that slipped, and one less for a master, whose thread begins to turn in the period
  after (`Credited`). It holds for a server accepted on a record that was dead, since
  a thread alone with a record counts nothing for a dead role (`Asleep`); with two
  threads on one record that fails, which is what `second_watcher` shows.
- `DetectedInv` is the opposite balance, for one thread of the record at least: beats,
  owed or received, and the periods missed since are no more than the turns counted
  and to come and the starts, and a thread whose count is two ahead of the beats has
  just become so (`Counted`). Every start adds a beat without a turn, hence the one
  period more for each. A thread that is left behind by another, which reset the
  record, starts anew: then `beats` is 0 and the second half says nothing until the
  master beats again. `OneEach` is what `runCluster.sh` does: it starts one server of a
  role in a cluster. With a second master, its beats go to the record of the first.
- `MeetInv` says of a master and a slave in their first lives that the second of the
  two to start is told of the first and will call it (`Meet`). That takes the whole
  chain: a first spawn is never rejected, its master's thread is the only one on the
  record (`FirstLife`), and so, by `KeptInv`, who came first is still believed alive when
  the second asks.
- `Typed` adds to the shapes that the memory of a server holds users of its own cluster
  only: with the lists that `FollowUpdate` mixes up and the reads at index -1, that is
  all that can be relied on.
- `AnnounceInv`. `AnnouncedOnce` is not inductive: a thread that reads a whole file again
  at every look must know that what it announced is among what it holds for known. The
  invariant says that an announced follow is on file, that its author is registered,
  and that the author's thread has read the file and holds the follow for known and
  not for new (`Settled`), and that what a thread has yet to announce is on file
  (`ThreadSound`). It rests on a thread that is never started twice: `reg_c` grows only.
- `GraphInv` says that memory and `user.txt` hold the same users in no phase but two:
  while the server loads, memory is within the file, and while it saves, users after
  `saved` are in memory only. Without it a step of the server's life could show in the
  graph. A step of a call is then a step of the graph, one of the server's life
  stutters, and a fault is a mishap.
- `SavedInv`. `Restartable` is about a file that was written line by line while calls went
  on, so the invariant must speak of the table, too: who follows a user is one, while
  the server serves and while it saves; of a save nobody has torn, everyone the handler
  has passed has a line, and no line names a stranger. A follow or an unfollow never
  makes a stranger of a user, and a login makes a user of a stranger, which does no harm
  while the save has not passed its name. Without `torn` the theorem would be false: a
  server that dies in mid-save leaves a file whose later lines are missing.
- `FiledInv` relates a client's posts at all their stations: those under way are newer
  than the one its call distributes, which is no older than any on file, and it is on
  file for the author and the followers the loop has passed, no others.
- `ShownInv`. Between `Notify` and `Write` a post is on the follower's file and not yet on
  the stream, and a client that opens its timeline then would show it twice. The
  invariant says that a stream is of a call that has been bound, of a client of that
  name (`Bound`), that a client which has yet to open its timeline has no call
  (`OnIdle`), and that what is about to be written is on the file and not on the screen
  it goes to (`Pending`): it was not on the file before, by `FiledInv`, and everything
  shown is on file. Nothing of this is said while the table is saved, and nothing
  needs to be: from there the server only goes down, where nothing is shown.
- `TimelineInv`. Files are in order, two looks of a thread are a period apart (`Paced`),
  and every line of the receiver's file was sent by a look that found its post recent
  (`SentByLook`); so two looks that find one post would be less than a period apart,
  which is `SentOnce`. `LeftOut` says the same of a post no look has sent: a look came
  between its making and its writing, or was late. `ReadTo` says what `lasttime` stands
  for, a line among those read that was sent a second before at the earliest, and that
  the thread stops reading between two looks of an author, never in the middle of
  one's lines; and `ShownLines` that what is shown after the start was not shown since.
  The loops over files are recursive functions, whose properties are shown by an
  induction that needs no operator as a parameter (`AllNumbers`: a set of numbers that
  misses one misses a least one). `LeftOut` and `Overtaken` speak of the time
  `parseMessage` makes of a post and hold for every error of it; with `Early = 0` that is
  the time at which the post was made, and they are `MissedAtEdge` and
  `SkippedWhenOvertaken`. `Overtaken` needs `LastEdit`: the thread reads only a file that
  was edited within a second, so the last line it then reads was sent within a second,
  and that line is what overtakes all that comes later and was made before.
- `PortInv` says that while there may be another room, `lastport` is above every port of
  the table but the base port, and that it is at most one more than the rooms ever made
  account for. The condition is the code's: ports start at 1024, so that with more than
  31743 rooms `lastport` leaves the range of a short, and the ports after it are none.
- `ChatInv`. `RoomIsolated` is not inductive: a `cs_daemon` names its member by a
  descriptor, which may have been closed and given to a connection of another room
  while the thread waits. The invariant says that this can only be a thread of a room
  whose `bs_daemon` has ended: a thread of any other room is attached to the connection
  its descriptor stands for (`Attached`), the pool of such a room holds descriptors of
  its members only (`Pools`), and what waits in its queue was said by the member whose
  descriptor it bears (`Queues`), so that the sender is left out. It survives because
  only two steps close descriptors: `JOIN` its own thread's, and `CloseAll` those of the
  room whose `bs_daemon` ends with it. `Chatting` says that who enters a command does so
  on a connection to the base port, and who chats on one to a room. For the shapes one must also know that there is a free
  descriptor whenever one is needed, by the pigeonhole principle.
- `OrderInv` follows a message through its stations. What a member was sent came before
  what waits in the queue of its room, that before what waits to be read from its
  sender, and that before what is still to be said; each station is in order, and
  nothing follows a farewell; of a room that has sent one (`"closing"`) nothing is said
  but what its members have heard. `Broadcast` takes the head of a queue to every member, so
  what is left in the queue comes after what was just heard (`HeardBefore`), and
  `ChatInv` says that the member it goes to is one of that room.

Only model-checked: everything under fairness (`CrashDetected`, `Failover`,
`EventuallyRegistered`, `Announced`, `DeleteEnds`, `Delivered`), which the prover does
not reach.

## What the models leave out

- Data races. `c_map`, `l_map`, `reg_c` and `client_db` of MP_3, the list of descriptors
  and the queue's `empty()` of MP1 are used by several threads without a lock. The
  steps of the models are whole lookups, insertions and walks; a torn container has
  no outcomes worth enumerating. The same holds for pointers used after their object
  is gone: the stream of a `Timeline` call, a `stub_` that is replaced while it is called.
- In `Coordinator`, `GetConnection`, `Gucci` and `FollowerSpawn` find the record and lock it
  in one step. In between, only the record found could be replaced in the map, by
  the race of two first spawns. A restart is one step, and a server starts again
  once the coordinator has done with its last call.
- `Cluster` does not say what a login or a follow writes: that is `Follows`. `Follows` in
  turn takes the masters and slaves for up and lets a client be at the slave once
  something was killed. Logins and follows of a client in one second, and a file
  edited twice within one look, are one case of `moment`.
- `Timeline` has one post a second of each author, one receiver, no crashes, and files
  whose lines are as their writers made them; the order of two things within a
  second is free.
- `SocialNetwork` leaves out `List`, which only reads, and what is printed or parsed. A
  user's name is one word and a post one line, as the code's own reading of its files
  takes them; a post longer than the buffer of the client is cut, which is not modelled.
  Two calls that change one container at the same moment, a follower erased under the
  loop that notifies it and two writes to one stream at a time are data races: the
  steps of the model are whole operations. So is what the interrupt handler does in the
  middle of another thread's step, apart from the order of the steps. `ShownOnce` is
  stated while the server serves: in the middle of the saving, `Bind` may put a stream
  in place of the one `CloseUser` has set to null, and a client then sees a post twice.
- `ChatRoom` leaves out LIST and the member count, which nothing reads back; the entry
  "base control", which no user of the model names and whose flag is uninitialised; a
  member that never reads, which would block `send` and the whole room; the time of one
  second in `deletion_awaiter`, which is any time here; `accept`, `recv` or `send` failing
  for a reason that is not the other side's (no descriptors, no memory); the contents of commands and
  messages. A client whose connection is refused exits and is started again.
- A `send` that blocks for ever, a connection refused between CREATE's answer and
  `listen`, a `renew_connection` in the middle of a command: one call that fails or hangs,
  with nothing of the program's own behind it.
- `TimelineUpdate` of `MP_3/tsd.cc`, the one operation that changes state and has no
  action. Nobody calls it, and its comment says that it is not used.
- The generated `sns.pb.*` and `sns.grpc.pb.*`, by far most of the lines in the
  repository: they are the output of `protoc`, hold no decision of this program, and a
  call is what the modules make of it. `MP_5`, two mappers and two sums that Hadoop
  runs: its behaviour in a cluster is Hadoop's, and the parsing of a line of text is
  all that is left.
- The formats of files, messages and the screen, everywhere.
