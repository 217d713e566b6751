------------------------------ MODULE ChatRoom ------------------------------
(***************************************************************************)
(* The chat room server of MP1/crsd.cpp with its clients (MP1/crc.cpp).    *)
(*                                                                         *)
(* One process serves commands on the base port, a thread for each         *)
(* connection, and runs for every room a thread that accepts members, one  *)
(* that waits for the room's deletion, one that broadcasts what is in the  *)
(* room's queue, and one for each member that fills it.  The threads name  *)
(* connections by descriptors, of which the process has one table: a       *)
(* descriptor that is closed is given to the next connection, while a      *)
(* thread that waits in recv goes on waiting for the old one.              *)
(***************************************************************************)
EXTENDS Integers, FiniteSets, Sequences, FiniteSetsExt, SequencesExt

CONSTANTS
    Clients,    \* the users' client programs
    Owners,     \* those whose users create and delete rooms; the others only join
    Lowercase,  \* those whose users write commands in small letters
    Names,      \* names of chat rooms
    FirstPort,  \* where ports start, 1024 in the code
    BasePort,   \* the port of the commands
    MaxShort,   \* the largest short, 32767 in the code
    MaxRooms,   \* bound on the rooms ever made
    MaxConns,   \* bound on the connections ever made
    MaxSaid,    \* bound on the messages ever said
    MaxQuits    \* bound on the clients that are interrupted

ASSUME PortAssumption ==
    /\ FirstPort \in Nat /\ BasePort \in Nat /\ MaxShort \in Nat
    /\ FirstPort =< MaxShort
ASSUME BoundsAssumption ==
    MaxRooms \in Nat /\ MaxConns \in Nat /\ MaxSaid \in Nat /\ MaxQuits \in Nat

VARIABLES
    alive,    \* the server process runs
    chatDB,   \* the entries of the table: name, port and room
    lastport, \* the port of the next room
    DBlock,   \* the connection whose DELETE holds the lock, or 0
    rooms,    \* every room ever made
    conns,    \* every connection ever made
    fds,      \* descriptor -> the connection it stands for, or 0
    threads,  \* the threads that read: for a room or, as room 0, for commands
    cli,      \* client -> what it does, on which connection or for which port
    said,     \* how much was said so far
    quits     \* how many clients were interrupted so far

dbVars == <<chatDB, lastport, DBlock>>
vars == <<alive, dbVars, rooms, conns, fds, threads, cli, said, quits>>

Base    == [name |-> "base control", port |-> BasePort, room |-> 0]
Goodbye == [by |-> 0, n |-> 0]

Init ==
    /\ alive = TRUE
    /\ chatDB = <<Base>>
    /\ lastport = FirstPort
    /\ DBlock = 0
    /\ rooms = <<>>
    /\ conns = <<>>
    /\ fds = [f \in 1..MaxConns |-> 0]
    /\ threads = {}
    /\ cli = [c \in Clients |-> [state |-> "home", conn |-> 0, port |-> 0]]
    /\ said = 0
    /\ quits = 0

\* accept gives the lowest free descriptor
NewFd == Min({f \in DOMAIN fds : fds[f] = 0})

NewConn(c, to) == Append(conns, [by |-> c, to |-> to, fd |-> 0, up |-> TRUE,
                                 err |-> "none", in |-> <<>>, out |-> <<>>])

Become(c, state, conn, port) ==
    cli' = [cli EXCEPT ![c] = [state |-> state, conn |-> conn, port |-> port]]

\* the thread t calls recv again, which fails when its descriptor was closed
RecvAgain(t) ==
    threads' = (threads \ {t}) \cup
               (IF fds[t.fd] = 0 THEN {} ELSE {[t EXCEPT !.on = fds[t.fd]]})

-----------------------------------------------------------------------------
(* Commands: main and command_server, connect_to and process_command *)

\* a client connects to the base port, where the connection gets a thread,
Connect(c) ==
    LET k == Len(conns) + 1 IN
    /\ alive
    /\ cli[c].state = "home"
    /\ k =< MaxConns
    /\ conns' = [NewConn(c, 0) EXCEPT ![k].fd = NewFd]
    /\ fds' = [fds EXCEPT ![NewFd] = k]
    /\ threads' = threads \cup {[room |-> 0, fd |-> NewFd, on |-> k]}
    /\ Become(c, "prompt", k, 0)
    /\ UNCHANGED <<alive, dbVars, rooms, said, quits>>

\* and its user enters a command
Command(c) ==
    LET k == cli[c].conn IN
    /\ alive
    /\ cli[c].state = "prompt"
    /\ \E cmd \in IF c \in Owners THEN {"CREATE", "DELETE", "JOIN"} ELSE {"JOIN"},
          name \in Names :
         conns' = [conns EXCEPT ![k].in = <<[cmd |-> cmd, name |-> name]>>]
    /\ Become(c, "asked", k, 0)
    /\ UNCHANGED <<alive, dbVars, rooms, fds, threads, said, quits>>

\* a thread of commands has one to carry out, and has the lock
Asked(t, cmd) ==
    /\ alive
    /\ t.room = 0
    /\ conns[t.on].in # <<>>
    /\ conns[t.on].in[1].cmd = cmd
    /\ DBlock = 0

Entry(name) == {i \in DOMAIN chatDB : chatDB[i].name = name}

\* the client on k has its answer, closes and connects again; the thread that
\* answered goes on reading from what the client has closed
Answered(k) ==
    /\ conns' = [conns EXCEPT ![k].in = <<>>, ![k].up = FALSE]
    /\ Become(conns[k].by, "home", 0, 0)

\* lastport is a short
Wrap(n) == IF n > MaxShort THEN n - 2 * (MaxShort + 1) ELSE n

\* as if no port were skipped
CreateUnskipped(t) ==
    LET name == conns[t.on].in[1].name
        port == lastport
    IN
    /\ Asked(t, "CREATE")
    /\ IF Entry(name) # {} THEN UNCHANGED <<rooms, chatDB, lastport>>
       ELSE /\ Len(rooms) < MaxRooms
            /\ rooms' = Append(rooms, [port |-> port, terminated |-> FALSE,
                                       chat |-> "starting", bs |-> "none",
                                       awaiter |-> "none", queue |-> <<>>, pool |-> <<>>])
            /\ chatDB' = Append(chatDB, [name |-> name, port |-> port,
                                         room |-> Len(rooms) + 1])
            /\ lastport' = Wrap(port + 1)
    /\ Answered(t.on)
    /\ UNCHANGED <<alive, DBlock, fds, threads, said, quits>>

\* DB::add: the base port is skipped
Create(t) ==
    LET name == conns[t.on].in[1].name
        skip == \E i \in DOMAIN chatDB : chatDB[i].port = lastport
        port == IF skip THEN Wrap(lastport + 1) ELSE lastport
    IN
    /\ Asked(t, "CREATE")
    /\ IF Entry(name) # {} THEN UNCHANGED <<rooms, chatDB, lastport>>
       ELSE /\ Len(rooms) < MaxRooms
            /\ rooms' = Append(rooms, [port |-> port, terminated |-> FALSE,
                                       chat |-> "starting", bs |-> "none",
                                       awaiter |-> "none", queue |-> <<>>, pool |-> <<>>])
            /\ chatDB' = Append(chatDB, [name |-> name, port |-> port,
                                         room |-> Len(rooms) + 1])
            /\ lastport' = Wrap(port + 1)
    /\ Answered(t.on)
    /\ UNCHANGED <<alive, DBlock, fds, threads, said, quits>>

\* the connection of a client that joins is closed and its thread returns
CloseBase(t) ==
    /\ fds' = [fds EXCEPT ![t.fd] = 0]
    /\ threads' = threads \ {t}

\* JOIN: the client is told the port and the connection is closed, if the
\* command was written in capitals; a client that is refused goes for the port all
\* the same, one never set, ends and is started again
Join(t) ==
    LET k == t.on
        entry == Entry(conns[k].in[1].name)
    IN
    /\ Asked(t, "JOIN")
    /\ IF entry = {}
       THEN Answered(k) /\ UNCHANGED <<fds, threads>>
       ELSE /\ conns' = [conns EXCEPT ![k].in = <<>>]
            /\ \E i \in entry : Become(conns[k].by, "joining", 0, chatDB[i].port)
            /\ IF conns[k].by \in Lowercase THEN UNCHANGED <<fds, threads>>
               ELSE CloseBase(t)
    /\ UNCHANGED <<alive, dbVars, rooms, said, quits>>

\* DB::remove begins: the lock is kept until the room has ended
Delete(t) ==
    LET entry == Entry(conns[t.on].in[1].name) IN
    /\ Asked(t, "DELETE")
    /\ IF entry = {}
       THEN Answered(t.on) /\ UNCHANGED <<rooms, DBlock>>
       ELSE /\ \E i \in entry :
                 rooms' = [rooms EXCEPT ![chatDB[i].room].terminated = TRUE]
            /\ conns' = [conns EXCEPT ![t.on].in = <<>>]
            /\ DBlock' = t.on
            /\ UNCHANGED cli
    /\ UNCHANGED <<alive, chatDB, lastport, fds, threads, said, quits>>

\* as if the entry before were erased
RemovedBefore ==
    /\ alive
    /\ \E i \in DOMAIN chatDB \ {1} :
         /\ rooms[chatDB[i].room].terminated
         /\ rooms[chatDB[i].room].chat = "ended"
         /\ chatDB' = RemoveAt(chatDB, i - 1)
    /\ Answered(DBlock)
    /\ DBlock' = 0
    /\ UNCHANGED <<alive, lastport, rooms, fds, threads, said, quits>>

\* and ends: the thread of the room is joined
Removed ==
    /\ alive
    /\ \E i \in DOMAIN chatDB \ {1} :
         /\ rooms[chatDB[i].room].terminated
         /\ rooms[chatDB[i].room].chat = "ended"
         /\ chatDB' = RemoveAt(chatDB, i)
    /\ Answered(DBlock)
    /\ DBlock' = 0
    /\ UNCHANGED <<alive, lastport, rooms, fds, threads, said, quits>>

-----------------------------------------------------------------------------
(* Rooms: chat_server, deletion_awaiter, cs_daemon and bs_daemon *)

\* chat_server binds and listens, and starts the room's other threads; any of these
\* calls may fail, and with a port that is none one does: that ends it
Listen(r) ==
    /\ alive
    /\ rooms[r].chat = "starting"
    /\ \/ rooms' = [rooms EXCEPT ![r].chat = "ended"]
       \/ /\ rooms[r].port >= 0
          /\ rooms' = [rooms EXCEPT ![r].chat = "listening", ![r].bs = "waiting",
                                    ![r].awaiter = "watching"]
    /\ UNCHANGED <<alive, dbVars, conns, fds, threads, cli, said, quits>>

\* a client connects to the port it was told; the socket that listens there is
\* never closed, and where nobody listens the client ends and is started again
Enter(c) ==
    LET at == {r \in DOMAIN rooms : rooms[r].port = cli[c].port /\ rooms[r].bs # "none"}
    IN
    /\ alive
    /\ cli[c].state = "joining"
    /\ Len(conns) < MaxConns
    /\ IF at = {}
       THEN Become(c, "home", 0, 0) /\ UNCHANGED conns
       ELSE \E r \in at : /\ conns' = NewConn(c, r)
                          /\ Become(c, "chat", Len(conns) + 1, 0)
    /\ UNCHANGED <<alive, dbVars, rooms, fds, threads, said, quits>>

\* connections to the room r that nobody has accepted
Backlog(r) == {k \in DOMAIN conns : conns[k].to = r /\ conns[k].fd = 0}

\* chat_server accepts a member
Accept(r) ==
    LET k == Min(Backlog(r)) IN
    /\ alive
    /\ rooms[r].chat = "listening"
    /\ Backlog(r) # {}
    /\ conns' = [conns EXCEPT ![k].fd = NewFd]
    /\ fds' = [fds EXCEPT ![NewFd] = k]
    /\ rooms' = [rooms EXCEPT ![r].pool = Append(@, NewFd)]
    /\ threads' = threads \cup {[room |-> r, fd |-> NewFd, on |-> k]}
    /\ UNCHANGED <<alive, dbVars, cli, said, quits>>

\* a member says something; what is sent to a closed connection is lost
Say(c) ==
    LET k == cli[c].conn IN
    /\ alive
    /\ cli[c].state = "chat"
    /\ said < MaxSaid
    /\ conns[k].fd # 0 => fds[conns[k].fd] = k
    /\ said' = said + 1
    /\ conns' = [conns EXCEPT ![k].in = Append(@, [by |-> k, n |-> said'])]
    /\ UNCHANGED <<alive, dbVars, rooms, fds, threads, cli, quits>>

\* A cs_daemon takes what has arrived for its connection, queues the first message
\* and forgets what came with it.
Read(t) ==
    /\ alive
    /\ t.room # 0
    /\ conns[t.on].in # <<>>
    /\ rooms' = [rooms EXCEPT ![t.room].queue =
                   Append(@, [msg |-> conns[t.on].in[1], fd |-> t.fd])]
    /\ \E n \in DOMAIN conns[t.on].in :
         conns' = [conns EXCEPT ![t.on].in = SubSeq(@, n + 1, Len(@))]
    /\ RecvAgain(t)
    /\ UNCHANGED <<alive, dbVars, fds, cli, said, quits>>

\* as if a cs_daemon closed the descriptor and left it in the pool
ReadOnCloses(t) ==
    /\ alive
    /\ t.room # 0
    /\ conns[t.on].in = <<>>
    /\ ~conns[t.on].up
    /\ conns[t.on].err # "unread"
    /\ fds' = [fds EXCEPT ![t.fd] = 0]
    /\ threads' = threads \ {t}
    /\ UNCHANGED <<alive, dbVars, rooms, conns, cli, said, quits>>

\* the connection has ended and recv is called for what the descriptor is now
ReadOn(t) ==
    /\ alive
    /\ conns[t.on].in = <<>>
    /\ ~conns[t.on].up
    /\ conns[t.on].err # "unread"
    /\ fds[t.fd] # t.on
    /\ RecvAgain(t)
    /\ UNCHANGED <<alive, dbVars, rooms, conns, fds, cli, said, quits>>

\* The client left something unread: its end is an error, which whoever uses the
\* connection next gets, once.  A cs_daemon that gets it ends.
ReadFails(t) ==
    /\ alive
    /\ conns[t.on].in = <<>>
    /\ conns[t.on].err = "unread"
    /\ conns' = [conns EXCEPT ![t.on].err = "pipe"]
    /\ threads' = threads \ {t}
    /\ UNCHANGED <<alive, dbVars, rooms, fds, cli, said, quits>>

\* as if dequeue_msg did not pop
dequeue_msg_kept(r) == rooms[r].queue

\* what dequeue_msg leaves of the queue
dequeue_msg(r) == Tail(rooms[r].queue)

\* send to the descriptor f fails
SendFails(f) == fds[f] = 0 \/ conns[fds[f]].err # "none"

\* bs_daemon sends the next message to all descriptors of the pool but the
\* sender's, until one fails: a closed one and an error end the thread, a
\* connection that was sent to after its client had closed it the process.
Broadcast(r) ==
    LET pool == rooms[r].pool
        next == Head(rooms[r].queue)
        others == {i \in DOMAIN pool : pool[i] # next.fd}
        failing == {i \in others : SendFails(pool[i])}
        sent == {fds[pool[i]] : i \in {j \in others : \A i \in failing : j < i}}
        hit == IF failing = {} THEN 0 ELSE fds[pool[Min(failing)]]
    IN
    /\ alive
    /\ rooms[r].bs = "waiting"
    /\ rooms[r].queue # <<>>
    /\ alive' = (hit = 0 \/ conns[hit].err # "pipe")
    /\ conns' = [k \in DOMAIN conns |->
                   IF k \in sent
                   THEN [conns[k] EXCEPT !.out = Append(@, next.msg),
                                         !.err = IF conns[k].up THEN @ ELSE "pipe"]
                   ELSE IF k = hit THEN [conns[k] EXCEPT !.err = "pipe"] ELSE conns[k]]
    /\ rooms' = [rooms EXCEPT ![r].queue = dequeue_msg(r),
                              ![r].bs = IF failing # {} THEN "ended"
                                        ELSE IF next.msg = Goodbye THEN "closing" ELSE @]
    /\ UNCHANGED <<dbVars, fds, threads, cli, said, quits>>

\* as if the farewell did not end the thread
CloseAllOn(r) ==
    /\ alive
    /\ rooms[r].bs = "closing"
    /\ fds' = [f \in DOMAIN fds |-> IF f \in ToSet(rooms[r].pool) THEN 0 ELSE fds[f]]
    /\ rooms' = [rooms EXCEPT ![r].bs = "waiting"]
    /\ UNCHANGED <<alive, dbVars, conns, threads, cli, said, quits>>

\* after the farewell it closes all descriptors of the pool and ends
CloseAll(r) ==
    /\ alive
    /\ rooms[r].bs = "closing"
    /\ fds' = [f \in DOMAIN fds |-> IF f \in ToSet(rooms[r].pool) THEN 0 ELSE fds[f]]
    /\ rooms' = [rooms EXCEPT ![r].bs = "ended"]
    /\ UNCHANGED <<alive, dbVars, conns, threads, cli, said, quits>>

\* deletion_awaiter says farewell, waits a second,
Farewell(r) ==
    /\ alive
    /\ rooms[r].awaiter = "watching"
    /\ rooms[r].terminated
    /\ rooms' = [rooms EXCEPT ![r].queue = Append(@, [msg |-> Goodbye, fd |-> -1]),
                              ![r].awaiter = "sleeping"]
    /\ UNCHANGED <<alive, dbVars, conns, fds, threads, cli, said, quits>>

\* cancels the threads of the members,
Cancel(r) ==
    /\ alive
    /\ rooms[r].awaiter = "sleeping"
    /\ threads' = {t \in threads : t.room # r}
    /\ rooms' = [rooms EXCEPT ![r].awaiter = "joining"]
    /\ UNCHANGED <<alive, dbVars, conns, fds, cli, said, quits>>

\* joins the bs_daemon and cancels the chat_server
EndRoom(r) ==
    /\ alive
    /\ rooms[r].awaiter = "joining"
    /\ rooms[r].bs = "ended"
    /\ rooms' = [rooms EXCEPT ![r].awaiter = "ended", ![r].chat = "ended"]
    /\ UNCHANGED <<alive, dbVars, conns, fds, threads, cli, said, quits>>

\* a client that recognises the farewell closes and starts anew
Leave(c) ==
    LET k == cli[c].conn IN
    /\ alive
    /\ cli[c].state = "chat"
    /\ Goodbye \in ToSet(conns[k].out)
    /\ conns' = [conns EXCEPT ![k].up = FALSE]
    /\ Become(c, "home", 0, 0)
    /\ UNCHANGED <<alive, dbVars, rooms, fds, threads, said, quits>>

\* a member leaves the only way there is, by an interrupt, and starts anew; it may
\* have left unread some of what it was sent
Quit(c) ==
    LET k == cli[c].conn IN
    /\ alive
    /\ cli[c].state = "chat"
    /\ quits < MaxQuits
    /\ quits' = quits + 1
    /\ \E err \in IF conns[k].out = <<>> THEN {"none"} ELSE {"none", "unread"} :
         conns' = [conns EXCEPT ![k].up = FALSE, ![k].err = err]
    /\ Become(c, "home", 0, 0)
    /\ UNCHANGED <<alive, dbVars, rooms, fds, threads, said>>

-----------------------------------------------------------------------------

chat_server(r) == Listen(r) \/ Accept(r)

bs_daemon(r) == Broadcast(r) \/ CloseAll(r)

deletion_awaiter(r) == Farewell(r) \/ Cancel(r) \/ EndRoom(r)

Next ==
    \/ \E c \in Clients :
         Connect(c) \/ Command(c) \/ Enter(c) \/ Say(c) \/ Leave(c) \/ Quit(c)
    \/ \E t \in threads :
         Create(t) \/ Join(t) \/ Delete(t) \/ Read(t) \/ ReadOn(t) \/ ReadFails(t)
    \/ Removed
    \/ \E r \in DOMAIN rooms :
         chat_server(r) \/ deletion_awaiter(r) \/ bs_daemon(r)

Spec == Init /\ [][Next]_vars

\* A room's own threads and the thread that deletes it run; what clients do and
\* when is up to them.
Fairness ==
    /\ WF_vars(Removed)
    /\ \A r \in 1..MaxRooms :
         /\ WF_vars(r \in DOMAIN rooms /\ chat_server(r))
         /\ WF_vars(r \in DOMAIN rooms /\ deletion_awaiter(r))
         /\ WF_vars(r \in DOMAIN rooms /\ bs_daemon(r))

FairSpec == Spec /\ Fairness

-----------------------------------------------------------------------------

\* The shape of table, rooms, connections and threads: a descriptor stands for one
\* connection, and every entry but the first for a room.
ChatTypeOK ==
    /\ alive \in BOOLEAN
    /\ chatDB # <<>> /\ chatDB[1] = Base
    /\ \A i \in 2..Len(chatDB) : chatDB[i].name \in Names /\ chatDB[i].room \in DOMAIN rooms
    /\ lastport \in -(MaxShort + 1)..MaxShort
    /\ DBlock \in 0..Len(conns)
    /\ \A f, g \in DOMAIN fds : fds[f] = fds[g] /\ fds[f] # 0 => f = g
    /\ \A t \in threads : t.room \in 0..Len(rooms) /\ t.on \in DOMAIN conns
    /\ \A c \in Clients : cli[c].conn \in 0..Len(conns)
    /\ \A k \in DOMAIN conns : conns[k].to \in 0..Len(rooms)

\* Nobody who joins a room by its name is sent to another: names and ports of the
\* table are told apart, the base port among them.
OwnPorts ==
    \A i, j \in DOMAIN chatDB :
        i # j => chatDB[i].name # chatDB[j].name /\ chatDB[i].port # chatDB[j].port

\* What a member hears was said in its own room by somebody else, although
\* descriptors pass from room to room.
RoomIsolated ==
    \A k \in DOMAIN conns : \A m \in ToSet(conns[k].out) \ {Goodbye} :
        m.by # k /\ conns[m.by].to = conns[k].to

\* A member hears a message once, those of one sender in their order, and nothing
\* after the farewell.
HeardInOrder ==
    \A k \in DOMAIN conns :
        LET out == conns[k].out IN
        \A i, j \in DOMAIN out :
            i < j => /\ out[i] # Goodbye
                     /\ out[i].by = out[j].by => out[i].n < out[j].n

\* A DELETE gives the lock back, unless the process dies: the room's threads end
\* one after the other.
DeleteEnds == DBlock # 0 ~> DBlock = 0 \/ ~alive

\* A client that leaves takes nobody with it.
LeavingIsHarmless == alive
=============================================================================
