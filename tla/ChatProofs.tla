----------------------------- MODULE ChatProofs -----------------------------
(***************************************************************************)
(* The chat rooms of MP1, for every number of clients, rooms, connections  *)
(* and messages: the table of rooms tells its ports apart as long as they  *)
(* do not leave the range of a short, everything keeps its shape, and      *)
(* nobody hears what was said in another room.                             *)
(***************************************************************************)
EXTENDS ChatRoom, SequenceTheorems, FiniteSetTheorems, WellFoundedInduction, TLAPS

IsSeq(s) == \E S : s \in Seq(S)

\* The table begins with the base port and tells names and ports apart.
Table ==
    /\ IsSeq(chatDB)
    /\ Len(chatDB) >= 1
    /\ chatDB[1] = Base
    /\ \A i \in 2..Len(chatDB) : chatDB[i].port \in Int
    /\ OwnPorts

\* While there is a port for another room it is above those of the table, and only
\* the base port was ever skipped.
NextPort ==
    Len(rooms) < MaxRooms =>
        /\ lastport \in Int
        /\ lastport =< FirstPort + Len(rooms) + (IF lastport > BasePort THEN 1 ELSE 0)
        /\ \A i \in 2..Len(chatDB) : chatDB[i].port < lastport

PortInv == IsSeq(rooms) /\ Table /\ NextPort

-----------------------------------------------------------------------------
(* Sequences *)

\* A function on an interval that begins with 1 is a sequence.
LEMMA SeqOfFunction ==
    ASSUME NEW n \in Nat, NEW s, s = [j \in 1..n |-> s[j]]
    PROVE  IsSeq(s) /\ Len(s) = n
<1> DEFINE S == {s[j] : j \in 1..n}
<1>1. \A j \in 1..n : s[j] \in S
  OBVIOUS
<1>2. s \in [1..n -> S]
  <2> HIDE DEF S
  <2> QED
    BY <1>1
<1> HIDE DEF S
<1>3. s \in Seq(S)
  BY <1>2
<1>4. Len(s) = n
  BY <1>2, <1>3
<1> QED
  BY <1>3, <1>4 DEF IsSeq

\* Changing members leaves the length alone.
LEMMA SameLength ==
    ASSUME NEW s, IsSeq(s), NEW t, t = [j \in DOMAIN s |-> t[j]]
    PROVE  IsSeq(t) /\ Len(t) = Len(s)
<1>1. Len(s) \in Nat /\ DOMAIN s = 1..Len(s)
  BY DEF IsSeq
<1> QED
  BY <1>1, SeqOfFunction

\* What Append makes.
LEMMA AppendSeq ==
    ASSUME NEW s, IsSeq(s), NEW x
    PROVE  /\ IsSeq(Append(s, x))
           /\ Len(s) \in Nat
           /\ Len(Append(s, x)) = Len(s) + 1
           /\ \A i \in 1..Len(s) : Append(s, x)[i] = s[i]
           /\ Append(s, x)[Len(s) + 1] = x
<1> PICK S : s \in Seq(S)
  BY DEF IsSeq
<1> DEFINE T == S \cup {x}
<1>1. s \in Seq(T)
  <2>1. \A i \in 1..Len(s) : s[i] \in T
    OBVIOUS
  <2>2. s \in [1..Len(s) -> T]
    <3> s \in [1..Len(s) -> S] /\ S \subseteq T
      OBVIOUS
    <3> QED
      BY <2>1
  <2> HIDE DEF T
  <2> QED
    BY <2>2
<1>2. x \in T
  OBVIOUS
<1> HIDE DEF T
<1>3. Append(s, x) \in Seq(T)
  BY <1>1, <1>2
<1> QED
  BY <1>1, <1>2, <1>3 DEF IsSeq

\* What RemoveAt makes: the members before and after the one that went.
LEMMA RemoveAtSeq ==
    ASSUME NEW s, IsSeq(s), NEW k \in 1..Len(s)
    PROVE  /\ IsSeq(RemoveAt(s, k))
           /\ Len(s) \in Nat
           /\ Len(RemoveAt(s, k)) = Len(s) - 1
           /\ \A i \in 1..(k - 1) : RemoveAt(s, k)[i] = s[i]
           /\ \A i \in k..(Len(s) - 1) : RemoveAt(s, k)[i] = s[i + 1]
<1> PICK S : s \in Seq(S)
  BY DEF IsSeq
<1> DEFINE a == SubSeq(s, 1, k - 1)
           b == SubSeq(s, k + 1, Len(s))
<1>1. /\ a \in Seq(S)
      /\ Len(a) = k - 1
      /\ \A i \in 1..(k - 1) : a[i] = s[i]
  OBVIOUS
<1>2. /\ b \in Seq(S)
      /\ Len(b) = Len(s) - k
      /\ \A i \in 1..(Len(s) - k) : b[i] = s[k + i]
  OBVIOUS
<1>3. RemoveAt(s, k) = a \o b
  BY DEF RemoveAt
<1> HIDE DEF a, b
<1>4. a \o b \in Seq(S)
  BY <1>1, <1>2
<1>5. Len(a \o b) = Len(s) - 1
  BY <1>1, <1>2
<1>6. ASSUME NEW i \in 1..(k - 1)
      PROVE  (a \o b)[i] = s[i]
  BY <1>1, <1>2, <1>6
<1>7. ASSUME NEW i \in k..(Len(s) - 1)
      PROVE  (a \o b)[i] = s[i + 1]
  <2>1. (a \o b)[i] = b[i - (k - 1)]
    BY <1>1, <1>2, <1>7
  <2>2. i - (k - 1) \in 1..(Len(s) - k) /\ k + (i - (k - 1)) = i + 1
    OBVIOUS
  <2> QED
    BY <1>2, <2>1, <2>2
<1> QED
  BY <1>3, <1>4, <1>5, <1>6, <1>7 DEF IsSeq

-----------------------------------------------------------------------------
(* The steps *)

\* Before the first room the table has the base port only.
LEMMA PortInit == Init => PortInv
<1> SUFFICES ASSUME Init PROVE PortInv
  OBVIOUS
<1>1. IsSeq(rooms) /\ Len(rooms) = 0
  BY DEF Init, IsSeq
<1>2. chatDB \in Seq({Base}) /\ Len(chatDB) = 1 /\ chatDB[1] = Base
  BY DEF Init
<1>3. DOMAIN chatDB = {1}
  BY <1>2
<1>4. IsSeq(chatDB)
  BY <1>2 DEF IsSeq
<1>5. Table
  BY <1>2, <1>3, <1>4 DEF Table, OwnPorts
<1>6. NextPort
  BY <1>1, <1>2, PortAssumption DEF NextPort, Init
<1> QED
  BY <1>1, <1>5, <1>6 DEF PortInv

\* Most steps change neither the table nor the number of rooms.
LEMMA PortKept ==
    ASSUME PortInv, UNCHANGED <<chatDB, lastport>>,
           IsSeq(rooms'), Len(rooms') = Len(rooms)
    PROVE  PortInv'
BY DEF PortInv, Table, NextPort, OwnPorts

\* A new room has a name and a port that the table does not have.
LEMMA PortCreate ==
    ASSUME PortInv, NEW t \in threads, Create(t),
           FirstPort + MaxRooms =< MaxShort
    PROVE  PortInv'
<1> DEFINE name == conns[t.on].in[1].name
           skip == \E i \in DOMAIN chatDB : chatDB[i].port = lastport
           port == IF skip THEN Wrap(lastport + 1) ELSE lastport
           n    == Len(chatDB)
           room == [port |-> port, terminated |-> FALSE, chat |-> "starting",
                    bs |-> "none", awaiter |-> "none", queue |-> <<>>, pool |-> <<>>]
           e    == [name |-> name, port |-> port, room |-> Len(rooms) + 1]
<1>1. CASE Entry(name) # {}
  BY <1>1, PortKept DEF Create, PortInv
<1>2. CASE Entry(name) = {}
  <2>1. /\ Len(rooms) < MaxRooms
        /\ rooms' = Append(rooms, room)
        /\ chatDB' = Append(chatDB, e)
        /\ lastport' = Wrap(port + 1)
    BY <1>2 DEF Create
  <2>2. IsSeq(rooms') /\ Len(rooms) \in Nat /\ Len(rooms') = Len(rooms) + 1
    BY <2>1, AppendSeq DEF PortInv
  <2>3. /\ IsSeq(chatDB') /\ n \in Nat /\ Len(chatDB') = n + 1
        /\ \A i \in 1..n : chatDB'[i] = chatDB[i]
        /\ chatDB'[n + 1] = e
    BY <2>1, AppendSeq DEF PortInv, Table
  <2>4. n >= 1 /\ chatDB[1].port = BasePort /\ DOMAIN chatDB = 1..n
    <3>1. n >= 1 /\ chatDB[1] = Base /\ IsSeq(chatDB)
      BY DEF PortInv, Table
    <3>2. PICK S : chatDB \in Seq(S)
      BY <3>1 DEF IsSeq
    <3>3. chatDB[1].port = BasePort
      <4>1. Base.port = BasePort
        BY DEF Base
      <4> QED
        BY <3>1, <4>1
    <3>4. DOMAIN chatDB = 1..Len(chatDB)
      BY <3>2
    <3> QED
      BY <3>1, <3>3, <3>4
  <2>5. \A i \in 1..n : chatDB[i].name # name
    BY <1>2, <2>4 DEF Entry
  <2>6. /\ lastport \in Int
        /\ lastport =< FirstPort + Len(rooms) + (IF lastport > BasePort THEN 1 ELSE 0)
        /\ \A i \in 2..n : chatDB[i].port < lastport /\ chatDB[i].port \in Int
    BY <2>1 DEF PortInv, NextPort, Table
  <2> HIDE DEF name, n
  <2>7. skip <=> lastport = BasePort
    <3>1. \A i \in 2..n : chatDB[i].port # lastport
      BY <2>6
    <3>2. 1 \in DOMAIN chatDB /\ \A i \in DOMAIN chatDB : i = 1 \/ i \in 2..n
      BY <2>3, <2>4
    <3> QED
      BY <2>4, <3>1, <3>2
  <2>8. port = IF lastport = BasePort THEN lastport + 1 ELSE lastport
    <3>1. CASE lastport = BasePort
      <4>1. lastport + 1 =< MaxShort
        BY <2>1, <2>2, <2>6, <3>1, PortAssumption, BoundsAssumption
      <4> QED
        BY <2>7, <3>1, <4>1, <2>6, PortAssumption DEF Wrap
    <3>2. CASE lastport # BasePort
      BY <2>7, <3>2
    <3> QED
      BY <3>1, <3>2
  <2> HIDE DEF skip, port
  <2>9. port \in Int /\ port >= lastport /\ port # BasePort
    BY <2>6, <2>8, PortAssumption
  <2>10. \A i \in 1..n : chatDB[i].port # port
    <3> SUFFICES ASSUME NEW i \in 1..n PROVE chatDB[i].port # port
      OBVIOUS
    <3>1. CASE i = 1
      BY <2>4, <2>9, <3>1
    <3>2. CASE i \in 2..n
      BY <2>6, <2>9, <3>2
    <3> QED
      BY <3>1, <3>2, <2>3
  <2>11. e.name = name /\ e.port = port
    OBVIOUS
  <2> HIDE DEF e
  <2>12. OwnPorts'
    <3>1. DOMAIN chatDB' = 1..(n + 1)
      BY <2>3 DEF IsSeq
    <3> SUFFICES ASSUME NEW i \in 1..(n + 1), NEW j \in 1..(n + 1), i # j
                 PROVE  /\ chatDB'[i].name # chatDB'[j].name
                        /\ chatDB'[i].port # chatDB'[j].port
      BY <3>1 DEF OwnPorts
    <3>2. CASE i \in 1..n /\ j \in 1..n
      BY <2>3, <2>4, <3>2 DEF PortInv, Table, OwnPorts
    <3>3. CASE i = n + 1
      <4>1. j \in 1..n
        BY <2>3, <3>3
      <4> QED
        BY <2>3, <2>5, <2>10, <2>11, <3>3, <4>1
    <3>4. CASE j = n + 1
      <4>1. i \in 1..n
        BY <2>3, <3>4
      <4> QED
        BY <2>3, <2>5, <2>10, <2>11, <3>4, <4>1
    <3> QED
      BY <2>3, <3>2, <3>3, <3>4
  <2>13. \A i \in 2..Len(chatDB') : chatDB'[i].port \in Int /\ chatDB'[i].port =< port
    <3> SUFFICES ASSUME NEW i \in 2..(n + 1)
                 PROVE  chatDB'[i].port \in Int /\ chatDB'[i].port =< port
      BY <2>3
    <3>1. CASE i \in 2..n
      <4>1. chatDB'[i] = chatDB[i]
        BY <2>3, <3>1
      <4> QED
        BY <2>6, <2>9, <3>1, <4>1
    <3>2. CASE i = n + 1
      BY <2>3, <2>9, <2>11, <3>2
    <3> QED
      BY <2>3, <3>1, <3>2
  <2>14. Table'
    <3>1. chatDB'[1] = Base
      BY <2>3, <2>4 DEF PortInv, Table
    <3> QED
      BY <2>3, <2>12, <2>13, <3>1 DEF Table
  <2>15. NextPort'
    <3> SUFFICES ASSUME Len(rooms) + 1 < MaxRooms
                 PROVE  /\ lastport' \in Int
                        /\ lastport' =< FirstPort + (Len(rooms) + 1)
                                          + (IF lastport' > BasePort THEN 1 ELSE 0)
                        /\ \A i \in 2..Len(chatDB') : chatDB'[i].port < lastport'
      BY <2>2 DEF NextPort
    <3>1. port + 1 =< MaxShort
      BY <2>2, <2>6, <2>8, PortAssumption, BoundsAssumption
    <3>2. lastport' = port + 1
      BY <2>1, <2>9, <3>1, PortAssumption DEF Wrap
    <3>3. lastport' =< FirstPort + (Len(rooms) + 1)
                         + (IF lastport' > BasePort THEN 1 ELSE 0)
      BY <2>2, <2>6, <2>8, <3>2, PortAssumption
    <3> QED
      BY <2>9, <2>13, <3>2, <3>3
  <2> QED
    BY <2>2, <2>14, <2>15 DEF PortInv
<1> QED
  BY <1>1, <1>2

\* The entry that goes is not the base port's.
LEMMA PortRemoved ==
    ASSUME PortInv, Removed
    PROVE  PortInv'
<1> DEFINE n == Len(chatDB)
<1>1. PICK k \in DOMAIN chatDB \ {1} : chatDB' = RemoveAt(chatDB, k)
  BY DEF Removed
<1>2. n \in Nat /\ DOMAIN chatDB = 1..n
  BY DEF PortInv, Table, IsSeq
<1>3. k \in 2..n
  BY <1>1, <1>2
<1>4. /\ IsSeq(chatDB')
      /\ Len(chatDB') = n - 1
      /\ \A i \in 1..(k - 1) : chatDB'[i] = chatDB[i]
      /\ \A i \in k..(n - 1) : chatDB'[i] = chatDB[i + 1]
  BY <1>1, <1>2, <1>3, RemoveAtSeq DEF PortInv, Table
<1>5. DOMAIN chatDB' = 1..(n - 1)
  BY <1>4 DEF IsSeq
<1> DEFINE was(i) == IF i < k THEN i ELSE i + 1
<1>6. \A i \in 1..(n - 1) : was(i) \in 1..n /\ chatDB'[i] = chatDB[was(i)]
  BY <1>2, <1>3, <1>4
<1>7. \A i, j \in 1..(n - 1) : i # j => was(i) # was(j)
  BY <1>2, <1>3
<1>8. \A i \in 2..(n - 1) : was(i) \in 2..n
  BY <1>2, <1>3
<1>9. chatDB'[1] = Base
  BY <1>3, <1>4 DEF PortInv, Table
<1> HIDE DEF was, n
<1>10. OwnPorts'
  BY <1>2, <1>5, <1>6, <1>7 DEF PortInv, Table, OwnPorts
<1>11. \A i \in 2..(n - 1) : chatDB'[i].port = chatDB[was(i)].port /\ was(i) \in 2..n
  BY <1>2, <1>6, <1>8
<1>12. Table'
  BY <1>2, <1>3, <1>4, <1>9, <1>10, <1>11 DEF PortInv, Table, n
<1>13. NextPort'
  BY <1>4, <1>11 DEF PortInv, NextPort, Removed, n
<1> QED
  BY <1>12, <1>13 DEF PortInv, Removed

\* Whatever step is taken: only CREATE and a removal disturb the table.
LEMMA PortStep ==
    ASSUME PortInv, [Next]_vars, FirstPort + MaxRooms =< MaxShort
    PROVE  PortInv'
<1> DEFINE Same == UNCHANGED <<chatDB, lastport>> /\ IsSeq(rooms') /\ Len(rooms') = Len(rooms)
<1>0. IsSeq(rooms)
  BY DEF PortInv
<1>1. ASSUME NEW c \in Clients, Connect(c) \/ Command(c) PROVE Same
  BY <1>0, <1>1 DEF Connect, Command, dbVars
<1>2. ASSUME NEW c \in Clients, Enter(c) PROVE Same
  BY <1>0, <1>2 DEF Enter, dbVars
<1>3. ASSUME NEW c \in Clients, Say(c) PROVE Same
  BY <1>0, <1>3 DEF Say, dbVars
<1>4. ASSUME NEW c \in Clients, Leave(c) PROVE Same
  BY <1>0, <1>4 DEF Leave, dbVars
<1>5. ASSUME NEW c \in Clients, Quit(c) PROVE Same
  BY <1>0, <1>5 DEF Quit, dbVars
<1>6. ASSUME NEW t \in threads, Join(t) PROVE Same
  BY <1>0, <1>6 DEF Join, dbVars
<1>7. ASSUME NEW t \in threads, Delete(t) PROVE Same
  <2>1. CASE rooms' = rooms
    BY <1>0, <1>7, <2>1 DEF Delete
  <2>2. CASE rooms' # rooms
    <3>1. rooms' = [j \in DOMAIN rooms |-> rooms'[j]]
      BY <1>7, <2>2 DEF Delete
    <3> QED
      BY <1>0, <1>7, <3>1, SameLength DEF Delete
  <2> QED
    BY <2>1, <2>2
<1>8. ASSUME NEW t \in threads, Read(t) PROVE Same
  <2>1. rooms' = [j \in DOMAIN rooms |-> rooms'[j]]
    BY <1>8 DEF Read
  <2> QED
    BY <1>0, <1>8, <2>1, SameLength DEF Read, dbVars
<1>9. ASSUME NEW t \in threads, ReadOn(t) \/ ReadFails(t) PROVE Same
  BY <1>0, <1>9 DEF ReadOn, ReadFails, dbVars
<1>10. ASSUME NEW r \in DOMAIN rooms, Listen(r) PROVE Same
  <2>1. rooms' = [j \in DOMAIN rooms |-> rooms'[j]]
    BY <1>10 DEF Listen
  <2> QED
    BY <1>0, <1>10, <2>1, SameLength DEF Listen, dbVars
<1>11. ASSUME NEW r \in DOMAIN rooms, Accept(r) PROVE Same
  <2>1. rooms' = [j \in DOMAIN rooms |-> rooms'[j]]
    BY <1>11 DEF Accept
  <2> QED
    BY <1>0, <1>11, <2>1, SameLength DEF Accept, dbVars
<1>12. ASSUME NEW r \in DOMAIN rooms, Farewell(r) PROVE Same
  <2>1. rooms' = [j \in DOMAIN rooms |-> rooms'[j]]
    BY <1>12 DEF Farewell
  <2> QED
    BY <1>0, <1>12, <2>1, SameLength DEF Farewell, dbVars
<1>13. ASSUME NEW r \in DOMAIN rooms, Cancel(r) PROVE Same
  <2>1. rooms' = [j \in DOMAIN rooms |-> rooms'[j]]
    BY <1>13 DEF Cancel
  <2> QED
    BY <1>0, <1>13, <2>1, SameLength DEF Cancel, dbVars
<1>14. ASSUME NEW r \in DOMAIN rooms, EndRoom(r) PROVE Same
  <2>1. rooms' = [j \in DOMAIN rooms |-> rooms'[j]]
    BY <1>14 DEF EndRoom
  <2> QED
    BY <1>0, <1>14, <2>1, SameLength DEF EndRoom, dbVars
<1>15. ASSUME NEW r \in DOMAIN rooms, Broadcast(r) \/ CloseAll(r) PROVE Same
  <2>1. rooms' = [j \in DOMAIN rooms |-> rooms'[j]]
    BY <1>15 DEF Broadcast, CloseAll
  <2> QED
    BY <1>0, <1>15, <2>1, SameLength DEF Broadcast, CloseAll, dbVars
<1>16. ASSUME UNCHANGED vars PROVE Same
  BY <1>0, <1>16 DEF vars, dbVars
<1>17. Same => PortInv'
  BY PortKept
<1> HIDE DEF Same
<1> QED
  BY <1>1, <1>2, <1>3, <1>4, <1>5, <1>6, <1>7, <1>8, <1>9, <1>10, <1>11, <1>12,
     <1>13, <1>14, <1>15, <1>16, <1>17, PortCreate, PortRemoved
  DEF Next, chat_server, bs_daemon, deletion_awaiter

\* As long as the ports fit a short, nobody who joins a room by its name is sent to
\* another: the base port is skipped, and a port that was given to a room is never
\* given again.
THEOREM ChatOwnPorts ==
    ASSUME FirstPort + MaxRooms =< MaxShort
    PROVE  Spec => []OwnPorts
<1>1. PortInv => OwnPorts
  BY DEF PortInv, Table
<1>2. PortInv /\ [Next]_vars => PortInv'
  BY PortStep
<1> QED
  BY <1>1, <1>2, PortInit, PTL DEF Spec

-----------------------------------------------------------------------------
(* Who hears whom *)

Commands == [cmd : {"CREATE", "DELETE", "JOIN"}, name : Names]
Messages == [by : Nat, n : Nat]
Texts    == Commands \cup Messages

Connections ==
    [by : Clients, to : Nat, fd : Nat, up : BOOLEAN, err : {"none", "unread", "pipe"},
     in : Seq(Texts), out : Seq(Texts)]

Items == [msg : Texts, fd : Int]

\* A room that has not started has nobody who sends.
ChatRooms ==
    {x \in [port : Int, terminated : BOOLEAN,
            chat : {"starting", "listening", "ended"},
            bs : {"none", "waiting", "closing", "ended"},
            awaiter : {"none", "watching", "sleeping", "joining", "ended"},
            queue : Seq(Items), pool : Seq(1..MaxConns)] :
        x.chat = "starting" => x.bs = "none"}

Threads == [room : 0..Len(rooms), fd : 1..MaxConns, on : 1..Len(conns)]

Members ==
    [state : {"home", "prompt", "asked", "joining", "chat"}, conn : 0..Len(conns), port : Int]

\* Connections, descriptors, rooms, threads and clients have their shapes.
Shapes ==
    /\ conns \in Seq(Connections)
    /\ Len(conns) =< MaxConns
    /\ rooms \in Seq(ChatRooms)
    /\ fds \in [1..MaxConns -> Nat]
    /\ threads \subseteq Threads
    /\ cli \in [Clients -> Members]
    /\ said \in Nat

\* The descriptor f stands for a connection that has it.
Descriptors ==
    \A f \in 1..MaxConns : fds[f] # 0 => fds[f] \in 1..Len(conns) /\ conns[fds[f]].fd = f

\* The thread t is of a room that still sends, or of commands.
Working(t) == t.room # 0 => rooms[t.room].bs # "ended"

\* A working thread reads from what its descriptor stands for.
Attached ==
    \A t \in threads : Working(t) => fds[t.fd] = t.on /\ conns[t.on].to = t.room

\* The room's sending thread would send to members of the room only.
Pools ==
    \A r \in 1..Len(rooms) : rooms[r].bs # "ended" =>
        \A i \in DOMAIN rooms[r].pool :
            /\ fds[rooms[r].pool[i]] # 0
            /\ conns[fds[rooms[r].pool[i]]].to = r

\* A message in a queue of a room is the farewell or was said by a member.
SaidIn(r, q) ==
    \/ q.msg = Goodbye
    \/ /\ q.msg.by \in 1..Len(conns)
       /\ conns[q.msg.by].to = r
       /\ conns[q.msg.by].fd = q.fd
       /\ q.fd # 0

Queues ==
    \A r \in 1..Len(rooms) : rooms[r].bs # "ended" =>
        \A i \in DOMAIN rooms[r].queue : SaidIn(r, rooms[r].queue[i])

\* Commands arrive on the base port, what the client says on that of a room.
Inboxes ==
    \A k \in 1..Len(conns) :
        /\ conns[k].to =< Len(rooms)
        /\ \A i \in DOMAIN conns[k].in :
             IF conns[k].to = 0 THEN conns[k].in[i] \in Commands
             ELSE conns[k].in[i] \in Messages /\ conns[k].in[i].by = k

\* What k hears.
Heard(k, m) ==
    \/ m = Goodbye
    \/ m.by \in 1..Len(conns) /\ m.by # k /\ conns[m.by].to = conns[k].to

Outboxes == \A k \in 1..Len(conns) : \A i \in DOMAIN conns[k].out : Heard(k, conns[k].out[i])

\* Who chats is connected to a room, who enters a command to the base port.
Chatting ==
    \A c \in Clients : cli[c].state \in {"chat", "prompt"} =>
        /\ cli[c].conn \in 1..Len(conns)
        /\ conns[cli[c].conn].to = 0 <=> cli[c].state = "prompt"

\* The table has rooms that exist, under names and with ports.
TableTyped ==
    /\ alive \in BOOLEAN
    /\ IsSeq(chatDB)
    /\ Len(chatDB) >= 1
    /\ chatDB[1] = Base
    /\ \A i \in 2..Len(chatDB) : /\ chatDB[i].name \in Names
                                /\ chatDB[i].port \in Int
                                /\ chatDB[i].room \in 1..Len(rooms)
    /\ lastport \in -(MaxShort + 1)..MaxShort
    /\ DBlock \in 0..Len(conns)

RoomInv ==
    /\ Shapes /\ Descriptors /\ Attached /\ Pools /\ Queues
    /\ Inboxes /\ Outboxes /\ Chatting

ChatInv == RoomInv /\ TableTyped

-----------------------------------------------------------------------------
(* What most steps keep *)

\* A function on the domain of a sequence with its members in a set.
LEMMA SameTyped ==
    ASSUME NEW S, NEW s \in Seq(S), NEW t, t = [j \in DOMAIN s |-> t[j]],
           \A j \in 1..Len(s) : t[j] \in S
    PROVE  t \in Seq(S) /\ Len(t) = Len(s)
<1>1. Len(s) \in Nat /\ DOMAIN s = 1..Len(s)
  OBVIOUS
<1>2. t \in [1..Len(s) -> S]
  BY <1>1
<1> QED
  BY <1>1, <1>2

\* A sequence over a set has its members in it.
LEMMA SeqMember ==
    ASSUME NEW S, NEW s \in Seq(S), NEW i \in DOMAIN s
    PROVE  s[i] \in S
OBVIOUS

\* What is appended to a sequence is its last member.
LEMMA AppendTyped ==
    ASSUME NEW S, NEW s \in Seq(S), NEW x \in S
    PROVE  /\ Append(s, x) \in Seq(S)
           /\ Len(s) \in Nat
           /\ Len(Append(s, x)) = Len(s) + 1
           /\ \A i \in 1..Len(s) : Append(s, x)[i] = s[i]
           /\ Append(s, x)[Len(s) + 1] = x
OBVIOUS

\* Ends of connections stay, and who has a descriptor keeps it.
EndsKept ==
    /\ conns' \in Seq(Connections)
    /\ Len(conns) =< Len(conns') /\ Len(conns') =< MaxConns
    /\ \A k \in 1..Len(conns) :
         /\ conns'[k].to = conns[k].to
         /\ conns[k].fd # 0 => conns'[k].fd = conns[k].fd

\* Sending threads that have ended stay so.
BsKept ==
    /\ rooms' \in Seq(ChatRooms)
    /\ Len(rooms) =< Len(rooms')
    /\ \A r \in 1..Len(rooms) : rooms'[r].bs # "ended" => rooms[r].bs # "ended"

\* The pools of the others stay, and so do their queues; a new room has nothing.
PoolsKept ==
    \A r \in 1..Len(rooms') : rooms'[r].bs # "ended" =>
        rooms'[r].pool = IF r =< Len(rooms) THEN rooms[r].pool ELSE <<>>

QueuesKept ==
    \A r \in 1..Len(rooms') : rooms'[r].bs # "ended" =>
        rooms'[r].queue = IF r =< Len(rooms) THEN rooms[r].queue ELSE <<>>

RoomsKept == BsKept /\ PoolsKept /\ QueuesKept

\* Descriptors may be closed,
FdsClosed ==
    /\ fds' \in [1..MaxConns -> Nat]
    /\ \A f \in 1..MaxConns : fds'[f] \in {0, fds[f]}

\* those of commands, whose thread has ended.
FdsKept ==
    /\ fds' \in [1..MaxConns -> Nat]
    /\ \A f \in 1..MaxConns : fds'[f] # fds[f] =>
         /\ fds'[f] = 0
         /\ conns[fds[f]].to = 0
         /\ \A t \in threads' : t.room = 0 => t.fd # f

InsKept ==
    /\ Len(conns') = Len(conns)
    /\ \A k \in 1..Len(conns) : \A i \in DOMAIN conns'[k].in :
         \E j \in DOMAIN conns[k].in : conns'[k].in[i] = conns[k].in[j]

OutsKept ==
    /\ Len(conns') = Len(conns)
    /\ \A k \in 1..Len(conns) : conns'[k].out = conns[k].out

ChattersKept ==
    /\ cli' \in [Clients -> Members']
    /\ \A c \in Clients : cli'[c].state \in {"chat", "prompt"} => cli'[c] = cli[c]

\* Where connections and rooms are numbered.
LEMMA LenTypes ==
    ASSUME Shapes
    PROVE  /\ Len(conns) \in Nat /\ DOMAIN conns = 1..Len(conns)
           /\ Len(rooms) \in Nat /\ DOMAIN rooms = 1..Len(rooms)
           /\ \A k \in 1..Len(conns) : conns[k] \in Connections
           /\ \A r \in 1..Len(rooms) : rooms[r] \in ChatRooms
BY DEF Shapes

\* Closing descriptors leaves the others with their connections.
LEMMA KeepDescriptors ==
    ASSUME Shapes, Descriptors, EndsKept, FdsClosed
    PROVE  Descriptors'
<1> SUFFICES ASSUME NEW f \in 1..MaxConns, fds'[f] # 0
             PROVE  fds'[f] \in 1..Len(conns') /\ conns'[fds'[f]].fd = f
  BY DEF Descriptors
<1>1. fds'[f] = fds[f]
  BY DEF FdsClosed
<1>2. fds[f] \in 1..Len(conns) /\ conns[fds[f]].fd = f
  BY <1>1 DEF Descriptors
<1>3. f # 0
  BY BoundsAssumption
<1>4. Len(conns) \in Nat /\ Len(conns') \in Nat /\ Len(conns) =< Len(conns')
  BY LenTypes DEF EndsKept
<1> QED
  BY <1>1, <1>2, <1>3, <1>4 DEF EndsKept

\* A thread that works after a step worked before it.
LEMMA KeepWorking ==
    ASSUME Shapes, BsKept, NEW t \in threads, Working(t)'
    PROVE  Working(t)
<1>1. t.room \in 0..Len(rooms)
  BY DEF Shapes, Threads
<1>2. Len(rooms) \in Nat
  BY LenTypes
<1> QED
  BY <1>1, <1>2 DEF Working, BsKept

\* Working threads stay attached when no descriptor of theirs is closed.
LEMMA KeepAttached ==
    ASSUME Shapes, Attached, EndsKept, BsKept, FdsKept, threads' \subseteq threads
    PROVE  Attached'
<1> SUFFICES ASSUME NEW t \in threads', Working(t)'
             PROVE  fds'[t.fd] = t.on /\ conns'[t.on].to = t.room
  BY DEF Attached, Working
<1>1. t \in threads /\ Working(t)
  BY KeepWorking
<1>2. fds[t.fd] = t.on /\ conns[t.on].to = t.room
  BY <1>1 DEF Attached
<1>3. t.on \in 1..Len(conns) /\ t.fd \in 1..MaxConns
  BY <1>1 DEF Shapes, Threads
<1>4. fds'[t.fd] = fds[t.fd]
  BY <1>2, <1>3 DEF FdsKept
<1> QED
  BY <1>2, <1>3, <1>4 DEF EndsKept

\* Pools hold members while only descriptors of commands are closed.
LEMMA KeepPools ==
    ASSUME Shapes, Descriptors, Pools, EndsKept, BsKept, PoolsKept, FdsKept
    PROVE  Pools'
<1> SUFFICES ASSUME NEW r \in 1..Len(rooms'), rooms'[r].bs # "ended",
                    NEW i \in DOMAIN rooms'[r].pool
             PROVE  /\ fds'[rooms'[r].pool[i]] # 0
                    /\ conns'[fds'[rooms'[r].pool[i]]].to = r
  BY DEF Pools
<1>1. r \in 1..Len(rooms)
  BY LenTypes DEF BsKept, PoolsKept
<1>2. rooms[r].bs # "ended" /\ rooms'[r].pool = rooms[r].pool
  BY <1>1 DEF BsKept, PoolsKept
<1> DEFINE f == rooms[r].pool[i]
<1>3. f \in 1..MaxConns
  <2>1. rooms[r].pool \in Seq(1..MaxConns)
    BY <1>1, LenTypes DEF ChatRooms
  <2>2. i \in DOMAIN rooms[r].pool
    BY <1>2
  <2> QED
    BY <2>1, <2>2, SeqMember, Zenon
<1>4. fds[f] # 0 /\ conns[fds[f]].to = r
  BY <1>1, <1>2 DEF Pools
<1> HIDE DEF f
<1>5. fds'[f] = fds[f]
  BY <1>1, <1>3, <1>4 DEF FdsKept
<1>6. fds[f] \in 1..Len(conns)
  BY <1>3, <1>4 DEF Descriptors
<1>7. conns'[fds[f]].to = r
  BY <1>4, <1>6 DEF EndsKept
<1> QED
  BY <1>2, <1>4, <1>5, <1>7 DEF f

\* What was said in a room stays said in it.
LEMMA KeepSaid ==
    ASSUME Shapes, EndsKept, NEW r, NEW q, SaidIn(r, q)
    PROVE  SaidIn(r, q)'
<1>1. CASE q.msg = Goodbye
  BY <1>1 DEF SaidIn, Goodbye
<1>2. CASE q.msg # Goodbye
  <2>1. /\ q.msg.by \in 1..Len(conns) /\ conns[q.msg.by].to = r
        /\ conns[q.msg.by].fd = q.fd /\ q.fd # 0
    BY <1>2 DEF SaidIn
  <2>2. q.msg.by \in 1..Len(conns')
    BY <2>1, LenTypes DEF EndsKept
  <2> QED
    BY <2>1, <2>2 DEF SaidIn, EndsKept
<1> QED
  BY <1>1, <1>2

\* Queues that do not change hold what was said in the room.
LEMMA KeepQueues ==
    ASSUME Shapes, Queues, EndsKept, BsKept, QueuesKept
    PROVE  Queues'
<1> SUFFICES ASSUME NEW r \in 1..Len(rooms'), rooms'[r].bs # "ended",
                    NEW i \in DOMAIN rooms'[r].queue
             PROVE  SaidIn(r, rooms[r].queue[i])'
  BY DEF Queues
<1>1. r \in 1..Len(rooms)
  BY LenTypes DEF BsKept, QueuesKept
<1>2. rooms[r].bs # "ended" /\ rooms'[r].queue = rooms[r].queue
  BY <1>1 DEF BsKept, QueuesKept
<1>3. PICK q : q = rooms[r].queue[i]
  OBVIOUS
<1>4. SaidIn(r, q)
  BY <1>1, <1>2, <1>3 DEF Queues
<1>5. SaidIn(r, q)'
  BY <1>4, KeepSaid
<1> QED
  BY <1>2, <1>3, <1>5 DEF SaidIn

\* Inboxes lose messages only.
LEMMA KeepInboxes ==
    ASSUME Shapes, Inboxes, EndsKept, InsKept, Len(rooms') \in Nat, Len(rooms) =< Len(rooms')
    PROVE  Inboxes'
<1> SUFFICES ASSUME NEW k \in 1..Len(conns)
             PROVE  /\ conns'[k].to =< Len(rooms')
                    /\ \A i \in DOMAIN conns'[k].in :
                         IF conns'[k].to = 0 THEN conns'[k].in[i] \in Commands
                         ELSE conns'[k].in[i] \in Messages /\ conns'[k].in[i].by = k
  BY DEF Inboxes, InsKept, Commands, Messages
<1>1. conns'[k].to = conns[k].to
  BY DEF EndsKept
<1>2. conns[k].to \in Nat /\ Len(rooms) \in Nat
  BY LenTypes DEF Connections
<1>3. conns[k].to =< Len(rooms)
  BY DEF Inboxes
<1>4. conns'[k].to =< Len(rooms')
  BY <1>1, <1>2, <1>3
<1>5. ASSUME NEW i \in DOMAIN conns'[k].in
      PROVE  IF conns[k].to = 0 THEN conns'[k].in[i] \in Commands
             ELSE conns'[k].in[i] \in Messages /\ conns'[k].in[i].by = k
  <2>1. PICK j \in DOMAIN conns[k].in : conns'[k].in[i] = conns[k].in[j]
    BY DEF InsKept
  <2> QED
    BY <2>1 DEF Inboxes
<1> QED
  BY <1>1, <1>4, <1>5

\* What may be heard may be heard later.
LEMMA KeepHeard ==
    ASSUME Shapes, EndsKept, NEW k \in 1..Len(conns), NEW m, Heard(k, m)
    PROVE  Heard(k, m)'
<1>1. CASE m = Goodbye
  BY <1>1 DEF Heard, Goodbye
<1>2. CASE m # Goodbye
  <2>1. m.by \in 1..Len(conns) /\ m.by # k /\ conns[m.by].to = conns[k].to
    BY <1>2 DEF Heard
  <2>2. m.by \in 1..Len(conns')
    BY <2>1, LenTypes DEF EndsKept
  <2> QED
    BY <2>1, <2>2 DEF Heard, EndsKept
<1> QED
  BY <1>1, <1>2

\* Nobody hears anything new.
LEMMA KeepOutboxes ==
    ASSUME Shapes, Outboxes, EndsKept, OutsKept
    PROVE  Outboxes'
<1> SUFFICES ASSUME NEW k \in 1..Len(conns), NEW i \in DOMAIN conns'[k].out
             PROVE  Heard(k, conns[k].out[i])'
  BY DEF Outboxes, OutsKept
<1>0. PICK m : m = conns[k].out[i]
  OBVIOUS
<1>1. conns'[k].out = conns[k].out
  BY DEF OutsKept
<1>2. Heard(k, m)
  BY <1>0, <1>1 DEF Outboxes
<1>3. Heard(k, m)'
  BY <1>2, KeepHeard
<1> QED
  BY <1>0, <1>1, <1>3 DEF Heard

\* Nobody begins to chat or to enter a command.
LEMMA KeepChatting ==
    ASSUME Shapes, Chatting, EndsKept, ChattersKept
    PROVE  Chatting'
<1> SUFFICES ASSUME NEW c \in Clients, cli'[c].state \in {"chat", "prompt"}
             PROVE  /\ cli'[c].conn \in 1..Len(conns')
                    /\ conns'[cli'[c].conn].to = 0 <=> cli'[c].state = "prompt"
  BY DEF Chatting
<1>1. cli'[c] = cli[c]
  BY DEF ChattersKept
<1>2. /\ cli[c].conn \in 1..Len(conns)
      /\ conns[cli[c].conn].to = 0 <=> cli[c].state = "prompt"
  BY <1>1 DEF Chatting
<1> QED
  BY <1>1, <1>2, LenTypes DEF EndsKept

\* Threads end only.
LEMMA KeepThreads ==
    ASSUME Shapes, EndsKept, Len(rooms') \in Nat, Len(rooms) =< Len(rooms'),
           threads' \subseteq threads
    PROVE  threads' \subseteq Threads'
<1>1. Len(conns) \in Nat /\ Len(conns') \in Nat /\ Len(conns) =< Len(conns') /\ Len(rooms) \in Nat
  BY LenTypes DEF EndsKept
<1> QED
  BY <1>1 DEF Shapes, Threads

\* A step that keeps all of these frames keeps the invariant.
LEMMA Kept ==
    ASSUME RoomInv, EndsKept, RoomsKept, FdsKept, InsKept, OutsKept, ChattersKept,
           threads' \subseteq threads, said' \in Nat
    PROVE  RoomInv'
<1>1. /\ Shapes /\ Descriptors /\ Attached /\ Pools /\ Queues
      /\ Inboxes /\ Outboxes /\ Chatting
  BY DEF RoomInv
<1>2. /\ Len(rooms') \in Nat /\ Len(rooms) =< Len(rooms')
      /\ BsKept /\ PoolsKept /\ QueuesKept
  BY DEF RoomsKept, BsKept
<1>3. Shapes'
  <2>1. threads' \subseteq Threads'
    BY <1>1, <1>2, KeepThreads
  <2> QED
    BY <1>2, <2>1 DEF Shapes, EndsKept, BsKept, FdsKept, ChattersKept
<1>4. FdsClosed
  BY DEF FdsKept, FdsClosed
<1> QED
  BY <1>1, <1>2, <1>3, <1>4, KeepDescriptors, KeepAttached, KeepPools, KeepQueues, KeepInboxes,
     KeepOutboxes, KeepChatting DEF RoomInv

-----------------------------------------------------------------------------
(* Steps that keep all of this *)

\* One connection changes, but not its ends.
LEMMA ChangeConn ==
    ASSUME Shapes, NEW k \in 1..Len(conns), NEW x \in Connections,
           conns' = [conns EXCEPT ![k] = x],
           x.to = conns[k].to, conns[k].fd # 0 => x.fd = conns[k].fd
    PROVE  /\ EndsKept
           /\ Len(conns') = Len(conns)
           /\ conns'[k] = x
           /\ \A j \in 1..Len(conns) : j # k => conns'[j] = conns[j]
<1>1. /\ conns' = [j \in DOMAIN conns |-> conns'[j]]
      /\ conns'[k] = x
      /\ \A j \in 1..Len(conns) : j # k => conns'[j] = conns[j]
  BY LenTypes
<1>2. \A j \in 1..Len(conns) : conns'[j] \in Connections
  BY <1>1, LenTypes
<1>3. conns \in Seq(Connections)
  BY DEF Shapes
<1>4. conns' \in Seq(Connections) /\ Len(conns') = Len(conns)
  BY <1>1, <1>2, <1>3, SameTyped
<1>5. \A j \in 1..Len(conns) :
        conns'[j].to = conns[j].to /\ (conns[j].fd # 0 => conns'[j].fd = conns[j].fd)
  BY <1>1
<1> QED
  BY <1>1, <1>4, <1>5, LenTypes DEF EndsKept, Shapes

\* Nothing arrives and nobody hears anything.
LEMMA QuietConn ==
    ASSUME Shapes, NEW k \in 1..Len(conns), NEW x \in Connections,
           conns' = [conns EXCEPT ![k] = x],
           x.to = conns[k].to, x.fd = conns[k].fd, x.out = conns[k].out,
           \A i \in DOMAIN x.in : \E j \in DOMAIN conns[k].in : x.in[i] = conns[k].in[j]
    PROVE  EndsKept /\ InsKept /\ OutsKept
<1>1. /\ EndsKept
      /\ Len(conns') = Len(conns)
      /\ conns'[k] = x
      /\ \A j \in 1..Len(conns) : j # k => conns'[j] = conns[j]
  BY ChangeConn
<1>2. InsKept
  BY <1>1 DEF InsKept
<1>3. OutsKept
  BY <1>1 DEF OutsKept
<1> QED
  BY <1>1, <1>2, <1>3

\* What is unchanged keeps its frame: connections,
LEMMA SameConns ==
    ASSUME Shapes, UNCHANGED conns
    PROVE  EndsKept /\ InsKept /\ OutsKept
BY LenTypes DEF Shapes, EndsKept, InsKept, OutsKept

\* rooms,
LEMMA SameRooms ==
    ASSUME Shapes, UNCHANGED rooms
    PROVE  RoomsKept
BY LenTypes DEF Shapes, RoomsKept, BsKept, PoolsKept, QueuesKept

\* descriptors
LEMMA SameFds ==
    ASSUME Shapes, UNCHANGED fds
    PROVE  FdsKept
BY DEF Shapes, FdsKept

\* and clients.
LEMMA SameCli ==
    ASSUME Shapes, EndsKept, UNCHANGED cli
    PROVE  ChattersKept
<1>1. Len(conns) \in Nat /\ Len(conns') \in Nat /\ Len(conns) =< Len(conns')
  BY LenTypes DEF EndsKept
<1> QED
  BY <1>1 DEF Shapes, ChattersKept, Members

\* A client that neither chats nor enters a command.
LEMMA BecomeKept ==
    ASSUME Shapes, EndsKept, NEW c, NEW state \in {"home", "asked", "joining"},
           NEW conn \in 0..Len(conns'), NEW port \in Int, Become(c, state, conn, port)
    PROVE  ChattersKept
<1>1. Len(conns) \in Nat /\ Len(conns') \in Nat /\ Len(conns) =< Len(conns')
  BY LenTypes DEF EndsKept
<1>2. \A d \in Clients : cli[d] \in Members /\ cli[d] \in Members'
  BY <1>1 DEF Shapes, Members
<1>3. [state |-> state, conn |-> conn, port |-> port] \in Members'
  BY DEF Members
<1>4. cli' = [d \in Clients |-> IF d = c THEN [state |-> state, conn |-> conn, port |-> port]
                                ELSE cli[d]]
  BY DEF Become, Shapes
<1>5. cli' \in [Clients -> Members']
  BY <1>2, <1>3, <1>4
<1>6. \A d \in Clients : cli'[d].state \in {"chat", "prompt"} => cli'[d] = cli[d]
  BY <1>4
<1> QED
  BY <1>5, <1>6 DEF ChattersKept

\* A client that is connected to the base port and will enter a command, or to a
\* room's and will chat.
LEMMA MeetKept ==
    ASSUME Shapes, Chatting, EndsKept, NEW c \in Clients, NEW state \in {"chat", "prompt"},
           NEW k \in 1..Len(conns'), Become(c, state, k, 0),
           conns'[k].to = 0 <=> state = "prompt"
    PROVE  cli' \in [Clients -> Members'] /\ Chatting'
<1>1. Len(conns) \in Nat /\ Len(conns') \in Nat /\ Len(conns) =< Len(conns')
  BY LenTypes DEF EndsKept
<1>2. \A d \in Clients : cli[d] \in Members /\ cli[d] \in Members'
  BY <1>1 DEF Shapes, Members
<1>3. [state |-> state, conn |-> k, port |-> 0] \in Members'
  BY <1>1 DEF Members
<1>4. cli' = [d \in Clients |-> IF d = c THEN [state |-> state, conn |-> k, port |-> 0]
                                ELSE cli[d]]
  BY DEF Become, Shapes
<1>5. cli' \in [Clients -> Members']
  BY <1>2, <1>3, <1>4
<1>6. ASSUME NEW d \in Clients, cli'[d].state \in {"chat", "prompt"}
      PROVE  /\ cli'[d].conn \in 1..Len(conns')
             /\ conns'[cli'[d].conn].to = 0 <=> cli'[d].state = "prompt"
  <2>1. CASE d = c
    <3>1. cli'[d].conn = k /\ cli'[d].state = state
      BY <1>4, <2>1
    <3> QED
      BY <3>1
  <2>2. CASE d # c
    <3>1. cli'[d] = cli[d]
      BY <1>4, <2>2
    <3>2. /\ cli[d].conn \in 1..Len(conns)
          /\ conns[cli[d].conn].to = 0 <=> cli[d].state = "prompt"
      BY <1>6, <3>1 DEF Chatting
    <3> QED
      BY <1>1, <3>1, <3>2 DEF EndsKept
  <2> QED
    BY <2>1, <2>2
<1> QED
  BY <1>5, <1>6 DEF Chatting

\* The table of rooms stays.
LEMMA KeepTable ==
    ASSUME Shapes, TableTyped, EndsKept, Len(rooms') \in Nat, Len(rooms) =< Len(rooms'),
           alive' \in BOOLEAN, UNCHANGED <<chatDB, lastport>>,
           DBlock' \in 0..Len(conns')
    PROVE  TableTyped'
<1>1. Len(rooms) \in Nat
  BY LenTypes
<1>2. \A i \in 2..Len(chatDB') : chatDB'[i].name \in Names /\ chatDB'[i].port \in Int
  BY DEF TableTyped
<1>3. \A i \in 2..Len(chatDB') : chatDB'[i].room \in 1..Len(rooms')
  BY <1>1 DEF TableTyped
<1> QED
  BY <1>2, <1>3 DEF TableTyped

\* A room that changes, but not in what it has queued or in its pool.
LEMMA ChangeRoom ==
    ASSUME Shapes, NEW r \in 1..Len(rooms), NEW x \in ChatRooms,
           rooms' = [rooms EXCEPT ![r] = x],
           x.bs # "ended" => /\ rooms[r].bs # "ended"
                             /\ x.pool = rooms[r].pool
                             /\ x.queue = rooms[r].queue
    PROVE  RoomsKept
<1>1. /\ rooms' = [j \in DOMAIN rooms |-> rooms'[j]]
      /\ rooms'[r] = x
      /\ \A j \in 1..Len(rooms) : j # r => rooms'[j] = rooms[j]
  BY LenTypes
<1>2. \A j \in 1..Len(rooms) : rooms'[j] \in ChatRooms
  BY <1>1, LenTypes
<1>3. rooms \in Seq(ChatRooms)
  BY DEF Shapes
<1>4. rooms' \in Seq(ChatRooms) /\ Len(rooms') = Len(rooms)
  BY <1>1, <1>2, <1>3, SameTyped
<1> QED
  BY <1>1, <1>4, LenTypes DEF RoomsKept, BsKept, PoolsKept, QueuesKept

\* The invariant by its parts.
LEMMA Parts ==
    ASSUME ChatInv
    PROVE  /\ RoomInv /\ TableTyped
           /\ Shapes /\ Descriptors /\ Attached /\ Pools /\ Queues
           /\ Inboxes /\ Outboxes /\ Chatting
BY DEF ChatInv, RoomInv

\* A client that leaves, after the farewell or by an interrupt.
LEMMA LeaveChat ==
    ASSUME ChatInv, NEW c \in Clients, Leave(c) \/ Quit(c)
    PROVE  ChatInv'
<1> DEFINE k == cli[c].conn
<1>1. k \in 1..Len(conns)
  BY Parts DEF Leave, Quit, Chatting
<1>3. conns[k] \in Connections
  BY <1>1, Parts, LenTypes
<1>0. PICK err \in {"none", "unread", "pipe"} :
        conns' = [conns EXCEPT ![k].up = FALSE, ![k].err = err]
  <2>1. CASE Leave(c)
    <3>1. conns' = [conns EXCEPT ![k].up = FALSE, ![k].err = conns[k].err]
      <4>1. [conns[k] EXCEPT !.up = FALSE]
              = [conns[k] EXCEPT !.up = FALSE, !.err = conns[k].err]
        BY <1>3 DEF Connections
      <4> QED
        BY <2>1, <4>1 DEF Leave
    <3> QED
      BY <1>3, <3>1 DEF Connections
  <2>2. CASE Quit(c)
    BY <2>2 DEF Quit
  <2> QED
    BY <2>1, <2>2
<1> DEFINE x == [conns[k] EXCEPT !.up = FALSE, !.err = err]
<1>2. conns' = [conns EXCEPT ![k] = x]
  BY <1>0
<1>4. x \in Connections /\ x.to = conns[k].to /\ x.fd = conns[k].fd
      /\ x.out = conns[k].out /\ x.in = conns[k].in
  BY <1>3 DEF Connections
<1>5. UNCHANGED <<alive, dbVars, rooms, fds, threads, said>> /\ Become(c, "home", 0, 0)
  BY DEF Leave, Quit
<1> HIDE DEF k, x
<1>6. EndsKept /\ InsKept /\ OutsKept
  BY <1>1, <1>2, <1>4, QuietConn, Parts
<1>7. RoomsKept /\ FdsKept
  BY <1>5, SameRooms, SameFds, Parts
<1>8. Len(conns') \in Nat /\ Len(conns) \in Nat
  BY <1>6, LenTypes, Parts DEF EndsKept
<1>9. ChattersKept
  <2>1. 0 \in 0..Len(conns')
    BY <1>8
  <2> QED
    BY <1>5, <1>6, <2>1, BecomeKept, Parts
<1>10. RoomInv'
  <2>1. said' \in Nat
    BY <1>5, Parts DEF Shapes
  <2> QED
    BY <1>5, <1>6, <1>7, <1>9, <2>1, Kept, Parts
<1>11. TableTyped'
  <2>1. DBlock' \in 0..Len(conns') /\ alive' \in BOOLEAN /\ UNCHANGED <<chatDB, lastport>>
    BY <1>5, <1>6, <1>8, Parts DEF TableTyped, dbVars, EndsKept
  <2> QED
    BY <1>6, <1>7, <2>1, KeepTable, Parts DEF RoomsKept, BsKept
<1> QED
  BY <1>10, <1>11 DEF ChatInv

\* A step that keeps the frames and the table keeps both invariants.
LEMMA KeptAll ==
    ASSUME ChatInv, EndsKept, RoomsKept, FdsKept, InsKept, OutsKept, ChattersKept,
           threads' \subseteq threads, UNCHANGED said, alive' \in BOOLEAN,
           UNCHANGED <<chatDB, lastport>>, DBlock' \in 0..Len(conns')
    PROVE  ChatInv'
<1>1. said' \in Nat
  BY Parts DEF Shapes
<1>2. RoomInv'
  BY <1>1, Kept, Parts
<1>3. TableTyped'
  BY KeepTable, Parts DEF RoomsKept, BsKept
<1> QED
  BY <1>2, <1>3 DEF ChatInv

\* The connection that holds the lock is still there.
LEMMA LockTyped ==
    ASSUME ChatInv, EndsKept, UNCHANGED DBlock
    PROVE  DBlock' \in 0..Len(conns')
<1>1. Len(conns) \in Nat /\ Len(conns') \in Nat /\ Len(conns) =< Len(conns')
  BY LenTypes, Parts DEF EndsKept
<1> QED
  BY <1>1, Parts DEF TableTyped

\* Steps of a room's threads that leave its queue alone.
LEMMA RoomSteps ==
    ASSUME ChatInv, NEW r \in DOMAIN rooms, Listen(r) \/ Cancel(r) \/ EndRoom(r)
    PROVE  ChatInv'
<1>1. r \in 1..Len(rooms) /\ rooms[r] \in ChatRooms
  BY LenTypes, Parts
<1>2. UNCHANGED <<alive, dbVars, conns, fds, cli, said>> /\ threads' \subseteq threads
  BY DEF Listen, Cancel, EndRoom
<1>3. RoomsKept
  <2>1. ASSUME NEW x \in ChatRooms, rooms' = [rooms EXCEPT ![r] = x],
               x.bs # "ended" => rooms[r].bs # "ended",
               x.pool = rooms[r].pool, x.queue = rooms[r].queue
        PROVE  RoomsKept
    BY <1>1, <2>1, ChangeRoom, Parts
  <2>2. CASE Listen(r)
    <3> DEFINE x == [rooms[r] EXCEPT !.chat = "ended"]
               y == [rooms[r] EXCEPT !.chat = "listening", !.bs = "waiting",
                                     !.awaiter = "watching"]
    <3>1. rooms' = [rooms EXCEPT ![r] = x] \/ rooms' = [rooms EXCEPT ![r] = y]
      BY <2>2 DEF Listen
    <3>2. /\ x \in ChatRooms /\ x.pool = rooms[r].pool /\ x.queue = rooms[r].queue
          /\ y \in ChatRooms /\ y.pool = rooms[r].pool /\ y.queue = rooms[r].queue
      BY <1>1 DEF ChatRooms
    <3>3. rooms[r].bs # "ended"
      BY <1>1, <2>2 DEF ChatRooms, Listen
    <3> HIDE DEF x, y
    <3> QED
      BY <2>1, <3>1, <3>2, <3>3
  <2>3. CASE Cancel(r)
    <3> DEFINE x == [rooms[r] EXCEPT !.awaiter = "joining"]
    <3>1. rooms' = [rooms EXCEPT ![r] = x]
      BY <2>3 DEF Cancel
    <3>2. x \in ChatRooms /\ x.pool = rooms[r].pool /\ x.queue = rooms[r].queue
          /\ x.bs = rooms[r].bs
      BY <1>1 DEF ChatRooms
    <3> HIDE DEF x
    <3> QED
      BY <2>1, <3>1, <3>2
  <2>4. CASE EndRoom(r)
    <3> DEFINE x == [rooms[r] EXCEPT !.awaiter = "ended", !.chat = "ended"]
    <3>1. rooms' = [rooms EXCEPT ![r] = x]
      BY <2>4 DEF EndRoom
    <3>2. x \in ChatRooms /\ x.pool = rooms[r].pool /\ x.queue = rooms[r].queue
          /\ x.bs = rooms[r].bs
      BY <1>1 DEF ChatRooms
    <3> HIDE DEF x
    <3> QED
      BY <2>1, <3>1, <3>2
  <2> QED
    BY <2>2, <2>3, <2>4
<1>4. EndsKept /\ InsKept /\ OutsKept /\ FdsKept
  BY <1>2, SameConns, SameFds, Parts
<1>5. ChattersKept
  BY <1>2, <1>4, SameCli, Parts
<1>6. DBlock' \in 0..Len(conns') /\ alive' \in BOOLEAN /\ UNCHANGED <<chatDB, lastport>>
  BY <1>2, <1>4, LockTyped, Parts DEF TableTyped, dbVars
<1> QED
  BY <1>2, <1>3, <1>4, <1>5, <1>6, KeptAll

\* A thread that was asked for something reads commands.
LEMMA AskedCommand ==
    ASSUME ChatInv, NEW t \in threads, NEW cmd, Asked(t, cmd)
    PROVE  /\ t.room = 0
           /\ t.fd \in 1..MaxConns
           /\ t.on \in 1..Len(conns)
           /\ fds[t.fd] = t.on
           /\ conns[t.on].to = 0
           /\ conns[t.on].by \in Clients
           /\ conns[t.on].in[1].name \in Names
<1>1. t.room = 0 /\ conns[t.on].in # <<>>
  BY DEF Asked
<1>2. t.on \in 1..Len(conns) /\ t.fd \in 1..MaxConns
  BY Parts DEF Shapes, Threads
<1>3. fds[t.fd] = t.on /\ conns[t.on].to = t.room
  BY <1>1, Parts DEF Attached, Working
<1>4. conns[t.on] \in Connections
  BY <1>2, LenTypes, Parts
<1>5. conns[t.on].in \in Seq(Texts) /\ conns[t.on].by \in Clients
  BY <1>4 DEF Connections
<1>6. 1 \in DOMAIN conns[t.on].in
  BY <1>1, <1>5
<1>7. conns[t.on].in[1] \in Commands
  BY <1>1, <1>2, <1>3, <1>6, Parts DEF Inboxes
<1> QED
  BY <1>1, <1>2, <1>3, <1>5, <1>7 DEF Commands

\* A client that has its answer closes and connects again.
LEMMA AnsweredKept ==
    ASSUME Shapes, NEW k \in 1..Len(conns), Answered(k)
    PROVE  EndsKept /\ InsKept /\ OutsKept /\ ChattersKept
<1> DEFINE x == [conns[k] EXCEPT !.in = <<>>, !.up = FALSE]
<1>1. conns' = [conns EXCEPT ![k] = x]
  BY DEF Answered
<1>2. conns[k] \in Connections
  BY LenTypes
<1>3. <<>> \in Seq(Texts) /\ DOMAIN << >> = {}
  OBVIOUS
<1>4. x \in Connections /\ x.to = conns[k].to /\ x.fd = conns[k].fd
      /\ x.out = conns[k].out /\ x.in = <<>>
  BY <1>2, <1>3 DEF Connections
<1> HIDE DEF x
<1>5. EndsKept /\ InsKept /\ OutsKept
  BY <1>1, <1>3, <1>4, QuietConn
<1>6. 0 \in 0..Len(conns')
  BY <1>5, LenTypes DEF EndsKept
<1>7. Become(conns[k].by, "home", 0, 0)
  BY DEF Answered
<1> QED
  BY <1>5, <1>6, <1>7, BecomeKept

\* DELETE: an answer, or the lock and a room that is told to end.
LEMMA DeleteKept ==
    ASSUME ChatInv, NEW t \in threads, Delete(t)
    PROVE  ChatInv'
<1> DEFINE k == t.on
           entry == Entry(conns[k].in[1].name)
<1>1. k \in 1..Len(conns)
  BY AskedCommand DEF Delete
<1>2. UNCHANGED <<alive, chatDB, lastport, fds, threads, said>>
  BY DEF Delete
<1>3. FdsKept
  BY <1>2, SameFds, Parts
<1>4. EndsKept /\ InsKept /\ OutsKept /\ ChattersKept
  <2>1. CASE entry = {}
    BY <1>1, <2>1, AnsweredKept, Parts DEF Delete
  <2>2. CASE entry # {}
    <3> DEFINE x == [conns[k] EXCEPT !.in = <<>>]
    <3>1. conns' = [conns EXCEPT ![k] = x] /\ UNCHANGED cli
      BY <2>2 DEF Delete
    <3>2. conns[k] \in Connections
      BY <1>1, LenTypes, Parts
    <3>3. <<>> \in Seq(Texts) /\ DOMAIN << >> = {}
      OBVIOUS
    <3>4. x \in Connections /\ x.to = conns[k].to /\ x.fd = conns[k].fd
          /\ x.out = conns[k].out /\ x.in = <<>>
      BY <3>2, <3>3 DEF Connections
    <3> HIDE DEF x, k
    <3>5. EndsKept /\ InsKept /\ OutsKept
      BY <1>1, <3>1, <3>3, <3>4, QuietConn, Parts
    <3> QED
      BY <3>1, <3>5, SameCli, Parts
  <2> QED
    BY <2>1, <2>2
<1>5. RoomsKept
  <2>1. CASE UNCHANGED rooms
    BY <2>1, SameRooms, Parts
  <2>2. CASE rooms' # rooms
    <3>1. PICK m : rooms' = [rooms EXCEPT ![m].terminated = TRUE]
      BY <2>2 DEF Delete
    <3>2. m \in 1..Len(rooms)
      <4>1. m \notin DOMAIN rooms => rooms' = rooms
        BY <3>1, LenTypes, Parts DEF Shapes
      <4> QED
        BY <2>2, <4>1, LenTypes, Parts
    <3> DEFINE x == [rooms[m] EXCEPT !.terminated = TRUE]
    <3>3. rooms' = [rooms EXCEPT ![m] = x]
      BY <3>1
    <3>4. rooms[m] \in ChatRooms
      BY <3>2, LenTypes, Parts
    <3>5. x \in ChatRooms /\ x.pool = rooms[m].pool /\ x.queue = rooms[m].queue
          /\ x.bs = rooms[m].bs
      BY <3>4 DEF ChatRooms
    <3> HIDE DEF x
    <3> QED
      BY <3>2, <3>3, <3>5, ChangeRoom, Parts
  <2> QED
    BY <2>1, <2>2
<1>6. DBlock' \in 0..Len(conns') /\ alive' \in BOOLEAN
  <2>1. Len(conns) \in Nat /\ Len(conns') \in Nat /\ Len(conns) =< Len(conns')
    BY <1>4, LenTypes, Parts DEF EndsKept
  <2>2. DBlock' \in {DBlock, k}
    BY DEF Delete
  <2> QED
    BY <1>1, <1>2, <2>1, <2>2, Parts DEF TableTyped
<1> QED
  BY <1>2, <1>3, <1>4, <1>5, <1>6, KeptAll

\* JOIN closes the descriptor of its own thread, which ends.
LEMMA JoinKept ==
    ASSUME ChatInv, NEW t \in threads, Join(t)
    PROVE  ChatInv'
<1> DEFINE k == t.on
           entry == Entry(conns[k].in[1].name)
<1>1. /\ t.room = 0 /\ t.fd \in 1..MaxConns
      /\ k \in 1..Len(conns) /\ fds[t.fd] = k /\ conns[k].to = 0
  BY AskedCommand DEF Join
<1>2. UNCHANGED <<alive, dbVars, rooms, said>>
  BY DEF Join
<1>3. RoomsKept
  BY <1>2, SameRooms, Parts
<1>4. EndsKept /\ InsKept /\ OutsKept /\ ChattersKept
  <2>1. CASE entry = {}
    BY <1>1, <2>1, AnsweredKept, Parts DEF Join
  <2>2. CASE entry # {}
    <3> DEFINE x == [conns[k] EXCEPT !.in = <<>>]
    <3>1. conns' = [conns EXCEPT ![k] = x]
      BY <2>2 DEF Join
    <3>2. conns[k] \in Connections
      BY <1>1, LenTypes, Parts
    <3>3. <<>> \in Seq(Texts) /\ DOMAIN << >> = {}
      OBVIOUS
    <3>4. x \in Connections /\ x.to = conns[k].to /\ x.fd = conns[k].fd
          /\ x.out = conns[k].out /\ x.in = <<>>
      BY <3>2, <3>3 DEF Connections
    <3>5. PICK i \in entry : Become(conns[k].by, "joining", 0, chatDB[i].port)
      BY <2>2 DEF Join
    <3>6. chatDB[i].port \in Int
      <4>1. i \in DOMAIN chatDB
        BY <3>5 DEF Entry
      <4>2. DOMAIN chatDB = 1..Len(chatDB) /\ Len(chatDB) \in Nat
        BY Parts DEF TableTyped, IsSeq
      <4>3. CASE i = 1
        <5>1. Base.port = BasePort
          BY DEF Base
        <5> QED
          BY <4>3, <5>1, PortAssumption, Parts DEF TableTyped
      <4>4. CASE i \in 2..Len(chatDB)
        BY <4>4, Parts DEF TableTyped
      <4> QED
        BY <4>1, <4>2, <4>3, <4>4
    <3> HIDE DEF x, k
    <3>7. EndsKept /\ InsKept /\ OutsKept
      BY <1>1, <3>1, <3>3, <3>4, QuietConn, Parts
    <3>8. 0 \in 0..Len(conns')
      BY <3>7, LenTypes, Parts DEF EndsKept
    <3> QED
      BY <3>5, <3>6, <3>7, <3>8, BecomeKept, Parts
  <2> QED
    BY <2>1, <2>2
<1>5. FdsKept /\ threads' \subseteq threads
  <2>1. CASE UNCHANGED <<fds, threads>>
    BY <2>1, SameFds, Parts
  <2>2. CASE fds' = [fds EXCEPT ![t.fd] = 0] /\ threads' = threads \ {t}
    <3>1. fds \in [1..MaxConns -> Nat] /\ threads \subseteq Threads
      BY Parts DEF Shapes
    <3>2. fds' \in [1..MaxConns -> Nat]
      BY <2>2, <3>1
    <3>3. ASSUME NEW f \in 1..MaxConns, fds'[f] # fds[f]
          PROVE  f = t.fd /\ fds'[f] = 0
      BY <2>2, <3>1, <3>3
    <3>4. ASSUME NEW u \in threads', u.room = 0, u.fd = t.fd
          PROVE  FALSE
      <4>1. u \in threads /\ u # t
        BY <2>2, <3>4
      <4>2. fds[u.fd] = u.on
        BY <3>4, <4>1, Parts DEF Attached, Working
      <4>3. u.on = t.on
        BY <1>1, <3>4, <4>2
      <4>4. u = t
        BY <1>1, <3>1, <3>4, <4>1, <4>3 DEF Threads
      <4> QED
        BY <4>1, <4>4
    <3> QED
      BY <1>1, <2>2, <3>2, <3>3, <3>4 DEF FdsKept
  <2> QED
    BY <2>1, <2>2 DEF Join, CloseBase
<1>6. DBlock' \in 0..Len(conns') /\ alive' \in BOOLEAN /\ UNCHANGED <<chatDB, lastport>>
  BY <1>2, <1>4, LockTyped, Parts DEF TableTyped, dbVars
<1> QED
  BY <1>2, <1>3, <1>4, <1>5, <1>6, KeptAll

\* Nothing happens.
LEMMA StutterKept ==
    ASSUME ChatInv, UNCHANGED vars
    PROVE  ChatInv'
<1>1. UNCHANGED <<alive, chatDB, lastport, DBlock, rooms, conns, fds, threads, cli, said>>
  BY DEF vars, dbVars
<1>2. RoomsKept /\ FdsKept /\ EndsKept /\ InsKept /\ OutsKept
  BY <1>1, SameRooms, SameFds, SameConns, Parts
<1>3. ChattersKept
  BY <1>1, <1>2, SameCli, Parts
<1>4. DBlock' \in 0..Len(conns') /\ alive' \in BOOLEAN
  BY <1>1, <1>2, LockTyped, Parts DEF TableTyped
<1> QED
  BY <1>1, <1>2, <1>3, <1>4, KeptAll

\* An entry that is removed takes no other with it.
LEMMA RemovedKept ==
    ASSUME ChatInv, Removed
    PROVE  ChatInv'
<1>1. UNCHANGED <<alive, lastport, rooms, fds, threads, said>> /\ DBlock' = 0
      /\ Answered(DBlock)
  BY DEF Removed
<1>2. RoomsKept /\ FdsKept
  BY <1>1, SameRooms, SameFds, Parts
<1>3. Len(conns) \in Nat /\ DBlock \in 0..Len(conns)
  BY LenTypes, Parts DEF TableTyped
<1>4. EndsKept /\ InsKept /\ OutsKept /\ ChattersKept
  <2>1. CASE DBlock \in 1..Len(conns)
    BY <1>1, <2>1, AnsweredKept, Parts
  <2>2. CASE DBlock = 0
    <3>1. DBlock \notin DOMAIN conns
      BY <2>2, LenTypes, Parts
    <3>2. conns' = [conns EXCEPT ![DBlock].in = <<>>, ![DBlock].up = FALSE]
      BY <1>1 DEF Answered
    <3>3. conns \in Seq(Connections)
      BY Parts DEF Shapes
    <3>4. conns' = conns
      BY <3>1, <3>2, <3>3
    <3>5. EndsKept /\ InsKept /\ OutsKept
      BY <3>4, SameConns, Parts
    <3>6. 0 \in 0..Len(conns')
      BY <1>3, <3>4
    <3>7. Become(conns[DBlock].by, "home", 0, 0)
      BY <1>1 DEF Answered
    <3> QED
      BY <3>5, <3>6, <3>7, BecomeKept, Parts
  <2> QED
    BY <1>3, <2>1, <2>2
<1>5. RoomInv'
  <2>1. said' \in Nat
    BY <1>1, Parts DEF Shapes
  <2> QED
    BY <1>1, <1>2, <1>4, <2>1, Kept, Parts
<1>6. TableTyped'
  <2> DEFINE n == Len(chatDB)
  <2>1. PICK j \in DOMAIN chatDB \ {1} : chatDB' = RemoveAt(chatDB, j)
    BY DEF Removed
  <2>2. n \in Nat /\ DOMAIN chatDB = 1..n /\ IsSeq(chatDB) /\ chatDB[1] = Base
    BY Parts DEF TableTyped, IsSeq
  <2>3. j \in 2..n
    BY <2>1, <2>2
  <2>4. /\ IsSeq(chatDB')
        /\ Len(chatDB') = n - 1
        /\ \A i \in 1..(j - 1) : chatDB'[i] = chatDB[i]
        /\ \A i \in j..(n - 1) : chatDB'[i] = chatDB[i + 1]
    BY <2>1, <2>2, <2>3, RemoveAtSeq
  <2>5. \A i \in 2..(n - 1) : \E h \in 2..n : chatDB'[i] = chatDB[h]
    <3> SUFFICES ASSUME NEW i \in 2..(n - 1)
                 PROVE  \E h \in 2..n : chatDB'[i] = chatDB[h]
      OBVIOUS
    <3>1. CASE i < j
      BY <2>2, <2>3, <2>4, <3>1
    <3>2. CASE ~(i < j)
      <4>1. i + 1 \in 2..n
        BY <2>2
      <4> QED
        BY <2>2, <2>3, <2>4, <3>2, <4>1
    <3> QED
      BY <3>1, <3>2
  <2>6. \A h \in 2..n : /\ chatDB[h].name \in Names /\ chatDB[h].port \in Int
                        /\ chatDB[h].room \in 1..Len(rooms)
    BY Parts DEF TableTyped
  <2>7. Len(chatDB') >= 1 /\ chatDB'[1] = Base
    BY <2>2, <2>3, <2>4
  <2> HIDE DEF n
  <2>8. \A i \in 2..Len(chatDB') : /\ chatDB'[i].name \in Names /\ chatDB'[i].port \in Int
                                   /\ chatDB'[i].room \in 1..Len(rooms)
    BY <2>4, <2>5, <2>6
  <2>9. DBlock' \in 0..Len(conns')
    BY <1>1, <1>4, LenTypes, Parts DEF EndsKept
  <2> QED
    BY <1>1, <2>4, <2>7, <2>8, <2>9, Parts DEF TableTyped
<1> QED
  BY <1>5, <1>6 DEF ChatInv

\* A new room has a port, and is empty.
LEMMA CreateKept ==
    ASSUME ChatInv, NEW t \in threads, Create(t)
    PROVE  ChatInv'
<1> DEFINE name == conns[t.on].in[1].name
           skip == \E i \in DOMAIN chatDB : chatDB[i].port = lastport
           port == IF skip THEN Wrap(lastport + 1) ELSE lastport
           room == [port |-> port, terminated |-> FALSE, chat |-> "starting",
                    bs |-> "none", awaiter |-> "none", queue |-> <<>>, pool |-> <<>>]
           e    == [name |-> name, port |-> port, room |-> Len(rooms) + 1]
           m    == Len(rooms)
           n    == Len(chatDB)
<1>1. t.on \in 1..Len(conns) /\ name \in Names
  BY AskedCommand DEF Create
<1>2. UNCHANGED <<alive, DBlock, fds, threads, said>> /\ Answered(t.on)
  BY DEF Create
<1>3. FdsKept /\ EndsKept /\ InsKept /\ OutsKept /\ ChattersKept
  BY <1>1, <1>2, SameFds, AnsweredKept, Parts
<1>4. DBlock' \in 0..Len(conns') /\ alive' \in BOOLEAN
  BY <1>2, <1>3, LockTyped, Parts DEF TableTyped
<1>5. CASE UNCHANGED <<rooms, chatDB, lastport>>
  <2>1. RoomsKept
    BY <1>5, SameRooms, Parts
  <2> QED
    BY <1>2, <1>3, <1>4, <1>5, <2>1, KeptAll
<1>6. CASE /\ rooms' = Append(rooms, room)
           /\ chatDB' = Append(chatDB, e)
           /\ lastport' = Wrap(port + 1)
  <2>1. lastport \in -(MaxShort + 1)..MaxShort
    BY Parts DEF TableTyped
  <2>2. \A p \in -(MaxShort + 1)..MaxShort : Wrap(p + 1) \in -(MaxShort + 1)..MaxShort
    BY PortAssumption DEF Wrap
  <2>3. port \in -(MaxShort + 1)..MaxShort
    <3> HIDE DEF skip
    <3> QED
      BY <2>1, <2>2
  <2> HIDE DEF port, name
  <2>4. port \in Int /\ lastport' \in -(MaxShort + 1)..MaxShort
    BY <1>6, <2>2, <2>3, PortAssumption
  <2>5. room \in ChatRooms /\ room.pool = <<>> /\ room.queue = <<>>
    <3>1. <<>> \in Seq(Items) /\ <<>> \in Seq(1..MaxConns)
      OBVIOUS
    <3> QED
      BY <2>4, <3>1 DEF ChatRooms
  <2>6. e.name \in Names /\ e.port \in Int /\ e.room = m + 1
    BY <1>1, <2>4
  <2> HIDE DEF room, e
  <2>7. rooms \in Seq(ChatRooms)
    BY Parts DEF Shapes
  <2>8. /\ rooms' \in Seq(ChatRooms) /\ m \in Nat /\ Len(rooms') = m + 1
        /\ \A r \in 1..m : rooms'[r] = rooms[r]
        /\ rooms'[m + 1] = room
    BY <1>6, <2>5, <2>7, AppendTyped
  <2> HIDE DEF m
  <2>9. RoomsKept
    <3>1. BsKept
      BY <2>8 DEF BsKept, m
    <3>2. ASSUME NEW r \in 1..(m + 1)
          PROVE  /\ rooms'[r].pool = IF r =< m THEN rooms[r].pool ELSE <<>>
                 /\ rooms'[r].queue = IF r =< m THEN rooms[r].queue ELSE <<>>
      <4>1. CASE r \in 1..m
        BY <2>8, <4>1
      <4>2. CASE r = m + 1
        BY <2>5, <2>8, <4>2
      <4> QED
        BY <2>8, <4>1, <4>2
    <3> QED
      BY <2>8, <3>1, <3>2 DEF RoomsKept, PoolsKept, QueuesKept, m
  <2>10. RoomInv'
    <3>1. said' \in Nat
      BY <1>2, Parts DEF Shapes
    <3> QED
      BY <1>2, <1>3, <2>9, <3>1, Kept, Parts
  <2>11. /\ IsSeq(chatDB') /\ n \in Nat /\ Len(chatDB') = n + 1
         /\ \A i \in 1..n : chatDB'[i] = chatDB[i]
         /\ chatDB'[n + 1] = e
    BY <1>6, AppendSeq, Parts DEF TableTyped
  <2>12. n >= 1 /\ chatDB[1] = Base
    BY Parts DEF TableTyped
  <2>13. \A i \in 2..n : /\ chatDB[i].name \in Names /\ chatDB[i].port \in Int
                         /\ chatDB[i].room \in 1..m
    BY Parts DEF TableTyped, m
  <2> HIDE DEF n
  <2>14. ASSUME NEW i \in 2..(n + 1)
         PROVE  /\ chatDB'[i].name \in Names /\ chatDB'[i].port \in Int
                /\ chatDB'[i].room \in 1..(m + 1)
    <3>1. CASE i \in 2..n
      <4>1. chatDB'[i] = chatDB[i]
        BY <2>11, <3>1
      <4> QED
        BY <2>8, <2>13, <3>1, <4>1
    <3>2. CASE i = n + 1
      BY <2>6, <2>8, <2>11, <3>2
    <3> QED
      BY <2>11, <3>1, <3>2
  <2>15. TableTyped'
    <3>1. chatDB'[1] = Base
      BY <2>11, <2>12
    <3> QED
      BY <1>4, <2>4, <2>8, <2>11, <2>12, <2>14, <3>1 DEF TableTyped
  <2> QED
    BY <2>10, <2>15 DEF ChatInv
<1> QED
  BY <1>5, <1>6 DEF Create

\* A thread that calls recv again reads from what its descriptor stands for.
LEMMA AgainKept ==
    ASSUME Shapes, Descriptors, Attached, EndsKept, BsKept, UNCHANGED fds,
           NEW t \in threads, RecvAgain(t)
    PROVE  threads' \subseteq Threads' /\ Attached'
<1>1. \A u \in threads' : \/ u \in threads
                          \/ u = [t EXCEPT !.on = fds[t.fd]] /\ fds[t.fd] # 0
  BY DEF RecvAgain
<1>2. /\ Len(conns) \in Nat /\ Len(conns') \in Nat /\ Len(conns) =< Len(conns')
      /\ Len(rooms) \in Nat /\ Len(rooms') \in Nat /\ Len(rooms) =< Len(rooms')
  BY LenTypes DEF EndsKept, BsKept
<1>3. t \in Threads /\ threads \subseteq Threads
  BY DEF Shapes
<1>4. fds[t.fd] # 0 => fds[t.fd] \in 1..Len(conns)
  BY <1>3 DEF Descriptors, Threads
<1>5. threads' \subseteq Threads'
  <2> SUFFICES ASSUME NEW u \in threads' PROVE u \in Threads'
    OBVIOUS
  <2>1. CASE u \in threads
    BY <1>2, <1>3, <2>1 DEF Threads
  <2>2. CASE u = [t EXCEPT !.on = fds[t.fd]] /\ fds[t.fd] # 0
    BY <1>2, <1>3, <1>4, <2>2 DEF Threads
  <2> QED
    BY <1>1, <2>1, <2>2
<1>6. ASSUME NEW u \in threads', Working(u)'
      PROVE  fds[u.fd] = u.on /\ conns'[u.on].to = u.room
  <2>1. CASE u \in threads
    <3>1. fds[u.fd] = u.on /\ conns[u.on].to = u.room
      BY <1>6, <2>1, KeepWorking DEF Attached
    <3>2. u.on \in 1..Len(conns)
      BY <1>3, <2>1 DEF Threads
    <3> QED
      BY <3>1, <3>2 DEF EndsKept
  <2>2. CASE u = [t EXCEPT !.on = fds[t.fd]] /\ fds[t.fd] # 0
    <3>1. u.room = t.room /\ u.fd = t.fd /\ u.on = fds[t.fd]
      BY <1>3, <2>2 DEF Threads
    <3>2. Working(t)'
      BY <1>6, <3>1 DEF Working
    <3>3. fds[t.fd] = t.on /\ conns[t.on].to = t.room
      BY <3>2, KeepWorking DEF Attached
    <3> QED
      BY <1>4, <2>2, <3>1, <3>3 DEF EndsKept
  <2> QED
    BY <1>1, <2>1, <2>2
<1>7. Attached'
  BY <1>6 DEF Attached, Working
<1> QED
  BY <1>5, <1>7

\* recv is called again for a connection that has ended.
LEMMA ReadOnKept ==
    ASSUME ChatInv, NEW t \in threads, ReadOn(t)
    PROVE  ChatInv'
<1>1. UNCHANGED <<alive, dbVars, rooms, conns, fds, cli, said>> /\ RecvAgain(t)
  BY DEF ReadOn
<1>2. EndsKept /\ InsKept /\ OutsKept /\ FdsKept /\ BsKept /\ PoolsKept /\ QueuesKept
  BY <1>1, SameConns, SameFds, SameRooms, Parts DEF RoomsKept
<1>3. threads' \subseteq Threads' /\ Attached'
  BY <1>1, <1>2, AgainKept, Parts
<1>4. Shapes'
  <2>1. UNCHANGED <<rooms, conns, fds, cli, said>>
    BY <1>1
  <2> QED
    BY <1>3, <2>1, Parts DEF Shapes, Members
<1>5. FdsClosed /\ ChattersKept
  BY <1>1, <1>2, SameCli, Parts DEF FdsKept, FdsClosed
<1>6. Len(rooms') \in Nat /\ Len(rooms) =< Len(rooms')
  BY <1>2 DEF BsKept
<1>7. /\ Descriptors' /\ Pools' /\ Queues' /\ Inboxes' /\ Outboxes' /\ Chatting'
  BY <1>2, <1>5, <1>6, KeepDescriptors, KeepPools, KeepQueues, KeepInboxes, KeepOutboxes,
     KeepChatting, Parts
<1>8. RoomInv'
  BY <1>3, <1>4, <1>7 DEF RoomInv
<1>9. TableTyped'
  BY <1>1, Parts DEF TableTyped, dbVars
<1> QED
  BY <1>8, <1>9 DEF ChatInv

\* A thread gets the error of its connection, and ends.
LEMMA ReadFailsKept ==
    ASSUME ChatInv, NEW t \in threads, ReadFails(t)
    PROVE  ChatInv'
<1> DEFINE k == t.on
           x == [conns[k] EXCEPT !.err = "pipe"]
<1>1. /\ UNCHANGED <<alive, dbVars, rooms, fds, cli, said>> /\ threads' \subseteq threads
      /\ conns' = [conns EXCEPT ![k] = x]
  BY DEF ReadFails
<1>2. k \in 1..Len(conns)
  BY Parts DEF Shapes, Threads
<1>3. conns[k] \in Connections
  BY <1>2, LenTypes, Parts
<1>4. /\ x \in Connections /\ x.to = conns[k].to /\ x.fd = conns[k].fd
      /\ x.out = conns[k].out /\ x.in = conns[k].in
  BY <1>3 DEF Connections
<1> HIDE DEF x, k
<1>5. EndsKept /\ InsKept /\ OutsKept
  BY <1>1, <1>2, <1>4, QuietConn, Parts
<1>6. RoomsKept /\ FdsKept /\ ChattersKept
  BY <1>1, <1>5, SameRooms, SameFds, SameCli, Parts
<1>7. DBlock' \in 0..Len(conns') /\ alive' \in BOOLEAN /\ UNCHANGED <<chatDB, lastport>>
  BY <1>1, <1>5, LockTyped, Parts DEF TableTyped, dbVars
<1> QED
  BY <1>1, <1>5, <1>6, <1>7, KeptAll

-----------------------------------------------------------------------------
(* What is said and heard *)

\* The queue of a room grows.
LEMMA QueueGrows ==
    ASSUME Shapes, Queues, EndsKept, NEW r \in 1..Len(rooms), NEW q \in Items,
           NEW x \in ChatRooms, rooms' = [rooms EXCEPT ![r] = x],
           x.bs = rooms[r].bs, x.pool = rooms[r].pool,
           x.queue = Append(rooms[r].queue, q),
           rooms[r].bs # "ended" => SaidIn(r, q)
    PROVE  BsKept /\ PoolsKept /\ Queues'
<1>1. /\ rooms' = [j \in DOMAIN rooms |-> rooms'[j]]
      /\ rooms'[r] = x
      /\ \A j \in 1..Len(rooms) : j # r => rooms'[j] = rooms[j]
  BY LenTypes
<1>2. \A j \in 1..Len(rooms) : rooms'[j] \in ChatRooms
  BY <1>1, LenTypes
<1>3. rooms \in Seq(ChatRooms) /\ rooms[r] \in ChatRooms
  BY LenTypes DEF Shapes
<1>4. rooms' \in Seq(ChatRooms) /\ Len(rooms') = Len(rooms)
  BY <1>1, <1>2, <1>3, SameTyped
<1>5. BsKept /\ PoolsKept
  BY <1>1, <1>4, LenTypes DEF BsKept, PoolsKept
<1>6. ASSUME NEW h \in 1..Len(rooms), rooms'[h].bs # "ended",
             NEW i \in DOMAIN rooms'[h].queue, NEW p, p = rooms'[h].queue[i]
      PROVE  SaidIn(h, p)'
  <2>1. rooms[h].bs # "ended"
    BY <1>5, <1>6 DEF BsKept
  <2>2. CASE h # r
    <3>1. rooms'[h] = rooms[h]
      BY <1>1, <2>2
    <3>2. SaidIn(h, p)
      BY <1>6, <2>1, <3>1 DEF Queues
    <3> QED
      BY <3>2, KeepSaid
  <2>3. CASE h = r
    <3>1. rooms[r].queue \in Seq(Items)
      BY <1>3 DEF ChatRooms
    <3>2. /\ Len(rooms[r].queue) \in Nat
          /\ DOMAIN rooms[r].queue = 1..Len(rooms[r].queue)
          /\ DOMAIN x.queue = 1..(Len(rooms[r].queue) + 1)
          /\ x.queue[Len(rooms[r].queue) + 1] = q
          /\ \A j \in 1..Len(rooms[r].queue) : x.queue[j] = rooms[r].queue[j]
      BY <3>1, AppendTyped
    <3>3. i \in DOMAIN x.queue /\ p = x.queue[i]
      BY <1>1, <1>6, <2>3
    <3>4. CASE i \in 1..Len(rooms[r].queue)
      <4>1. SaidIn(h, p)
        BY <2>1, <2>3, <3>2, <3>3, <3>4 DEF Queues
      <4> QED
        BY <4>1, KeepSaid
    <3>5. CASE i = Len(rooms[r].queue) + 1
      <4>1. SaidIn(h, p)
        BY <2>1, <2>3, <3>2, <3>3, <3>5
      <4> QED
        BY <4>1, KeepSaid
    <3> QED
      BY <3>2, <3>3, <3>4, <3>5
  <2> QED
    BY <2>2, <2>3
<1>7. Queues'
  <2> SUFFICES ASSUME NEW h \in 1..Len(rooms), rooms'[h].bs # "ended",
                      NEW i \in DOMAIN rooms'[h].queue
               PROVE  LET p == rooms[h].queue[i] IN SaidIn(h, p)'
    BY <1>4 DEF Queues
  <2>1. PICK p : p = rooms'[h].queue[i]
    OBVIOUS
  <2>2. SaidIn(h, p)'
    BY <1>6, <2>1
  <2> QED
    BY <2>1, <2>2 DEF SaidIn
<1> QED
  BY <1>5, <1>7

\* The farewell is queued.
LEMMA FarewellKept ==
    ASSUME ChatInv, NEW r \in DOMAIN rooms, Farewell(r)
    PROVE  ChatInv'
<1> DEFINE x == [rooms[r] EXCEPT !.queue = Append(@, [msg |-> Goodbye, fd |-> -1]),
                                 !.awaiter = "sleeping"]
<1>1. UNCHANGED <<alive, dbVars, conns, fds, threads, cli, said>>
      /\ rooms' = [rooms EXCEPT ![r] = x]
  BY DEF Farewell
<1>2. r \in 1..Len(rooms) /\ rooms[r] \in ChatRooms
  BY LenTypes, Parts
<1>3. PICK q : q = [msg |-> Goodbye, fd |-> -1]
  OBVIOUS
<1>4. q \in Items /\ SaidIn(r, q)
  BY <1>3 DEF Items, Texts, Messages, Goodbye, SaidIn
<1>5. Append(rooms[r].queue, q) \in Seq(Items)
  <2>1. rooms[r].queue \in Seq(Items)
    BY <1>2 DEF ChatRooms
  <2> QED
    BY <1>4, <2>1, AppendTyped
<1>6. /\ x \in ChatRooms /\ x.bs = rooms[r].bs /\ x.pool = rooms[r].pool
      /\ x.queue = Append(rooms[r].queue, q)
  BY <1>2, <1>3, <1>5 DEF ChatRooms
<1> HIDE DEF x
<1>7. EndsKept /\ InsKept /\ OutsKept /\ FdsKept /\ ChattersKept
  BY <1>1, SameConns, SameFds, SameCli, Parts
<1>8. BsKept /\ PoolsKept /\ Queues'
  BY <1>1, <1>2, <1>4, <1>6, <1>7, QueueGrows, Parts
<1>9. Len(rooms') \in Nat /\ Len(rooms) =< Len(rooms') /\ threads' \subseteq threads
  BY <1>1, <1>8 DEF BsKept
<1>10. FdsClosed
  BY <1>7 DEF FdsKept, FdsClosed
<1>11. /\ Descriptors' /\ Attached' /\ Pools' /\ Inboxes' /\ Outboxes' /\ Chatting'
       /\ threads' \subseteq Threads'
  BY <1>7, <1>8, <1>9, <1>10, KeepDescriptors, KeepAttached, KeepPools, KeepInboxes,
     KeepOutboxes, KeepChatting, KeepThreads, Parts
<1>12. Shapes'
  <2>1. said' \in Nat
    BY <1>1, Parts DEF Shapes
  <2> QED
    BY <1>7, <1>8, <1>11, <2>1 DEF Shapes, EndsKept, BsKept, FdsKept, ChattersKept
<1>13. RoomInv'
  BY <1>8, <1>11, <1>12 DEF RoomInv
<1>14. DBlock' \in 0..Len(conns') /\ alive' \in BOOLEAN /\ UNCHANGED <<chatDB, lastport>>
  BY <1>1, <1>7, LockTyped, Parts DEF TableTyped, dbVars
<1>15. TableTyped'
  BY <1>7, <1>9, <1>14, KeepTable, Parts
<1> QED
  BY <1>13, <1>15 DEF ChatInv

\* Something arrives on a connection that is of its kind.
LEMMA ArriveKept ==
    ASSUME ChatInv, NEW k \in 1..Len(conns), NEW x \in Connections,
           conns' = [conns EXCEPT ![k] = x],
           x.to = conns[k].to, x.fd = conns[k].fd, x.out = conns[k].out,
           \A i \in DOMAIN x.in : IF x.to = 0 THEN x.in[i] \in Commands
                                  ELSE x.in[i] \in Messages /\ x.in[i].by = k,
           UNCHANGED <<alive, dbVars, rooms, fds, threads>>, said' \in Nat,
           EndsKept => ChattersKept
    PROVE  ChatInv'
<1>1. /\ EndsKept
      /\ Len(conns') = Len(conns)
      /\ conns'[k] = x
      /\ \A j \in 1..Len(conns) : j # k => conns'[j] = conns[j]
  BY ChangeConn, Parts
<1>2. OutsKept
  BY <1>1 DEF OutsKept
<1>3. FdsKept /\ RoomsKept /\ ChattersKept /\ FdsClosed
  BY <1>1, SameFds, SameRooms, Parts DEF FdsKept, FdsClosed
<1>4. BsKept /\ PoolsKept /\ QueuesKept
  BY <1>3 DEF RoomsKept
<1>5. Len(rooms') \in Nat /\ Len(rooms) =< Len(rooms') /\ threads' \subseteq threads
  BY <1>4 DEF BsKept
<1>6. Inboxes'
  <2>1. ASSUME NEW j \in 1..Len(conns)
        PROVE  /\ conns'[j].to =< Len(rooms)
               /\ \A i \in DOMAIN conns'[j].in :
                    IF conns'[j].to = 0 THEN conns'[j].in[i] \in Commands
                    ELSE conns'[j].in[i] \in Messages /\ conns'[j].in[i].by = j
    <3>1. CASE j # k
      <4>1. conns'[j] = conns[j]
        BY <1>1, <3>1
      <4> QED
        BY <4>1, Parts DEF Inboxes
    <3>2. CASE j = k
      <4>1. conns[k].to =< Len(rooms)
        BY Parts DEF Inboxes
      <4> QED
        BY <1>1, <3>2, <4>1
    <3> QED
      BY <3>1, <3>2
  <2> QED
    BY <1>1, <2>1 DEF Inboxes, Commands, Messages
<1>7. /\ Descriptors' /\ Attached' /\ Pools' /\ Queues' /\ Outboxes' /\ Chatting'
      /\ threads' \subseteq Threads'
  BY <1>1, <1>2, <1>3, <1>4, <1>5, KeepDescriptors, KeepAttached, KeepPools,
     KeepQueues, KeepOutboxes, KeepChatting, KeepThreads, Parts
<1>8. Shapes'
  BY <1>1, <1>3, <1>4, <1>7 DEF Shapes, EndsKept, BsKept, FdsKept, ChattersKept
<1>9. RoomInv'
  BY <1>6, <1>7, <1>8 DEF RoomInv
<1>10. DBlock' \in 0..Len(conns') /\ alive' \in BOOLEAN /\ UNCHANGED <<chatDB, lastport>>
  BY <1>1, LockTyped, Parts DEF TableTyped, dbVars
<1>11. TableTyped'
  BY <1>1, <1>5, <1>10, KeepTable, Parts
<1> QED
  BY <1>9, <1>11 DEF ChatInv

\* A member says something to the room it is connected to.
LEMMA SayKept ==
    ASSUME ChatInv, NEW c \in Clients, Say(c)
    PROVE  ChatInv'
<1> DEFINE k == cli[c].conn
           m == [by |-> k, n |-> said + 1]
           x == [conns[k] EXCEPT !.in = Append(@, m)]
<1>1. /\ UNCHANGED <<alive, dbVars, rooms, fds, threads, cli>>
      /\ said' = said + 1
      /\ conns' = [conns EXCEPT ![k] = x]
  BY DEF Say
<1>2. k \in 1..Len(conns) /\ conns[k].to # 0
  BY Parts DEF Say, Chatting
<1>3. conns[k] \in Connections /\ said \in Nat
  BY <1>2, LenTypes, Parts DEF Shapes
<1>4. m \in Messages /\ m \in Texts /\ m.by = k
  BY <1>2, <1>3, LenTypes, Parts DEF Messages, Texts
<1>5. conns[k].in \in Seq(Texts)
  BY <1>3 DEF Connections
<1> HIDE DEF m
<1>6. /\ Append(conns[k].in, m) \in Seq(Texts)
      /\ Len(conns[k].in) \in Nat
      /\ DOMAIN Append(conns[k].in, m) = 1..(Len(conns[k].in) + 1)
      /\ \A i \in 1..Len(conns[k].in) : Append(conns[k].in, m)[i] = conns[k].in[i]
      /\ Append(conns[k].in, m)[Len(conns[k].in) + 1] = m
  BY SMTT(20), <1>4, <1>5, AppendTyped
<1>7. /\ x \in Connections /\ x.to = conns[k].to /\ x.fd = conns[k].fd
      /\ x.out = conns[k].out /\ x.in = Append(conns[k].in, m)
  BY <1>3, <1>6 DEF Connections
<1>8. ASSUME NEW i \in 1..(Len(conns[k].in) + 1)
      PROVE  Append(conns[k].in, m)[i] \in Messages /\ Append(conns[k].in, m)[i].by = k
  <2>1. CASE i \in 1..Len(conns[k].in)
    <3>1. i \in DOMAIN conns[k].in
      BY <1>5, <2>1
    <3> QED
      BY <1>2, <1>6, <2>1, <3>1, Parts DEF Inboxes
  <2>2. CASE i = Len(conns[k].in) + 1
    BY <1>4, <1>6, <2>2
  <2> QED
    BY <1>6, <2>1, <2>2
<1>9. \A i \in DOMAIN x.in : x.in[i] \in Messages /\ x.in[i].by = k
  <2> HIDE DEF x, k
  <2> QED
    BY <1>6, <1>7, <1>8
<1> HIDE DEF x, k
<1>10. said' \in Nat /\ (EndsKept => ChattersKept)
  BY <1>1, <1>3, SameCli, Parts
<1> QED
  BY <1>1, <1>2, <1>7, <1>9, <1>10, ArriveKept

\* A client enters a command on its connection to the base port.
LEMMA CommandKept ==
    ASSUME ChatInv, NEW c \in Clients, Command(c)
    PROVE  ChatInv'
<1> DEFINE k == cli[c].conn
<1>1. UNCHANGED <<alive, dbVars, rooms, fds, threads, said>> /\ Become(c, "asked", k, 0)
  BY DEF Command
<1>2. k \in 1..Len(conns) /\ conns[k].to = 0
  BY Parts DEF Command, Chatting
<1>3. PICK cmd \in {"CREATE", "DELETE", "JOIN"}, name \in Names :
        conns' = [conns EXCEPT ![k].in = <<[cmd |-> cmd, name |-> name]>>]
  BY DEF Command
<1> DEFINE in == <<[cmd |-> cmd, name |-> name]>>
           x == [conns[k] EXCEPT !.in = in]
<1>4. in \in Seq(Texts) /\ \A i \in DOMAIN in : in[i] \in Commands
  <2>1. [cmd |-> cmd, name |-> name] \in Commands
    BY DEF Commands
  <2> QED
    BY <2>1 DEF Texts
<1>5. conns' = [conns EXCEPT ![k] = x]
  BY <1>3
<1> HIDE DEF in
<1>6. conns[k] \in Connections
  BY <1>2, LenTypes, Parts
<1>7. /\ x \in Connections /\ x.to = conns[k].to /\ x.fd = conns[k].fd
      /\ x.out = conns[k].out /\ x.in = in
  BY <1>4, <1>6 DEF Connections
<1> HIDE DEF x, k
<1>8. ASSUME EndsKept PROVE ChattersKept
  <2>1. k \in 0..Len(conns')
    BY <1>2, <1>8, LenTypes, Parts DEF EndsKept
  <2> QED
    BY <1>1, <1>8, <2>1, BecomeKept, Parts
<1>9. said' \in Nat
  BY <1>1, Parts DEF Shapes
<1> QED
  BY <1>1, <1>2, <1>4, <1>5, <1>7, <1>8, <1>9, ArriveKept

\* A thread of a working room passes on what a member of the room said.
LEMMA ReadKept ==
    ASSUME ChatInv, NEW t \in threads, Read(t)
    PROVE  ChatInv'
<1> DEFINE k == t.on
           r == t.room
           y == [rooms[r] EXCEPT !.queue = Append(@, [msg |-> conns[k].in[1], fd |-> t.fd])]
<1>1. /\ UNCHANGED <<alive, dbVars, fds, cli, said>>
      /\ rooms' = [rooms EXCEPT ![r] = y]
      /\ RecvAgain(t)
      /\ r # 0 /\ conns[k].in # <<>>
  BY DEF Read
<1>2. k \in 1..Len(conns) /\ t.fd \in 1..MaxConns /\ r \in 1..Len(rooms)
  <2>1. t \in Threads
    BY Parts DEF Shapes
  <2> QED
    BY <1>1, <2>1, LenTypes, Parts DEF Threads
<1>3. conns[k] \in Connections /\ rooms[r] \in ChatRooms
  BY <1>2, LenTypes, Parts
<1>4. conns[k].in \in Seq(Texts) /\ rooms[r].queue \in Seq(Items)
  BY <1>3 DEF Connections, ChatRooms
<1>5. 1 \in DOMAIN conns[k].in /\ conns[k].in[1] \in Texts
  BY <1>1, <1>4
<1>6. PICK q : q = [msg |-> conns[k].in[1], fd |-> t.fd]
  OBVIOUS
<1>7. q \in Items
  BY <1>2, <1>5, <1>6 DEF Items
<1>8. rooms[r].bs # "ended" => SaidIn(r, q)
  <2> SUFFICES ASSUME rooms[r].bs # "ended" PROVE SaidIn(r, q)
    OBVIOUS
  <2>1. fds[t.fd] = k /\ conns[k].to = r
    BY Parts DEF Attached, Working
  <2>2. conns[k].fd = t.fd
    BY <1>2, <2>1, LenTypes, Parts DEF Descriptors
  <2>3. conns[k].in[1].by = k
    BY <1>1, <1>2, <1>5, <2>1, Parts DEF Inboxes
  <2> QED
    BY <1>2, <1>6, <2>1, <2>2, <2>3, BoundsAssumption DEF SaidIn
<1>9. PICK n \in DOMAIN conns[k].in :
        conns' = [conns EXCEPT ![k].in = SubSeq(@, n + 1, Len(@))]
  BY DEF Read
<1> DEFINE x == [conns[k] EXCEPT !.in = SubSeq(@, n + 1, Len(@))]
<1>10. conns' = [conns EXCEPT ![k] = x]
  BY <1>9
<1>11. /\ SubSeq(conns[k].in, n + 1, Len(conns[k].in)) \in Seq(Texts)
       /\ \A i \in DOMAIN SubSeq(conns[k].in, n + 1, Len(conns[k].in)) :
            \E j \in DOMAIN conns[k].in :
              SubSeq(conns[k].in, n + 1, Len(conns[k].in))[i] = conns[k].in[j]
  <2> DEFINE in == conns[k].in
             left == SubSeq(in, n + 1, Len(in))
  <2>1. in \in Seq(Texts) /\ n \in 1..Len(in) /\ Len(in) \in Nat
    BY <1>4
  <2> HIDE DEF in
  <2>2. left \in Seq(Texts) /\ Len(left) = Len(in) - n
        /\ \A i \in 1..(Len(in) - n) : left[i] = in[n + i]
    BY <2>1
  <2> HIDE DEF left
  <2>3. ASSUME NEW i \in DOMAIN left PROVE \E j \in DOMAIN in : left[i] = in[j]
    <3>1. i \in 1..(Len(in) - n)
      BY <2>2
    <3>2. n + i \in DOMAIN in /\ left[i] = in[n + i]
      BY <2>1, <2>2, <3>1
    <3> QED
      BY <3>2
  <2> QED
    BY <2>2, <2>3 DEF left, in
<1>12. /\ x \in Connections /\ x.to = conns[k].to /\ x.fd = conns[k].fd
       /\ x.out = conns[k].out
       /\ x.in = SubSeq(conns[k].in, n + 1, Len(conns[k].in))
  BY <1>3, <1>11 DEF Connections
<1>13. Append(rooms[r].queue, q) \in Seq(Items)
  BY <1>4, <1>7, AppendTyped
<1>14. /\ y \in ChatRooms /\ y.bs = rooms[r].bs /\ y.pool = rooms[r].pool
       /\ y.queue = Append(rooms[r].queue, q)
  BY <1>3, <1>6, <1>13 DEF ChatRooms
<1> HIDE DEF x, y, k, r
<1>15. EndsKept /\ InsKept /\ OutsKept
  BY <1>2, <1>10, <1>11, <1>12, QuietConn, Parts
<1>16. BsKept /\ PoolsKept /\ Queues'
  BY <1>1, <1>2, <1>7, <1>8, <1>14, <1>15, QueueGrows, Parts
<1>17. FdsKept /\ ChattersKept /\ FdsClosed
  BY <1>1, <1>15, SameFds, SameCli, Parts DEF FdsKept, FdsClosed
<1>18. threads' \subseteq Threads' /\ Attached'
  BY <1>1, <1>15, <1>16, AgainKept, Parts
<1>19. Len(rooms') \in Nat /\ Len(rooms) =< Len(rooms')
  BY <1>16 DEF BsKept
<1>20. Descriptors' /\ Pools' /\ Inboxes' /\ Outboxes' /\ Chatting'
  BY <1>15, <1>16, <1>17, <1>19, KeepDescriptors, KeepPools, KeepInboxes, KeepOutboxes,
     KeepChatting, Parts
<1>21. Shapes'
  <2>1. said' \in Nat
    BY <1>1, Parts DEF Shapes
  <2> QED
    BY <1>15, <1>16, <1>17, <1>18, <2>1 DEF Shapes, EndsKept, BsKept, FdsKept, ChattersKept
<1>22. RoomInv'
  BY <1>16, <1>18, <1>20, <1>21 DEF RoomInv
<1>23. DBlock' \in 0..Len(conns') /\ alive' \in BOOLEAN /\ UNCHANGED <<chatDB, lastport>>
  BY <1>1, <1>15, LockTyped, Parts DEF TableTyped, dbVars
<1>24. TableTyped'
  BY <1>15, <1>19, <1>23, KeepTable, Parts
<1> QED
  BY <1>22, <1>24 DEF ChatInv

\* One more connection, from which nothing was heard yet.
LEMMA GrowConns ==
    ASSUME Shapes, Inboxes, Outboxes, NEW y \in Connections,
           conns' = Append(conns, y), Len(conns) < MaxConns,
           UNCHANGED rooms, y.to =< Len(rooms), y.out = <<>>,
           \A i \in DOMAIN y.in : y.to = 0 /\ y.in[i] \in Commands
    PROVE  /\ EndsKept
           /\ Inboxes' /\ Outboxes'
           /\ Len(conns') = Len(conns) + 1
           /\ conns'[Len(conns) + 1] = y
<1> DEFINE n == Len(conns)
<1>1. conns \in Seq(Connections) /\ n \in Nat
  BY DEF Shapes
<1>2. /\ conns' \in Seq(Connections) /\ Len(conns') = n + 1
      /\ \A j \in 1..n : conns'[j] = conns[j]
      /\ conns'[n + 1] = y
  BY <1>1, AppendTyped
<1>3. EndsKept
  BY <1>1, <1>2, BoundsAssumption DEF EndsKept
<1> HIDE DEF n
<1>4. ASSUME NEW k \in 1..(n + 1)
      PROVE  /\ conns'[k].to =< Len(rooms)
             /\ \A i \in DOMAIN conns'[k].in :
                  IF conns'[k].to = 0 THEN conns'[k].in[i] \in Commands
                  ELSE conns'[k].in[i] \in Messages /\ conns'[k].in[i].by = k
  <2>1. CASE k \in 1..n
    <3>1. conns'[k] = conns[k]
      BY <1>2, <2>1
    <3> QED
      BY <2>1, <3>1, Parts DEF Inboxes, n
  <2>2. CASE k = n + 1
    BY <1>2, <2>2
  <2>3. k \in 1..n \/ k = n + 1
    BY <1>1
  <2> QED
    BY <2>1, <2>2, <2>3, Zenon
<1>5. Inboxes'
  BY <1>2, <1>4 DEF Inboxes, Commands, Messages
<1>6. Outboxes'
  <2> SUFFICES ASSUME NEW k \in 1..(n + 1), NEW i \in DOMAIN conns'[k].out,
                      NEW m, m = conns'[k].out[i]
               PROVE  Heard(k, m)'
    <3>1. Len(conns') = n + 1
      BY <1>2
    <3> QED
      BY <3>1 DEF Outboxes, Heard
  <2>1. k \in 1..n
    <3>1. k # n + 1
      <4>1. DOMAIN y.out = {}
        OBVIOUS
      <4> QED
        BY <1>2, <4>1
    <3> QED
      BY <1>1, <3>1
  <2>2. conns'[k] = conns[k]
    BY <1>2, <2>1
  <2>3. Heard(k, m)
    BY <2>1, <2>2 DEF Outboxes, n
  <2> QED
    BY <1>3, <2>1, <2>3, KeepHeard DEF n
<1> QED
  BY <1>2, <1>3, <1>5, <1>6 DEF n

\* A client connects to the port it was told, or starts anew.
LEMMA EnterKept ==
    ASSUME ChatInv, NEW c \in Clients, Enter(c)
    PROVE  ChatInv'
<1> DEFINE at == {r \in DOMAIN rooms : rooms[r].port = cli[c].port /\ rooms[r].bs # "none"}
<1>1. UNCHANGED <<alive, dbVars, rooms, fds, threads, said>> /\ Len(conns) < MaxConns
  BY DEF Enter
<1>2. RoomsKept /\ FdsKept /\ FdsClosed
  BY <1>1, SameRooms, SameFds, Parts DEF FdsKept, FdsClosed
<1>3. BsKept /\ PoolsKept /\ QueuesKept /\ threads' \subseteq threads /\ alive' \in BOOLEAN
      /\ UNCHANGED <<chatDB, lastport>>
  BY <1>1, <1>2, Parts DEF RoomsKept, dbVars, TableTyped
<1>4. CASE at = {}
  <2>1. Become(c, "home", 0, 0) /\ UNCHANGED conns
    BY <1>4 DEF Enter
  <2>2. EndsKept /\ InsKept /\ OutsKept
    BY <2>1, SameConns, Parts
  <2>3. 0 \in 0..Len(conns')
    BY <2>2, LenTypes, Parts DEF EndsKept
  <2>4. ChattersKept
    BY <2>1, <2>2, <2>3, BecomeKept, Parts
  <2>5. DBlock' \in 0..Len(conns')
    BY <1>1, <2>2, LockTyped DEF dbVars
  <2> QED
    BY <1>1, <1>2, <1>3, <2>2, <2>4, <2>5, KeptAll
<1>5. CASE at # {}
  <2>1. PICK r \in at : conns' = NewConn(c, r) /\ Become(c, "chat", Len(conns) + 1, 0)
    BY <1>5 DEF Enter
  <2>2. r \in 1..Len(rooms) /\ Len(conns) \in Nat /\ Len(rooms) \in Nat
    BY <2>1, LenTypes, Parts
  <2> DEFINE y == [by |-> c, to |-> r, fd |-> 0, up |-> TRUE,
                   err |-> "none", in |-> <<>>, out |-> <<>>]
  <2>3. <<>> \in Seq(Texts) /\ DOMAIN << >> = {}
    OBVIOUS
  <2>4. y \in Connections /\ y.to = r /\ y.in = <<>> /\ y.out = <<>>
    BY <2>2, <2>3 DEF Connections
  <2>5. conns' = Append(conns, y)
    BY <2>1 DEF NewConn
  <2> HIDE DEF y, at
  <2>6. /\ EndsKept /\ Inboxes' /\ Outboxes'
        /\ Len(conns') = Len(conns) + 1
        /\ conns'[Len(conns) + 1] = y
    <3>1. y.to =< Len(rooms)
      BY <2>2, <2>4
    <3>2. UNCHANGED rooms
      BY <1>1
    <3> QED
      BY <1>1, <2>3, <2>4, <2>5, <3>1, <3>2, GrowConns, Parts
  <2>7. cli' \in [Clients -> Members'] /\ Chatting'
    <3> DEFINE k == Len(conns) + 1
    <3>1. k \in 1..Len(conns') /\ Become(c, "chat", k, 0) /\ conns'[k].to # 0
      BY <2>1, <2>2, <2>4, <2>6
    <3> HIDE DEF k
    <3> QED
      BY <2>6, <3>1, MeetKept, Parts
  <2>8. Len(rooms') \in Nat /\ Len(rooms) =< Len(rooms')
    BY <1>3 DEF BsKept
  <2>9. Descriptors' /\ Attached' /\ Pools' /\ Queues' /\ threads' \subseteq Threads'
    BY <1>2, <1>3, <2>6, <2>8, KeepDescriptors, KeepAttached, KeepPools, KeepQueues,
       KeepThreads, Parts
  <2>10. Shapes'
    <3>1. said' \in Nat
      BY <1>1, Parts DEF Shapes
    <3> QED
      BY <1>2, <1>3, <2>6, <2>7, <2>9, <3>1 DEF Shapes, EndsKept, BsKept, FdsKept
  <2>11. RoomInv'
    BY <2>6, <2>7, <2>9, <2>10 DEF RoomInv
  <2>12. DBlock' \in 0..Len(conns')
    BY <1>1, <2>6, LockTyped DEF dbVars
  <2>13. TableTyped'
    BY <1>3, <2>6, <2>8, <2>12, KeepTable, Parts
  <2> QED
    BY <2>11, <2>13 DEF ChatInv
<1> QED
  BY <1>4, <1>5

-----------------------------------------------------------------------------
(* Descriptors that are opened *)

\* Descriptors that are open stay so.
FdsOpen ==
    /\ fds' \in [1..MaxConns -> Nat]
    /\ \A f \in 1..MaxConns : fds[f] # 0 => fds'[f] = fds[f]

\* A set of numbers has its least.
LEMMA MinIn ==
    ASSUME NEW S \in SUBSET Nat, S # {}
    PROVE  Min(S) \in S
<1>1. PICK w \in S : \A x \in S : ~ (<<x, w>> \in OpToRel(<, Nat))
  BY NatLessThanWellFounded, WFMin
<1>2. ASSUME NEW x \in S PROVE w =< x
  <2>1. x \in Nat /\ w \in Nat
    OBVIOUS
  <2>2. ~ (x < w)
    BY <1>1, <2>1, Zenon DEF OpToRel
  <2> QED
    BY <2>1, <2>2
<1> QED
  BY <1>2 DEF Min

\* There is a descriptor for a connection that has none: there are as many as
\* connections.
LEMMA FreeFd ==
    ASSUME Shapes, Descriptors, NEW k \in 1..MaxConns,
           \A f \in 1..MaxConns : fds[f] # k
    PROVE  NewFd \in 1..MaxConns /\ fds[NewFd] = 0
<1> DEFINE S == 1..MaxConns
           T == S \ {k}
           free == {f \in DOMAIN fds : fds[f] = 0}
<1>1. fds \in [S -> Nat] /\ DOMAIN fds = S
  BY DEF Shapes
<1>2. free # {}
  <2> SUFFICES ASSUME free = {} PROVE FALSE
    OBVIOUS
  <2>1. ASSUME NEW f \in S PROVE fds[f] \in T
    <3>1. fds[f] # 0
      BY <1>1
    <3>2. fds[f] \in 1..Len(conns)
      BY <3>1 DEF Descriptors
    <3> QED
      BY <3>2, LenTypes, BoundsAssumption DEF Shapes
  <2>2. fds \in [S -> T]
    BY <1>1, <2>1
  <2>3. IsFiniteSet(S) /\ Cardinality(S) = MaxConns
    BY FS_Interval, BoundsAssumption
  <2>4. IsFiniteSet(T) /\ Cardinality(T) = MaxConns - 1
    BY <2>3, FS_RemoveElement
  <2>5. Cardinality(T) < Cardinality(S)
    BY <2>3, <2>4, BoundsAssumption
  <2> HIDE DEF S, T
  <2>6. PICK f, g \in S : f # g /\ fds[f] = fds[g]
    BY <2>2, <2>3, <2>4, <2>5, FS_PigeonHole
  <2>7. fds[f] # 0 /\ fds[g] # 0
    BY <1>1
  <2> QED
    BY <2>6, <2>7 DEF Descriptors, S
<1>3. free \subseteq Nat
  BY <1>1
<1>4. Min(free) \in free
  <2> HIDE DEF free
  <2> QED
    BY <1>2, <1>3, MinIn
<1> QED
  BY <1>1, <1>4 DEF NewFd

\* The connection k is given a descriptor.
LEMMA OpenFd ==
    ASSUME Shapes, Descriptors, EndsKept, NEW k \in 1..Len(conns'),
           \A f \in 1..MaxConns : fds[f] # k,
           conns'[k].fd = NewFd, fds' = [fds EXCEPT ![NewFd] = k]
    PROVE  FdsOpen /\ Descriptors' /\ NewFd \in 1..MaxConns /\ fds'[NewFd] = k
<1>1. /\ Len(conns) \in Nat /\ Len(conns') \in Nat
      /\ Len(conns) =< Len(conns') /\ Len(conns') =< MaxConns
  BY LenTypes DEF EndsKept
<1>2. k \in 1..MaxConns /\ k \in Nat
  BY <1>1, BoundsAssumption
<1>3. NewFd \in 1..MaxConns /\ fds[NewFd] = 0
  BY <1>2, FreeFd
<1>4. /\ fds \in [1..MaxConns -> Nat]
      /\ fds' \in [1..MaxConns -> Nat]
      /\ fds'[NewFd] = k
      /\ \A f \in 1..MaxConns : f # NewFd => fds'[f] = fds[f]
  BY <1>2, <1>3 DEF Shapes
<1>5. FdsOpen
  BY <1>3, <1>4 DEF FdsOpen
<1>6. ASSUME NEW f \in 1..MaxConns, fds'[f] # 0
      PROVE  fds'[f] \in 1..Len(conns') /\ conns'[fds'[f]].fd = f
  <2>1. CASE f = NewFd
    BY <1>4, <2>1
  <2>2. CASE f # NewFd
    <3>1. fds'[f] = fds[f]
      BY <1>4, <2>2
    <3>2. fds[f] \in 1..Len(conns) /\ conns[fds[f]].fd = f /\ f # 0
      BY <1>6, <3>1, BoundsAssumption DEF Descriptors
    <3> QED
      BY <1>1, <3>1, <3>2 DEF EndsKept
  <2> QED
    BY <2>1, <2>2
<1> QED
  BY <1>3, <1>4, <1>5, <1>6 DEF Descriptors

\* and a thread that reads from it.
LEMMA OpenThread ==
    ASSUME Shapes, Attached, EndsKept, BsKept, FdsOpen,
           NEW f \in 1..MaxConns, NEW k \in 1..Len(conns'), fds'[f] = k,
           NEW room \in 0..Len(rooms'), conns'[k].to = room,
           threads' = threads \cup {[room |-> room, fd |-> f, on |-> k]}
    PROVE  threads' \subseteq Threads' /\ Attached'
<1>1. /\ Len(conns) \in Nat /\ Len(conns') \in Nat /\ Len(conns) =< Len(conns')
      /\ Len(rooms) \in Nat /\ Len(rooms') \in Nat /\ Len(rooms) =< Len(rooms')
  BY LenTypes DEF EndsKept, BsKept
<1>2. threads \subseteq Threads
  BY DEF Shapes
<1>3. threads' \subseteq Threads'
  BY <1>1, <1>2 DEF Threads
<1>4. ASSUME NEW t \in threads', Working(t)'
      PROVE  fds'[t.fd] = t.on /\ conns'[t.on].to = t.room
  <2>1. CASE t \in threads
    <3>1. fds[t.fd] = t.on /\ conns[t.on].to = t.room
      BY <1>4, <2>1, KeepWorking DEF Attached
    <3>2. t.on \in 1..Len(conns) /\ t.fd \in 1..MaxConns
      BY <1>2, <2>1 DEF Threads
    <3>3. fds'[t.fd] = t.on
      BY <1>1, <3>1, <3>2 DEF FdsOpen
    <3> QED
      BY <3>1, <3>2, <3>3 DEF EndsKept
  <2>2. CASE t = [room |-> room, fd |-> f, on |-> k]
    BY <2>2
  <2> QED
    BY <2>1, <2>2
<1>5. Attached'
  BY <1>4 DEF Attached, Working
<1> QED
  BY <1>3, <1>5

\* Who was in a pool of a working room is still a member.
LEMMA OpenPools ==
    ASSUME Shapes, Descriptors, Pools, EndsKept, FdsOpen,
           NEW r \in 1..Len(rooms), rooms[r].bs # "ended",
           NEW i \in DOMAIN rooms[r].pool
    PROVE  /\ fds'[rooms[r].pool[i]] # 0
           /\ conns'[fds'[rooms[r].pool[i]]].to = r
<1> DEFINE f == rooms[r].pool[i]
<1>1. rooms[r].pool \in Seq(1..MaxConns)
  BY LenTypes DEF ChatRooms
<1>2. f \in 1..MaxConns
  BY <1>1, SeqMember, Zenon
<1>3. fds[f] # 0 /\ conns[fds[f]].to = r
  BY DEF Pools
<1> HIDE DEF f
<1>4. fds'[f] = fds[f] /\ fds[f] \in 1..Len(conns)
  BY <1>2, <1>3 DEF FdsOpen, Descriptors
<1>5. conns'[fds[f]].to = r
  BY <1>3, <1>4 DEF EndsKept
<1> QED
  BY <1>3, <1>4, <1>5 DEF f

\* A connection of commands gets a descriptor and a thread.
LEMMA ConnectKept ==
    ASSUME ChatInv, NEW c \in Clients, Connect(c)
    PROVE  ChatInv'
<1> DEFINE n == Len(conns)
           k == n + 1
<1>1. UNCHANGED <<alive, dbVars, rooms, said>> /\ k =< MaxConns
      /\ fds' = [fds EXCEPT ![NewFd] = k]
      /\ threads' = threads \cup {[room |-> 0, fd |-> NewFd, on |-> k]}
      /\ Become(c, "prompt", k, 0)
  BY DEF Connect
<1>2. conns' = [NewConn(c, 0) EXCEPT ![k].fd = NewFd]
  BY DEF Connect
<1>3. n \in Nat /\ conns \in Seq(Connections) /\ Len(rooms) \in Nat
  BY LenTypes, Parts DEF Shapes
<1>4. k \in 1..MaxConns
  BY <1>1, <1>3, BoundsAssumption
<1>5. \A f \in 1..MaxConns : fds[f] # k
  <2> SUFFICES ASSUME NEW f \in 1..MaxConns, fds[f] = k PROVE FALSE
    OBVIOUS
  <2>1. fds[f] \in 1..n
    BY <1>3, Parts DEF Descriptors
  <2> QED
    BY <1>3, <2>1
<1>6. NewFd \in 1..MaxConns
  BY <1>4, <1>5, FreeFd, Parts
<1> DEFINE w == [by |-> c, to |-> 0, fd |-> 0, up |-> TRUE,
                 err |-> "none", in |-> <<>>, out |-> <<>>]
           y == [by |-> c, to |-> 0, fd |-> NewFd, up |-> TRUE,
                 err |-> "none", in |-> <<>>, out |-> <<>>]
<1>8. <<>> \in Seq(Texts) /\ DOMAIN << >> = {}
  OBVIOUS
<1>9. w \in Connections
  BY <1>8 DEF Connections
<1>10. y \in Connections /\ y.to = 0 /\ y.out = <<>> /\ y.in = <<>> /\ y.fd = NewFd
  BY <1>6, <1>8 DEF Connections
<1>11. conns' = Append(conns, y)
  <2> DEFINE a == Append(conns, w)
             b == Append(conns, y)
  <2>1. a = NewConn(c, 0)
    BY DEF NewConn
  <2> HIDE DEF w, y
  <2>2. /\ a \in Seq(Connections) /\ Len(a) = k /\ a[k] = w
        /\ \A j \in 1..n : a[j] = conns[j]
    BY <1>3, <1>9, AppendTyped
  <2>3. /\ b \in Seq(Connections) /\ Len(b) = k /\ b[k] = y
        /\ \A j \in 1..n : b[j] = conns[j]
    BY <1>3, <1>10, AppendTyped
  <2> HIDE DEF a, b
  <2>4. conns' = [a EXCEPT ![k] = [a[k] EXCEPT !.fd = NewFd]]
    BY <1>2, <1>3, <2>1, <2>2
  <2>5. [w EXCEPT !.fd = NewFd] = y
    <3>1. /\ w.by = c /\ w.to = 0 /\ w.up = TRUE /\ w.err = "none" /\ w.in = <<>> /\ w.out = <<>>
          /\ y.by = c /\ y.to = 0 /\ y.up = TRUE /\ y.err = "none" /\ y.out = <<>>
          /\ y.fd = NewFd /\ y.in = <<>>
      BY DEF w, y
    <3> HIDE DEF k
    <3> QED
      BY <1>6, <1>9, <1>10, <3>1 DEF Connections
  <2>6. conns' = [j \in 1..k |-> IF j = k THEN y ELSE a[j]]
    <3>1. conns' = [a EXCEPT ![k] = y]
      BY <2>2, <2>4, <2>5
    <3>2. DOMAIN a = 1..k
      BY <2>2
    <3>3. a = [j \in 1..k |-> a[j]]
      BY <2>2, <3>2
    <3> HIDE DEF k
    <3> QED
      BY <3>1, <3>2, <3>3
  <2>7. b = [j \in 1..k |-> b[j]]
    BY <1>3, <2>3
  <2>8. \A j \in 1..k : b[j] = IF j = k THEN y ELSE a[j]
    BY <1>3, <2>2, <2>3
  <2>9. conns' = b
    BY <2>6, <2>7, <2>8
  <2> QED
    BY <2>9 DEF b
<1> HIDE DEF y
<1>12. /\ EndsKept /\ Inboxes' /\ Outboxes'
       /\ Len(conns') = Len(conns) + 1
       /\ conns'[k] = y
  <2>1. UNCHANGED rooms /\ n < MaxConns /\ y.to =< Len(rooms)
    BY <1>1, <1>3, <1>10, BoundsAssumption
  <2> QED
    BY <1>8, <1>10, <1>11, <2>1, GrowConns, Parts
<1>13. k \in 1..Len(conns')
  BY <1>3, <1>12
<1>14. FdsOpen /\ Descriptors' /\ fds'[NewFd] = k
  <2> HIDE DEF n
  <2> QED
    BY <1>1, <1>5, <1>10, <1>12, <1>13, OpenFd, Parts
<1>15. RoomsKept /\ BsKept /\ PoolsKept /\ QueuesKept
  BY <1>1, SameRooms, Parts DEF RoomsKept
<1>16. Len(rooms') \in Nat /\ Len(rooms) =< Len(rooms')
  BY <1>15 DEF BsKept
<1>17. threads' \subseteq Threads' /\ Attached'
  <2>1. 0 \in 0..Len(rooms') /\ conns'[k].to = 0
    BY <1>10, <1>12, <1>16
  <2> HIDE DEF k
  <2> QED
    BY <1>1, <1>6, <1>12, <1>13, <1>14, <1>15, <2>1, OpenThread, Parts
<1>18. Pools'
  <2>1. UNCHANGED rooms
    BY <1>1
  <2>2. \A r \in 1..Len(rooms) : rooms[r].bs # "ended" =>
          \A i \in DOMAIN rooms[r].pool :
            /\ fds'[rooms[r].pool[i]] # 0
            /\ conns'[fds'[rooms[r].pool[i]]].to = r
    BY <1>12, <1>14, OpenPools, Parts
  <2> QED
    BY <2>1, <2>2 DEF Pools
<1>19. cli' \in [Clients -> Members'] /\ Chatting'
  <2>1. conns'[k].to = 0
    BY <1>10, <1>12
  <2> HIDE DEF k
  <2> QED
    BY <1>1, <1>12, <1>13, <2>1, MeetKept, Parts
<1>20. Queues'
  BY <1>12, <1>15, KeepQueues, Parts
<1>21. Shapes'
  <2>1. said' \in Nat
    BY <1>1, Parts DEF Shapes
  <2> QED
    BY <1>12, <1>14, <1>15, <1>17, <1>19, <2>1 DEF Shapes, EndsKept, BsKept, FdsOpen
<1>22. RoomInv'
  BY <1>12, <1>14, <1>17, <1>18, <1>19, <1>20, <1>21 DEF RoomInv
<1>23. DBlock' \in 0..Len(conns') /\ alive' \in BOOLEAN /\ UNCHANGED <<chatDB, lastport>>
  BY <1>1, <1>12, LockTyped, Parts DEF TableTyped, dbVars
<1>24. TableTyped'
  BY <1>12, <1>16, <1>23, KeepTable, Parts
<1> QED
  BY <1>22, <1>24 DEF ChatInv

\* A member gets a descriptor, which joins the pool, and a thread.
LEMMA AcceptKept ==
    ASSUME ChatInv, NEW r \in DOMAIN rooms, Accept(r)
    PROVE  ChatInv'
<1> DEFINE k == Min(Backlog(r))
           x == [conns[k] EXCEPT !.fd = NewFd]
           y == [rooms[r] EXCEPT !.pool = Append(@, NewFd)]
<1>1. /\ UNCHANGED <<alive, dbVars, cli, said>>
      /\ Backlog(r) # {}
      /\ conns' = [conns EXCEPT ![k] = x]
      /\ fds' = [fds EXCEPT ![NewFd] = k]
      /\ rooms' = [rooms EXCEPT ![r] = y]
      /\ threads' = threads \cup {[room |-> r, fd |-> NewFd, on |-> k]}
  BY DEF Accept
<1>2. Backlog(r) \subseteq 1..Len(conns) /\ Backlog(r) \subseteq Nat
  BY LenTypes, Parts DEF Backlog
<1>3. k \in Backlog(r)
  BY <1>1, <1>2, MinIn
<1>4. k \in 1..Len(conns) /\ conns[k].to = r /\ conns[k].fd = 0
  BY <1>2, <1>3 DEF Backlog
<1>5. r \in 1..Len(rooms) /\ rooms[r] \in ChatRooms /\ conns[k] \in Connections
  BY <1>4, LenTypes, Parts
<1> HIDE DEF k
<1>6. \A f \in 1..MaxConns : fds[f] # k
  BY <1>4, BoundsAssumption, Parts DEF Descriptors
<1>7. NewFd \in 1..MaxConns /\ NewFd \in Nat
  <2>1. k \in 1..MaxConns
    BY <1>4, LenTypes, BoundsAssumption, Parts DEF Shapes
  <2> QED
    BY <1>6, <2>1, FreeFd, Parts
<1>8. /\ x \in Connections /\ x.to = conns[k].to /\ x.fd = NewFd
      /\ x.in = conns[k].in /\ x.out = conns[k].out
  BY <1>5, <1>7 DEF Connections
<1>9. rooms[r].pool \in Seq(1..MaxConns)
  BY <1>5 DEF ChatRooms
<1>10. /\ Append(rooms[r].pool, NewFd) \in Seq(1..MaxConns)
       /\ Len(rooms[r].pool) \in Nat
       /\ DOMAIN rooms[r].pool = 1..Len(rooms[r].pool)
       /\ DOMAIN Append(rooms[r].pool, NewFd) = 1..(Len(rooms[r].pool) + 1)
       /\ \A i \in 1..Len(rooms[r].pool) :
            Append(rooms[r].pool, NewFd)[i] = rooms[r].pool[i]
       /\ Append(rooms[r].pool, NewFd)[Len(rooms[r].pool) + 1] = NewFd
  BY <1>7, <1>9, AppendTyped
<1>11. /\ y \in ChatRooms /\ y.bs = rooms[r].bs /\ y.queue = rooms[r].queue
       /\ y.pool = Append(rooms[r].pool, NewFd)
  BY <1>5, <1>10 DEF ChatRooms
<1> HIDE DEF x, y
<1>12. /\ EndsKept
       /\ Len(conns') = Len(conns)
       /\ conns'[k] = x
       /\ \A j \in 1..Len(conns) : j # k => conns'[j] = conns[j]
  BY <1>1, <1>4, <1>8, ChangeConn, Parts
<1>13. InsKept /\ OutsKept
  BY <1>8, <1>12 DEF InsKept, OutsKept
<1>14. FdsOpen /\ Descriptors' /\ fds'[NewFd] = k
  BY <1>1, <1>4, <1>6, <1>8, <1>12, OpenFd, Parts
<1>15. /\ rooms' \in Seq(ChatRooms) /\ Len(rooms') = Len(rooms)
       /\ rooms'[r] = y
       /\ \A h \in 1..Len(rooms) : h # r => rooms'[h] = rooms[h]
  <2>1. /\ rooms' = [h \in DOMAIN rooms |-> rooms'[h]]
        /\ rooms'[r] = y
        /\ \A h \in 1..Len(rooms) : h # r => rooms'[h] = rooms[h]
    BY <1>1, <1>5, LenTypes, Parts
  <2>2. \A h \in 1..Len(rooms) : rooms'[h] \in ChatRooms
    BY <1>11, <2>1, LenTypes, Parts
  <2>3. rooms \in Seq(ChatRooms)
    BY Parts DEF Shapes
  <2> QED
    BY <2>1, <2>2, <2>3, SameTyped
<1>16. BsKept /\ QueuesKept
  BY <1>11, <1>15, LenTypes, Parts DEF BsKept, QueuesKept
<1>17. threads' \subseteq Threads' /\ Attached'
  <2>1. r \in 0..Len(rooms') /\ conns'[k].to = r /\ k \in 1..Len(conns')
    BY <1>4, <1>5, <1>8, <1>12, <1>15
  <2> QED
    BY <1>1, <1>7, <1>12, <1>14, <1>16, <2>1, OpenThread, Parts
<1>18. ASSUME NEW h \in 1..Len(rooms), rooms'[h].bs # "ended",
              NEW i \in DOMAIN rooms'[h].pool, NEW f, f = rooms'[h].pool[i]
       PROVE  fds'[f] # 0 /\ conns'[fds'[f]].to = h
  <2>1. rooms[h].bs # "ended"
    BY <1>16, <1>18 DEF BsKept
  <2>2. ASSUME i \in DOMAIN rooms[h].pool, f = rooms[h].pool[i]
        PROVE  fds'[f] # 0 /\ conns'[fds'[f]].to = h
    BY <1>12, <1>14, <2>1, <2>2, OpenPools, Parts
  <2>3. CASE h # r
    <3>1. rooms'[h] = rooms[h]
      BY <1>15, <2>3
    <3> QED
      BY <1>18, <2>2, <3>1
  <2>4. CASE h = r
    <3>1. rooms'[h].pool = Append(rooms[r].pool, NewFd)
      BY <1>11, <1>15, <2>4
    <3>2. CASE i \in 1..Len(rooms[r].pool)
      BY <1>10, <1>18, <2>2, <2>4, <3>1, <3>2
    <3>3. CASE i = Len(rooms[r].pool) + 1
      <4>1. f = NewFd
        BY <1>10, <1>18, <3>1, <3>3
      <4> QED
        BY <1>4, <1>8, <1>12, <1>14, <2>4, <4>1
    <3> QED
      BY <1>10, <1>18, <3>1, <3>2, <3>3
  <2> QED
    BY <2>3, <2>4
<1>19. Pools'
  BY <1>15, <1>18 DEF Pools
<1>20. ChattersKept
  BY <1>1, <1>12, SameCli, Parts
<1>21. Len(rooms') \in Nat /\ Len(rooms) =< Len(rooms')
  BY <1>16 DEF BsKept
<1>22. Queues' /\ Inboxes' /\ Outboxes' /\ Chatting'
  BY <1>12, <1>13, <1>16, <1>20, <1>21, KeepQueues, KeepInboxes, KeepOutboxes,
     KeepChatting, Parts
<1>23. Shapes'
  <2>1. said' \in Nat
    BY <1>1, Parts DEF Shapes
  <2> QED
    BY <1>12, <1>14, <1>16, <1>17, <1>20, <2>1 DEF Shapes, EndsKept, BsKept, FdsOpen, ChattersKept
<1>24. RoomInv'
  BY <1>14, <1>17, <1>19, <1>22, <1>23 DEF RoomInv
<1>25. DBlock' \in 0..Len(conns') /\ alive' \in BOOLEAN /\ UNCHANGED <<chatDB, lastport>>
  BY <1>1, <1>12, LockTyped, Parts DEF TableTyped, dbVars
<1>26. TableTyped'
  BY <1>12, <1>21, <1>25, KeepTable, Parts
<1> QED
  BY <1>24, <1>26 DEF ChatInv

-----------------------------------------------------------------------------
(* What bs_daemon sends *)

\* What a member of the room said is heard by the others.
LEMMA SentHeard ==
    ASSUME Shapes, Descriptors, Pools, EndsKept, NEW r \in 1..Len(rooms),
           rooms[r].bs # "ended", NEW q, SaidIn(r, q),
           NEW i \in DOMAIN rooms[r].pool, rooms[r].pool[i] # q.fd,
           NEW k, k = fds[rooms[r].pool[i]]
    PROVE  Heard(k, q.msg)'
<1> DEFINE f == rooms[r].pool[i]
<1>1. rooms[r].pool \in Seq(1..MaxConns)
  BY LenTypes DEF ChatRooms
<1>2. f \in 1..MaxConns
  BY <1>1, SeqMember, Zenon
<1>3. k # 0 /\ conns[k].to = r
  BY DEF Pools
<1> HIDE DEF f
<1>4. k \in 1..Len(conns) /\ conns[k].fd = f
  BY <1>2, <1>3 DEF Descriptors, f
<1>5. Heard(k, q.msg)
  BY <1>3, <1>4 DEF SaidIn, Heard, f
<1>6. PICK m : m = q.msg
  OBVIOUS
<1>7. Heard(k, m)'
  BY <1>4, <1>5, <1>6, KeepHeard
<1> QED
  BY <1>6, <1>7

\* The farewell closes descriptors of the room's own members only.
LEMMA ClosePool ==
    ASSUME Shapes, Descriptors, Attached, Pools, EndsKept, BsKept, PoolsKept,
           NEW r \in 1..Len(rooms), rooms[r].bs # "ended",
           threads' = threads, Len(rooms') = Len(rooms), rooms'[r].bs = "ended",
           fds' = [f \in DOMAIN fds |-> IF f \in ToSet(rooms[r].pool) THEN 0 ELSE fds[f]]
    PROVE  FdsClosed /\ Attached' /\ Pools'
<1>1. /\ fds \in [1..MaxConns -> Nat] /\ threads \subseteq Threads
      /\ Len(conns) \in Nat /\ Len(rooms) \in Nat
  BY LenTypes DEF Shapes
<1>2. FdsClosed
  BY <1>1 DEF FdsClosed
<1>3. ASSUME NEW f \in 1..MaxConns, f \in ToSet(rooms[r].pool)
      PROVE  conns[fds[f]].to = r
  BY <1>3 DEF ToSet, Pools
<1>4. ASSUME NEW f \in 1..MaxConns, fds'[f] # fds[f]
      PROVE  conns[fds[f]].to = r
  BY <1>1, <1>3, <1>4
<1>5. ASSUME NEW t \in threads, Working(t)'
      PROVE  fds'[t.fd] = t.on /\ conns'[t.on].to = t.room
  <2>1. fds[t.fd] = t.on /\ conns[t.on].to = t.room
    BY <1>5, KeepWorking DEF Attached
  <2>2. t.on \in 1..Len(conns) /\ t.fd \in 1..MaxConns /\ t.room \in 0..Len(rooms)
    BY <1>1 DEF Threads
  <2>3. fds'[t.fd] = fds[t.fd]
    <3> SUFFICES ASSUME fds'[t.fd] # fds[t.fd] PROVE FALSE
      OBVIOUS
    <3>1. t.room = r
      BY <1>4, <2>1, <2>2
    <3> QED
      BY <1>5, <3>1 DEF Working
  <2> QED
    BY <2>1, <2>2, <2>3 DEF EndsKept
<1>6. Attached'
  BY <1>5 DEF Attached, Working
<1>7. ASSUME NEW h \in 1..Len(rooms), rooms'[h].bs # "ended",
             NEW i \in DOMAIN rooms'[h].pool
      PROVE  fds'[rooms'[h].pool[i]] # 0 /\ conns'[fds'[rooms'[h].pool[i]]].to = h
  <2>1. rooms[h].bs # "ended" /\ rooms'[h].pool = rooms[h].pool
    BY <1>1, <1>7 DEF BsKept, PoolsKept
  <2> DEFINE f == rooms[h].pool[i]
  <2>2. f \in 1..MaxConns
    <3>1. rooms[h].pool \in Seq(1..MaxConns)
      BY LenTypes DEF ChatRooms
    <3>2. i \in DOMAIN rooms[h].pool
      BY <2>1
    <3> QED
      BY <3>1, <3>2, SeqMember, Zenon
  <2>3. fds[f] # 0 /\ conns[fds[f]].to = h
    BY <2>1 DEF Pools
  <2> HIDE DEF f
  <2>4. fds'[f] = fds[f]
    BY <1>4, <1>7, <2>2, <2>3
  <2>5. fds[f] \in 1..Len(conns)
    BY <2>2, <2>3 DEF Descriptors
  <2>6. conns'[fds[f]].to = h
    BY <2>3, <2>5 DEF EndsKept
  <2> QED
    BY <2>1, <2>3, <2>4, <2>6 DEF f
<1>8. Pools'
  BY <1>7 DEF Pools
<1> QED
  BY <1>2, <1>6, <1>8

\* The queue of a room gives its first message.
LEMMA QueueShrinks ==
    ASSUME Shapes, Queues, EndsKept, NEW r \in 1..Len(rooms), NEW x \in ChatRooms,
           rooms' = [rooms EXCEPT ![r] = x], rooms[r].bs # "ended",
           x.pool = rooms[r].pool, rooms[r].queue # <<>>, x.queue = Tail(rooms[r].queue)
    PROVE  BsKept /\ PoolsKept /\ Queues' /\ Len(rooms') = Len(rooms)
<1>1. /\ rooms' = [j \in DOMAIN rooms |-> rooms'[j]]
      /\ rooms'[r] = x
      /\ \A j \in 1..Len(rooms) : j # r => rooms'[j] = rooms[j]
  BY LenTypes
<1>2. \A j \in 1..Len(rooms) : rooms'[j] \in ChatRooms
  BY <1>1, LenTypes
<1>3. rooms \in Seq(ChatRooms) /\ rooms[r] \in ChatRooms
  BY LenTypes DEF Shapes
<1>4. rooms' \in Seq(ChatRooms) /\ Len(rooms') = Len(rooms)
  BY <1>1, <1>2, <1>3, SameTyped
<1>5. BsKept /\ PoolsKept
  BY <1>1, <1>4, LenTypes DEF BsKept, PoolsKept
<1>6. ASSUME NEW h \in 1..Len(rooms), rooms'[h].bs # "ended",
             NEW i \in DOMAIN rooms'[h].queue, NEW p, p = rooms'[h].queue[i]
      PROVE  SaidIn(h, p)
  <2>1. rooms[h].bs # "ended"
    BY <1>5, <1>6 DEF BsKept
  <2>2. CASE h # r
    <3>1. rooms'[h] = rooms[h]
      BY <1>1, <2>2
    <3> QED
      BY <1>6, <2>1, <3>1 DEF Queues
  <2>3. CASE h = r
    <3> DEFINE q == rooms[r].queue
               left == Tail(q)
    <3>1. q \in Seq(Items) /\ q # <<>>
      BY <1>3 DEF ChatRooms
    <3> HIDE DEF q
    <3>2. /\ Len(q) \in Nat /\ DOMAIN q = 1..Len(q)
          /\ left \in Seq(Items) /\ Len(left) = Len(q) - 1
          /\ \A j \in 1..(Len(q) - 1) : left[j] = q[j + 1]
      BY <3>1
    <3>3. rooms'[h].queue = left
      BY <1>1, <2>3 DEF q
    <3> HIDE DEF left
    <3>4. i \in 1..(Len(q) - 1)
      BY <1>6, <3>2, <3>3
    <3>5. i + 1 \in DOMAIN q /\ p = q[i + 1]
      BY <1>6, <3>2, <3>3, <3>4
    <3> QED
      BY <2>1, <2>3, <3>5 DEF Queues, q
  <2> QED
    BY <2>2, <2>3
<1>7. Queues'
  <2> SUFFICES ASSUME NEW h \in 1..Len(rooms), rooms'[h].bs # "ended",
                      NEW i \in DOMAIN rooms'[h].queue
               PROVE  LET p == rooms[h].queue[i] IN SaidIn(h, p)'
    BY <1>4 DEF Queues
  <2>1. PICK p : p = rooms'[h].queue[i]
    OBVIOUS
  <2>2. SaidIn(h, p)
    BY <1>6, <2>1
  <2>3. SaidIn(h, p)'
    BY <2>2, KeepSaid
  <2> QED
    BY <2>1, <2>3 DEF SaidIn
<1> QED
  BY <1>4, <1>5, <1>7

\* The members before the one that fails, or all, hear the next message but the
\* sender; nothing is closed.
LEMMA BroadcastKept ==
    ASSUME ChatInv, NEW r \in DOMAIN rooms, Broadcast(r)
    PROVE  ChatInv'
<1> DEFINE pool == rooms[r].pool
           next == Head(rooms[r].queue)
           others == {i \in DOMAIN pool : pool[i] # next.fd}
           failing == {i \in others : SendFails(pool[i])}
           sent == {fds[pool[i]] : i \in {j \in others : \A i \in failing : j < i}}
           hit == IF failing = {} THEN 0 ELSE fds[pool[Min(failing)]]
           bs == IF failing # {} THEN "ended"
                 ELSE IF next.msg = Goodbye THEN "closing" ELSE rooms[r].bs
           x == [rooms[r] EXCEPT !.queue = Tail(rooms[r].queue), !.bs = bs]
           heard(k) == [conns[k] EXCEPT !.out = Append(@, next.msg),
                                        !.err = IF conns[k].up THEN @ ELSE "pipe"]
           failed(k) == [conns[k] EXCEPT !.err = "pipe"]
<1>1. /\ UNCHANGED <<dbVars, fds, threads, cli, said>>
      /\ rooms[r].bs = "waiting" /\ rooms[r].queue # <<>>
      /\ alive' \in BOOLEAN
      /\ rooms' = [rooms EXCEPT ![r] = x]
      /\ conns' = [k \in DOMAIN conns |-> IF k \in sent THEN heard(k)
                                          ELSE IF k = hit THEN failed(k) ELSE conns[k]]
  BY DEF Broadcast, dequeue_msg
<1>2. r \in 1..Len(rooms) /\ rooms[r] \in ChatRooms
  BY LenTypes, Parts
<1>3. rooms[r].queue \in Seq(Items)
  BY <1>2 DEF ChatRooms
<1>4. /\ 1 \in DOMAIN rooms[r].queue /\ next = rooms[r].queue[1]
      /\ next \in Items /\ Tail(rooms[r].queue) \in Seq(Items)
  <2>1. PICK q \in Seq(Items) : q = rooms[r].queue /\ q # <<>>
    BY <1>1, <1>3
  <2>2. 1 \in DOMAIN q /\ Head(q) = q[1] /\ q[1] \in Items /\ Tail(q) \in Seq(Items)
    BY <2>1
  <2> QED
    BY <2>1, <2>2
<1>5. SaidIn(r, next)
  <2>1. SaidIn(r, rooms[r].queue[1])
    BY <1>1, <1>2, <1>4, Parts DEF Queues
  <2> QED
    BY <1>4, <2>1
<1>6. next.msg \in Texts
  BY <1>4 DEF Items
<1>7. ASSUME NEW k \in sent
      PROVE  \E j \in DOMAIN rooms[r].pool : rooms[r].pool[j] # next.fd /\ k = fds[rooms[r].pool[j]]
  <2> HIDE DEF failing, next
  <2> QED
    BY <1>7
<1>8. bs \in {"waiting", "closing", "ended"}
  <2> HIDE DEF failing
  <2> QED
    BY <1>1
<1> HIDE DEF next, hit, sent, bs
<1>9. ASSUME NEW k \in 1..Len(conns)
      PROVE  /\ conns'[k] \in Connections
             /\ conns'[k].to = conns[k].to /\ conns'[k].fd = conns[k].fd
             /\ conns'[k].in = conns[k].in
             /\ k \notin sent => conns'[k].out = conns[k].out
             /\ k \in sent => conns'[k].out = Append(conns[k].out, next.msg)
  <2>1. conns[k] \in Connections /\ k \in DOMAIN conns
    BY LenTypes, Parts
  <2>2. conns'[k] = IF k \in sent THEN heard(k) ELSE IF k = hit THEN failed(k) ELSE conns[k]
    BY <1>1, <2>1
  <2>3. conns[k].out \in Seq(Texts)
    BY <2>1 DEF Connections
  <2>4. Append(conns[k].out, next.msg) \in Seq(Texts)
    BY <1>6, <2>3, AppendTyped
  <2>5. /\ heard(k) \in Connections /\ heard(k).to = conns[k].to /\ heard(k).fd = conns[k].fd
        /\ heard(k).in = conns[k].in /\ heard(k).out = Append(conns[k].out, next.msg)
    BY <2>1, <2>4 DEF Connections
  <2>6. /\ failed(k) \in Connections /\ failed(k).to = conns[k].to
        /\ failed(k).fd = conns[k].fd /\ failed(k).in = conns[k].in
        /\ failed(k).out = conns[k].out
    BY <2>1 DEF Connections
  <2> HIDE DEF heard, failed
  <2> QED
    BY <2>1, <2>2, <2>5, <2>6
<1>10. conns' \in Seq(Connections) /\ Len(conns') = Len(conns)
  <2>1. conns' = [k \in DOMAIN conns |-> conns'[k]]
    BY <1>1
  <2>2. conns \in Seq(Connections)
    BY Parts DEF Shapes
  <2> HIDE DEF heard, failed
  <2> QED
    BY <1>9, <2>1, <2>2, SameTyped
<1> HIDE DEF heard, failed
<1>11. EndsKept /\ InsKept
  <2>1. \A k \in 1..Len(conns) : /\ conns'[k].to = conns[k].to
                                 /\ conns'[k].fd = conns[k].fd
                                 /\ conns'[k].in = conns[k].in
    BY <1>9
  <2>2. Len(conns) \in Nat /\ Len(conns) =< MaxConns
    BY LenTypes, Parts DEF Shapes
  <2>3. EndsKept
    BY <1>10, <2>1, <2>2 DEF EndsKept
  <2>4. InsKept
    BY <1>10, <2>1 DEF InsKept
  <2> QED
    BY <2>3, <2>4
<1>12. ASSUME NEW k \in 1..Len(conns), NEW i \in DOMAIN conns'[k].out,
              NEW m, m = conns'[k].out[i]
       PROVE  Heard(k, m)'
  <2>1. ASSUME i \in DOMAIN conns[k].out, m = conns[k].out[i]
        PROVE  Heard(k, m)'
    <3>1. Heard(k, m)
      BY <2>1, Parts DEF Outboxes
    <3> QED
      BY <1>11, <3>1, KeepHeard, Parts
  <2>2. CASE k \notin sent
    BY <1>9, <1>12, <2>1, <2>2
  <2>3. CASE k \in sent
    <3>1. conns[k] \in Connections
      BY LenTypes, Parts
    <3>2. conns[k].out \in Seq(Texts)
      BY <3>1 DEF Connections
    <3> DEFINE out == conns[k].out
    <3> HIDE DEF out
    <3>3. /\ Len(out) \in Nat
          /\ DOMAIN out = 1..Len(out)
          /\ DOMAIN Append(out, next.msg) = 1..(Len(out) + 1)
          /\ \A j \in 1..Len(out) : Append(out, next.msg)[j] = out[j]
          /\ Append(out, next.msg)[Len(out) + 1] = next.msg
      BY <1>6, <3>2, AppendTyped DEF out
    <3>4. conns'[k].out = Append(out, next.msg)
      BY <1>9, <2>3 DEF out
    <3>5. CASE i \in 1..Len(out)
      BY <1>12, <2>1, <3>3, <3>4, <3>5 DEF out
    <3>6. CASE i = Len(out) + 1
      <4>1. m = next.msg
        BY <1>12, <3>3, <3>4, <3>6
      <4>2. PICK j \in DOMAIN rooms[r].pool :
              rooms[r].pool[j] # next.fd /\ k = fds[rooms[r].pool[j]]
        BY <1>7, <2>3
      <4>3. PICK q : q = next
        OBVIOUS
      <4>4. PICK h : h = k
        OBVIOUS
      <4>5. Heard(h, q.msg)'
        BY <1>1, <1>2, <1>5, <1>11, <4>2, <4>3, <4>4, SentHeard, Parts
      <4> QED
        BY <4>1, <4>3, <4>4, <4>5
    <3> QED
      BY <1>12, <3>3, <3>4, <3>5, <3>6
  <2> QED
    BY <2>2, <2>3
<1>13. Outboxes'
  <2> SUFFICES ASSUME NEW k \in 1..Len(conns), NEW i \in DOMAIN conns'[k].out
               PROVE  LET m == conns[k].out[i] IN Heard(k, m)'
    BY <1>10 DEF Outboxes
  <2>1. PICK m : m = conns'[k].out[i]
    OBVIOUS
  <2>2. Heard(k, m)'
    BY <1>12, <2>1
  <2> QED
    BY <2>1, <2>2 DEF Heard
<1>14. x \in ChatRooms /\ x.pool = rooms[r].pool /\ x.queue = Tail(rooms[r].queue)
  BY <1>1, <1>2, <1>4, <1>8 DEF ChatRooms
<1> HIDE DEF x
<1>15. BsKept /\ PoolsKept /\ Queues' /\ Len(rooms') = Len(rooms)
  BY <1>1, <1>2, <1>11, <1>14, QueueShrinks, Parts
<1>16. FdsKept /\ FdsClosed
  BY <1>1, SameFds, Parts DEF FdsKept, FdsClosed
<1>17. ChattersKept /\ DBlock' \in 0..Len(conns') /\ threads' \subseteq threads
  BY <1>1, <1>11, SameCli, LockTyped, Parts DEF dbVars
<1>18. Len(rooms') \in Nat /\ Len(rooms) =< Len(rooms')
  BY <1>15, LenTypes, Parts
<1>19. /\ Descriptors' /\ Attached' /\ Pools' /\ Inboxes' /\ Chatting'
       /\ threads' \subseteq Threads'
  BY <1>11, <1>15, <1>16, <1>17, <1>18, KeepDescriptors, KeepAttached, KeepPools,
     KeepInboxes, KeepChatting, KeepThreads, Parts
<1>20. Shapes'
  <2>1. said' \in Nat
    BY <1>1, Parts DEF Shapes
  <2> QED
    BY <1>11, <1>15, <1>16, <1>17, <1>19, <2>1
    DEF Shapes, EndsKept, BsKept, FdsClosed, ChattersKept
<1>21. RoomInv'
  BY <1>13, <1>15, <1>19, <1>20 DEF RoomInv
<1>22. UNCHANGED <<chatDB, lastport>>
  BY <1>1 DEF dbVars
<1>23. TableTyped'
  BY <1>1, <1>11, <1>17, <1>18, <1>22, KeepTable, Parts
<1> QED
  BY <1>21, <1>23 DEF ChatInv

\* After the farewell the descriptors of the room's members are closed.
LEMMA CloseAllKept ==
    ASSUME ChatInv, NEW r \in DOMAIN rooms, CloseAll(r)
    PROVE  ChatInv'
<1> DEFINE x == [rooms[r] EXCEPT !.bs = "ended"]
<1>1. /\ UNCHANGED <<alive, dbVars, conns, threads, cli, said>>
      /\ rooms[r].bs = "closing"
      /\ rooms' = [rooms EXCEPT ![r] = x]
      /\ fds' = [f \in DOMAIN fds |-> IF f \in ToSet(rooms[r].pool) THEN 0 ELSE fds[f]]
  BY DEF CloseAll
<1>2. r \in 1..Len(rooms) /\ rooms[r] \in ChatRooms
  BY LenTypes, Parts
<1>3. x \in ChatRooms /\ x.bs = "ended"
  BY <1>1, <1>2 DEF ChatRooms
<1> HIDE DEF x
<1>4. RoomsKept
  BY <1>1, <1>2, <1>3, ChangeRoom, Parts
<1>5. /\ BsKept /\ PoolsKept /\ QueuesKept
      /\ Len(rooms') = Len(rooms) /\ rooms'[r].bs = "ended"
  BY <1>1, <1>2, <1>3, <1>4, Parts DEF RoomsKept, Shapes
<1>6. EndsKept /\ InsKept /\ OutsKept
  BY <1>1, SameConns, Parts
<1>7. FdsClosed /\ Attached' /\ Pools'
  <2>1. threads' = threads /\ rooms[r].bs # "ended"
    BY <1>1
  <2> QED
    BY <1>1, <1>2, <1>5, <1>6, <2>1, ClosePool, Parts
<1>8. ChattersKept /\ DBlock' \in 0..Len(conns')
  BY <1>1, <1>6, SameCli, LockTyped, Parts DEF dbVars
<1>9. Len(rooms') \in Nat /\ Len(rooms) =< Len(rooms') /\ threads' \subseteq threads
  BY <1>1, <1>5, LenTypes, Parts
<1>10. /\ Descriptors' /\ Queues' /\ Inboxes' /\ Outboxes' /\ Chatting'
       /\ threads' \subseteq Threads'
  BY <1>5, <1>6, <1>7, <1>8, <1>9, KeepDescriptors, KeepQueues, KeepInboxes, KeepOutboxes,
     KeepChatting, KeepThreads, Parts
<1>11. Shapes'
  <2>1. said' \in Nat
    BY <1>1, Parts DEF Shapes
  <2> QED
    BY <1>5, <1>6, <1>7, <1>8, <1>10, <2>1
    DEF Shapes, EndsKept, BsKept, FdsClosed, ChattersKept
<1>12. RoomInv'
  BY <1>7, <1>10, <1>11 DEF RoomInv
<1>13. alive' \in BOOLEAN /\ UNCHANGED <<chatDB, lastport>>
  BY <1>1, Parts DEF TableTyped, dbVars
<1>14. TableTyped'
  BY <1>6, <1>8, <1>9, <1>13, KeepTable, Parts
<1> QED
  BY <1>12, <1>14 DEF ChatInv

-----------------------------------------------------------------------------

\* Before the first connection there is nothing to hear.
LEMMA ChatInit == Init => ChatInv
<1> SUFFICES ASSUME Init PROVE ChatInv
  OBVIOUS
<1>1. /\ conns = <<>> /\ rooms = <<>> /\ threads = {} /\ said = 0
      /\ fds = [f \in 1..MaxConns |-> 0]
      /\ cli = [c \in Clients |-> [state |-> "home", conn |-> 0, port |-> 0]]
      /\ alive = TRUE /\ chatDB = <<Base>> /\ lastport = FirstPort /\ DBlock = 0
  BY DEF Init
<1>2. /\ <<>> \in Seq(Connections) /\ <<>> \in Seq(ChatRooms)
      /\ Len(<<>>) = 0 /\ 1..0 = {}
  OBVIOUS
<1>3. Len(conns) = 0 /\ Len(rooms) = 0
  BY <1>1
<1>4. Shapes
  <2>1. 0 \in 0..Len(conns)
    BY <1>3
  <2> QED
    BY <1>1, <1>2, <1>3, <2>1, BoundsAssumption DEF Shapes, Members
<1>5. /\ Descriptors /\ Attached /\ Pools /\ Queues /\ Inboxes /\ Outboxes /\ Chatting
  BY <1>1, <1>2, <1>3
  DEF Descriptors, Attached, Pools, Queues, Inboxes, Outboxes, Chatting
<1>6. TableTyped
  <2>1. chatDB \in Seq({Base}) /\ Len(chatDB) = 1 /\ chatDB[1] = Base
    BY <1>1
  <2>2. IsSeq(chatDB)
    BY <2>1 DEF IsSeq
  <2>3. lastport \in -(MaxShort + 1)..MaxShort
    BY <1>1, PortAssumption
  <2> QED
    BY <1>1, <1>3, <2>1, <2>2, <2>3 DEF TableTyped
<1> QED
  BY <1>4, <1>5, <1>6 DEF ChatInv, RoomInv

\* Whatever step is taken.
LEMMA ChatStep ==
    ASSUME ChatInv, [Next]_vars
    PROVE  ChatInv'
BY ConnectKept, CommandKept, EnterKept, SayKept, LeaveChat, CreateKept, JoinKept, DeleteKept, ReadKept,
   ReadOnKept, ReadFailsKept, RemovedKept, RoomSteps, AcceptKept, FarewellKept, BroadcastKept,
   CloseAllKept, StutterKept
DEF Next, chat_server, bs_daemon, deletion_awaiter

\* The table, the rooms, the connections and the threads keep their shapes: a
\* descriptor stands for one connection, every entry of the table but the first for
\* a room, and no thread is of a room or connection that was never made.
THEOREM ChatTyped == Spec => []ChatTypeOK
<1>1. ASSUME ChatInv PROVE ChatTypeOK
  <2>1. /\ Len(conns) \in Nat /\ DOMAIN conns = 1..Len(conns)
        /\ Len(rooms) \in Nat /\ DOMAIN rooms = 1..Len(rooms)
    BY <1>1, LenTypes, Parts
  <2>2. chatDB # <<>>
    BY <1>1, Parts DEF TableTyped
  <2>3. ASSUME NEW f \in DOMAIN fds, NEW g \in DOMAIN fds, fds[f] = fds[g], fds[f] # 0
        PROVE  f = g
    <3>1. DOMAIN fds = 1..MaxConns
      BY <1>1, Parts DEF Shapes
    <3> QED
      BY <1>1, <2>3, <3>1, Parts DEF Descriptors
  <2>4. \A t \in threads : t.room \in 0..Len(rooms) /\ t.on \in 1..Len(conns)
    BY <1>1, Parts DEF Shapes, Threads
  <2>5. \A c \in Clients : cli[c].conn \in 0..Len(conns)
    BY <1>1, Parts DEF Shapes, Members
  <2>6. ASSUME NEW k \in 1..Len(conns) PROVE conns[k].to \in 0..Len(rooms)
    <3>1. conns[k].to \in Nat /\ conns[k].to =< Len(rooms)
      BY <1>1, LenTypes, Parts DEF Connections, Inboxes
    <3> QED
      BY <2>1, <3>1
  <2> QED
    BY <1>1, <2>1, <2>2, <2>3, <2>4, <2>5, <2>6, Parts DEF ChatTypeOK, TableTyped
<1> QED
  BY <1>1, ChatInit, ChatStep, PTL DEF Spec

\* What a member hears was said in its own room by somebody else, however
\* descriptors pass from one room to another: a thread reads from a descriptor that
\* was given to another only when its room does not send any more.
THEOREM ChatIsolated == Spec => []RoomIsolated
<1>1. ASSUME ChatInv PROVE RoomIsolated
  <2> SUFFICES ASSUME NEW k \in DOMAIN conns, NEW m \in ToSet(conns[k].out) \ {Goodbye}
               PROVE  m.by # k /\ conns[m.by].to = conns[k].to
    BY DEF RoomIsolated
  <2>1. k \in 1..Len(conns)
    BY <1>1, LenTypes, Parts
  <2>2. PICK i \in DOMAIN conns[k].out : conns[k].out[i] = m
    BY DEF ToSet
  <2>3. Heard(k, m)
    BY <1>1, <2>1, <2>2, Parts DEF Outboxes
  <2> QED
    BY <2>3 DEF Heard
<1> QED
  BY <1>1, ChatInit, ChatStep, PTL DEF Spec

-----------------------------------------------------------------------------
(* The order in which messages are heard *)

\* m is not the farewell and was said before p if it is of the same member.
Before(m, p) == m # Goodbye /\ m.by = p.by => m.n < p.n

\* What bs_daemon is while messages are still to be sent in its room.
Sending == {"none", "waiting"}

\* What waits to be read from a member is in the order in which it was said.
InboxOrder ==
    \A k \in 1..Len(conns) : conns[k].to # 0 =>
        \A i \in DOMAIN conns[k].in :
            /\ conns[k].in[i].n =< said
            /\ \A j \in DOMAIN conns[k].in : i < j => conns[k].in[i].n < conns[k].in[j].n

\* m was said before all that waits to be read from its sender.
Ahead(m) ==
    /\ m.n \in 0..said
    /\ \A k \in 1..Len(conns) : conns[k].to # 0 /\ m.by = k =>
         \A i \in DOMAIN conns[k].in : m.n < conns[k].in[i].n

\* What is queued was said before what waits to be read, and is in order.
InOrder(q) ==
    \A i \in DOMAIN q : /\ Ahead(q[i].msg)
                        /\ \A j \in DOMAIN q : i < j => Before(q[i].msg, q[j].msg)

QueueOrder == \A r \in 1..Len(rooms) : rooms[r].bs \in Sending => InOrder(rooms[r].queue)

\* What was heard is in order, and nothing follows the farewell.
HeardOrder ==
    \A k \in 1..Len(conns) : \A i, j \in DOMAIN conns[k].out :
        i < j => conns[k].out[i] # Goodbye /\ Before(conns[k].out[i], conns[k].out[j])

\* m, heard in a room that sends what is in q, comes before what is still to be heard.
HeardBefore(m, q) ==
    /\ m # Goodbye
    /\ Ahead(m)
    /\ \A j \in DOMAIN q : Before(m, q[j].msg)

OutOrder ==
    \A k \in 1..Len(conns) : conns[k].to # 0 /\ rooms[conns[k].to].bs \in Sending =>
        \A i \in DOMAIN conns[k].out : HeardBefore(conns[k].out[i], rooms[conns[k].to].queue)

OrderInv == InboxOrder /\ QueueOrder /\ HeardOrder /\ OutOrder

\* What is left of an inbox after the first n messages were taken.
Passed(rest, in) ==
    \E n \in Nat : \A i \in DOMAIN rest : i + n \in DOMAIN in /\ rest[i] = in[i + n]

\* Nothing was said: of the inboxes of members something may have been taken.
InsPassed ==
    \A k \in 1..Len(conns') : conns'[k].to # 0 =>
        IF k =< Len(conns) THEN Passed(conns'[k].in, conns[k].in) ELSE conns'[k].in = <<>>

\* What waits now waited before or is newer than all that was said.
InsFrom ==
    /\ said' \in Nat /\ said =< said'
    /\ \A k \in 1..Len(conns') : conns'[k].to # 0 => \A i \in DOMAIN conns'[k].in :
         \/ conns'[k].in[i].n \in Nat /\ conns'[k].in[i].n > said
         \/ k =< Len(conns) /\ \E j \in DOMAIN conns[k].in : conns'[k].in[i] = conns[k].in[j]

\* Rooms that still send did so before, and have the same to send.
SendKept ==
    /\ rooms' \in Seq(ChatRooms)
    /\ Len(rooms) =< Len(rooms')
    /\ \A r \in 1..Len(rooms) : rooms'[r].bs \in Sending => rooms[r].bs \in Sending
    /\ \A r \in 1..Len(rooms') : rooms'[r].bs \in Sending =>
         rooms'[r].queue = IF r =< Len(rooms) THEN rooms[r].queue ELSE <<>>

\* Nobody heard anything.
OutsPassed ==
    \A k \in 1..Len(conns') :
        conns'[k].out = IF k =< Len(conns) THEN conns[k].out ELSE <<>>

\* What waits is of its connection and has a number.
LEMMA Waiting ==
    ASSUME ChatInv, NEW k \in 1..Len(conns), conns[k].to # 0, NEW i \in DOMAIN conns[k].in
    PROVE  conns[k].in[i].by = k /\ conns[k].in[i].n \in Nat
BY Parts DEF Inboxes, Messages

\* Taking messages says nothing.
LEMMA PassedFrom ==
    ASSUME Shapes, InsPassed, UNCHANGED said
    PROVE  InsFrom
<1>1. said \in Nat /\ said' = said
  BY DEF Shapes
<1>2. ASSUME NEW k \in 1..Len(conns'), conns'[k].to # 0, NEW i \in DOMAIN conns'[k].in
      PROVE  k =< Len(conns) /\ \E j \in DOMAIN conns[k].in : conns'[k].in[i] = conns[k].in[j]
  <2>1. k =< Len(conns)
    <3> SUFFICES ASSUME ~(k =< Len(conns)) PROVE FALSE
      OBVIOUS
    <3>1. conns'[k].in = <<>>
      BY <1>2 DEF InsPassed
    <3> QED
      BY <1>2, <3>1
  <2>2. Passed(conns'[k].in, conns[k].in)
    BY <1>2, <2>1 DEF InsPassed
  <2> QED
    BY <1>2, <2>1, <2>2 DEF Passed
<1> QED
  BY <1>1, <1>2 DEF InsFrom

\* What was ahead of the inboxes stays so.
LEMMA KeepAhead ==
    ASSUME ChatInv, EndsKept, InsFrom, NEW m, Ahead(m)
    PROVE  Ahead(m)'
<1>1. said \in Nat /\ said' \in Nat /\ said =< said' /\ m.n \in 0..said
  BY Parts DEF Shapes, InsFrom, Ahead
<1>2. ASSUME NEW k \in 1..Len(conns'), conns'[k].to # 0, m.by = k,
             NEW i \in DOMAIN conns'[k].in
      PROVE  m.n < conns'[k].in[i].n
  <2>1. CASE conns'[k].in[i].n \in Nat /\ conns'[k].in[i].n > said
    BY <1>1, <2>1
  <2>2. ASSUME k =< Len(conns), NEW j \in DOMAIN conns[k].in,
               conns'[k].in[i] = conns[k].in[j]
        PROVE  m.n < conns'[k].in[i].n
    <3>1. k \in 1..Len(conns)
      BY <2>2, LenTypes, Parts DEF EndsKept
    <3>2. conns[k].to # 0
      BY <1>2, <3>1 DEF EndsKept
    <3>3. m.n < conns[k].in[j].n
      BY <1>2, <3>1, <3>2 DEF Ahead
    <3> QED
      BY <2>2, <3>3
  <2> QED
    BY <1>2, <2>1, <2>2 DEF InsFrom
<1>3. m.n \in 0..said'
  BY <1>1
<1> QED
  BY <1>2, <1>3 DEF Ahead

\* Inboxes of which something was taken stay in order.
LEMMA KeepInboxOrder ==
    ASSUME ChatInv, InboxOrder, EndsKept, InsPassed, UNCHANGED said
    PROVE  InboxOrder'
<1> SUFFICES ASSUME NEW k \in 1..Len(conns'), conns'[k].to # 0,
                    NEW i \in DOMAIN conns'[k].in
             PROVE  /\ conns'[k].in[i].n =< said
                    /\ \A j \in DOMAIN conns'[k].in :
                         i < j => conns'[k].in[i].n < conns'[k].in[j].n
  BY DEF InboxOrder
<1>1. k =< Len(conns)
  <2> SUFFICES ASSUME ~(k =< Len(conns)) PROVE FALSE
    OBVIOUS
  <2>1. conns'[k].in = <<>>
    BY DEF InsPassed
  <2> QED
    BY <2>1
<1>2. k \in 1..Len(conns) /\ conns[k].to # 0
  <2>1. k \in 1..Len(conns)
    BY <1>1, LenTypes, Parts DEF EndsKept
  <2> QED
    BY <2>1 DEF EndsKept
<1> PICK n \in Nat : \A h \in DOMAIN conns'[k].in :
                       h + n \in DOMAIN conns[k].in /\ conns'[k].in[h] = conns[k].in[h + n]
  BY <1>1 DEF InsPassed, Passed
<1>3. i + n \in DOMAIN conns[k].in /\ conns'[k].in[i] = conns[k].in[i + n]
  OBVIOUS
<1>4. conns'[k].in[i].n =< said
  BY <1>2, <1>3 DEF InboxOrder
<1>5. ASSUME NEW j \in DOMAIN conns'[k].in, i < j
      PROVE  conns'[k].in[i].n < conns'[k].in[j].n
  <2>1. j + n \in DOMAIN conns[k].in /\ conns'[k].in[j] = conns[k].in[j + n]
    OBVIOUS
  <2>2. i \in Nat /\ j \in Nat
    <3>1. conns'[k] \in Connections
      BY DEF EndsKept
    <3>2. conns'[k].in \in Seq(Texts)
      BY <3>1 DEF Connections
    <3> QED
      BY <3>2
  <2>3. i + n < j + n
    BY <1>5, <2>2
  <2> QED
    BY <1>2, <1>3, <2>1, <2>3 DEF InboxOrder
<1> QED
  BY <1>4, <1>5

\* Queues that do not change stay in order.
LEMMA KeepInOrder ==
    ASSUME ChatInv, EndsKept, InsFrom, NEW q, InOrder(q)
    PROVE  InOrder(q)'
<1> SUFFICES ASSUME NEW i \in DOMAIN q
             PROVE  LET m == q[i].msg IN
                    Ahead(m)' /\ \A j \in DOMAIN q : i < j => Before(m, q[j].msg)
  BY DEF InOrder, Before, Goodbye
<1>1. PICK m : m = q[i].msg
  OBVIOUS
<1>2. Ahead(m) /\ \A j \in DOMAIN q : i < j => Before(m, q[j].msg)
  BY <1>1 DEF InOrder
<1>3. Ahead(m)'
  BY <1>2, KeepAhead
<1> QED
  BY <1>1, <1>2, <1>3

LEMMA KeepQueueOrder ==
    ASSUME ChatInv, QueueOrder, EndsKept, InsFrom, SendKept
    PROVE  QueueOrder'
<1> SUFFICES ASSUME NEW r \in 1..Len(rooms'), rooms'[r].bs \in Sending
             PROVE  InOrder(rooms[r].queue)'
  BY DEF QueueOrder
<1>1. PICK q : q = rooms'[r].queue
  OBVIOUS
<1>2. InOrder(q)
  <2>1. CASE r =< Len(rooms)
    <3>1. r \in 1..Len(rooms)
      BY <2>1, LenTypes, Parts DEF SendKept
    <3>2. rooms[r].bs \in Sending /\ q = rooms[r].queue
      BY <1>1, <3>1 DEF SendKept
    <3> QED
      BY <3>1, <3>2 DEF QueueOrder
  <2>2. CASE ~(r =< Len(rooms))
    <3>1. q = <<>>
      BY <1>1, <2>2 DEF SendKept
    <3> QED
      BY <3>1 DEF InOrder
  <2> QED
    BY <2>1, <2>2
<1>3. InOrder(q)'
  BY <1>2, KeepInOrder
<1> QED
  BY <1>1, <1>3

\* What was heard was heard in the order in which it stays heard.
LEMMA KeepHeardOrder ==
    ASSUME ChatInv, HeardOrder, EndsKept, OutsPassed
    PROVE  HeardOrder'
<1> SUFFICES ASSUME NEW k \in 1..Len(conns'), NEW i \in DOMAIN conns'[k].out,
                    NEW j \in DOMAIN conns'[k].out, i < j
             PROVE  conns'[k].out[i] # Goodbye /\ Before(conns'[k].out[i], conns'[k].out[j])
  BY DEF HeardOrder, Before, Goodbye
<1>1. k \in 1..Len(conns)
  <2>1. conns'[k].out # <<>>
    OBVIOUS
  <2>2. k =< Len(conns)
    BY <2>1 DEF OutsPassed
  <2> QED
    BY <2>2, LenTypes, Parts DEF EndsKept
<1>2. conns'[k].out = conns[k].out
  BY <1>1 DEF OutsPassed
<1> QED
  BY <1>1, <1>2 DEF HeardOrder

\* m still comes before what is to be heard if it comes before what was queued.
LEMMA KeepHeardBefore ==
    ASSUME ChatInv, EndsKept, InsFrom, NEW m, NEW q, HeardBefore(m, q), NEW p,
           \A j \in DOMAIN p : Before(m, p[j].msg)
    PROVE  HeardBefore(m, p)'
<1>1. m # Goodbye /\ Ahead(m)
  BY DEF HeardBefore
<1>2. Ahead(m)'
  BY <1>1, KeepAhead
<1> QED
  BY <1>1, <1>2 DEF HeardBefore, Before, Goodbye

\* Members of a room that sends hear nothing that comes before what they heard.
LEMMA KeepOutOrder ==
    ASSUME ChatInv, OutOrder, EndsKept, InsFrom, OutsPassed, SendKept
    PROVE  OutOrder'
<1> SUFFICES ASSUME NEW k \in 1..Len(conns'), conns'[k].to # 0,
                    rooms'[conns'[k].to].bs \in Sending, NEW i \in DOMAIN conns'[k].out
             PROVE  HeardBefore(conns[k].out[i], rooms[conns[k].to].queue)'
  BY DEF OutOrder
<1>1. k \in 1..Len(conns)
  <2>1. conns'[k].out # <<>>
    OBVIOUS
  <2>2. k =< Len(conns)
    BY <2>1 DEF OutsPassed
  <2> QED
    BY <2>2, LenTypes, Parts DEF EndsKept
<1>2. conns'[k].out = conns[k].out /\ conns'[k].to = conns[k].to
  BY <1>1 DEF OutsPassed, EndsKept
<1>3. PICK r : r = conns[k].to
  OBVIOUS
<1>4. r \in 1..Len(rooms)
  BY <1>1, <1>2, <1>3, LenTypes, Parts DEF Connections, Inboxes
<1>5. PICK m : m = conns[k].out[i]
  OBVIOUS
<1>6. PICK q : q = rooms[r].queue
  OBVIOUS
<1>7. rooms[r].bs \in Sending /\ rooms'[r].queue = q
  BY <1>2, <1>3, <1>4, <1>6, LenTypes, Parts DEF SendKept
<1>8. HeardBefore(m, q)
  BY <1>1, <1>2, <1>3, <1>5, <1>6, <1>7 DEF OutOrder
<1>9. HeardBefore(m, q)'
  <2>1. \A j \in DOMAIN q : Before(m, q[j].msg)
    BY <1>8 DEF HeardBefore
  <2> QED
    BY <1>8, <2>1, KeepHeardBefore
<1> QED
  BY <1>2, <1>3, <1>5, <1>7, <1>9

\* A step in which nothing is said, passed on or heard.
LEMMA QuietOrder ==
    ASSUME ChatInv, OrderInv, EndsKept, InsPassed, OutsPassed, SendKept,
           UNCHANGED said
    PROVE  OrderInv'
<1>1. InsFrom
  BY PassedFrom, Parts
<1>2. InboxOrder /\ QueueOrder /\ HeardOrder /\ OutOrder
  BY DEF OrderInv
<1> QED
  BY <1>1, <1>2, KeepInboxOrder, KeepQueueOrder, KeepHeardOrder, KeepOutOrder DEF OrderInv

\* A step of which the result has its shape, and connections that end where they did.
LEMMA ConnsStay ==
    ASSUME ChatInv, ChatInv', Len(conns) =< Len(conns'),
           \A k \in 1..Len(conns) :
             /\ conns'[k].to = conns[k].to
             /\ conns[k].fd # 0 => conns'[k].fd = conns[k].fd
    PROVE  EndsKept
<1>1. conns' \in Seq(Connections) /\ Len(conns') =< MaxConns
  BY DEF ChatInv, RoomInv, Shapes
<1> QED
  BY <1>1 DEF EndsKept

\* Nothing or all is taken from an inbox.
LEMMA PassedAll ==
    ASSUME NEW in, IsSeq(in)
    PROVE  Passed(in, in) /\ Passed(<<>>, in)
<1>1. DOMAIN in \subseteq Nat
  BY DEF IsSeq
<1>2. \A i \in DOMAIN in : i + 0 = i
  BY <1>1
<1>3. Passed(in, in)
  BY <1>2 DEF Passed
<1>4. DOMAIN << >> = {}
  OBVIOUS
<1> QED
  BY <1>3, <1>4 DEF Passed

\* Connections that do not change,
LEMMA NoConn ==
    ASSUME ChatInv, UNCHANGED conns
    PROVE  EndsKept /\ InsPassed /\ OutsPassed
<1>1. \A k \in 1..Len(conns) : Passed(conns[k].in, conns[k].in)
  <2> SUFFICES ASSUME NEW k \in 1..Len(conns) PROVE IsSeq(conns[k].in)
    BY PassedAll
  <2>1. conns[k] \in Connections
    BY LenTypes, Parts
  <2> QED
    BY <2>1 DEF Connections, IsSeq
<1>2. EndsKept
  BY SameConns, Parts
<1> QED
  BY <1>1, <1>2, LenTypes, Parts DEF InsPassed, OutsPassed

\* or one that does, of which something may have been taken.
LEMMA OneConn ==
    ASSUME ChatInv, ChatInv', NEW k, NEW x, conns' = [conns EXCEPT ![k] = x],
           k \in 1..Len(conns) =>
             /\ x.to = conns[k].to
             /\ conns[k].fd # 0 => x.fd = conns[k].fd
             /\ x.out = conns[k].out
             /\ conns[k].to # 0 => Passed(x.in, conns[k].in)
    PROVE  EndsKept /\ InsPassed /\ OutsPassed
<1>1. conns \in Seq(Connections) /\ conns' \in Seq(Connections)
  BY DEF ChatInv, RoomInv, Shapes
<1>2. CASE k \notin 1..Len(conns)
  <2>1. conns' = conns
    BY <1>1, <1>2
  <2> QED
    BY <2>1, NoConn
<1>3. CASE k \in 1..Len(conns)
  <2>1. /\ DOMAIN conns' = DOMAIN conns
        /\ conns'[k] = x
        /\ \A j \in 1..Len(conns) : j # k => conns'[j] = conns[j]
    BY <1>1, <1>3
  <2>2. Len(conns') = Len(conns) /\ Len(conns) \in Nat
    BY <1>1, <2>1
  <2>3. EndsKept
    BY <1>3, <2>1, <2>2, ConnsStay
  <2>4. ASSUME NEW j \in 1..Len(conns), conns'[j].to # 0
        PROVE  Passed(conns'[j].in, conns[j].in)
    <3>1. CASE j = k
      BY <1>3, <2>1, <2>4, <3>1
    <3>2. CASE j # k
      <4>1. conns'[j] = conns[j] /\ conns[j] \in Connections
        BY <1>1, <2>1, <3>2
      <4>2. IsSeq(conns[j].in)
        BY <4>1 DEF Connections, IsSeq
      <4> QED
        BY <4>1, <4>2, PassedAll
    <3> QED
      BY <3>1, <3>2
  <2>5. \A j \in 1..Len(conns) : conns'[j].out = conns[j].out
    BY <1>3, <2>1
  <2> QED
    BY <2>2, <2>3, <2>4, <2>5 DEF InsPassed, OutsPassed
<1> QED
  BY <1>2, <1>3

\* One connection more, on which no member has said anything.
LEMMA MoreConns ==
    ASSUME ChatInv, ChatInv', Len(conns') = Len(conns) + 1,
           \A j \in 1..Len(conns) : conns'[j] = conns[j],
           conns'[Len(conns) + 1].out = <<>>,
           conns'[Len(conns) + 1].to # 0 => conns'[Len(conns) + 1].in = <<>>
    PROVE  EndsKept /\ InsPassed /\ OutsPassed
<1> DEFINE n == Len(conns)
<1>1. n \in Nat /\ \A j \in 1..n : conns[j] \in Connections
  BY LenTypes, Parts
<1> HIDE DEF n
<1>2. \A k \in 1..(n + 1) : (k \in 1..n /\ k =< n) \/ (k = n + 1 /\ ~(k =< n))
  BY <1>1
<1>3. EndsKept
  BY <1>1, ConnsStay DEF n
<1>4. ASSUME NEW k \in 1..n PROVE Passed(conns'[k].in, conns[k].in)
  <2>1. IsSeq(conns[k].in)
    BY <1>1 DEF Connections, IsSeq
  <2> QED
    BY <1>1, <2>1, PassedAll DEF n
<1>5. InsPassed
  BY <1>2, <1>4 DEF InsPassed, n
<1>6. OutsPassed
  BY <1>2 DEF OutsPassed, n
<1> QED
  BY <1>3, <1>5, <1>6

\* Rooms that do not change,
LEMMA NoRoom ==
    ASSUME ChatInv, UNCHANGED rooms
    PROVE  SendKept
BY LenTypes, Parts DEF SendKept, Shapes

\* one that does, but not in what it has queued,
LEMMA OneRoom ==
    ASSUME ChatInv, ChatInv', NEW r, NEW x, rooms' = [rooms EXCEPT ![r] = x],
           r \in 1..Len(rooms) /\ x.bs \in Sending =>
             rooms[r].bs \in Sending /\ x.queue = rooms[r].queue
    PROVE  SendKept
<1>1. rooms \in Seq(ChatRooms) /\ rooms' \in Seq(ChatRooms)
  BY DEF ChatInv, RoomInv, Shapes
<1>2. CASE r \notin 1..Len(rooms)
  <2>1. rooms' = rooms
    BY <1>1, <1>2
  <2> QED
    BY <2>1, NoRoom
<1>3. CASE r \in 1..Len(rooms)
  <2>1. /\ DOMAIN rooms' = DOMAIN rooms
        /\ rooms'[r] = x
        /\ \A h \in 1..Len(rooms) : h # r => rooms'[h] = rooms[h]
    BY <1>1, <1>3
  <2>2. Len(rooms') = Len(rooms) /\ Len(rooms) \in Nat
    BY <1>1, <2>1
  <2>3. \A h \in 1..Len(rooms) : rooms'[h].bs \in Sending =>
          rooms[h].bs \in Sending /\ rooms'[h].queue = rooms[h].queue
    BY <1>3, <2>1
  <2> QED
    BY <1>1, <2>2, <2>3 DEF SendKept
<1> QED
  BY <1>2, <1>3

\* or one more, which has nothing to send.
LEMMA MoreRooms ==
    ASSUME ChatInv, ChatInv', NEW x, x.queue = <<>>, rooms' = Append(rooms, x)
    PROVE  SendKept
<1> DEFINE n == Len(rooms)
<1>1. rooms' \in Seq(ChatRooms) /\ IsSeq(rooms)
  BY DEF ChatInv, RoomInv, Shapes, IsSeq
<1>2. /\ n \in Nat /\ Len(rooms') = n + 1
      /\ \A i \in 1..n : rooms'[i] = rooms[i]
      /\ rooms'[n + 1] = x
  BY <1>1, AppendSeq
<1> HIDE DEF n
<1>3. \A k \in 1..(n + 1) : (k \in 1..n /\ k =< n) \/ (k = n + 1 /\ ~(k =< n))
  BY <1>2
<1> QED
  BY <1>1, <1>2, <1>3 DEF SendKept, n

-----------------------------------------------------------------------------
(* Steps in which nothing is said, passed on or heard *)

\* A client connects to the base port,
LEMMA ConnectOrder ==
    ASSUME ChatInv, ChatInv', OrderInv, NEW c \in Clients, Connect(c)
    PROVE  OrderInv'
<1> DEFINE n == Len(conns)
           k == n + 1
           w == [by |-> c, to |-> 0, fd |-> 0, up |-> TRUE,
                 err |-> "none", in |-> <<>>, out |-> <<>>]
           a == Append(conns, w)
<1>1. UNCHANGED <<rooms, said>>
  BY DEF Connect
<1>2. conns' = [NewConn(c, 0) EXCEPT ![k].fd = NewFd]
  BY DEF Connect
<1>3. conns \in Seq(Connections) /\ conns' \in Seq(Connections) /\ n \in Nat /\ IsSeq(conns)
  BY DEF ChatInv, RoomInv, Shapes, IsSeq
<1>4. w.to = 0 /\ w.out = <<>> /\ DOMAIN w = {"by", "to", "fd", "up", "err", "in", "out"}
  OBVIOUS
<1>5. a = NewConn(c, 0)
  BY DEF NewConn
<1> HIDE DEF w
<1>6. /\ Len(a) = k /\ a[k] = w /\ DOMAIN a = 1..k
      /\ \A j \in 1..n : a[j] = conns[j]
  BY <1>3, AppendSeq DEF IsSeq
<1> HIDE DEF a
<1> DEFINE x == [w EXCEPT !.fd = NewFd]
<1>7. conns' = [a EXCEPT ![k] = x]
  BY <1>2, <1>3, <1>5, <1>6
<1>8. x.to = 0 /\ x.out = <<>>
  BY <1>4
<1> HIDE DEF x
<1>9. /\ DOMAIN conns' = 1..k /\ conns'[k] = x
      /\ \A j \in 1..n : conns'[j] = conns[j]
  BY <1>3, <1>6, <1>7
<1>10. Len(conns') = n + 1
  BY <1>3, <1>9
<1>11. EndsKept /\ InsPassed /\ OutsPassed
  BY <1>8, <1>9, <1>10, MoreConns
<1> QED
  BY <1>1, <1>11, NoRoom, QuietOrder

\* and enters a command,
LEMMA CommandOrder ==
    ASSUME ChatInv, ChatInv', OrderInv, NEW c \in Clients, Command(c)
    PROVE  OrderInv'
<1> DEFINE k == cli[c].conn
<1>1. UNCHANGED <<rooms, said>>
  BY DEF Command
<1>2. k \in 1..Len(conns) /\ conns[k].to = 0
  BY Parts DEF Command, Chatting
<1>3. PICK in : conns' = [conns EXCEPT ![k].in = in]
  BY DEF Command
<1> DEFINE x == [conns[k] EXCEPT !.in = in]
<1>4. conns' = [conns EXCEPT ![k] = x]
  BY <1>3
<1>5. conns[k] \in Connections
  BY <1>2, LenTypes, Parts
<1>6. x.to = conns[k].to /\ x.fd = conns[k].fd /\ x.out = conns[k].out
  BY <1>5 DEF Connections
<1> HIDE DEF x, k
<1>7. EndsKept /\ InsPassed /\ OutsPassed
  BY <1>2, <1>4, <1>6, OneConn
<1> QED
  BY <1>1, <1>7, NoRoom, QuietOrder

\* or to the port it was told,
LEMMA EnterOrder ==
    ASSUME ChatInv, ChatInv', OrderInv, NEW c \in Clients, Enter(c)
    PROVE  OrderInv'
<1>1. UNCHANGED <<rooms, said>>
  BY DEF Enter
<1>2. EndsKept /\ InsPassed /\ OutsPassed
  <2>1. CASE UNCHANGED conns
    BY <2>1, NoConn
  <2>2. ASSUME NEW r \in DOMAIN rooms, conns' = NewConn(c, r)
        PROVE  EndsKept /\ InsPassed /\ OutsPassed
    <3> DEFINE y == [by |-> c, to |-> r, fd |-> 0, up |-> TRUE,
                     err |-> "none", in |-> <<>>, out |-> <<>>]
    <3>1. conns' = Append(conns, y) /\ y.in = <<>> /\ y.out = <<>>
      BY <2>2 DEF NewConn
    <3> HIDE DEF y
    <3>2. IsSeq(conns)
      BY DEF ChatInv, RoomInv, Shapes, IsSeq
    <3>3. /\ Len(conns') = Len(conns) + 1 /\ conns'[Len(conns) + 1] = y
          /\ \A j \in 1..Len(conns) : conns'[j] = conns[j]
      BY <3>1, <3>2, AppendSeq
    <3> QED
      BY <3>1, <3>3, MoreConns
  <2> QED
    BY <2>1, <2>2 DEF Enter
<1> QED
  BY <1>1, <1>2, NoRoom, QuietOrder

\* has left,
LEMMA LeaveOrder ==
    ASSUME ChatInv, ChatInv', OrderInv, NEW c \in Clients, Leave(c) \/ Quit(c)
    PROVE  OrderInv'
<1> DEFINE k == cli[c].conn
           x == [conns[k] EXCEPT !.up = FALSE]
           y(err) == [conns[k] EXCEPT !.up = FALSE, !.err = err]
<1>1. /\ UNCHANGED <<rooms, said>>
      /\ \/ conns' = [conns EXCEPT ![k] = x]
         \/ \E err \in {"none", "unread"} : conns' = [conns EXCEPT ![k] = y(err)]
  BY DEF Leave, Quit
<1>2. conns[k] \in Connections
  <2>1. k \in 1..Len(conns)
    BY Parts DEF Leave, Quit, Chatting
  <2> QED
    BY <2>1, LenTypes, Parts
<1>3. /\ x.to = conns[k].to /\ x.fd = conns[k].fd
      /\ x.in = conns[k].in /\ x.out = conns[k].out
      /\ IsSeq(conns[k].in)
  BY <1>2 DEF Connections, IsSeq
<1>4. \A err \in {"none", "unread"} :
        /\ y(err).to = conns[k].to /\ y(err).fd = conns[k].fd
        /\ y(err).in = conns[k].in /\ y(err).out = conns[k].out
  BY <1>2 DEF Connections
<1> HIDE DEF x, y, k
<1>5. EndsKept /\ InsPassed /\ OutsPassed
  BY <1>1, <1>3, <1>4, OneConn, PassedAll
<1> QED
  BY <1>1, <1>5, NoRoom, QuietOrder

\* or is answered.
LEMMA AnsweredOrder ==
    ASSUME ChatInv, ChatInv', NEW k,
           \/ Answered(k)
           \/ conns' = [conns EXCEPT ![k].in = <<>>]
    PROVE  EndsKept /\ InsPassed /\ OutsPassed
<1> DEFINE x == [conns[k] EXCEPT !.in = <<>>, !.up = FALSE]
           y == [conns[k] EXCEPT !.in = <<>>]
<1>1. conns' = [conns EXCEPT ![k] = x] \/ conns' = [conns EXCEPT ![k] = y]
  BY DEF Answered
<1>2. ASSUME k \in 1..Len(conns)
      PROVE  /\ x.to = conns[k].to /\ x.fd = conns[k].fd
             /\ x.in = <<>> /\ x.out = conns[k].out
             /\ y.to = conns[k].to /\ y.fd = conns[k].fd
             /\ y.in = <<>> /\ y.out = conns[k].out
             /\ IsSeq(conns[k].in)
  <2>1. conns[k] \in Connections
    BY <1>2, LenTypes, Parts
  <2> QED
    BY <2>1 DEF Connections, IsSeq
<1> HIDE DEF x, y
<1>3. k \in 1..Len(conns) => Passed(<<>>, conns[k].in)
  BY <1>2, PassedAll
<1>4. CASE conns' = [conns EXCEPT ![k] = x]
  BY <1>2, <1>3, <1>4, OneConn
<1>5. CASE conns' = [conns EXCEPT ![k] = y]
  BY <1>2, <1>3, <1>5, OneConn
<1> QED
  BY <1>1, <1>4, <1>5

\* The commands are carried out:
LEMMA JoinOrder ==
    ASSUME ChatInv, ChatInv', OrderInv, NEW t \in threads, Join(t)
    PROVE  OrderInv'
<1>1. UNCHANGED <<rooms, said>>
  BY DEF Join
<1>2. Answered(t.on) \/ conns' = [conns EXCEPT ![t.on].in = <<>>]
  BY DEF Join
<1>3. EndsKept /\ InsPassed /\ OutsPassed
  BY <1>2, AnsweredOrder
<1> QED
  BY <1>1, <1>3, NoRoom, QuietOrder

LEMMA CreateOrder ==
    ASSUME ChatInv, ChatInv', OrderInv, NEW t \in threads, Create(t)
    PROVE  OrderInv'
<1>1. UNCHANGED said /\ Answered(t.on)
  BY DEF Create
<1>2. EndsKept /\ InsPassed /\ OutsPassed
  BY <1>1, AnsweredOrder
<1>3. SendKept
  <2>1. CASE UNCHANGED rooms
    BY <2>1, NoRoom
  <2>2. ASSUME NEW port,
               rooms' = Append(rooms, [port |-> port, terminated |-> FALSE, chat |-> "starting",
                                       bs |-> "none", awaiter |-> "none", queue |-> <<>>,
                                       pool |-> <<>>])
        PROVE  SendKept
    BY <2>2, MoreRooms
  <2> QED
    BY <2>1, <2>2 DEF Create
<1> QED
  BY <1>1, <1>2, <1>3, QuietOrder

LEMMA DeleteOrder ==
    ASSUME ChatInv, ChatInv', OrderInv, NEW t \in threads, Delete(t)
    PROVE  OrderInv'
<1>1. UNCHANGED said
  BY DEF Delete
<1>2. Answered(t.on) \/ conns' = [conns EXCEPT ![t.on].in = <<>>]
  BY DEF Delete
<1>3. EndsKept /\ InsPassed /\ OutsPassed
  BY <1>2, AnsweredOrder
<1>4. SendKept
  <2>1. CASE UNCHANGED rooms
    BY <2>1, NoRoom
  <2>2. ASSUME NEW m, rooms' = [rooms EXCEPT ![m].terminated = TRUE]
        PROVE  SendKept
    <3> DEFINE x == [rooms[m] EXCEPT !.terminated = TRUE]
    <3>1. rooms' = [rooms EXCEPT ![m] = x]
      BY <2>2
    <3>2. ASSUME m \in 1..Len(rooms)
          PROVE  x.bs = rooms[m].bs /\ x.queue = rooms[m].queue
      <4>1. rooms[m] \in ChatRooms
        BY <3>2, LenTypes, Parts
      <4> QED
        BY <4>1 DEF ChatRooms
    <3> HIDE DEF x
    <3> QED
      BY <3>1, <3>2, OneRoom
  <2> QED
    BY <2>1, <2>2 DEF Delete
<1> QED
  BY <1>1, <1>3, <1>4, QuietOrder

LEMMA RemovedOrder ==
    ASSUME ChatInv, ChatInv', OrderInv, Removed
    PROVE  OrderInv'
<1>1. UNCHANGED <<rooms, said>> /\ Answered(DBlock)
  BY DEF Removed
<1>2. PICK k : k = DBlock
  OBVIOUS
<1>3. EndsKept /\ InsPassed /\ OutsPassed
  BY <1>1, <1>2, AnsweredOrder
<1> QED
  BY <1>1, <1>3, NoRoom, QuietOrder

\* What a room's threads do besides,
LEMMA RoomOrder ==
    ASSUME ChatInv, ChatInv', OrderInv, NEW r \in DOMAIN rooms,
           Listen(r) \/ Cancel(r) \/ EndRoom(r)
    PROVE  OrderInv'
<1>1. UNCHANGED <<conns, said>>
  BY DEF Listen, Cancel, EndRoom
<1>2. rooms[r] \in ChatRooms
  BY LenTypes, Parts
<1>3. SendKept
  <2>1. CASE Listen(r)
    <3> DEFINE x == [rooms[r] EXCEPT !.chat = "ended"]
               y == [rooms[r] EXCEPT !.chat = "listening", !.bs = "waiting",
                                     !.awaiter = "watching"]
    <3>1. rooms' = [rooms EXCEPT ![r] = x] \/ rooms' = [rooms EXCEPT ![r] = y]
      BY <2>1 DEF Listen
    <3>2. x.queue = rooms[r].queue /\ y.queue = rooms[r].queue /\ rooms[r].bs \in Sending
      BY <1>2, <2>1 DEF ChatRooms, Listen, Sending
    <3> HIDE DEF x, y
    <3> QED
      BY <3>1, <3>2, OneRoom
  <2>2. CASE Cancel(r)
    <3> DEFINE x == [rooms[r] EXCEPT !.awaiter = "joining"]
    <3>1. rooms' = [rooms EXCEPT ![r] = x]
      BY <2>2 DEF Cancel
    <3>2. x.queue = rooms[r].queue /\ x.bs = rooms[r].bs
      BY <1>2 DEF ChatRooms
    <3> HIDE DEF x
    <3> QED
      BY <3>1, <3>2, OneRoom
  <2>3. CASE EndRoom(r)
    <3> DEFINE x == [rooms[r] EXCEPT !.awaiter = "ended", !.chat = "ended"]
    <3>1. rooms' = [rooms EXCEPT ![r] = x]
      BY <2>3 DEF EndRoom
    <3>2. x.queue = rooms[r].queue /\ x.bs = rooms[r].bs
      BY <1>2 DEF ChatRooms
    <3> HIDE DEF x
    <3> QED
      BY <3>1, <3>2, OneRoom
  <2> QED
    BY <2>1, <2>2, <2>3
<1> QED
  BY <1>1, <1>3, NoConn, QuietOrder

\* a member that is accepted,
LEMMA AcceptOrder ==
    ASSUME ChatInv, ChatInv', OrderInv, NEW r \in DOMAIN rooms, Accept(r)
    PROVE  OrderInv'
<1> DEFINE k == Min(Backlog(r))
           x == [conns[k] EXCEPT !.fd = NewFd]
           y == [rooms[r] EXCEPT !.pool = Append(@, NewFd)]
<1>1. /\ UNCHANGED said
      /\ Backlog(r) # {}
      /\ conns' = [conns EXCEPT ![k] = x]
      /\ rooms' = [rooms EXCEPT ![r] = y]
  BY DEF Accept
<1>2. k \in Backlog(r)
  <2>1. Backlog(r) \subseteq Nat
    BY LenTypes, Parts DEF Backlog
  <2> QED
    BY <1>1, <2>1, MinIn
<1>3. k \in 1..Len(conns) /\ conns[k].fd = 0
  BY <1>2, LenTypes, Parts DEF Backlog
<1>4. conns[k] \in Connections /\ rooms[r] \in ChatRooms
  BY <1>3, LenTypes, Parts
<1>5. x.to = conns[k].to /\ x.in = conns[k].in /\ x.out = conns[k].out /\ IsSeq(conns[k].in)
  BY <1>4 DEF Connections, IsSeq
<1>6. y.bs = rooms[r].bs /\ y.queue = rooms[r].queue
  BY <1>4 DEF ChatRooms
<1> HIDE DEF k, x, y
<1>7. EndsKept /\ InsPassed /\ OutsPassed
  BY <1>1, <1>3, <1>5, OneConn, PassedAll
<1>8. SendKept
  BY <1>1, <1>6, OneRoom
<1> QED
  BY <1>1, <1>7, <1>8, QuietOrder

\* recv for a connection that has ended, nothing at all,
LEMMA ReadOnOrder ==
    ASSUME ChatInv, ChatInv', OrderInv,
           (\E t \in threads : ReadOn(t)) \/ UNCHANGED vars
    PROVE  OrderInv'
<1>1. UNCHANGED <<rooms, conns, said>>
  BY DEF ReadOn, vars
<1> QED
  BY <1>1, NoConn, NoRoom, QuietOrder

\* An error that recv reports,
LEMMA ReadFailsOrder ==
    ASSUME ChatInv, ChatInv', OrderInv, NEW t \in threads, ReadFails(t)
    PROVE  OrderInv'
<1> DEFINE k == t.on
           x == [conns[k] EXCEPT !.err = "pipe"]
<1>1. UNCHANGED <<rooms, said>> /\ conns' = [conns EXCEPT ![k] = x]
  BY DEF ReadFails
<1>2. conns[k] \in Connections
  <2>1. k \in 1..Len(conns)
    BY Parts DEF Shapes, Threads
  <2> QED
    BY <2>1, LenTypes, Parts
<1>3. /\ x.to = conns[k].to /\ x.fd = conns[k].fd
      /\ x.in = conns[k].in /\ x.out = conns[k].out
      /\ IsSeq(conns[k].in)
  BY <1>2 DEF Connections, IsSeq
<1> HIDE DEF x, k
<1>4. EndsKept /\ InsPassed /\ OutsPassed
  BY <1>1, <1>3, OneConn, PassedAll
<1> QED
  BY <1>1, <1>4, NoRoom, QuietOrder

\* and the end of the sending thread.
LEMMA CloseAllOrder ==
    ASSUME ChatInv, ChatInv', OrderInv, NEW r \in DOMAIN rooms, CloseAll(r)
    PROVE  OrderInv'
<1> DEFINE x == [rooms[r] EXCEPT !.bs = "ended"]
<1>1. UNCHANGED <<conns, said>> /\ rooms' = [rooms EXCEPT ![r] = x]
  BY DEF CloseAll
<1>2. rooms[r] \in ChatRooms
  BY LenTypes, Parts
<1>3. x.bs \notin Sending
  BY <1>2 DEF ChatRooms, Sending
<1> HIDE DEF x
<1>4. SendKept
  BY <1>1, <1>3, OneRoom
<1> QED
  BY <1>1, <1>4, NoConn, QuietOrder

-----------------------------------------------------------------------------
(* What is said, passed on and heard, in its order *)

\* What is said comes after all that was said.
LEMMA SayOrder ==
    ASSUME ChatInv, ChatInv', OrderInv, NEW c \in Clients, Say(c)
    PROVE  OrderInv'
<1> DEFINE k == cli[c].conn
           m == [by |-> k, n |-> said + 1]
           x == [conns[k] EXCEPT !.in = Append(@, m)]
<1>1. UNCHANGED rooms /\ said' = said + 1 /\ conns' = [conns EXCEPT ![k] = x]
  BY DEF Say
<1>2. k \in 1..Len(conns) /\ said \in Nat
  BY Parts DEF Say, Chatting, Shapes
<1>3. conns[k] \in Connections /\ conns \in Seq(Connections) /\ conns' \in Seq(Connections)
  BY <1>2, LenTypes, Parts DEF ChatInv, RoomInv, Shapes
<1>4. /\ x.to = conns[k].to /\ x.fd = conns[k].fd /\ x.out = conns[k].out
      /\ x.in = Append(conns[k].in, m) /\ IsSeq(conns[k].in)
  BY <1>3 DEF Connections, IsSeq
<1>5. m.n = said + 1
  OBVIOUS
<1> HIDE DEF x, m, k
<1> DEFINE in == conns[k].in
           h  == Len(in)
<1>6. /\ h \in Nat
      /\ DOMAIN x.in = 1..(h + 1)
      /\ \A i \in 1..h : x.in[i] = in[i]
      /\ x.in[h + 1] = m
      /\ DOMAIN in = 1..h
  BY <1>4, AppendSeq DEF IsSeq
<1>7. /\ Len(conns') = Len(conns) /\ Len(conns) \in Nat
      /\ conns'[k] = x
      /\ \A j \in 1..Len(conns) : j # k => conns'[j] = conns[j]
  <2>1. /\ DOMAIN conns' = DOMAIN conns
        /\ conns'[k] = x
        /\ \A j \in 1..Len(conns) : j # k => conns'[j] = conns[j]
    BY <1>1, <1>2, <1>3
  <2> QED
    BY <1>3, <2>1
<1>8. EndsKept
  BY <1>4, <1>7, ConnsStay
<1>9. OutsPassed
  BY <1>4, <1>7 DEF OutsPassed
<1> HIDE DEF h
<1>10. InsFrom
  <2>1. ASSUME NEW j \in 1..Len(conns), conns'[j].to # 0, NEW i \in DOMAIN conns'[j].in
        PROVE  \/ conns'[j].in[i].n \in Nat /\ conns'[j].in[i].n > said
               \/ \E g \in DOMAIN conns[j].in : conns'[j].in[i] = conns[j].in[g]
    <3>1. CASE j # k
      BY <1>7, <2>1, <3>1
    <3>2. CASE j = k /\ i \in 1..h
      BY <1>6, <1>7, <3>2
    <3>3. CASE j = k /\ i = h + 1
      BY <1>2, <1>5, <1>6, <1>7, <3>3
    <3> QED
      BY <1>6, <1>7, <2>1, <3>1, <3>2, <3>3
  <2>2. said' \in Nat /\ said =< said'
    BY <1>1, <1>2
  <2>3. \A j \in 1..Len(conns) : j =< Len(conns)
    BY <1>7
  <2> QED
    BY <1>7, <2>1, <2>2, <2>3 DEF InsFrom
<1>11. InboxOrder'
  <2>1. ASSUME NEW j \in 1..Len(conns), conns'[j].to # 0, NEW i \in DOMAIN conns'[j].in
        PROVE  /\ conns'[j].in[i].n =< said + 1
               /\ \A g \in DOMAIN conns'[j].in :
                    i < g => conns'[j].in[i].n < conns'[j].in[g].n
    <3>1. conns[j].to # 0
      BY <1>4, <1>7, <2>1
    <3>2. \A a \in DOMAIN conns[j].in :
            /\ conns[j].in[a].n \in Nat /\ conns[j].in[a].n =< said
            /\ \A b \in DOMAIN conns[j].in : a < b => conns[j].in[a].n < conns[j].in[b].n
      BY <3>1, Waiting DEF OrderInv, InboxOrder
    <3>3. CASE j # k
      <4>1. conns'[j].in = conns[j].in
        BY <1>7, <3>3
      <4>2. conns'[j].in[i].n =< said + 1
        BY <1>2, <2>1, <3>2, <4>1
      <4> QED
        BY <2>1, <3>2, <4>1, <4>2
    <3>4. CASE j = k
      <4>1. conns'[j].in = x.in /\ i \in 1..(h + 1)
        BY <1>6, <1>7, <2>1, <3>4
      <4>2. \A a \in 1..h : x.in[a].n \in Nat /\ x.in[a].n =< said
        BY <1>6, <3>2, <3>4
      <4>3. \A a, b \in 1..h : a < b => x.in[a].n < x.in[b].n
        BY <1>6, <3>2, <3>4
      <4>4. x.in[h + 1].n = said + 1
        BY <1>5, <1>6
      <4>5. x.in[i].n =< said + 1
        BY <1>2, <1>6, <4>1, <4>2, <4>4
      <4>6. ASSUME NEW g \in 1..(h + 1), i < g
            PROVE  x.in[i].n < x.in[g].n
        <5>1. i \in 1..h
          BY <1>6, <4>1, <4>6
        <5>2. CASE g \in 1..h
          BY <4>3, <4>6, <5>1, <5>2
        <5>3. CASE g = h + 1
          BY <1>2, <4>2, <4>4, <5>1, <5>3
        <5> QED
          BY <1>6, <4>6, <5>2, <5>3
      <4> QED
        BY <1>6, <4>1, <4>5, <4>6
    <3> QED
      BY <3>3, <3>4
  <2> QED
    BY <1>1, <1>7, <2>1 DEF InboxOrder
<1>12. SendKept
  BY <1>1, NoRoom
<1>13. QueueOrder /\ HeardOrder /\ OutOrder
  BY DEF OrderInv
<1> QED
  BY <1>8, <1>9, <1>10, <1>11, <1>12, <1>13, KeepQueueOrder, KeepHeardOrder, KeepOutOrder
  DEF OrderInv

\* A queue to which one message is appended that comes after those of it.
LEMMA InOrderAppend ==
    ASSUME NEW q, IsSeq(q), NEW e, InOrder(q)', Ahead(e.msg)',
           \A i \in DOMAIN q : Before(q[i].msg, e.msg)
    PROVE  InOrder(Append(q, e))'
<1> DEFINE p == Append(q, e)
           n == Len(q)
<1>1. /\ n \in Nat /\ DOMAIN q = 1..n /\ DOMAIN p = 1..(n + 1)
      /\ \A i \in 1..n : p[i] = q[i]
      /\ p[n + 1] = e
  BY AppendSeq DEF IsSeq
<1> HIDE DEF p, n
<1>2. ASSUME NEW i \in DOMAIN p
      PROVE  LET m == p[i].msg IN
             Ahead(m)' /\ \A j \in DOMAIN p : i < j => Before(m, p[j].msg)
  <2>1. CASE i \in 1..n
    <3>1. PICK m : m = q[i].msg
      OBVIOUS
    <3>2. Ahead(m)' /\ \A j \in DOMAIN q : i < j => Before(m, q[j].msg)
      BY <1>1, <2>1, <3>1 DEF InOrder, Before, Goodbye
    <3>3. Before(m, e.msg)
      BY <1>1, <2>1, <3>1
    <3>4. \A j \in 1..(n + 1) : j \in 1..n \/ j = n + 1
      BY <1>1
    <3>5. \A j \in DOMAIN p : i < j => Before(m, p[j].msg)
      BY <1>1, <3>2, <3>3, <3>4
    <3>6. p[i].msg = m
      BY <1>1, <2>1, <3>1
    <3> QED
      BY <3>2, <3>5, <3>6
  <2>2. CASE i = n + 1
    <3>1. p[i] = e
      BY <1>1, <2>2
    <3>2. \A j \in DOMAIN p : ~(i < j)
      BY <1>1, <2>2
    <3> QED
      BY <3>1, <3>2
  <2> QED
    BY <1>1, <1>2, <2>1, <2>2
<1>3. InOrder(p)'
  <2> SUFFICES ASSUME NEW i \in DOMAIN p
               PROVE  LET m == p[i].msg IN
                      Ahead(m)' /\ \A j \in DOMAIN p : i < j => Before(m, p[j].msg)
    BY DEF InOrder, Before, Goodbye
  <2> QED
    BY <1>2
<1> QED
  BY <1>3 DEF p

\* A room with one message more to send, which comes after what its members heard.
LEMMA QueueGrowsOrder ==
    ASSUME ChatInv, ChatInv', OrderInv, EndsKept, InsPassed, OutsPassed, UNCHANGED said,
           NEW r \in 1..Len(rooms), NEW x, NEW e,
           rooms' = [rooms EXCEPT ![r] = x],
           x.bs = rooms[r].bs, x.queue = Append(rooms[r].queue, e),
           rooms[r].bs \in Sending =>
             /\ Ahead(e.msg)'
             /\ \A i \in DOMAIN rooms[r].queue : Before(rooms[r].queue[i].msg, e.msg)
             /\ \A k \in 1..Len(conns) : conns[k].to = r =>
                  \A i \in DOMAIN conns[k].out : Before(conns[k].out[i], e.msg)
    PROVE  OrderInv'
<1>1. rooms \in Seq(ChatRooms) /\ rooms' \in Seq(ChatRooms)
  BY DEF ChatInv, RoomInv, Shapes
<1>2. /\ Len(rooms') = Len(rooms) /\ rooms'[r] = x
      /\ \A h \in 1..Len(rooms) : h # r => rooms'[h] = rooms[h]
  <2>1. DOMAIN rooms' = DOMAIN rooms
    BY <1>1
  <2> QED
    BY <1>1, <2>1
<1>3. InsFrom
  BY PassedFrom, Parts
<1>4. InboxOrder /\ QueueOrder /\ HeardOrder /\ OutOrder
  BY DEF OrderInv
<1>5. InboxOrder' /\ HeardOrder'
  BY <1>4, KeepInboxOrder, KeepHeardOrder
<1>6. IsSeq(rooms[r].queue)
  <2>1. rooms[r] \in ChatRooms
    BY <1>1
  <2> QED
    BY <2>1 DEF ChatRooms, IsSeq
<1>7. QueueOrder'
  <2> SUFFICES ASSUME NEW h \in 1..Len(rooms), rooms'[h].bs \in Sending
               PROVE  InOrder(rooms[h].queue)'
    BY <1>2 DEF QueueOrder
  <2>1. PICK q : q = rooms[h].queue
    OBVIOUS
  <2>2. rooms[h].bs \in Sending
    BY <1>2
  <2>3. InOrder(q)'
    <3>1. InOrder(q)
      BY <1>4, <2>1, <2>2 DEF QueueOrder
    <3> QED
      BY <1>3, <3>1, KeepInOrder
  <2>4. CASE h # r
    <3>1. rooms'[h].queue = q
      BY <1>2, <2>1, <2>4
    <3> QED
      BY <2>3, <3>1
  <2>5. CASE h = r
    <3>1. IsSeq(q) /\ Ahead(e.msg)' /\ \A i \in DOMAIN q : Before(q[i].msg, e.msg)
      BY <1>6, <2>1, <2>2, <2>5
    <3>2. InOrder(Append(q, e))'
      BY <2>3, <3>1, InOrderAppend
    <3>3. rooms'[h].queue = Append(q, e)
      BY <1>2, <2>1, <2>5
    <3> QED
      BY <3>2, <3>3
  <2> QED
    BY <2>4, <2>5
<1>8. OutOrder'
  <2> SUFFICES ASSUME NEW k \in 1..Len(conns'), conns'[k].to # 0,
                      rooms'[conns'[k].to].bs \in Sending, NEW i \in DOMAIN conns'[k].out
               PROVE  HeardBefore(conns[k].out[i], rooms[conns[k].to].queue)'
    BY DEF OutOrder
  <2>1. k \in 1..Len(conns)
    <3>1. conns'[k].out # <<>>
      OBVIOUS
    <3>2. k =< Len(conns)
      BY <3>1 DEF OutsPassed
    <3> QED
      BY <3>2, LenTypes, Parts DEF EndsKept
  <2>2. conns'[k].out = conns[k].out /\ conns'[k].to = conns[k].to
    BY <2>1 DEF OutsPassed, EndsKept
  <2>3. PICK h : h = conns[k].to
    OBVIOUS
  <2>4. h \in 1..Len(rooms)
    BY <2>1, <2>2, <2>3, LenTypes, Parts DEF Connections, Inboxes
  <2>5. rooms[h].bs \in Sending
    BY <1>2, <2>2, <2>3, <2>4
  <2>6. PICK m : m = conns[k].out[i]
    OBVIOUS
  <2>7. PICK p : p = rooms'[h].queue
    OBVIOUS
  <2>8. PICK q : q = rooms[h].queue
    OBVIOUS
  <2>9. HeardBefore(m, q)
    BY <1>4, <2>1, <2>2, <2>3, <2>5, <2>6, <2>8 DEF OutOrder
  <2>10. \A j \in DOMAIN p : Before(m, p[j].msg)
    <3>1. \A j \in DOMAIN q : Before(m, q[j].msg)
      BY <2>9 DEF HeardBefore
    <3>2. CASE h # r
      BY <1>2, <2>4, <2>7, <2>8, <3>1, <3>2
    <3>3. CASE h = r
      <4>1. p = Append(q, e) /\ IsSeq(q)
        BY <1>2, <1>6, <2>7, <2>8, <3>3
      <4>2. Before(m, e.msg)
        BY <2>1, <2>2, <2>3, <2>5, <2>6, <3>3
      <4>3. /\ Len(q) \in Nat /\ DOMAIN q = 1..Len(q) /\ DOMAIN p = 1..(Len(q) + 1)
            /\ \A j \in 1..Len(q) : p[j] = q[j]
            /\ p[Len(q) + 1] = e
        BY <4>1, AppendSeq DEF IsSeq
      <4> QED
        BY <3>1, <4>2, <4>3
    <3> QED
      BY <3>2, <3>3
  <2>11. HeardBefore(m, p)'
    BY <1>3, <2>9, <2>10, KeepHeardBefore
  <2> QED
    BY <2>2, <2>3, <2>6, <2>7, <2>11
<1> QED
  BY <1>5, <1>7, <1>8 DEF OrderInv

\* The farewell comes after all that members said.
LEMMA FarewellOrder ==
    ASSUME ChatInv, ChatInv', OrderInv, NEW r \in DOMAIN rooms, Farewell(r)
    PROVE  OrderInv'
<1> DEFINE x == [rooms[r] EXCEPT !.queue = Append(@, [msg |-> Goodbye, fd |-> -1]),
                                 !.awaiter = "sleeping"]
<1>1. UNCHANGED <<conns, said>> /\ rooms' = [rooms EXCEPT ![r] = x]
  BY DEF Farewell
<1>2. r \in 1..Len(rooms) /\ rooms[r] \in ChatRooms
  BY LenTypes, Parts
<1>3. PICK e : e = [msg |-> Goodbye, fd |-> -1]
  OBVIOUS
<1>4. e.msg = Goodbye /\ Goodbye.by = 0 /\ Goodbye.n = 0
  BY <1>3 DEF Goodbye
<1>5. x.bs = rooms[r].bs /\ x.queue = Append(rooms[r].queue, e)
  BY <1>2, <1>3 DEF ChatRooms
<1> HIDE DEF x
<1>6. Ahead(e.msg)'
  <2>1. \A k \in 1..Len(conns') : e.msg.by # k
    BY <1>4
  <2>2. e.msg.n \in 0..said'
    BY <1>1, <1>4, Parts DEF Shapes
  <2> QED
    BY <2>1, <2>2 DEF Ahead
<1>7. ASSUME NEW m, m = Goodbye \/ m.by \in 1..Len(conns)
      PROVE  Before(m, e.msg)
  <2>1. m = Goodbye \/ m.by # 0
    BY <1>7
  <2> QED
    BY <1>4, <2>1 DEF Before
<1>8. rooms[r].bs \in Sending =>
        \A i \in DOMAIN rooms[r].queue : Before(rooms[r].queue[i].msg, e.msg)
  BY <1>2, <1>7, Parts DEF Queues, SaidIn, Sending
<1>9. \A k \in 1..Len(conns) : \A i \in DOMAIN conns[k].out : Before(conns[k].out[i], e.msg)
  BY <1>7, Parts DEF Outboxes, Heard
<1>10. EndsKept /\ InsPassed /\ OutsPassed
  BY <1>1, NoConn
<1> QED
  BY <1>1, <1>2, <1>5, <1>6, <1>8, <1>9, <1>10, QueueGrowsOrder

\* A member's thread passes on the oldest of what waits to be read from it.
LEMMA ReadOrder ==
    ASSUME ChatInv, ChatInv', OrderInv, NEW t \in threads, Read(t)
    PROVE  OrderInv'
<1> DEFINE k == t.on
           r == t.room
           in == conns[k].in
           y == [rooms[r] EXCEPT !.queue = Append(@, [msg |-> in[1], fd |-> t.fd])]
<1>1. /\ UNCHANGED said
      /\ rooms' = [rooms EXCEPT ![r] = y]
      /\ r # 0 /\ in # <<>>
  BY DEF Read
<1>2. k \in 1..Len(conns) /\ r \in 1..Len(rooms)
  <2>1. t \in Threads
    BY Parts DEF Shapes
  <2> QED
    BY <1>1, <2>1, LenTypes, Parts DEF Threads
<1>3. conns[k] \in Connections /\ rooms[r] \in ChatRooms /\ in \in Seq(Texts)
  <2>1. conns[k] \in Connections /\ rooms[r] \in ChatRooms
    BY <1>2, LenTypes, Parts
  <2> QED
    BY <2>1 DEF Connections
<1>4. PICK n \in DOMAIN in :
        conns' = [conns EXCEPT ![k].in = SubSeq(@, n + 1, Len(@))]
  BY DEF Read
<1> DEFINE left == SubSeq(in, n + 1, Len(in))
           x == [conns[k] EXCEPT !.in = left]
<1>5. conns' = [conns EXCEPT ![k] = x]
  BY <1>4
<1>6. /\ x.to = conns[k].to /\ x.fd = conns[k].fd
      /\ x.in = left /\ x.out = conns[k].out
  BY <1>3 DEF Connections
<1>7. PICK e : e = [msg |-> in[1], fd |-> t.fd]
  OBVIOUS
<1>8. e.msg = in[1] /\ y.bs = rooms[r].bs /\ y.queue = Append(rooms[r].queue, e)
  BY <1>3, <1>7 DEF ChatRooms
<1> HIDE DEF x, y
<1>9. /\ n \in Nat /\ n >= 1 /\ 1 \in DOMAIN in /\ DOMAIN left \subseteq Nat
      /\ \A i \in DOMAIN left : i + n \in DOMAIN in /\ left[i] = in[i + n] /\ i >= 1
  <2>1. n \in 1..Len(in) /\ Len(in) \in Nat
    BY <1>3
  <2> HIDE DEF in
  <2>2. left \in Seq(Texts) /\ Len(left) = Len(in) - n
        /\ \A i \in 1..(Len(in) - n) : left[i] = in[n + i]
    BY <1>3, <2>1
  <2> HIDE DEF left
  <2>3. DOMAIN left = 1..(Len(in) - n) /\ DOMAIN in = 1..Len(in)
    BY <1>3, <2>2
  <2> QED
    BY <2>1, <2>2, <2>3
<1> HIDE DEF left
<1>10. Passed(left, in)
  BY <1>9 DEF Passed
<1>11. EndsKept /\ InsPassed /\ OutsPassed
  <2> HIDE DEF k
  <2> QED
    BY <1>5, <1>6, <1>10, OneConn
<1>12. ASSUME rooms[r].bs \in Sending
       PROVE  /\ Ahead(e.msg)'
              /\ \A i \in DOMAIN rooms[r].queue : Before(rooms[r].queue[i].msg, e.msg)
              /\ \A j \in 1..Len(conns) : conns[j].to = r =>
                   \A i \in DOMAIN conns[j].out : Before(conns[j].out[i], e.msg)
  <2>1. conns[k].to = r
    BY <1>12, Parts DEF Attached, Working, Sending
  <2>2. e.msg.by = k /\ e.msg.n \in Nat
    BY <1>1, <1>2, <1>8, <1>9, <2>1, Waiting
  <2>3. e.msg.n =< said
    BY <1>1, <1>2, <1>8, <1>9, <2>1 DEF OrderInv, InboxOrder
  <2>4. conns'[k].in = left
    <3>1. conns \in Seq(Connections)
      BY Parts DEF Shapes
    <3> QED
      BY <1>2, <1>5, <1>6, <3>1
  <2>5. ASSUME NEW i \in DOMAIN left PROVE e.msg.n < left[i].n
    <3>1. i + n \in DOMAIN in /\ left[i] = in[i + n] /\ 1 < i + n
      BY <1>9
    <3>2. in[1].n < in[i + n].n
      BY <1>1, <1>2, <1>9, <2>1, <3>1 DEF OrderInv, InboxOrder
    <3> QED
      BY <1>8, <3>1, <3>2
  <2>6. Ahead(e.msg)'
    <3>1. e.msg.n \in 0..said'
      BY <1>1, <2>2, <2>3, Parts DEF Shapes
    <3>2. ASSUME NEW j \in 1..Len(conns'), e.msg.by = j, NEW i \in DOMAIN conns'[j].in
          PROVE  e.msg.n < conns'[j].in[i].n
      BY <2>2, <2>4, <2>5, <3>2
    <3> QED
      BY <3>1, <3>2 DEF Ahead
  <2>7. ASSUME NEW m, Ahead(m) PROVE Before(m, e.msg)
    <3>1. m.by = k => m.n < in[1].n
      BY <1>1, <1>2, <1>9, <2>1, <2>7 DEF Ahead
    <3> QED
      BY <1>8, <2>2, <3>1 DEF Before
  <2>8. \A i \in DOMAIN rooms[r].queue : Before(rooms[r].queue[i].msg, e.msg)
    BY <1>2, <1>12, <2>7 DEF OrderInv, QueueOrder, InOrder
  <2>9. \A j \in 1..Len(conns) : conns[j].to = r =>
          \A i \in DOMAIN conns[j].out : Before(conns[j].out[i], e.msg)
    BY <1>1, <1>12, <2>7 DEF OrderInv, OutOrder, HeardBefore
  <2> QED
    BY <2>6, <2>8, <2>9
<1> HIDE DEF r
<1> QED
  BY <1>1, <1>2, <1>8, <1>11, <1>12, QueueGrowsOrder

\* A queue without its first message stays in order, which came before the others.
LEMMA InOrderTail ==
    ASSUME NEW q \in Seq(Items), q # <<>>, InOrder(q)
    PROVE  /\ Ahead(q[1].msg)
           /\ InOrder(Tail(q))
           /\ \A j \in DOMAIN Tail(q) : Before(q[1].msg, Tail(q)[j].msg)
           /\ \A j \in DOMAIN Tail(q) : \E i \in DOMAIN q : Tail(q)[j] = q[i]
<1> DEFINE left == Tail(q)
           n == Len(q)
<1>1. /\ n \in Nat /\ n >= 1 /\ DOMAIN q = 1..n
      /\ left \in Seq(Items) /\ Len(left) = n - 1
      /\ \A j \in 1..(n - 1) : left[j] = q[j + 1]
  OBVIOUS
<1> HIDE DEF left, n
<1>2. DOMAIN left = 1..(n - 1)
  BY <1>1
<1>3. \A j \in DOMAIN left : j + 1 \in DOMAIN q /\ left[j] = q[j + 1] /\ 1 < j + 1
  BY <1>1, <1>2
<1>4. 1 \in DOMAIN q /\ DOMAIN left \subseteq Int
  BY <1>1, <1>2
<1>5. Ahead(q[1].msg)
  BY <1>4 DEF InOrder
<1>6. \A j \in DOMAIN left : Before(q[1].msg, left[j].msg)
  BY <1>3, <1>4 DEF InOrder
<1>7. InOrder(left)
  <2>1. \A i, j \in DOMAIN left : i < j => i + 1 < j + 1
    BY <1>4
  <2>2. ASSUME NEW i \in DOMAIN left PROVE Ahead(left[i].msg)
    BY <1>3 DEF InOrder
  <2>3. ASSUME NEW i \in DOMAIN left, NEW j \in DOMAIN left, i < j
        PROVE  Before(left[i].msg, left[j].msg)
    BY <1>3, <2>1, <2>3 DEF InOrder
  <2> QED
    BY <2>2, <2>3 DEF InOrder
<1> QED
  BY <1>3, <1>5, <1>6, <1>7 DEF left

\* The members but the sender hear the next message, which comes after all they heard.
LEMMA BroadcastOrder ==
    ASSUME ChatInv, ChatInv', OrderInv, NEW r \in DOMAIN rooms, Broadcast(r)
    PROVE  OrderInv'
<1> DEFINE pool == rooms[r].pool
           next == Head(rooms[r].queue)
           others == {i \in DOMAIN pool : pool[i] # next.fd}
           failing == {i \in others : SendFails(pool[i])}
           sent == {fds[pool[i]] : i \in {j \in others : \A i \in failing : j < i}}
           hit == IF failing = {} THEN 0 ELSE fds[pool[Min(failing)]]
           bs == IF failing # {} THEN "ended"
                 ELSE IF next.msg = Goodbye THEN "closing" ELSE rooms[r].bs
           x == [rooms[r] EXCEPT !.queue = Tail(rooms[r].queue), !.bs = bs]
           heard(k) == [conns[k] EXCEPT !.out = Append(@, next.msg),
                                        !.err = IF conns[k].up THEN @ ELSE "pipe"]
           failed(k) == [conns[k] EXCEPT !.err = "pipe"]
<1>1. /\ UNCHANGED said
      /\ rooms[r].bs = "waiting" /\ rooms[r].queue # <<>>
      /\ rooms' = [rooms EXCEPT ![r] = x]
      /\ conns' = [k \in DOMAIN conns |-> IF k \in sent THEN heard(k)
                                          ELSE IF k = hit THEN failed(k) ELSE conns[k]]
  BY DEF Broadcast, dequeue_msg
<1>2. r \in 1..Len(rooms) /\ rooms[r] \in ChatRooms
  BY LenTypes, Parts
<1>3. rooms[r].bs \in Sending /\ rooms[r].bs # "ended"
  BY <1>1 DEF Sending
<1>4. PICK q \in Seq(Items) : q = rooms[r].queue
  BY <1>2 DEF ChatRooms
<1>5. q # <<>> /\ next = q[1] /\ IsSeq(Tail(q))
  <2>1. q # <<>>
    BY <1>1, <1>4
  <2>2. Head(q) = q[1] /\ Tail(q) \in Seq(Items)
    BY <2>1
  <2> QED
    BY <1>4, <2>1, <2>2 DEF IsSeq
<1>6. InOrder(q)
  BY <1>2, <1>3, <1>4 DEF OrderInv, QueueOrder
<1>7. /\ Ahead(next.msg) /\ InOrder(Tail(q))
      /\ \A j \in DOMAIN Tail(q) : Before(next.msg, Tail(q)[j].msg)
      /\ \A j \in DOMAIN Tail(q) : \E i \in DOMAIN q : Tail(q)[j] = q[i]
  <2> HIDE DEF next
  <2> QED
    BY <1>5, <1>6, InOrderTail
<1>8. ASSUME NEW k \in sent PROVE conns[k].to = r
  <2>1. PICK j \in DOMAIN pool : k = fds[pool[j]]
    <3> HIDE DEF failing, next
    <3> QED
      BY <1>8
  <2> QED
    BY <1>2, <1>3, <2>1, Parts DEF Pools
<1>9. 1 \in DOMAIN q
  BY <1>5
<1>10. bs \in Sending => next.msg # Goodbye
  <2> HIDE DEF failing, next
  <2> QED
    BY DEF Sending
<1>11. x.queue = Tail(q) /\ x.bs = bs
  <2> HIDE DEF bs
  <2> QED
    BY <1>2, <1>4 DEF ChatRooms
<1> HIDE DEF next, hit, sent, bs, x
<1>12. ASSUME NEW k \in 1..Len(conns)
       PROVE  /\ conns'[k].to = conns[k].to /\ conns'[k].fd = conns[k].fd
              /\ conns'[k].in = conns[k].in
              /\ k \notin sent => conns'[k].out = conns[k].out
              /\ k \in sent => conns'[k].out = Append(conns[k].out, next.msg)
              /\ IsSeq(conns[k].in) /\ IsSeq(conns[k].out)
  <2>1. conns[k] \in Connections /\ k \in DOMAIN conns
    BY LenTypes, Parts
  <2>2. conns'[k] = IF k \in sent THEN heard(k) ELSE IF k = hit THEN failed(k) ELSE conns[k]
    BY <1>1, <2>1
  <2>3. /\ heard(k).to = conns[k].to /\ heard(k).fd = conns[k].fd
        /\ heard(k).in = conns[k].in /\ heard(k).out = Append(conns[k].out, next.msg)
        /\ IsSeq(conns[k].in) /\ IsSeq(conns[k].out)
    BY <2>1 DEF Connections, IsSeq
  <2>4. /\ failed(k).to = conns[k].to /\ failed(k).fd = conns[k].fd
        /\ failed(k).in = conns[k].in /\ failed(k).out = conns[k].out
    BY <2>1 DEF Connections
  <2> HIDE DEF heard, failed
  <2> QED
    BY <2>1, <2>2, <2>3, <2>4
<1>13. Len(conns') = Len(conns) /\ Len(conns) \in Nat
  <2>1. conns' \in Seq(Connections) /\ conns \in Seq(Connections)
    BY DEF ChatInv, RoomInv, Shapes
  <2>2. DOMAIN conns' = DOMAIN conns
    <3> HIDE DEF heard, failed
    <3> QED
      BY <1>1
  <2> QED
    BY <2>1, <2>2
<1> HIDE DEF heard, failed
<1>14. EndsKept
  BY <1>12, <1>13, ConnsStay
<1>15. InsPassed
  BY <1>12, <1>13, PassedAll DEF InsPassed
<1>16. InsFrom
  BY <1>1, <1>15, PassedFrom, Parts
<1>17. InboxOrder'
  BY <1>1, <1>14, <1>15, KeepInboxOrder DEF OrderInv
<1>18. /\ Len(rooms') = Len(rooms) /\ rooms'[r] = x
       /\ \A h \in 1..Len(rooms) : h # r => rooms'[h] = rooms[h]
  <2>1. rooms' \in Seq(ChatRooms) /\ rooms \in Seq(ChatRooms)
    BY DEF ChatInv, RoomInv, Shapes
  <2>2. DOMAIN rooms' = DOMAIN rooms
    BY <1>1, <2>1
  <2> QED
    BY <1>1, <1>2, <2>1, <2>2
<1>19. QueueOrder'
  <2> SUFFICES ASSUME NEW h \in 1..Len(rooms), rooms'[h].bs \in Sending
               PROVE  InOrder(rooms[h].queue)'
    BY <1>18 DEF QueueOrder
  <2>1. PICK p : p = rooms'[h].queue
    OBVIOUS
  <2>2. InOrder(p)
    <3>1. CASE h = r
      BY <1>7, <1>11, <1>18, <2>1, <3>1
    <3>2. CASE h # r
      BY <1>18, <2>1, <3>2 DEF OrderInv, QueueOrder
    <3> QED
      BY <3>1, <3>2
  <2>3. InOrder(p)'
    BY <1>14, <1>16, <2>2, KeepInOrder
  <2> QED
    BY <2>1, <2>3
<1>20. ASSUME NEW k \in 1..Len(conns), k \in sent
       PROVE  conns[k].to = r /\ \A i \in DOMAIN conns[k].out : HeardBefore(conns[k].out[i], q)
  <2>1. conns[k].to = r /\ r # 0
    BY <1>2, <1>8, <1>20
  <2> QED
    BY <1>3, <1>4, <2>1 DEF OrderInv, OutOrder
<1>21. ASSUME NEW k \in 1..Len(conns), k \in sent, NEW n, n = Len(conns[k].out)
       PROVE  /\ n \in Nat
              /\ DOMAIN conns[k].out = 1..n
              /\ DOMAIN conns'[k].out = 1..(n + 1)
              /\ \A i \in 1..n : conns'[k].out[i] = conns[k].out[i]
              /\ conns'[k].out[n + 1] = next.msg
  <2>1. PICK out : out = conns[k].out
    OBVIOUS
  <2>2. IsSeq(out) /\ n = Len(out) /\ conns'[k].out = Append(out, next.msg)
    BY <1>12, <1>21, <2>1
  <2>3. /\ IsSeq(Append(out, next.msg)) /\ n \in Nat
        /\ Len(Append(out, next.msg)) = n + 1
        /\ \A i \in 1..n : Append(out, next.msg)[i] = out[i]
        /\ Append(out, next.msg)[n + 1] = next.msg
    BY <2>2, AppendSeq
  <2>4. DOMAIN out = 1..n /\ DOMAIN Append(out, next.msg) = 1..(n + 1)
    BY <2>2, <2>3 DEF IsSeq
  <2> QED
    BY <2>1, <2>2, <2>3, <2>4
<1>22. HeardOrder'
  <2> SUFFICES ASSUME NEW k \in 1..Len(conns), NEW i \in DOMAIN conns'[k].out,
                      NEW j \in DOMAIN conns'[k].out, i < j
               PROVE  conns'[k].out[i] # Goodbye /\ Before(conns'[k].out[i], conns'[k].out[j])
    BY <1>13 DEF HeardOrder, Before, Goodbye
  <2>1. \A a, b \in DOMAIN conns[k].out :
          a < b => conns[k].out[a] # Goodbye /\ Before(conns[k].out[a], conns[k].out[b])
    BY DEF OrderInv, HeardOrder
  <2>2. CASE k \notin sent
    BY <1>12, <2>1, <2>2
  <2>3. CASE k \in sent
    <3>1. PICK n : n = Len(conns[k].out)
      OBVIOUS
    <3>2. /\ n \in Nat
          /\ DOMAIN conns[k].out = 1..n
          /\ DOMAIN conns'[k].out = 1..(n + 1)
          /\ \A a \in 1..n : conns'[k].out[a] = conns[k].out[a]
          /\ conns'[k].out[n + 1] = next.msg
      BY <1>21, <2>3, <3>1
    <3>3. i \in 1..n
      BY <3>2
    <3>4. CASE j \in 1..n
      BY <2>1, <3>2, <3>3, <3>4
    <3>5. CASE j = n + 1
      <4>1. HeardBefore(conns[k].out[i], q)
        BY <1>20, <2>3, <3>2, <3>3
      <4>2. conns[k].out[i] # Goodbye /\ Before(conns[k].out[i], next.msg)
        BY <1>5, <1>9, <4>1 DEF HeardBefore
      <4> QED
        BY <3>2, <3>3, <3>5, <4>2
    <3> QED
      BY <3>2, <3>4, <3>5
  <2> QED
    BY <2>2, <2>3
<1>23. OutOrder'
  <2> SUFFICES ASSUME NEW k \in 1..Len(conns), conns'[k].to # 0,
                      rooms'[conns'[k].to].bs \in Sending, NEW i \in DOMAIN conns'[k].out
               PROVE  HeardBefore(conns[k].out[i], rooms[conns[k].to].queue)'
    BY <1>13 DEF OutOrder
  <2>1. PICK h : h = conns[k].to
    OBVIOUS
  <2>2. h = conns'[k].to /\ h # 0
    BY <1>12, <2>1
  <2>3. h \in 1..Len(rooms)
    <3>1. conns[k] \in Connections /\ Len(rooms) \in Nat
      BY LenTypes, Parts
    <3>2. h \in Nat
      BY <2>1, <3>1 DEF Connections
    <3>3. h =< Len(rooms)
      BY <2>1, Parts DEF Inboxes
    <3> QED
      BY <2>2, <3>1, <3>2, <3>3
  <2>4. PICK m : m = conns'[k].out[i]
    OBVIOUS
  <2>5. PICK p : p = rooms'[h].queue
    OBVIOUS
  <2>6. PICK o : o = rooms[h].queue
    OBVIOUS
  <2>7. \A j \in DOMAIN p : \E g \in DOMAIN o : p[j] = o[g]
    <3>1. CASE h = r
      <4>1. p = Tail(q) /\ o = q
        BY <1>4, <1>11, <1>18, <2>5, <2>6, <3>1
      <4> QED
        BY <1>7, <4>1
    <3>2. CASE h # r
      BY <1>18, <2>3, <2>5, <2>6, <3>2
    <3> QED
      BY <3>1, <3>2
  <2>8. rooms[h].bs \in Sending /\ (h = r => next.msg # Goodbye)
    BY <1>3, <1>10, <1>11, <1>18, <2>2, <2>3
  <2>9. ASSUME NEW a \in DOMAIN conns[k].out, m = conns[k].out[a]
        PROVE  HeardBefore(m, p)'
    <3>1. HeardBefore(m, o)
      BY <2>1, <2>2, <2>6, <2>8, <2>9 DEF OrderInv, OutOrder
    <3>2. \A j \in DOMAIN p : Before(m, p[j].msg)
      BY <2>7, <3>1 DEF HeardBefore
    <3> QED
      BY <1>14, <1>16, <3>1, <3>2, KeepHeardBefore
  <2>10. ASSUME m = next.msg, h = r PROVE HeardBefore(m, p)'
    <3>1. m # Goodbye /\ Ahead(m)
      BY <1>7, <1>11, <2>8, <2>10
    <3>2. \A j \in DOMAIN p : Before(m, p[j].msg)
      BY <1>7, <1>11, <1>18, <2>5, <2>10
    <3>3. Ahead(m)'
      BY <1>14, <1>16, <3>1, KeepAhead
    <3> QED
      BY <3>1, <3>2, <3>3 DEF HeardBefore, Before, Goodbye
  <2>11. HeardBefore(m, p)'
    <3>1. CASE k \notin sent
      BY <1>12, <2>4, <2>9, <3>1
    <3>2. CASE k \in sent
      <4>1. PICK n : n = Len(conns[k].out)
        OBVIOUS
      <4>2. /\ n \in Nat
            /\ DOMAIN conns[k].out = 1..n
            /\ DOMAIN conns'[k].out = 1..(n + 1)
            /\ \A a \in 1..n : conns'[k].out[a] = conns[k].out[a]
            /\ conns'[k].out[n + 1] = next.msg
        BY <1>21, <3>2, <4>1
      <4>3. CASE i \in 1..n
        BY <2>4, <2>9, <4>2, <4>3
      <4>4. CASE i = n + 1
        <5>1. h = r
          BY <1>20, <2>1, <3>2
        <5> QED
          BY <2>4, <2>10, <4>2, <4>4, <5>1
      <4> QED
        BY <4>2, <4>3, <4>4
    <3> QED
      BY <3>1, <3>2
  <2> QED
    BY <2>2, <2>4, <2>5, <2>11
<1> QED
  BY <1>17, <1>19, <1>22, <1>23 DEF OrderInv

\* Before anything is said all is in order.
LEMMA OrderInit == Init => OrderInv
<1> SUFFICES ASSUME Init PROVE OrderInv
  OBVIOUS
<1>1. conns = <<>> /\ rooms = <<>>
  BY DEF Init
<1>2. 1..Len(conns) = {} /\ 1..Len(rooms) = {}
  BY <1>1
<1> QED
  BY <1>2 DEF OrderInv, InboxOrder, QueueOrder, HeardOrder, OutOrder

\* Whatever step is taken.
LEMMA OrderStep ==
    ASSUME ChatInv, ChatInv', OrderInv, [Next]_vars
    PROVE  OrderInv'
BY ConnectOrder, CommandOrder, EnterOrder, SayOrder, LeaveOrder, CreateOrder, JoinOrder, DeleteOrder,
   ReadOrder, ReadOnOrder, ReadFailsOrder, RemovedOrder, RoomOrder, AcceptOrder, FarewellOrder,
   BroadcastOrder, CloseAllOrder
DEF Next, chat_server, bs_daemon, deletion_awaiter

\* A member hears a message once, those of one sender in the order in which they were
\* said, and nothing after the farewell: of what a member said, what others heard is
\* older than what its room still has to send, and that older than what waits to be
\* read from it.
THEOREM ChatHeardInOrder == Spec => []HeardInOrder
<1>1. ASSUME ChatInv, OrderInv PROVE HeardInOrder
  <2>1. DOMAIN conns = 1..Len(conns)
    BY <1>1, LenTypes, Parts
  <2> QED
    BY <1>1, <2>1 DEF HeardInOrder, OrderInv, HeardOrder, Before
<1>2. Init => ChatInv /\ OrderInv
  BY ChatInit, OrderInit
<1>3. ChatInv /\ OrderInv /\ [Next]_vars => (ChatInv /\ OrderInv)'
  BY ChatStep, OrderStep
<1> QED
  BY <1>1, <1>2, <1>3, PTL DEF Spec
=============================================================================
