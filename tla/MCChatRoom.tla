----------------------------- MODULE MCChatRoom -----------------------------
(***************************************************************************)
(* Two clients, one of which makes and deletes rooms.  Open is the state   *)
(* in which a has made two rooms and joined the first, and b the second:   *)
(* what happens to two rooms with a member each is explored from there.    *)
(***************************************************************************)
EXTENDS ChatRoom

CONSTANTS a, b, lobby, den

\* a connection of c, served by descriptor f
Conn(c, to, f, up) == [by |-> c, to |-> to, fd |-> f, up |-> up, err |-> "none",
                       in |-> <<>>, out |-> <<>>]

OpenRoom(port, f) == [port |-> port, terminated |-> FALSE, chat |-> "listening",
                      bs |-> "waiting", awaiter |-> "watching", queue |-> <<>>,
                      pool |-> <<f>>]

\* CREATE lobby and den by a on the connections 1 and 2, JOIN lobby on 3, which
\* the server closed, and 4; join den by b on 5, which it left open, and 6
Open ==
    /\ alive = TRUE
    /\ chatDB = <<Base, [name |-> lobby, port |-> FirstPort, room |-> 1],
                        [name |-> den, port |-> FirstPort + 1, room |-> 2]>>
    /\ lastport = FirstPort + 2
    /\ DBlock = 0
    /\ rooms = <<OpenRoom(FirstPort, 3), OpenRoom(FirstPort + 1, 5)>>
    /\ conns = <<Conn(a, 0, 1, FALSE), Conn(a, 0, 2, FALSE), Conn(a, 0, 3, TRUE),
                 Conn(a, 1, 3, TRUE), Conn(b, 0, 4, TRUE), Conn(b, 2, 5, TRUE)>>
    /\ fds = [f \in 1..MaxConns |-> CASE f \in {1, 2} -> f [] f = 3 -> 4
                                      [] f = 4 -> 5 [] f = 5 -> 6 [] OTHER -> 0]
    /\ threads = {[room |-> 0, fd |-> 1, on |-> 1], [room |-> 0, fd |-> 2, on |-> 2],
                  [room |-> 1, fd |-> 3, on |-> 4], [room |-> 0, fd |-> 4, on |-> 5],
                  [room |-> 2, fd |-> 5, on |-> 6]}
    /\ cli = [c \in Clients |-> [state |-> "chat", conn |-> IF c = a THEN 4 ELSE 6,
                                 port |-> 0]]
    /\ said = 0
    /\ quits = 0

OpenSpec == Open /\ [][Next]_vars /\ Fairness
=============================================================================
