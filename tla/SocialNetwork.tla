--------------------------- MODULE SocialNetwork ---------------------------
(***************************************************************************)
(* The tiny social network of MP_2: one server (tsd.cc) and its clients    *)
(* (tsc.cc, client.h).                                                     *)
(*                                                                         *)
(* gRPC runs every call on a thread of its own and nothing is locked.  A   *)
(* client's Timeline call reads its posts one by one; each is written to   *)
(* the author's file and then, follower by follower, to the follower's     *)
(* file and to the stream bound for it.  Files are appended to and never   *)
(* emptied.  Who follows whom is kept in memory: an interrupted server     *)
(* saves it, user by user, to user.txt while the calls go on, and the next *)
(* one loads that file and deletes it.                                     *)
(*                                                                         *)
(* A user_t holds its followers, by the name of following, in the order of *)
(* their names: names are numbers here.  A user follows itself from its    *)
(* constructor on, so who has no followers is not in db, or not in the     *)
(* file.  Names are words, so a line of user.txt reads back as written.    *)
(***************************************************************************)
EXTENDS Naturals, Sequences, SequencesExt

CONSTANTS
    Names,     \* user names, positive numbers in the order of the names
    Clients,   \* client processes
    NameOf,    \* the name a client is started with (-u)
    Page,      \* the posts a client shows when it opens its timeline, 20
    Faults,    \* what may go wrong: "kill", "early", "stream", "late"
    MaxFaults, \* bound on how often something goes wrong
    MaxPosts,  \* client -> bound on its posts
    Nil,       \* no stream
    Gone       \* a stream whose call has returned: its memory is free

ASSUME NamesAssumption  == Names \subseteq Nat \ {0} /\ NameOf \in [Clients -> Names]
ASSUME BoundAssumption  == Page \in Nat /\ MaxPosts \in [Clients -> Nat]
ASSUME StreamAssumption == Nil \notin Clients /\ Gone \notin Clients /\ Nil # Gone
ASSUME MishapAssumption == /\ Faults \subseteq {"kill", "early", "stream", "late"}
                           /\ MaxFaults \in Nat

VARIABLES
    phase,     \* the server is down, loading, serving, or closing
    saved,     \* the last user the interrupt handler has come to
    following, \* user -> its followers in db
    loggedIn,  \* the users with loggedIn
    stream,    \* user -> the client whose call its stream is of, if one is bound
    user_txt,  \* user -> the followers in its line of user.txt
    torn,      \* whether the server died while it wrote user.txt, or passed by a
               \* user that was not there yet
    tml,       \* user -> the posts in its timeline file
    call,      \* client -> where the handler of its Timeline call is, the post
               \* it distributes and the follower it has come to
    inbox,     \* client -> its posts the call has not read
    cli,       \* client -> how far it has come
    screen,    \* client -> the posts its timeline shows
    made,      \* client -> how many posts it has made
    faults     \* how often something went wrong so far

userVars == <<following, loggedIn, stream>>
fileVars == <<user_txt, torn, tml>>
cliVars  == <<cli, screen, made>>
vars     == <<phase, saved, userVars, fileVars, call, inbox, cliVars, faults>>

Known(lines) == {n \in Names : lines[n] # {}}

NoUsers == [n \in Names |-> {}]

Idle == [pc |-> "none", post |-> 0, at |-> 0]

Init ==
    /\ phase = "down" /\ saved = 0
    /\ following = NoUsers /\ loggedIn = {} /\ stream = [n \in Names |-> Nil]
    /\ user_txt = NoUsers /\ torn = FALSE
    /\ tml = [n \in Names |-> <<>>]
    /\ call = [c \in Clients |-> Idle]
    /\ inbox = [c \in Clients |-> <<>>]
    /\ cli = [c \in Clients |-> "off"]
    /\ screen = [c \in Clients |-> <<>>]
    /\ made = [c \in Clients |-> 0]
    /\ faults = 0

Fault(kind) ==
    /\ kind \in Faults
    /\ faults < MaxFaults
    /\ faults' = faults + 1

\* a step of a call's thread; in the middle of the interrupt handler it is a race
Handling ==
    \/ phase = "serving" /\ UNCHANGED faults
    \/ phase = "closing" /\ Fault("late")

Listening == phase \in {"serving", "closing"}

\* the process ends, and with it every call; read_timeline reads on for ever
Ends ==
    /\ phase' = "down" /\ saved' = 0
    /\ following' = NoUsers /\ loggedIn' = {} /\ stream' = [n \in Names |-> Nil]
    /\ call' = [c \in Clients |-> Idle]
    /\ inbox' = [c \in Clients |-> <<>>]
    /\ cli' = [c \in Clients |-> IF cli[c] = "timeline" THEN "stuck" ELSE cli[c]]
    /\ screen' = [c \in Clients |-> <<>>]
    /\ UNCHANGED <<tml, made>>

\* in the middle of the interrupt handler, too
Dies == Ends /\ torn' = (torn \/ phase = "closing")

-----------------------------------------------------------------------------
(* Login, Follow and UnFollow; a client that is refused at its login exits *)
(* and one that left comes back as a new process, when its old call is over *)

Login(c) ==
    LET u == NameOf[c] IN
    /\ cli[c] = "off" /\ call[c] = Idle /\ u \notin loggedIn
    /\ Handling
    /\ following' = [following EXCEPT ![u] = IF @ = {} THEN {u} ELSE @]
    /\ loggedIn' = loggedIn \cup {u}
    /\ torn' = (torn \/ (phase = "closing" /\ following[u] = {} /\ u =< saved))
    /\ cli' = [cli EXCEPT ![c] = "on"]
    /\ UNCHANGED <<phase, saved, stream, user_txt, tml, call, inbox, screen, made>>

Follow(c, v) ==
    /\ cli[c] = "on" /\ {NameOf[c], v} \subseteq Known(following)
    /\ Handling
    /\ following' = [following EXCEPT ![v] = @ \cup {NameOf[c]}]
    /\ UNCHANGED <<phase, saved, loggedIn, stream, fileVars, call, inbox, cliVars>>

\* as if one could unfollow oneself
UnFollowSelf(c, v) ==
    /\ cli[c] = "on" /\ NameOf[c] \in Known(following)
    /\ Handling
    /\ following' = [following EXCEPT ![v] = @ \ {NameOf[c]}]
    /\ UNCHANGED <<phase, saved, loggedIn, stream, fileVars, call, inbox, cliVars>>

\* rem_follower lets nobody unfollow itself
UnFollow(c, v) ==
    /\ cli[c] = "on" /\ NameOf[c] \in Known(following) \ {v}
    /\ Handling
    /\ following' = [following EXCEPT ![v] = @ \ {NameOf[c]}]
    /\ UNCHANGED <<phase, saved, loggedIn, stream, fileVars, call, inbox, cliVars>>

-----------------------------------------------------------------------------
(* The timeline *)

\* processTimeline: the newest posts on file, then the join message
Timeline(c) ==
    LET file == tml[NameOf[c]]
        first == IF Len(file) > Page THEN Len(file) - Page + 1 ELSE 1
    IN
    /\ cli[c] = "on"
    /\ IF Listening
       THEN /\ cli' = [cli EXCEPT ![c] = "timeline"]
            /\ screen' = [screen EXCEPT ![c] = Reverse(SubSeq(file, first, Len(file)))]
            /\ call' = [call EXCEPT ![c].pc = "joining"]
       ELSE cli' = [cli EXCEPT ![c] = "stuck"] /\ UNCHANGED <<screen, call>>
    /\ UNCHANGED <<phase, saved, userVars, fileVars, inbox, made, faults>>

\* the join message is read: the stream is bound unless one is bound already; an
\* unknown user is CANCELLED
Bind(c) ==
    LET u == NameOf[c] IN
    /\ call[c].pc = "joining"
    /\ Handling
    /\ IF u \in Known(following)
       THEN /\ stream' = [stream EXCEPT ![u] = IF @ = Nil THEN c ELSE @]
            /\ call' = [call EXCEPT ![c].pc = "reading"]
            /\ UNCHANGED cli
       ELSE /\ call' = [call EXCEPT ![c] = Idle]
            /\ cli' = [cli EXCEPT ![c] = IF @ = "timeline" THEN "stuck" ELSE @]
            /\ UNCHANGED stream
    /\ UNCHANGED <<phase, saved, following, loggedIn, fileVars, inbox, screen, made>>

\* write_timeline
Post(c) ==
    /\ cli[c] = "timeline" /\ call[c].pc # "none"
    /\ made[c] < MaxPosts[c]
    /\ made' = [made EXCEPT ![c] = @ + 1]
    /\ inbox' = [inbox EXCEPT ![c] = Append(@, made[c] + 1)]
    /\ UNCHANGED <<phase, saved, userVars, fileVars, call, cli, screen, faults>>

\* the next post is read, and post_timeline writes it to the author's own file
Read(c) ==
    /\ call[c].pc = "reading" /\ inbox[c] # <<>>
    /\ Handling
    /\ inbox' = [inbox EXCEPT ![c] = Tail(@)]
    /\ tml' = [tml EXCEPT ![NameOf[c]] = Append(@, <<c, Head(inbox[c])>>)]
    /\ call' = [call EXCEPT ![c] = [pc |-> "posting", post |-> Head(inbox[c]), at |-> 0]]
    /\ UNCHANGED <<phase, saved, userVars, user_txt, torn, cliVars>>

\* f is the next follower in the loop of the call of c
NextFollower(c, f) ==
    LET left == {g \in following[NameOf[c]] : g > call[c].at} IN
    f \in left /\ \A g \in left : f =< g

\* as if authors were notified of their own posts
NotifySelf(c) ==
    /\ call[c].pc = "posting"
    /\ Handling
    /\ \E f \in Names :
         /\ NextFollower(c, f)
         /\ tml' = [tml EXCEPT ![f] = Append(@, <<c, call[c].post>>)]
         /\ call' = [call EXCEPT ![c].at = f,
                       ![c].pc = IF stream[f] = Nil THEN @ ELSE "writing"]
    /\ UNCHANGED <<phase, saved, userVars, user_txt, torn, inbox, cliVars>>

\* as if the stream were looked up after the file is written
NotifyLate(c) ==
    /\ call[c].pc = "posting"
    /\ Handling
    /\ \E f \in Names :
         /\ NextFollower(c, f)
         /\ IF f = NameOf[c]
            THEN call' = [call EXCEPT ![c].at = f] /\ UNCHANGED tml
            ELSE /\ tml' = [tml EXCEPT ![f] = Append(@, <<c, call[c].post>>)]
                 /\ call' = [call EXCEPT ![c].at = f, ![c].pc = "writing"]
    /\ UNCHANGED <<phase, saved, userVars, user_txt, torn, inbox, cliVars>>

\* notify_post of the next follower, up to its file; whether a stream is bound is
\* looked up before the file is written
Notify(c) ==
    /\ call[c].pc = "posting"
    /\ Handling
    /\ \E f \in Names :
         /\ NextFollower(c, f)
         /\ IF f = NameOf[c]
            THEN call' = [call EXCEPT ![c].at = f] /\ UNCHANGED tml
            ELSE /\ tml' = [tml EXCEPT ![f] = Append(@, <<c, call[c].post>>)]
                 /\ call' = [call EXCEPT ![c].at = f,
                               ![c].pc = IF stream[f] = Nil THEN @ ELSE "writing"]
    /\ UNCHANGED <<phase, saved, userVars, user_txt, torn, inbox, cliVars>>

\* stream->Write: a stream of a call that has returned is gone, and what becomes
\* of that write is open; a stream the interrupt handler has cleared is null
Write(c) ==
    LET s == stream[call[c].at] IN
    /\ call[c].pc = "writing"
    /\ \/ /\ s # Nil
          /\ Handling
          /\ screen' = IF s # Gone /\ cli[s] = "timeline"
                       THEN [screen EXCEPT ![s] = Append(@, <<c, call[c].post>>)]
                       ELSE screen
          /\ call' = [call EXCEPT ![c].pc = "posting"]
          /\ UNCHANGED <<phase, saved, userVars, torn, tml, inbox, cli, made>>
       \/ s = Nil /\ Fault("late") /\ Dies
       \/ s = Gone /\ Fault("stream") /\ Dies
    /\ UNCHANGED user_txt

\* as if the loop ended at the author's own name
PostedAtOwn(c) ==
    /\ call[c].pc = "posting"
    /\ call[c].at = NameOf[c] \/ \A f \in Names : ~NextFollower(c, f)
    /\ Handling
    /\ call' = [call EXCEPT ![c] = [Idle EXCEPT !.pc = "reading"]]
    /\ UNCHANGED <<phase, saved, userVars, fileVars, inbox, cliVars>>

\* all followers have been notified
Posted(c) ==
    /\ call[c].pc = "posting"
    /\ \A f \in Names : ~NextFollower(c, f)
    /\ Handling
    /\ call' = [call EXCEPT ![c] = [Idle EXCEPT !.pc = "reading"]]
    /\ UNCHANGED <<phase, saved, userVars, fileVars, inbox, cliVars>>

\* Timeline returns once its client has left; the stream stays bound
EndCall(c) ==
    /\ cli[c] = "off" /\ call[c].pc \in {"joining", "reading"}
    /\ call[c].pc = "reading" => inbox[c] = <<>>
    /\ Handling
    /\ call' = [call EXCEPT ![c] = Idle]
    /\ inbox' = [inbox EXCEPT ![c] = <<>>]
    /\ stream' = [n \in Names |-> IF stream[n] = c THEN Gone ELSE stream[n]]
    /\ UNCHANGED <<phase, saved, following, loggedIn, fileVars, cliVars>>

\* a client is ended from its keyboard, the only way out; some of what it has sent
\* may not get through
Leave(c) ==
    /\ cli[c] # "off"
    /\ cli' = [cli EXCEPT ![c] = "off"]
    /\ screen' = [screen EXCEPT ![c] = <<>>]
    /\ \E n \in 0..Len(inbox[c]) : inbox' = [inbox EXCEPT ![c] = SubSeq(@, 1, n)]
    /\ UNCHANGED <<phase, saved, userVars, fileVars, call, made, faults>>

-----------------------------------------------------------------------------
(* The server's life: parse_dump, RunServer and signal_callback_handler *)

Start ==
    /\ phase = "down"
    /\ phase' = "loading"
    /\ UNCHANGED <<saved, userVars, fileVars, call, inbox, cliVars, faults>>

\* one line of user.txt: a user with itself for a follower, not logged in
Load ==
    LET left == Known(user_txt) \ Known(following) IN
    /\ phase = "loading"
    /\ \E n \in left :
         /\ \A m \in left : n =< m
         /\ following' = [following EXCEPT ![n] = {n}]
    /\ UNCHANGED <<phase, saved, loggedIn, stream, fileVars, call, inbox, cliVars, faults>>

\* as if nobody grabbed the followers
ServeUngrabbed ==
    /\ phase = "loading"
    /\ Known(user_txt) = Known(following)
    /\ phase' = "serving"
    /\ user_txt' = NoUsers /\ torn' = FALSE
    /\ UNCHANGED <<saved, userVars, tml, call, inbox, cliVars, faults>>

\* grabFollowers for all, the file is removed and the server listens; at() throws
\* for a follower that is not in the file, and that ends the server
Serve ==
    /\ phase = "loading"
    /\ Known(user_txt) = Known(following)
    /\ IF \A n \in Names : user_txt[n] \subseteq Known(user_txt)
       THEN /\ phase' = "serving"
            /\ following' = [n \in Names |-> following[n] \cup user_txt[n]]
            /\ user_txt' = NoUsers /\ torn' = FALSE
            /\ UNCHANGED <<saved, loggedIn, stream, tml, call, inbox, cliVars>>
       ELSE Ends /\ UNCHANGED <<user_txt, torn>>
    /\ UNCHANGED faults

\* SIGINT: opening user.txt empties it
Interrupt ==
    /\ phase = "serving"
    /\ phase' = "closing" /\ saved' = 0
    /\ user_txt' = NoUsers
    /\ UNCHANGED <<userVars, torn, tml, call, inbox, cliVars, faults>>

\* SIGINT while the users are loaded: nobody has its followers yet
InterruptEarly ==
    /\ phase = "loading"
    /\ Fault("early")
    /\ user_txt' = following /\ torn' = FALSE
    /\ Ends

\* as if only the users that are logged in were saved
CloseUserOn ==
    LET left == {m \in Known(following) : m > saved} IN
    /\ phase = "closing"
    /\ \E n \in left :
         /\ \A m \in left : n =< m
         /\ saved' = n
         /\ user_txt' = [user_txt EXCEPT ![n] = IF n \in loggedIn THEN following[n] ELSE @]
         /\ stream' = [stream EXCEPT ![n] = Nil]
    /\ UNCHANGED <<phase, following, loggedIn, torn, tml, call, inbox, cliVars, faults>>

\* close_user of the next user
CloseUser ==
    LET left == {m \in Known(following) : m > saved} IN
    /\ phase = "closing"
    /\ \E n \in left :
         /\ \A m \in left : n =< m
         /\ saved' = n
         /\ user_txt' = [user_txt EXCEPT ![n] = following[n]]
         /\ stream' = [stream EXCEPT ![n] = Nil]
    /\ UNCHANGED <<phase, following, loggedIn, torn, tml, call, inbox, cliVars, faults>>

\* exit(0)
Exit ==
    /\ phase = "closing"
    /\ \A n \in Known(following) : n =< saved
    /\ Ends
    /\ UNCHANGED <<user_txt, torn, faults>>

Kill ==
    /\ phase # "down"
    /\ Fault("kill")
    /\ Dies
    /\ UNCHANGED user_txt

Handler(c) == Bind(c) \/ Read(c) \/ Notify(c) \/ Write(c) \/ Posted(c) \/ EndCall(c)

Next ==
    \/ \E c \in Clients :
         \/ Login(c) \/ Timeline(c) \/ Post(c) \/ Leave(c) \/ Handler(c)
         \/ \E v \in Names : Follow(c, v) \/ UnFollow(c, v)
    \/ Start \/ Load \/ Serve \/ Interrupt \/ InterruptEarly \/ CloseUser \/ Exit \/ Kill

Spec == Init /\ [][Next]_vars

\* The thread of a call runs as long as the server serves.
FairSpec == Spec /\ \A c \in Clients : WF_vars(phase = "serving" /\ Handler(c))

-----------------------------------------------------------------------------

Posts == Clients \X Nat

\* The shape of memory, files and clients; a user has itself among its followers.
SocialTypeOK ==
    /\ phase \in {"down", "loading", "serving", "closing"}
    /\ saved \in Names \cup {0}
    /\ following \in [Names -> SUBSET Names]
    /\ user_txt \in [Names -> SUBSET Names] /\ torn \in BOOLEAN
    /\ \A n \in Names : /\ following[n] # {} => n \in following[n]
                        /\ user_txt[n] # {} => n \in user_txt[n]
    /\ loggedIn \subseteq Known(following)
    /\ stream \in [Names -> Clients \cup {Nil, Gone}]
    /\ tml \in [Names -> Seq(Posts)]
    /\ call \in [Clients -> [pc : {"none", "joining", "reading", "posting", "writing"},
                             post : Nat, at : Names \cup {0}]]
    /\ inbox \in [Clients -> Seq(Nat)]
    /\ cli \in [Clients -> {"off", "on", "timeline", "stuck"}]
    /\ screen \in [Clients -> Seq(Posts)]
    /\ made \in [Clients -> Nat]
    /\ faults \in 0..MaxFaults

\* the followers that are kept: on file, or in memory and still to be saved
KeptGraph ==
    [n \in Names |-> IF phase = "serving" \/ (phase = "closing" /\ n > saved)
                     THEN following[n] ELSE user_txt[n]]

Kept == INSTANCE SocialGraph WITH graph <- KeptGraph

\* Through every interruption, restart and order of calls, what is kept of who
\* follows whom is what the users made it.
GraphKept == Kept!GraphSpec

\* A server that is started finds a user.txt it can load, which names no follower
\* without a line, whatever calls ran while the one before saved it, wherever that one
\* died and however early it was interrupted: all but a death in the middle of the
\* save, and a stranger who logs in when the save is past its name.
Restartable ==
    ~torn /\ phase \in {"down", "loading"} =>
        \A n \in Names : user_txt[n] \subseteq Known(user_txt)

\* Whatever calls run side by side, leave, or end with the server, a file holds
\* no post twice and the posts of one client in the order they were made.
FiledInOrder ==
    \A n \in Names : \A i, j \in DOMAIN tml[n] :
        i < j /\ tml[n][i][1] = tml[n][j][1] => tml[n][i][2] < tml[n][j][2]

\* A timeline that is opened while posts are being distributed shows no post
\* twice, once from the file and once from the stream, and none that is not filed,
\* as long as the server is not being interrupted.
ShownOnce ==
    phase = "serving" => \A c \in Clients : /\ IsInjective(screen[c])
                                              /\ Range(screen[c]) \subseteq Range(tml[NameOf[c]])

\* A post that is read reaches the file of everyone who keeps following its author,
\* unless the server is interrupted or dies.
Delivered ==
    \A c \in Clients, f \in Names : \A k \in 1..MaxPosts[c] :
        /\ phase = "serving" /\ f \in following[NameOf[c]]
        /\ call[c].pc = "posting" /\ call[c].post = k /\ call[c].at = 0
        ~> \/ <<c, k>> \in Range(tml[f])
           \/ f \notin following[NameOf[c]] \/ phase # "serving"
=============================================================================
