---------------------------- MODULE SocialProofs ----------------------------
(***************************************************************************)
(* The server of the tiny social network, for every set of names and       *)
(* clients and any number of posts: what is kept of who follows whom is    *)
(* what the users made it, and a server that was interrupted finds a file  *)
(* it can load; however calls run side by side, leave, or end with the     *)
(* server, no timeline file holds a post twice, or a client's posts in     *)
(* another order than they were made; and no timeline shows a post twice,  *)
(* or one that is not on its user's file.                                  *)
(***************************************************************************)
EXTENDS SocialNetwork, SequenceTheorems, TLAPS

PCs == {"none", "joining", "reading", "posting", "writing"}

CallRec == [pc : PCs, post : Nat, at : Names \cup {0}]

-----------------------------------------------------------------------------
(* Typing *)

\* One value of a function is replaced by another of its range.
LEMMA ExceptTyped ==
    ASSUME NEW A, NEW B, NEW f \in [A -> B], NEW a \in A, NEW b \in B
    PROVE  [f EXCEPT ![a] = b] \in [A -> B]
OBVIOUS

\* The newest posts of a file, the last one first, are a sequence of posts.
LEMMA ScreenTyped ==
    ASSUME NEW file \in Seq(Posts), NEW first \in Nat \ {0}
    PROVE  Reverse(SubSeq(file, first, Len(file))) \in Seq(Posts)
<1>1. SubSeq(file, first, Len(file)) \in Seq(Posts)
  OBVIOUS
<1> DEFINE s == SubSeq(file, first, Len(file))
<1> HIDE DEF s
<1>2. s \in Seq(Posts)
  BY <1>1 DEF s
<1>3. \A i \in 1..Len(s) : s[(Len(s) - i) + 1] \in Posts
  BY <1>2
<1>4. [i \in 1..Len(s) |-> s[(Len(s) - i) + 1]] \in Seq(Posts)
  <2>1. Len(s) \in Nat
    BY <1>2
  <2> QED
    BY <2>1, <1>3, IsASeq
<1> QED
  BY <1>4 DEF Reverse, s

\* The state of users and files, without that of clients and their calls.
GraphTyped ==
    /\ following \in [Names -> SUBSET Names]
    /\ user_txt \in [Names -> SUBSET Names]
    /\ \A n \in Names : /\ following[n] # {} => n \in following[n]
                        /\ user_txt[n] # {} => n \in user_txt[n]
    /\ loggedIn \subseteq Known(following)
    /\ saved \in Names \cup {0}

\* The state of clients, their calls and the files of posts.
CallsTyped ==
    /\ stream \in [Names -> Clients \cup {Nil, Gone}]
    /\ tml \in [Names -> Seq(Posts)]
    /\ call \in [Clients -> CallRec]
    /\ inbox \in [Clients -> Seq(Nat)]
    /\ cli \in [Clients -> {"off", "on", "timeline", "stuck"}]
    /\ screen \in [Clients -> Seq(Posts)]
    /\ made \in [Clients -> Nat]

\* What goes wrong is counted, up to the bound.
CountTyped ==
    /\ phase \in {"down", "loading", "serving", "closing"}
    /\ faults \in 0..MaxFaults
    /\ torn \in BOOLEAN

\* The three parts are the type invariant.
LEMMA TypedParts == SocialTypeOK <=> GraphTyped /\ CallsTyped /\ CountTyped
BY DEF SocialTypeOK, GraphTyped, CallsTyped, CountTyped, CallRec, PCs

\* A fault is counted up to the bound.
LEMMA FaultCounted ==
    ASSUME CountTyped, NEW kind, Fault(kind)
    PROVE  faults' \in 0..MaxFaults /\ faults' = faults + 1
BY MishapAssumption DEF CountTyped, Fault

\* No user is known to a server that is down.
LEMMA NoUsersTyped == NoUsers \in [Names -> SUBSET Names] /\ Known(NoUsers) = {}
BY DEF NoUsers, Known

\* The end of the process leaves calls and clients well formed.
LEMMA EndsTyped ==
    ASSUME CallsTyped, Ends
    PROVE  CallsTyped' /\ phase' = "down"
<1> USE DEF CallsTyped
<1>1. Idle \in CallRec
  BY DEF Idle, CallRec, PCs
<1>2. call' \in [Clients -> CallRec]
  BY <1>1 DEF Ends
<1>3. inbox' \in [Clients -> Seq(Nat)] /\ screen' \in [Clients -> Seq(Posts)]
  BY EmptySeq DEF Ends
<1>4. stream' \in [Names -> Clients \cup {Nil, Gone}]
  BY DEF Ends
<1>5. cli' \in [Clients -> {"off", "on", "timeline", "stuck"}]
  BY DEF Ends
<1> QED
  BY <1>2, <1>3, <1>4, <1>5 DEF Ends

\* The end of the process leaves the memory empty.
LEMMA EndsGraph ==
    ASSUME GraphTyped, Ends,
           user_txt' = user_txt \/ user_txt' = following
    PROVE  GraphTyped'
<1>1. following' = NoUsers /\ loggedIn' = {} /\ saved' = 0
  BY DEF Ends
<1>2. \A n \in Names : following'[n] = {}
  BY <1>1 DEF NoUsers
<1> QED
  BY <1>1, <1>2, NoUsersTyped DEF GraphTyped

\* Nobody is known at first, and no client runs.
LEMMA InitTyped == Init => SocialTypeOK
<1> SUFFICES ASSUME Init PROVE GraphTyped /\ CallsTyped /\ CountTyped
  BY TypedParts
<1>1. GraphTyped
  BY NoUsersTyped DEF Init, GraphTyped, NoUsers
<1>2. CallsTyped
  BY EmptySeq DEF Init, CallsTyped, CallRec, PCs, Idle
<1>3. CountTyped
  <2>1. phase = "down" /\ faults = 0 /\ torn = FALSE
    BY DEF Init
  <2>2. faults \in 0..MaxFaults
    BY <2>1, MishapAssumption
  <2>3. torn \in BOOLEAN
    BY <2>1
  <2> QED
    BY <2>1, <2>2, <2>3 DEF CountTyped
<1> QED
  BY <1>1, <1>2, <1>3

\* The steps of clients and calls keep users and their files well formed.
LEMMA ClientGraph ==
    ASSUME GraphTyped, NEW c \in Clients,
           \/ Login(c) \/ Timeline(c) \/ Post(c) \/ Leave(c) \/ Handler(c)
           \/ \E v \in Names : Follow(c, v) \/ UnFollow(c, v)
    PROVE  GraphTyped'
<1> DEFINE u == NameOf[c]
<1> USE NamesAssumption
<1>0. u \in Names
  OBVIOUS
<1>1. CASE UNCHANGED <<following, user_txt, loggedIn, saved>>
  BY <1>1 DEF GraphTyped, Known
<1>2. CASE Login(c)
  <2>1. /\ following' = [following EXCEPT ![u] = IF @ = {} THEN {u} ELSE @]
        /\ loggedIn' = loggedIn \cup {u}
        /\ UNCHANGED <<user_txt, saved>>
    BY <1>2 DEF Login, fileVars
  <2>2. ASSUME NEW n \in Names
        PROVE  /\ following'[n] \in SUBSET Names
               /\ following[n] # {} => following'[n] # {}
               /\ following'[n] # {} => n \in following'[n]
               /\ n = u => following'[n] # {}
    BY <1>0, <2>1 DEF GraphTyped
  <2>3. following' \in [Names -> SUBSET Names]
    BY <2>1, <2>2 DEF GraphTyped
  <2> QED
    BY <1>0, <2>1, <2>2, <2>3 DEF GraphTyped, Known
<1>3. ASSUME NEW v \in Names, Follow(c, v) PROVE GraphTyped'
  <2>1. /\ following' = [following EXCEPT ![v] = @ \cup {u}]
        /\ following[v] # {}
        /\ UNCHANGED <<user_txt, saved, loggedIn>>
    BY <1>3 DEF Follow, fileVars, Known
  <2>2. ASSUME NEW n \in Names
        PROVE  /\ following'[n] \in SUBSET Names
               /\ following[n] # {} => following'[n] # {}
               /\ following'[n] # {} => n \in following'[n]
    BY <1>0, <2>1 DEF GraphTyped
  <2>3. following' \in [Names -> SUBSET Names]
    BY <2>1, <2>2 DEF GraphTyped
  <2> QED
    BY <2>1, <2>2, <2>3 DEF GraphTyped, Known
<1>4. ASSUME NEW v \in Names, UnFollow(c, v) PROVE GraphTyped'
  <2>1. /\ following' = [following EXCEPT ![v] = @ \ {u}]
        /\ u # v
        /\ UNCHANGED <<user_txt, saved, loggedIn>>
    BY <1>4 DEF UnFollow, fileVars, Known
  <2>2. ASSUME NEW n \in Names
        PROVE  /\ following'[n] \in SUBSET Names
               /\ following[n] # {} => following'[n] # {}
               /\ following'[n] # {} => n \in following'[n]
    BY <1>0, <2>1 DEF GraphTyped
  <2>3. following' \in [Names -> SUBSET Names]
    BY <2>1, <2>2 DEF GraphTyped
  <2> QED
    BY <2>1, <2>2, <2>3 DEF GraphTyped, Known
<1>5. CASE Write(c)
  <2>1. \/ UNCHANGED <<following, user_txt, loggedIn, saved>>
        \/ Ends /\ UNCHANGED user_txt
    BY <1>5 DEF Write, Dies, userVars
  <2> QED
    BY <1>1, <2>1, EndsGraph
<1>6. CASE \/ Timeline(c) \/ Post(c) \/ Leave(c) \/ Bind(c) \/ Read(c) \/ Notify(c)
           \/ Posted(c) \/ EndCall(c)
  BY <1>1, <1>6
     DEF Timeline, Post, Leave, Bind, Read, Notify, Posted, EndCall, userVars, fileVars
<1> QED
  BY <1>2, <1>3, <1>4, <1>5, <1>6 DEF Handler

\* The steps of the server's life keep users and their files well formed.
LEMMA ServerGraph ==
    ASSUME GraphTyped,
           Start \/ Load \/ Serve \/ Interrupt \/ InterruptEarly \/ CloseUser \/ Exit \/ Kill
    PROVE  GraphTyped'
<1>1. CASE Start
  BY <1>1 DEF Start, userVars, fileVars, GraphTyped, Known
<1>2. CASE Load
  <2>1. PICK n \in Names : following' = [following EXCEPT ![n] = {n}]
    BY <1>2 DEF Load, Known
  <2>2. UNCHANGED <<user_txt, loggedIn, saved>>
    BY <1>2 DEF Load, fileVars
  <2>3. ASSUME NEW m \in Names
        PROVE  /\ following'[m] \in SUBSET Names
               /\ following[m] # {} => following'[m] # {}
               /\ following'[m] # {} => m \in following'[m]
    BY <2>1 DEF GraphTyped
  <2>4. following' \in [Names -> SUBSET Names]
    BY <2>1, <2>3 DEF GraphTyped
  <2> QED
    BY <2>2, <2>3, <2>4 DEF GraphTyped, Known
<1>3. CASE Serve
  <2>1. CASE Ends /\ UNCHANGED user_txt
    BY <2>1, EndsGraph
  <2>2. CASE /\ following' = [n \in Names |-> following[n] \cup user_txt[n]]
             /\ user_txt' = NoUsers
             /\ UNCHANGED <<saved, loggedIn>>
    <3>1. ASSUME NEW m \in Names
          PROVE  /\ following'[m] \in SUBSET Names
                 /\ following[m] # {} => following'[m] # {}
                 /\ following'[m] # {} => m \in following'[m]
      BY <2>2 DEF GraphTyped
    <3>2. following' \in [Names -> SUBSET Names]
      BY <2>2, <3>1
    <3>3. \A m \in Names : user_txt'[m] = {}
      BY <2>2 DEF NoUsers
    <3> QED
      BY <2>2, <3>1, <3>2, <3>3, NoUsersTyped DEF GraphTyped, Known
  <2> QED
    BY <1>3, <2>1, <2>2 DEF Serve
<1>4. CASE Interrupt
  <2>1. \A m \in Names : user_txt'[m] = {}
    BY <1>4 DEF Interrupt, NoUsers
  <2> QED
    BY <1>4, <2>1, NoUsersTyped DEF Interrupt, userVars, GraphTyped, Known
<1>5. CASE CloseUser
  <2>1. PICK n \in Names : saved' = n /\ user_txt' = [user_txt EXCEPT ![n] = following[n]]
    BY <1>5 DEF CloseUser, Known
  <2>2. UNCHANGED <<following, loggedIn>>
    BY <1>5 DEF CloseUser
  <2>3. ASSUME NEW m \in Names
        PROVE  /\ user_txt'[m] \in SUBSET Names
               /\ user_txt'[m] # {} => m \in user_txt'[m]
    BY <2>1 DEF GraphTyped
  <2>4. user_txt' \in [Names -> SUBSET Names]
    BY <2>1, <2>3 DEF GraphTyped
  <2> QED
    BY <2>1, <2>2, <2>3, <2>4 DEF GraphTyped, Known
<1>6. CASE InterruptEarly \/ Exit \/ Kill
  BY <1>6, EndsGraph DEF InterruptEarly, Exit, Kill, Dies
<1> QED
  BY <1>1, <1>2, <1>3, <1>4, <1>5, <1>6

\* One field of the record of a call is set.
LEMMA CallSet ==
    ASSUME CallsTyped, NEW c \in Clients, NEW pc \in PCs
    PROVE  /\ [call EXCEPT ![c].pc = pc] \in [Clients -> CallRec]
           /\ [call EXCEPT ![c] = Idle] \in [Clients -> CallRec]
           /\ [call EXCEPT ![c] = [Idle EXCEPT !.pc = pc]] \in [Clients -> CallRec]
<1>1. call \in [Clients -> CallRec] /\ call[c] \in CallRec
  BY DEF CallsTyped
<1>2. /\ [call[c] EXCEPT !.pc = pc] \in CallRec
      /\ Idle \in CallRec
      /\ [Idle EXCEPT !.pc = pc] \in CallRec
  BY <1>1 DEF CallRec, Idle, PCs
<1> QED
  BY <1>1, <1>2 DEF CallRec

\* A call comes to the next follower.
LEMMA CallAt ==
    ASSUME CallsTyped, NEW c \in Clients, NEW pc \in PCs, NEW f \in Names
    PROVE  /\ [call EXCEPT ![c].at = f] \in [Clients -> CallRec]
           /\ [call EXCEPT ![c].at = f, ![c].pc = pc] \in [Clients -> CallRec]
<1>1. call \in [Clients -> CallRec] /\ call[c] \in CallRec
  BY DEF CallsTyped
<1>2. /\ [call[c] EXCEPT !.at = f] \in CallRec
      /\ [[call[c] EXCEPT !.at = f] EXCEPT !.pc = pc] \in CallRec
  BY <1>1 DEF CallRec, PCs
<1> QED
  BY <1>1, <1>2 DEF CallRec

\* The steps of a call's thread keep calls, clients and posts well formed.
LEMMA HandlerCalls ==
    ASSUME CallsTyped, NEW c \in Clients, Handler(c)
    PROVE  CallsTyped'
<1> DEFINE u == NameOf[c]
<1> USE NamesAssumption
<1>0. u \in Names
  OBVIOUS
<1> USE DEF CallsTyped
<1>1. CASE Bind(c)
  <2>1. call' \in [Clients -> CallRec]
    <3>1. "reading" \in PCs
      BY DEF PCs
    <3>2. /\ [call EXCEPT ![c].pc = "reading"] \in [Clients -> CallRec]
          /\ [call EXCEPT ![c] = Idle] \in [Clients -> CallRec]
      BY <3>1, CallSet
    <3> QED
      BY <1>1, <3>2 DEF Bind
  <2>2. stream' \in [Names -> Clients \cup {Nil, Gone}]
    BY <1>0, <1>1 DEF Bind
  <2>3. cli' \in [Clients -> {"off", "on", "timeline", "stuck"}]
    BY <1>1 DEF Bind
  <2> QED
    BY <1>1, <2>1, <2>2, <2>3 DEF Bind, fileVars
<1>2. CASE Read(c)
  <2>1. inbox[c] \in Seq(Nat) /\ inbox[c] # <<>>
    BY <1>2 DEF Read
  <2>2. Head(inbox[c]) \in Nat /\ Tail(inbox[c]) \in Seq(Nat)
    BY <2>1
  <2>3. inbox' \in [Clients -> Seq(Nat)]
    BY <1>2, <2>2, ExceptTyped DEF Read
  <2>4. tml' \in [Names -> Seq(Posts)]
    <3>1. <<c, Head(inbox[c])>> \in Posts
      BY <2>2 DEF Posts
    <3>2. Append(tml[u], <<c, Head(inbox[c])>>) \in Seq(Posts)
      <4>1. tml[u] \in Seq(Posts)
        BY <1>0
      <4> QED
        BY <3>1, <4>1
    <3>3. tml' = [tml EXCEPT ![u] = Append(tml[u], <<c, Head(inbox[c])>>)]
      BY <1>2 DEF Read
    <3> QED
      BY <1>0, <3>2, <3>3, ExceptTyped
  <2>5. call' \in [Clients -> CallRec]
    <3>1. [pc |-> "posting", post |-> Head(inbox[c]), at |-> 0] \in CallRec
      BY <2>2 DEF CallRec, PCs
    <3> QED
      BY <1>2, <3>1, ExceptTyped DEF Read
  <2> QED
    BY <1>2, <2>3, <2>4, <2>5 DEF Read, userVars, cliVars
<1>3. CASE Notify(c)
  <2>1. PICK f \in Names :
          IF f = NameOf[c]
          THEN call' = [call EXCEPT ![c].at = f] /\ UNCHANGED tml
          ELSE /\ tml' = [tml EXCEPT ![f] = Append(@, <<c, call[c].post>>)]
               /\ call' = [call EXCEPT ![c].at = f,
                             ![c].pc = IF stream[f] = Nil THEN @ ELSE "writing"]
    BY <1>3 DEF Notify
  <2>2. call[c].pc = "posting" /\ call[c].post \in Nat
    BY <1>3 DEF Notify, CallRec
  <2>3. call' \in [Clients -> CallRec]
    <3>1. CASE f = NameOf[c]
      <4>1. "posting" \in PCs
        BY DEF PCs
      <4>2. [call EXCEPT ![c].at = f] \in [Clients -> CallRec]
        BY <4>1, CallAt
      <4> QED
        BY <2>1, <3>1, <4>2
    <3>2. CASE f # NameOf[c]
      <4>1. PICK pc \in PCs : call' = [call EXCEPT ![c].at = f, ![c].pc = pc]
        BY <2>1, <2>2, <3>2 DEF PCs
      <4> QED
        BY <4>1, CallAt
    <3> QED
      BY <3>1, <3>2
  <2>4. tml' \in [Names -> Seq(Posts)]
    <3>1. <<c, call[c].post>> \in Posts
      BY <2>2 DEF Posts
    <3>2. Append(tml[f], <<c, call[c].post>>) \in Seq(Posts)
      <4>1. tml[f] \in Seq(Posts)
        OBVIOUS
      <4> QED
        BY <3>1, <4>1
    <3>3. UNCHANGED tml \/ tml' = [tml EXCEPT ![f] = Append(tml[f], <<c, call[c].post>>)]
      BY <2>1
    <3>4. [tml EXCEPT ![f] = Append(tml[f], <<c, call[c].post>>)] \in [Names -> Seq(Posts)]
      BY <3>2, ExceptTyped
    <3> QED
      BY <3>3, <3>4
  <2> QED
    BY <1>3, <2>3, <2>4 DEF Notify, userVars, cliVars
<1>4. CASE Write(c)
  <2>1. CASE Ends
    BY <2>1, EndsTyped
  <2>2. CASE ~Ends
    <3> DEFINE s == stream[call[c].at]
    <3>1. /\ screen' = IF s # Gone /\ cli[s] = "timeline"
                       THEN [screen EXCEPT ![s] = Append(@, <<c, call[c].post>>)]
                       ELSE screen
          /\ call' = [call EXCEPT ![c].pc = "posting"]
          /\ UNCHANGED <<userVars, tml, inbox, cli, made>>
      BY <1>4, <2>2 DEF Write, Dies
    <3>2. call' \in [Clients -> CallRec]
      BY <3>1, CallSet DEF PCs
    <3>3. screen' \in [Clients -> Seq(Posts)]
      <4>1. <<c, call[c].post>> \in Posts
        BY DEF Posts, CallRec
      <4>2. CASE UNCHANGED screen
        BY <4>2
      <4>3. CASE ~UNCHANGED screen
        <5> HIDE DEF s
        <5>1. screen' = [screen EXCEPT ![s] = Append(screen[s], <<c, call[c].post>>)]
          BY <3>1, <4>3
        <5>2. CASE s \in Clients
          <6>1. Append(screen[s], <<c, call[c].post>>) \in Seq(Posts)
            BY <4>1, <5>2
          <6> QED
            BY <5>1, <5>2, <6>1, ExceptTyped
        <5>3. CASE s \notin Clients
          BY <5>1, <5>3
        <5> QED
          BY <5>2, <5>3
      <4> QED
        BY <4>2, <4>3
    <3> QED
      BY <3>1, <3>2, <3>3 DEF userVars
  <2> QED
    BY <2>1, <2>2
<1>5. CASE Posted(c)
  BY <1>5, CallSet DEF Posted, PCs, userVars, fileVars, cliVars
<1>6. CASE EndCall(c)
  <2>1. stream' \in [Names -> Clients \cup {Nil, Gone}]
    BY <1>6 DEF EndCall
  <2>2. inbox' \in [Clients -> Seq(Nat)] /\ call' \in [Clients -> CallRec]
    BY <1>6, EmptySeq, ExceptTyped, CallSet DEF EndCall, PCs
  <2> QED
    BY <1>6, <2>1, <2>2 DEF EndCall, fileVars, cliVars
<1> QED
  BY <1>1, <1>2, <1>3, <1>4, <1>5, <1>6 DEF Handler

\* So do the steps of the clients.
LEMMA ClientCalls ==
    ASSUME CallsTyped, NEW c \in Clients,
           \/ Login(c) \/ Timeline(c) \/ Post(c) \/ Leave(c)
           \/ \E v \in Names : Follow(c, v) \/ UnFollow(c, v)
    PROVE  CallsTyped'
<1> USE NamesAssumption DEF CallsTyped
<1>1. CASE Login(c) \/ \E v \in Names : Follow(c, v) \/ UnFollow(c, v)
  BY <1>1 DEF Login, Follow, UnFollow, fileVars, cliVars
<1>2. CASE Timeline(c)
  <2> DEFINE file == tml[NameOf[c]]
             first == IF Len(file) > Page THEN Len(file) - Page + 1 ELSE 1
  <2>1. file \in Seq(Posts)
    OBVIOUS
  <2>2. first \in Nat \ {0}
    <3> HIDE DEF file
    <3> QED
      BY <2>1, BoundAssumption
  <2>3. Reverse(SubSeq(file, first, Len(file))) \in Seq(Posts)
    BY <2>1, <2>2, ScreenTyped
  <2>4. screen' \in [Clients -> Seq(Posts)]
    BY <1>2, <2>3, ExceptTyped DEF Timeline
  <2>5. call' \in [Clients -> CallRec]
    <3>1. "joining" \in PCs
      BY DEF PCs
    <3>2. [call EXCEPT ![c].pc = "joining"] \in [Clients -> CallRec]
      BY <3>1, CallSet
    <3> QED
      BY <1>2, <3>2 DEF Timeline
  <2>6. cli' \in [Clients -> {"off", "on", "timeline", "stuck"}]
    BY <1>2 DEF Timeline
  <2> QED
    BY <1>2, <2>4, <2>5, <2>6 DEF Timeline, userVars, fileVars
<1>3. CASE Post(c)
  <2>1. made[c] + 1 \in Nat
    OBVIOUS
  <2>2. Append(inbox[c], made[c] + 1) \in Seq(Nat)
    BY <2>1
  <2>3. inbox' \in [Clients -> Seq(Nat)] /\ made' \in [Clients -> Nat]
    BY <1>3, <2>1, <2>2, ExceptTyped DEF Post
  <2> QED
    BY <1>3, <2>3 DEF Post, userVars, fileVars
<1>4. CASE Leave(c)
  <2>1. \A n \in 0..Len(inbox[c]) : SubSeq(inbox[c], 1, n) \in Seq(Nat)
    OBVIOUS
  <2>2. inbox' \in [Clients -> Seq(Nat)]
    BY <1>4, <2>1, ExceptTyped DEF Leave
  <2>3. screen' \in [Clients -> Seq(Posts)]
    BY <1>4, EmptySeq, ExceptTyped DEF Leave
  <2> QED
    BY <1>4, <2>2, <2>3 DEF Leave, userVars, fileVars
<1> QED
  BY <1>1, <1>2, <1>3, <1>4

\* And so do the steps of the server's life.
LEMMA ServerCalls ==
    ASSUME CallsTyped,
           Start \/ Load \/ Serve \/ Interrupt \/ InterruptEarly \/ CloseUser \/ Exit \/ Kill
    PROVE  CallsTyped'
<1>1. Ends => CallsTyped'
  BY EndsTyped
<1>2. CASE CloseUser
  <2>1. PICK n \in Names : stream' = [stream EXCEPT ![n] = Nil]
    BY <1>2 DEF CloseUser, Known
  <2> QED
    BY <1>2, <2>1 DEF CloseUser, CallsTyped, cliVars
<1>3. CASE Start \/ Load \/ Serve \/ Interrupt
  BY <1>1, <1>3 DEF Start, Load, Serve, Interrupt, CallsTyped, userVars, fileVars, cliVars
<1> QED
  BY <1>1, <1>2, <1>3 DEF InterruptEarly, Exit, Kill, Dies

\* Every fault is counted.
LEMMA StepCounted ==
    ASSUME CountTyped, Next
    PROVE  CountTyped'
<1>1. Handling => phase \in {"serving", "closing"} /\ faults' \in 0..MaxFaults
  BY FaultCounted DEF Handling, CountTyped
<1>2. /\ Ends => phase' = "down"
      /\ Dies => phase' = "down" /\ torn' \in BOOLEAN
  BY DEF Ends, Dies
<1>3. ASSUME NEW c \in Clients,
             \/ Login(c) \/ Timeline(c) \/ Post(c) \/ Leave(c)
             \/ \E v \in Names : Follow(c, v) \/ UnFollow(c, v)
      PROVE  CountTyped'
  BY <1>1, <1>3 DEF Login, Timeline, Post, Leave, Follow, UnFollow, fileVars, CountTyped
<1>4. ASSUME NEW c \in Clients, Handler(c) PROVE CountTyped'
  <2>1. CASE Write(c)
    BY <1>1, <1>2, <2>1, FaultCounted DEF Write, CountTyped
  <2>2. CASE Bind(c) \/ Read(c) \/ Notify(c) \/ Posted(c) \/ EndCall(c)
    BY <1>1, <2>2 DEF Bind, Read, Notify, Posted, EndCall, fileVars, CountTyped
  <2> QED
    BY <1>4, <2>1, <2>2 DEF Handler
<1>5. CASE Start \/ Load \/ Serve \/ Interrupt \/ InterruptEarly \/ CloseUser \/ Exit \/ Kill
  <2>1. CASE InterruptEarly \/ Kill
    BY <1>2, <2>1, FaultCounted DEF InterruptEarly, Kill, CountTyped
  <2>2. CASE Start \/ Load \/ Serve \/ Interrupt \/ CloseUser \/ Exit
    BY <1>2, <2>2 DEF Start, Load, Serve, Interrupt, CloseUser, Exit, fileVars, CountTyped
  <2> QED
    BY <1>5, <2>1, <2>2
<1> QED
  BY <1>3, <1>4, <1>5 DEF Next

\* Every step keeps the network well typed.
LEMMA StepTyped == SocialTypeOK /\ [Next]_vars => SocialTypeOK'
<1> SUFFICES ASSUME GraphTyped, CallsTyped, CountTyped, [Next]_vars
             PROVE  GraphTyped' /\ CallsTyped' /\ CountTyped'
  BY TypedParts DEF SocialTypeOK, GraphTyped, CallsTyped, CountTyped, CallRec, PCs
<1>1. CASE UNCHANGED vars
  BY <1>1 DEF vars, userVars, fileVars, cliVars, GraphTyped, CallsTyped, CountTyped, Known
<1>2. CASE Next
  BY <1>2, ClientGraph, ServerGraph, HandlerCalls, ClientCalls, ServerCalls, StepCounted
     DEF Next
<1> QED
  BY <1>1, <1>2

\* Memory, files and clients keep their shape in every reachable state.
THEOREM SocialTyped == Spec => []SocialTypeOK
BY InitTyped, StepTyped, PTL DEF Spec

-----------------------------------------------------------------------------
(* Who follows whom *)

\* What is on file and what is in memory never overlap but while the server loads:
\* then nobody has more followers in memory than on file.
Parted ==
    /\ phase = "down" => following = NoUsers
    /\ phase = "loading" => \A n \in Names : following[n] \subseteq user_txt[n]
    /\ phase = "serving" => user_txt = NoUsers
    /\ phase = "closing" => \A n \in Names : n > saved => user_txt[n] = {}

GraphInv == GraphTyped /\ Parted

\* Initially there is no user.
LEMMA InitParted == Init => GraphInv
BY InitTyped, TypedParts DEF Init, GraphInv, Parted

\* Every step keeps the two apart.
LEMMA StepParted == GraphInv /\ GraphTyped' /\ [Next]_vars => Parted'
<1> SUFFICES ASSUME GraphInv, GraphTyped', [Next]_vars PROVE Parted'
  OBVIOUS
<1> USE NamesAssumption
<1>0. GraphTyped /\ Parted
  BY DEF GraphInv
<1>1. (Ends => Parted') /\ (Dies => Parted')
  BY DEF Ends, Dies, Parted
<1>2. ASSUME UNCHANGED <<phase, saved, following, user_txt>> PROVE Parted'
  BY <1>0, <1>2 DEF Parted
<1>3. ASSUME UNCHANGED <<phase, saved, user_txt>>, Handling PROVE Parted'
  BY <1>0, <1>3 DEF Parted, Handling
<1>4. ASSUME NEW c \in Clients,
             \/ Login(c) \/ Timeline(c) \/ Post(c) \/ Leave(c) \/ Handler(c)
             \/ \E v \in Names : Follow(c, v) \/ UnFollow(c, v)
      PROVE  Parted'
  <2>1. CASE Login(c) \/ \E v \in Names : Follow(c, v) \/ UnFollow(c, v)
    BY <1>3, <2>1 DEF Login, Follow, UnFollow, fileVars
  <2>2. CASE Write(c)
    BY <1>1, <1>2, <2>2 DEF Write, userVars
  <2>3. CASE \/ Timeline(c) \/ Post(c) \/ Leave(c) \/ Bind(c) \/ Read(c) \/ Notify(c)
             \/ Posted(c) \/ EndCall(c)
    BY <1>2, <2>3
       DEF Timeline, Post, Leave, Bind, Read, Notify, Posted, EndCall, userVars, fileVars
  <2> QED
    BY <1>4, <2>1, <2>2, <2>3 DEF Handler
<1>5. CASE Start
  BY <1>0, <1>5 DEF Start, userVars, fileVars, Parted, NoUsers
<1>6. CASE Load
  <2>1. PICK n \in Names : user_txt[n] # {} /\ following' = [following EXCEPT ![n] = {n}]
    BY <1>6 DEF Load, Known
  <2>2. phase = "loading" /\ phase' = "loading" /\ user_txt' = user_txt
    BY <1>6 DEF Load, fileVars
  <2>3. \A m \in Names : following'[m] = IF m = n THEN {n} ELSE following[m]
    BY <1>0, <2>1 DEF GraphTyped
  <2> QED
    BY <1>0, <2>1, <2>2, <2>3 DEF Parted, GraphTyped
<1>7. CASE Serve
  BY <1>1, <1>7 DEF Serve, Parted
<1>8. CASE Interrupt
  BY <1>0, <1>8 DEF Interrupt, Parted, NoUsers
<1>9. CASE CloseUser
  <2>1. PICK n \in Names :
          n > saved /\ saved' = n /\ user_txt' = [user_txt EXCEPT ![n] = following[n]]
    BY <1>9 DEF CloseUser, Known
  <2>2. phase = "closing" /\ phase' = "closing"
    BY <1>9 DEF CloseUser
  <2>3. ASSUME NEW m \in Names, m > n PROVE user_txt'[m] = {}
    <3>1. m > saved /\ m # n
      BY <1>0, <2>1, <2>3 DEF GraphTyped
    <3> QED
      BY <1>0, <2>1, <2>2, <3>1 DEF Parted, GraphTyped
  <2> QED
    BY <2>1, <2>2, <2>3 DEF Parted
<1>10. CASE InterruptEarly \/ Exit \/ Kill
  BY <1>1, <1>10 DEF InterruptEarly, Exit, Kill
<1>11. CASE UNCHANGED vars
  BY <1>2, <1>11 DEF vars, userVars, fileVars
<1> QED
  BY <1>4, <1>5, <1>6, <1>7, <1>8, <1>9, <1>10, <1>11 DEF Next

\* What is kept of a user's followers, wherever.
LEMMA KeptOf ==
    /\ \A n \in Names : KeptGraph[n] = IF phase = "serving" \/ (phase = "closing" /\ n > saved)
                                       THEN following[n] ELSE user_txt[n]
    /\ \A n \in Names : KeptGraph'[n] = IF phase' = "serving" \/ (phase' = "closing" /\ n > saved')
                                        THEN following'[n] ELSE user_txt'[n]
    /\ GraphTyped => KeptGraph \in [Names -> SUBSET Names]
    /\ GraphTyped' => KeptGraph' \in [Names -> SUBSET Names]
BY DEF KeptGraph, GraphTyped

\* A fault that loses nothing but followers is a mishap.
LEMMA LossRefines ==
    ASSUME GraphTyped', faults' = faults + 1,
           \A n \in Names : KeptGraph'[n] \subseteq KeptGraph[n]
    PROVE  Kept!Mishap
BY KeptOf DEF Kept!Mishap

\* A step that touches no followers does not show, or is a mishap that loses nothing.
LEMMA NothingRefines ==
    ASSUME GraphTyped', UNCHANGED <<phase, saved, following, user_txt>>,
           faults' \in {faults, faults + 1}
    PROVE  [Kept!GraphNext]_(Kept!graphVars)
<1>1. KeptGraph' = KeptGraph
  BY DEF KeptGraph
<1>2. CASE faults' = faults
  BY <1>1, <1>2 DEF Kept!graphVars
<1>3. CASE faults' = faults + 1
  BY <1>1, <1>3, LossRefines DEF Kept!GraphNext
<1> QED
  BY <1>2, <1>3

\* What a user does is a change, while the server serves, and a mishap while it is
\* interrupted.
LEMMA UserRefines ==
    ASSUME GraphTyped, GraphTyped', UNCHANGED <<phase, saved, user_txt>>, Handling,
           NEW v \in Names, \A n \in Names \ {v} : following'[n] = following[n],
           phase = "serving" \/ v > saved => Kept!Change
    PROVE  Kept!GraphNext
<1>1. CASE phase = "serving" /\ UNCHANGED faults
  BY <1>1 DEF Kept!GraphNext
<1>2. CASE phase = "closing" /\ faults' = faults + 1
  <2>1. CASE v > saved
    BY <1>2, <2>1 DEF Kept!GraphNext, Kept!Mishap
  <2>2. CASE ~(v > saved)
    <3>1. \A n \in Names : KeptGraph'[n] = KeptGraph[n]
      BY <1>2, <2>2, KeptOf
    <3> QED
      BY <1>2, <3>1, LossRefines DEF Kept!GraphNext
  <2> QED
    BY <2>1, <2>2
<1> QED
  BY <1>1, <1>2 DEF Handling, Fault

\* One user's followers are set, in memory and in what is kept.
LEMMA KeptExcept ==
    ASSUME GraphTyped, UNCHANGED <<phase, saved, user_txt>>,
           phase \in {"serving", "closing"}, NEW v \in Names, NEW F \in SUBSET Names,
           following' = [following EXCEPT ![v] = F],
           phase = "serving" \/ v > saved
    PROVE  KeptGraph' = [KeptGraph EXCEPT ![v] = F]
<1>1. \A n \in Names : following'[n] = IF n = v THEN F ELSE following[n]
  BY DEF GraphTyped
<1>2. phase = "serving" \/ (phase = "closing" /\ v > saved)
  OBVIOUS
<1> QED
  BY <1>1, <1>2 DEF KeptGraph

\* A client's login, follow and unfollow join, follow and unfollow.
LEMMA ClientRefines ==
    ASSUME GraphInv, GraphTyped', NEW c \in Clients,
           Login(c) \/ \E v \in Names : Follow(c, v) \/ UnFollow(c, v)
    PROVE  [Kept!GraphNext]_(Kept!graphVars)
<1> DEFINE u == NameOf[c]
<1> USE NamesAssumption
<1>0. u \in Names /\ GraphTyped /\ Handling /\ UNCHANGED <<phase, saved, user_txt>>
  BY DEF GraphInv, Login, Follow, UnFollow, fileVars
<1>1. phase \in {"serving", "closing"} /\ faults' \in {faults, faults + 1}
  BY <1>0 DEF Handling, Fault
<1>2. CASE Login(c)
  <2>1. CASE following[u] # {}
    <3>1. following' = following
      BY <1>0, <1>2, <2>1 DEF Login, GraphTyped
    <3> QED
      BY <1>0, <1>1, <3>1, NothingRefines
  <2>2. CASE following[u] = {}
    <3>1. following' = [following EXCEPT ![u] = {u}]
      BY <1>2, <2>2 DEF Login
    <3>2. \A n \in Names \ {u} : following'[n] = following[n]
      BY <1>0, <3>1 DEF GraphTyped
    <3>3. ASSUME phase = "serving" \/ u > saved PROVE Kept!Change
      <4>1. KeptGraph' = [KeptGraph EXCEPT ![u] = {u}]
        BY <1>0, <1>1, <3>1, <3>3, KeptExcept
      <4>2. KeptGraph[u] = {}
        BY <1>0, <1>1, <2>2, <3>3, KeptOf
      <4> QED
        BY <1>0, <4>1, <4>2 DEF Kept!Change, Kept!Join, Kept!Users
    <3> QED
      BY <1>0, <3>2, <3>3, UserRefines
  <2> QED
    BY <2>1, <2>2
<1>3. ASSUME NEW v \in Names, Follow(c, v) PROVE Kept!GraphNext
  <2>1. /\ following' = [following EXCEPT ![v] = @ \cup {u}]
        /\ following[u] # {} /\ following[v] # {}
    BY <1>3 DEF Follow, Known
  <2>2. \A n \in Names \ {v} : following'[n] = following[n]
    BY <1>0, <2>1 DEF GraphTyped
  <2>3. CASE phase = "serving"
    <3>1. \A n \in Names : KeptGraph[n] = following[n]
      BY <2>3, KeptOf
    <3>2. KeptGraph' = [KeptGraph EXCEPT ![v] = KeptGraph[v] \cup {u}]
      BY <1>0, <2>1, <2>3, <3>1, KeptExcept DEF GraphTyped
    <3>3. Kept!Change
      BY <1>0, <2>1, <3>1, <3>2 DEF Kept!Change, Kept!Follow, Kept!Users
    <3> QED
      BY <1>0, <2>2, <3>3, UserRefines
  <2>4. CASE phase = "closing"
    <3>1. faults' = faults + 1
      BY <1>0, <2>4 DEF Handling, Fault
    <3>2. CASE v > saved
      <4>1. KeptGraph[v] = following[v]
        BY <2>4, <3>2, KeptOf
      <4>2. KeptGraph' = [KeptGraph EXCEPT ![v] = KeptGraph[v] \cup {u}]
        BY <1>0, <2>1, <2>4, <3>2, <4>1, KeptExcept DEF GraphTyped
      <4>3. Kept!Follow(u, v)
        BY <2>1, <4>1, <4>2 DEF Kept!Follow, Kept!Users
      <4> QED
        BY <1>0, <3>1, <4>3 DEF Kept!GraphNext, Kept!Mishap
    <3>3. CASE ~(v > saved)
      BY <1>0, <2>2, <3>3, <2>4, UserRefines
    <3> QED
      BY <3>2, <3>3
  <2> QED
    BY <1>1, <2>3, <2>4
<1>4. ASSUME NEW v \in Names, UnFollow(c, v) PROVE Kept!GraphNext
  <2>1. following' = [following EXCEPT ![v] = @ \ {u}] /\ u # v
    BY <1>4 DEF UnFollow, Known
  <2>2. \A n \in Names \ {v} : following'[n] = following[n]
    BY <1>0, <2>1 DEF GraphTyped
  <2>3. ASSUME phase = "serving" \/ v > saved PROVE Kept!Change
    <3>1. KeptGraph[v] = following[v]
      BY <1>1, <2>3, KeptOf
    <3>2. KeptGraph' = [KeptGraph EXCEPT ![v] = KeptGraph[v] \ {u}]
      BY <1>0, <1>1, <2>1, <2>3, <3>1, KeptExcept DEF GraphTyped
    <3> QED
      BY <1>0, <2>1, <3>2 DEF Kept!Change, Kept!UnFollow
  <2> QED
    BY <1>0, <2>2, <2>3, UserRefines
<1> QED
  BY <1>2, <1>3, <1>4

\* The end of the process by a fault loses followers at most.
LEMMA EndsRefines ==
    ASSUME GraphInv, GraphTyped', Ends, faults' = faults + 1,
           user_txt' = user_txt \/ (phase = "loading" /\ user_txt' = following)
    PROVE  Kept!GraphNext
<1>1. GraphTyped /\ Parted /\ phase' = "down"
  BY DEF GraphInv, Ends
<1>2. ASSUME NEW n \in Names PROVE KeptGraph'[n] \subseteq KeptGraph[n]
  BY <1>1, KeptOf DEF Parted, NoUsers
<1> QED
  BY <1>2, LossRefines DEF Kept!GraphNext

\* The server's life does not show, as long as nothing goes wrong.
LEMMA ServerRefines ==
    ASSUME GraphInv, GraphTyped',
           Start \/ Load \/ Serve \/ Interrupt \/ InterruptEarly \/ CloseUser \/ Exit \/ Kill
    PROVE  [Kept!GraphNext]_(Kept!graphVars)
<1> USE NamesAssumption
<1>0. GraphTyped /\ Parted /\ \A n \in Names : n \in Nat \ {0}
  BY DEF GraphInv
<1> SUFFICES ASSUME Start \/ Load \/ Serve \/ Interrupt \/ CloseUser \/ Exit
             PROVE  KeptGraph' = KeptGraph /\ faults' = faults
  BY EndsRefines DEF InterruptEarly, Kill, Dies, Fault, Kept!graphVars
<1>1. CASE Start \/ Load
  BY <1>1 DEF Start, Load, fileVars, KeptGraph
<1>2. CASE Serve
  <2>1. CASE Ends /\ UNCHANGED user_txt
    BY <1>2, <2>1 DEF Serve, Ends, KeptGraph
  <2>2. CASE phase' = "serving" /\ following' = [n \in Names |-> following[n] \cup user_txt[n]]
    <3>1. \A n \in Names : following[n] \subseteq user_txt[n]
      BY <1>0, <1>2 DEF Serve, Parted
    <3> QED
      BY <1>2, <2>2, <3>1 DEF Serve, KeptGraph
  <2> QED
    BY <1>2, <2>1, <2>2 DEF Serve
<1>3. CASE Interrupt
  BY <1>0, <1>3 DEF Interrupt, userVars, KeptGraph
<1>4. CASE CloseUser
  <2>1. PICK n \in Names :
          /\ n > saved /\ saved' = n /\ user_txt' = [user_txt EXCEPT ![n] = following[n]]
          /\ \A m \in Names : following[m] # {} /\ m > saved => n =< m
    BY <1>4 DEF CloseUser, Known
  <2>2. phase = "closing" /\ phase' = "closing" /\ following' = following /\ faults' = faults
    BY <1>4 DEF CloseUser
  <2>3. ASSUME NEW m \in Names PROVE KeptGraph'[m] = KeptGraph[m]
    <3>1. user_txt'[m] = IF m = n THEN following[n] ELSE user_txt[m]
      BY <1>0, <2>1 DEF GraphTyped
    <3>2. m \in Nat /\ n \in Nat /\ saved \in Nat
      BY <1>0 DEF GraphTyped
    <3>3. CASE m > n
      BY <2>1, <2>2, <3>2, <3>3, KeptOf
    <3>4. CASE m = n
      BY <2>1, <2>2, <3>1, <3>2, <3>4, KeptOf
    <3>5. CASE m < n /\ m > saved
      <4>1. following[m] = {} /\ user_txt[m] = {}
        BY <1>0, <2>1, <2>2, <3>2, <3>5 DEF Parted
      <4> QED
        BY <2>1, <2>2, <3>1, <3>2, <3>5, <4>1, KeptOf
    <3>6. CASE m < n /\ ~(m > saved)
      BY <2>1, <2>2, <3>1, <3>2, <3>6, KeptOf
    <3> QED
      BY <3>2, <3>3, <3>4, <3>5, <3>6
  <2> QED
    BY <2>2, <2>3 DEF KeptGraph
<1>5. CASE Exit
  <2>1. ASSUME NEW m \in Names, m > saved PROVE following[m] = {} /\ user_txt[m] = {}
    BY <1>0, <1>5, <2>1 DEF Exit, Known, Parted, GraphTyped
  <2>2. phase = "closing" /\ phase' = "down" /\ user_txt' = user_txt /\ faults' = faults
    BY <1>5 DEF Exit, Ends
  <2> QED
    BY <2>1, <2>2 DEF KeptGraph
<1> QED
  BY <1>1, <1>2, <1>3, <1>4, <1>5

\* Every step of the network is a step of the graph, or does not show.
LEMMA StepRefines ==
    GraphInv /\ GraphTyped' /\ [Next]_vars => [Kept!GraphNext]_(Kept!graphVars)
<1> SUFFICES ASSUME GraphInv, GraphTyped', [Next]_vars
             PROVE  [Kept!GraphNext]_(Kept!graphVars)
  OBVIOUS
<1>1. ASSUME NEW c \in Clients, Write(c) PROVE [Kept!GraphNext]_(Kept!graphVars)
  <2>1. CASE Ends
    <3>1. CASE faults' = faults + 1
      BY <1>1, <2>1, <3>1, EndsRefines DEF Write
    <3>2. CASE faults' # faults + 1
      BY <1>1, <3>2, NothingRefines DEF Write, userVars, Handling, Fault
    <3> QED
      BY <3>1, <3>2
  <2>2. CASE ~Ends
    BY <1>1, <2>2, NothingRefines DEF Write, Dies, userVars, Handling, Fault
  <2> QED
    BY <2>1, <2>2
<1>2. ASSUME NEW c \in Clients,
             \/ Timeline(c) \/ Post(c) \/ Leave(c) \/ Bind(c) \/ Read(c) \/ Notify(c)
             \/ Posted(c) \/ EndCall(c)
      PROVE  [Kept!GraphNext]_(Kept!graphVars)
  BY <1>2, NothingRefines
     DEF Timeline, Post, Leave, Bind, Read, Notify, Posted, EndCall, userVars, fileVars,
         Handling, Fault
<1>3. CASE UNCHANGED vars
  BY <1>3, NothingRefines DEF vars, userVars, fileVars
<1> QED
  BY <1>1, <1>2, <1>3, ClientRefines, ServerRefines DEF Next, Handler

\* The invariant of the refinement holds in every reachable state.
THEOREM SocialParted == Spec => []GraphInv
<1>1. SocialTypeOK /\ SocialTypeOK' /\ GraphInv /\ [Next]_vars => GraphInv'
  BY StepParted DEF GraphInv, SocialTypeOK, GraphTyped
<1> QED
  BY <1>1, InitParted, SocialTyped, PTL DEF Spec

\* The network implements the graph its users may rely on.
THEOREM SocialKept == Spec => GraphKept
<1>1. Init => Kept!GraphInit
  BY DEF Init, Kept!GraphInit, KeptGraph, NoUsers
<1>2. GraphInv /\ GraphInv' /\ [Next]_vars => [Kept!GraphNext]_(Kept!graphVars)
  BY StepRefines DEF GraphInv
<1> QED
  BY <1>1, <1>2, SocialParted, PTL DEF Spec, GraphKept, Kept!GraphSpec

-----------------------------------------------------------------------------
(* The file a server finds *)

\* Who follows somebody is in the file.
Closed(lines) == \A n \in Names : lines[n] \subseteq Known(lines)

\* Who follows a user is one itself, and while the file is loaded only a user itself
\* follows it.  Of a save that goes well, everyone the handler has passed has a line,
\* and no line names a stranger: that becomes a file that can be loaded.
SavedInv ==
    /\ phase \in {"serving", "closing"} => Closed(following)
    /\ phase = "loading" => \A n \in Names : following[n] \subseteq {n}
    /\ phase = "closing" /\ ~torn =>
         \A n \in Names : /\ n =< saved /\ following[n] # {} => user_txt[n] # {}
                          /\ user_txt[n] \subseteq Known(following)
    /\ phase \in {"down", "loading"} /\ ~torn => Closed(user_txt)

\* Initially the file is empty.
LEMMA InitSaved == Init => SavedInv
BY DEF Init, SavedInv, Closed, NoUsers

\* What does not concern users and their file keeps it so.
LEMMA UsersStay ==
    ASSUME SavedInv, UNCHANGED <<phase, saved, following, user_txt, torn>>
    PROVE  SavedInv'
BY DEF SavedInv, Closed, Known

\* A user more or a follower more or less, who is a user, changes nothing if a stranger
\* whose name is passed shows.
LEMMA UsersGrow ==
    ASSUME SavedInv, GraphTyped, UNCHANGED <<phase, saved, user_txt>>,
           phase \in {"serving", "closing"},
           Closed(following)', Known(following) \subseteq Known(following'),
           torn' \/ (~torn /\ (phase = "closing" =>
             \A n \in Names : n =< saved /\ following'[n] # {} => following[n] # {}))
    PROVE  SavedInv'
BY DEF SavedInv, Known

\* A login, a follow and an unfollow do no more than that.
LEMMA ClientSaved ==
    ASSUME SavedInv, GraphTyped, NEW c \in Clients,
           Login(c) \/ \E v \in Names : Follow(c, v) \/ UnFollow(c, v)
    PROVE  SavedInv'
<1> DEFINE u == NameOf[c]
<1> USE NamesAssumption
<1>0. /\ u \in Names /\ Handling /\ UNCHANGED <<phase, saved, user_txt>>
      /\ phase \in {"serving", "closing"}
      /\ Closed(following) /\ following \in [Names -> SUBSET Names]
      /\ \A n \in Names : following[n] # {} => n \in following[n]
  BY DEF Login, Follow, UnFollow, fileVars, Handling, SavedInv, GraphTyped
<1>1. CASE Login(c)
  <2>1. /\ following' = [following EXCEPT ![u] = IF @ = {} THEN {u} ELSE @]
        /\ torn' = (torn \/ (phase = "closing" /\ following[u] = {} /\ u =< saved))
    BY <1>1 DEF Login
  <2>2. \A n \in Names : following'[n] = IF n = u /\ following[u] = {} THEN {u} ELSE following[n]
    BY <1>0, <2>1
  <2>3. /\ Known(following) \subseteq Known(following')
        /\ following[u] = {} => u \in Known(following')
    BY <1>0, <2>2 DEF Known
  <2>4. Closed(following)'
    BY <1>0, <2>2, <2>3 DEF Closed
  <2>5. torn' \/ (~torn /\ (phase = "closing" =>
          \A n \in Names : n =< saved /\ following'[n] # {} => following[n] # {}))
    BY <2>1, <2>2
  <2> QED
    BY <1>0, <2>3, <2>4, <2>5, UsersGrow
<1>2. ASSUME NEW v \in Names, Follow(c, v) \/ UnFollow(c, v) PROVE SavedInv'
  <2>1. /\ torn' = torn /\ following[u] # {}
        /\ \A n \in Names \ {v} : following'[n] = following[n]
        /\ \/ following[v] # {} /\ following'[v] = following[v] \cup {u}
           \/ v # u /\ following'[v] = following[v] \ {u}
    BY <1>0, <1>2 DEF Follow, UnFollow, fileVars, Known
  <2>2. \A n \in Names : following'[n] # {} <=> following[n] # {}
    BY <1>0, <2>1
  <2>3. Known(following') = Known(following)
    BY <2>2 DEF Known
  <2>4. u \in Known(following)
    BY <1>0, <2>1 DEF Known
  <2>5. \A n \in Names : following'[n] \subseteq following[n] \cup {u}
    BY <2>1
  <2>6. Closed(following)'
    BY <1>0, <2>3, <2>4, <2>5 DEF Closed
  <2> QED
    BY <1>0, <2>1, <2>2, <2>3, <2>6, UsersGrow
<1> QED
  BY <1>1, <1>2

\* A server that dies leaves a file that can be loaded, or one that is torn.
LEMMA DiesSaved ==
    ASSUME SavedInv, Parted, Dies, UNCHANGED user_txt,
           phase \in {"down", "loading", "serving", "closing"}
    PROVE  SavedInv'
<1>1. phase' = "down" /\ (~torn' => ~torn /\ phase # "closing")
  BY DEF Dies, Ends
<1>2. ~torn' => Closed(user_txt)
  <2>1. CASE phase = "serving"
    <3>1. \A n \in Names : user_txt[n] = {}
      BY <2>1 DEF Parted, NoUsers
    <3> QED
      BY <3>1 DEF Closed
  <2>2. CASE phase # "serving"
    BY <1>1, <2>2 DEF SavedInv
  <2> QED
    BY <2>1, <2>2
<1>3. Closed(user_txt)' <=> Closed(user_txt)
  BY DEF Closed, Known
<1> QED
  BY <1>1, <1>2, <1>3 DEF SavedInv

\* The server's life.
LEMMA ServerSaved ==
    ASSUME SavedInv, GraphInv, phase \in {"down", "loading", "serving", "closing"},
           Start \/ Load \/ Serve \/ Interrupt \/ InterruptEarly \/ CloseUser \/ Exit \/ Kill
    PROVE  SavedInv'
<1> USE NamesAssumption
<1>0. GraphTyped /\ Parted
  BY DEF GraphInv
<1>1. CASE Start
  <2>1. /\ phase = "down" /\ phase' = "loading"
        /\ UNCHANGED <<following, user_txt, torn>>
    BY <1>1 DEF Start, userVars, fileVars
  <2>2. \A n \in Names : following[n] = {}
    BY <1>0, <2>1 DEF Parted, NoUsers
  <2> QED
    BY <2>1, <2>2 DEF SavedInv, Closed, Known
<1>2. CASE Load
  <2>1. PICK n \in Names : following' = [following EXCEPT ![n] = {n}]
    BY <1>2 DEF Load, Known
  <2>2. phase = "loading" /\ phase' = "loading" /\ UNCHANGED <<user_txt, torn>>
    BY <1>2 DEF Load, fileVars
  <2>3. \A m \in Names : following'[m] \subseteq {m}
    BY <1>0, <2>1, <2>2 DEF SavedInv, GraphTyped
  <2> QED
    BY <2>2, <2>3 DEF SavedInv, Closed, Known
<1>3. CASE Serve
  <2>1. phase = "loading" /\ Known(user_txt) = Known(following)
    BY <1>3 DEF Serve
  <2>2. CASE Ends /\ UNCHANGED <<user_txt, torn>>
    BY <2>1, <2>2 DEF SavedInv, Ends, Closed, Known
  <2>3. CASE /\ Closed(user_txt) /\ phase' = "serving"
             /\ following' = [n \in Names |-> following[n] \cup user_txt[n]]
    <3>1. \A n \in Names : following'[n] = user_txt[n]
      BY <1>0, <2>1, <2>3 DEF Parted
    <3>2. Closed(following)'
      BY <2>3, <3>1 DEF Closed, Known
    <3> QED
      BY <2>3, <3>2 DEF SavedInv
  <2> QED
    BY <1>3, <2>2, <2>3 DEF Serve, Closed
<1>4. CASE Interrupt
  <2>1. /\ phase = "serving" /\ phase' = "closing" /\ saved' = 0
        /\ following' = following
        /\ \A n \in Names : user_txt'[n] = {}
    BY <1>4 DEF Interrupt, userVars, NoUsers
  <2>2. \A n \in Names : n \in Nat /\ n # 0
    OBVIOUS
  <2>3. \A n \in Names : ~(n =< saved')
    BY <2>1, <2>2
  <2> QED
    BY <2>1, <2>3 DEF SavedInv, Closed, Known
<1>5. CASE InterruptEarly
  <2>1. phase = "loading" /\ phase' = "down" /\ user_txt' = following
    BY <1>5 DEF InterruptEarly, Ends
  <2>2. \A n \in Names : following[n] \subseteq {n}
    BY <2>1 DEF SavedInv
  <2>3. Closed(user_txt)'
    BY <2>1, <2>2 DEF Closed, Known
  <2> QED
    BY <2>1, <2>3 DEF SavedInv
<1>6. CASE CloseUser
  <2>1. PICK n \in Names :
          /\ n > saved /\ saved' = n
          /\ user_txt' = [user_txt EXCEPT ![n] = following[n]]
          /\ following[n] # {}
          /\ \A m \in Names : following[m] # {} /\ m > saved => n =< m
    BY <1>6 DEF CloseUser, Known
  <2>2. phase = "closing" /\ phase' = "closing" /\ UNCHANGED <<following, torn>>
    BY <1>6 DEF CloseUser
  <2>3. \A m \in Names : user_txt'[m] = IF m = n THEN following[n] ELSE user_txt[m]
    BY <1>0, <2>1 DEF GraphTyped
  <2>4. ASSUME NEW m \in Names, m =< n, following[m] # {}
        PROVE  m = n \/ m =< saved
    <3>1. m \in Nat /\ n \in Nat /\ saved \in Nat
      BY <1>0 DEF GraphTyped
    <3> QED
      BY <2>1, <2>4, <3>1
  <2>5. ~torn => \A m \in Names : /\ m =< n /\ following[m] # {} => user_txt'[m] # {}
                                  /\ user_txt'[m] \subseteq Known(following)
    BY <2>1, <2>2, <2>3, <2>4 DEF SavedInv, Closed
  <2>6. Closed(following) /\ Known(following') = Known(following)
    BY <2>2 DEF SavedInv, Known
  <2> QED
    BY <2>1, <2>2, <2>5, <2>6 DEF SavedInv, Closed
<1>7. CASE Exit
  <2>1. /\ phase = "closing" /\ phase' = "down" /\ UNCHANGED <<user_txt, torn>>
        /\ \A n \in Names : following[n] # {} => n =< saved
    BY <1>7 DEF Exit, Ends, Known
  <2>2. ASSUME ~torn PROVE Closed(user_txt)
    <3>1. \A n \in Names : /\ following[n] # {} => user_txt[n] # {}
                           /\ user_txt[n] \subseteq Known(following)
      BY <2>1, <2>2 DEF SavedInv
    <3> QED
      BY <3>1 DEF Closed, Known
  <2> QED
    BY <2>1, <2>2 DEF SavedInv, Closed, Known
<1>8. CASE Kill
  <2>1. Dies /\ UNCHANGED user_txt
    BY <1>8 DEF Kill
  <2> QED
    BY <1>0, <2>1, DiesSaved
<1> QED
  BY <1>1, <1>2, <1>3, <1>4, <1>5, <1>6, <1>7, <1>8

\* A server finds a user.txt it can load, whatever calls ran while it was saved and
\* wherever the server died, in the middle of that save excepted, and strangers that
\* the save had passed: those who follow a user are users, so that they have a line
\* when the save is through.
THEOREM SocialRestartable == Spec => []Restartable
<1>1. SavedInv => Restartable
  BY DEF SavedInv, Closed, Restartable
<1>2. SocialTypeOK => phase \in {"down", "loading", "serving", "closing"}
  BY DEF SocialTypeOK
<1>3. ASSUME SavedInv, GraphInv, SocialTypeOK, [Next]_vars
      PROVE  SavedInv'
  <2>1. CASE UNCHANGED vars
    BY <1>3, <2>1, UsersStay DEF vars, fileVars, userVars
  <2>2. ASSUME NEW c \in Clients,
               \/ Timeline(c) \/ Post(c) \/ Leave(c) \/ Bind(c) \/ Read(c) \/ Notify(c)
               \/ Posted(c) \/ EndCall(c)
        PROVE  SavedInv'
    BY <1>3, <2>2, UsersStay
       DEF Timeline, Post, Leave, Bind, Read, Notify, Posted, EndCall, userVars, fileVars
  <2>3. ASSUME NEW c \in Clients, Write(c) PROVE SavedInv'
    <3>1. CASE UNCHANGED <<phase, saved, userVars, torn>>
      BY <1>3, <2>3, <3>1, UsersStay DEF Write, userVars
    <3>2. CASE ~UNCHANGED <<phase, saved, userVars, torn>>
      <4>1. Dies /\ UNCHANGED user_txt
        BY <2>3, <3>2 DEF Write
      <4> QED
        BY <1>2, <1>3, <4>1, DiesSaved DEF GraphInv
    <3> QED
      BY <3>1, <3>2
  <2> QED
    BY <1>2, <1>3, <2>1, <2>2, <2>3, ClientSaved, ServerSaved DEF Next, Handler, GraphInv
<1> QED
  BY <1>1, <1>3, InitSaved, SocialTyped, SocialParted, PTL DEF Spec

-----------------------------------------------------------------------------
(* Sequences of numbers and of posts *)

Increasing(s) == \A i, j \in DOMAIN s : i < j => s[i] < s[j]

InOrder(s) ==
    \A i, j \in DOMAIN s : i < j /\ s[i][1] = s[j][1] => s[i][2] < s[j][2]

\* What an element appended to a sequence changes.
LEMMA AppendOne ==
    ASSUME NEW S, NEW s \in Seq(S), NEW e \in S
    PROVE  /\ Range(Append(s, e)) = Range(s) \cup {e}
           /\ \A i \in DOMAIN Append(s, e) :
                \/ i \in DOMAIN s /\ Append(s, e)[i] = s[i] /\ s[i] \in Range(s)
                \/ i = Len(s) + 1 /\ Append(s, e)[i] = e
           /\ DOMAIN s = 1..Len(s) /\ Len(s) \in Nat
           /\ DOMAIN Append(s, e) = 1..(Len(s) + 1)
<1>1. /\ Append(s, e) \in Seq(S)
      /\ Len(Append(s, e)) = Len(s) + 1
      /\ \A i \in 1..Len(s) : Append(s, e)[i] = s[i]
      /\ Append(s, e)[Len(s) + 1] = e
  BY AppendProperties
<1>2. DOMAIN s = 1..Len(s) /\ Len(s) \in Nat /\ DOMAIN Append(s, e) = 1..(Len(s) + 1)
  BY <1>1, LenProperties
<1>3. 1..(Len(s) + 1) = (1..Len(s)) \cup {Len(s) + 1}
  BY <1>2
<1>4. Range(Append(s, e)) = Range(s) \cup {e}
  BY <1>1, <1>2, <1>3 DEF Range
<1> QED
  BY <1>1, <1>2, <1>3, <1>4 DEF Range

\* A larger number may be appended.
LEMMA AppendIncreasing ==
    ASSUME NEW s \in Seq(Nat), Increasing(s), NEW k \in Nat, \A x \in Range(s) : x < k
    PROVE  Increasing(Append(s, k))
<1> SUFFICES ASSUME NEW i \in DOMAIN Append(s, k), NEW j \in DOMAIN Append(s, k), i < j
             PROVE  Append(s, k)[i] < Append(s, k)[j]
  BY DEF Increasing
<1>1. i \in 1..(Len(s) + 1) /\ j \in 1..(Len(s) + 1) /\ Len(s) \in Nat
  BY AppendOne
<1>2. i # Len(s) + 1
  BY <1>1
<1>3. i \in DOMAIN s /\ Append(s, k)[i] = s[i] /\ s[i] \in Range(s)
  BY <1>2, AppendOne
<1> QED
  BY <1>3, AppendOne DEF Increasing

\* A post may be appended that is later than those of the same client.
LEMMA AppendInOrder ==
    ASSUME NEW s \in Seq(Posts), InOrder(s), NEW p \in Posts,
           \A q \in Range(s) : q[1] = p[1] => q[2] < p[2]
    PROVE  InOrder(Append(s, p))
<1> SUFFICES ASSUME NEW i \in DOMAIN Append(s, p), NEW j \in DOMAIN Append(s, p), i < j,
                    Append(s, p)[i][1] = Append(s, p)[j][1]
             PROVE  Append(s, p)[i][2] < Append(s, p)[j][2]
  BY DEF InOrder
<1>1. i \in 1..(Len(s) + 1) /\ j \in 1..(Len(s) + 1) /\ Len(s) \in Nat
  BY AppendOne
<1>2. i # Len(s) + 1
  BY <1>1
<1>3. i \in DOMAIN s /\ Append(s, p)[i] = s[i] /\ s[i] \in Range(s)
  BY <1>2, AppendOne
<1>4. \/ j \in DOMAIN s /\ Append(s, p)[j] = s[j]
      \/ Append(s, p)[j] = p
  BY AppendOne
<1> QED
  BY <1>3, <1>4 DEF InOrder

\* The first number is taken: the rest is larger.
LEMMA TailIncreasing ==
    ASSUME NEW s \in Seq(Nat), Increasing(s), s # <<>>
    PROVE  /\ Increasing(Tail(s)) /\ Range(Tail(s)) \subseteq Range(s)
           /\ Head(s) \in Range(s) /\ \A x \in Range(Tail(s)) : Head(s) < x
<1>1. /\ Len(s) \in Nat \ {0} /\ DOMAIN s = 1..Len(s)
      /\ Tail(s) \in Seq(Nat) /\ Len(Tail(s)) = Len(s) - 1
      /\ \A i \in 1..(Len(s) - 1) : Tail(s)[i] = s[i + 1]
      /\ Head(s) = s[1]
  OBVIOUS
<1>2. DOMAIN Tail(s) = 1..(Len(s) - 1)
  BY <1>1
<1>3. \A i \in 1..(Len(s) - 1) : i + 1 \in 1..Len(s)
  BY <1>1
<1>4. Increasing(Tail(s))
  BY <1>1, <1>2, <1>3 DEF Increasing
<1>5. Range(Tail(s)) \subseteq Range(s)
  BY <1>1, <1>2, <1>3 DEF Range
<1>6. ASSUME NEW i \in 1..(Len(s) - 1) PROVE s[1] < s[i + 1]
  BY <1>1, <1>3, <1>6 DEF Increasing
<1> QED
  BY <1>1, <1>2, <1>4, <1>5, <1>6 DEF Range

\* Only the first n numbers are left.
LEMMA PrefixIncreasing ==
    ASSUME NEW s \in Seq(Nat), Increasing(s), NEW n \in 0..Len(s)
    PROVE  Increasing(SubSeq(s, 1, n)) /\ Range(SubSeq(s, 1, n)) \subseteq Range(s)
<1>1. /\ Len(s) \in Nat /\ DOMAIN s = 1..Len(s)
      /\ DOMAIN SubSeq(s, 1, n) = 1..n
      /\ \A i \in 1..n : i \in 1..Len(s) /\ SubSeq(s, 1, n)[i] = s[i]
  OBVIOUS
<1> QED
  BY <1>1 DEF Increasing, Range

-----------------------------------------------------------------------------
(* The inductive invariant *)

Distributing(c) == call[c].pc \in {"posting", "writing"}

\* What a call has yet to read are later posts than the one it distributes, and
\* none that was not made.
Waiting(c) ==
    /\ Increasing(inbox[c])
    /\ \A k \in Range(inbox[c]) : call[c].post < k /\ k =< made[c]
    /\ call[c].post =< made[c]

\* What is on file of a client is earlier than what waits, and reaches up to the
\* post its call distributes, which the files of the followers to come lack.
FiledBefore(c) ==
    \A n \in Names : \A p \in Range(tml[n]) : p[1] = c =>
        /\ p[2] =< made[c]
        /\ \A k \in Range(inbox[c]) : p[2] < k
        /\ Distributing(c) =>
             /\ p[2] =< call[c].post
             /\ p[2] = call[c].post => n = NameOf[c] \/ n =< call[c].at

FiledInv ==
    /\ \A c \in Clients : Waiting(c) /\ FiledBefore(c)
    /\ \A n \in Names : InOrder(tml[n])

\* Nothing is on file at first.
LEMMA InitFiled == Init => FiledInv
<1> SUFFICES ASSUME Init PROVE FiledInv
  OBVIOUS
<1>1. \A n \in Names : DOMAIN tml[n] = {}
  BY DEF Init
<1>2. \A c \in Clients : DOMAIN inbox[c] = {} /\ call[c].post = 0 /\ made[c] = 0
  BY DEF Init, Idle
<1> QED
  BY <1>1, <1>2 DEF FiledInv, Waiting, FiledBefore, Increasing, InOrder, Range

\* The calls are on their own: a step of one leaves the others' posts in order.
LEMMA OthersFiled ==
    ASSUME FiledInv, NEW c \in Clients,
           call'[c] = call[c], inbox'[c] = inbox[c], made'[c] = made[c],
           \A n \in Names : \A p \in Range(tml'[n]) : p \in Range(tml[n]) \/ p[1] # c
    PROVE  Waiting(c)' /\ FiledBefore(c)'
BY DEF FiledInv, Waiting, FiledBefore, Distributing

\* A step that files nothing keeps the files in order.
LEMMA NothingFiled ==
    ASSUME CallsTyped, FiledInv, UNCHANGED tml, NEW c \in Clients,
           \A d \in Clients \ {c} :
               call'[d] = call[d] /\ inbox'[d] = inbox[d] /\ made'[d] = made[d],
           Waiting(c)', FiledBefore(c)'
    PROVE  FiledInv'
<1>1. \A d \in Clients \ {c} : Waiting(d)' /\ FiledBefore(d)'
  BY OthersFiled
<1> QED
  BY <1>1 DEF FiledInv

\* A call that distributes nothing, of which no more waits than before.
LEMMA ResetFiled ==
    ASSUME FiledInv, CallsTyped, UNCHANGED <<tml, made>>, NEW c \in Clients,
           Increasing(inbox'[c]), Range(inbox'[c]) \subseteq Range(inbox[c]),
           ~Distributing(c)', call'[c].post \in {0, call[c].post}
    PROVE  Waiting(c)' /\ FiledBefore(c)'
<1>1. Waiting(c) /\ FiledBefore(c) /\ call[c].post \in Nat /\ made[c] \in Nat
  BY DEF FiledInv, CallsTyped, CallRec
<1>2. \A k \in Range(inbox[c]) : k \in Nat
  BY RangeOfSeq DEF CallsTyped
<1> QED
  BY <1>1, <1>2 DEF Waiting, FiledBefore

\* The end of the process ends every call, and loses what waits.
LEMMA EndsFiled ==
    ASSUME CallsTyped, FiledInv, Ends
    PROVE  FiledInv'
<1>1. /\ UNCHANGED <<tml, made>>
      /\ \A c \in Clients : call'[c] = Idle /\ inbox'[c] = <<>> /\ DOMAIN inbox'[c] = {}
  BY DEF Ends
<1>2. ASSUME NEW c \in Clients PROVE Waiting(c)' /\ FiledBefore(c)'
  <2>1. Range(inbox'[c]) = {} /\ Increasing(inbox'[c])
    BY <1>1 DEF Range, Increasing
  <2>2. ~Distributing(c)' /\ call'[c].post = 0
    BY <1>1 DEF Distributing, Idle
  <2> QED
    BY <1>1, <2>1, <2>2, ResetFiled
<1> QED
  BY <1>1, <1>2 DEF FiledInv

\* A step of a call that leaves its posts where they are.
LEMMA SteadyFiled ==
    ASSUME CallsTyped, FiledInv, UNCHANGED <<tml, inbox, made>>, NEW c \in Clients,
           \A d \in Clients \ {c} : call'[d] = call[d],
           call'[c].post = call[c].post,
           Distributing(c)' => Distributing(c) /\ call'[c].at = call[c].at
    PROVE  FiledInv'
<1>1. Waiting(c)' /\ FiledBefore(c)'
  BY DEF FiledInv, Waiting, FiledBefore
<1> QED
  BY <1>1, NothingFiled

\* A post is made: it waits behind the others.
LEMMA PostFiled ==
    ASSUME CallsTyped, FiledInv, NEW c \in Clients, Post(c)
    PROVE  FiledInv'
<1>1. /\ Waiting(c) /\ FiledBefore(c)
      /\ inbox[c] \in Seq(Nat) /\ made[c] \in Nat /\ call[c].post \in Nat
  BY DEF FiledInv, CallsTyped, CallRec
<1>2. /\ UNCHANGED <<tml, call>>
      /\ made'[c] = made[c] + 1
      /\ inbox'[c] = Append(inbox[c], made[c] + 1)
      /\ \A d \in Clients \ {c} : inbox'[d] = inbox[d] /\ made'[d] = made[d]
  BY DEF Post, CallsTyped, fileVars
<1>3. made[c] + 1 \in Nat
  BY <1>1
<1>4. Range(inbox[c]) \subseteq Nat
  BY <1>1, RangeOfSeq
<1>5. Range(inbox'[c]) = Range(inbox[c]) \cup {made[c] + 1}
  BY <1>1, <1>2, <1>3, AppendOne
<1>6. Increasing(inbox'[c])
  <2>1. \A x \in Range(inbox[c]) : x < made[c] + 1
    BY <1>1, <1>4 DEF Waiting
  <2> QED
    BY <1>1, <1>2, <1>3, <2>1, AppendIncreasing DEF Waiting
<1>7. Waiting(c)'
  BY <1>1, <1>2, <1>4, <1>5, <1>6 DEF Waiting
<1>8. FiledBefore(c)'
  <2>1. ASSUME NEW n \in Names, NEW p \in Range(tml[n]), p[1] = c
        PROVE  /\ p[2] =< made[c] + 1
               /\ \A k \in Range(inbox'[c]) : p[2] < k
    <3>1. p[2] \in Nat
      <4>1. tml[n] \in Seq(Posts)
        BY DEF CallsTyped
      <4> QED
        BY <4>1, RangeOfSeq DEF Posts
    <3> QED
      BY <1>1, <1>5, <2>1, <3>1 DEF FiledBefore
  <2> QED
    BY <1>1, <1>2, <2>1 DEF FiledBefore, Distributing
<1> QED
  BY <1>2, <1>7, <1>8, NothingFiled

\* A post is filed that is later than what its client has on file there.
LEMMA AppendFiled ==
    ASSUME CallsTyped, FiledInv, NEW c \in Clients, NEW f \in Names, NEW k \in Nat,
           tml' = [tml EXCEPT ![f] = Append(@, <<c, k>>)],
           \A p \in Range(tml[f]) : p[1] = c => p[2] < k,
           \A d \in Clients \ {c} :
               call'[d] = call[d] /\ inbox'[d] = inbox[d] /\ made'[d] = made[d],
           Waiting(c)', FiledBefore(c)'
    PROVE  FiledInv'
<1>1. <<c, k>> \in Posts /\ tml[f] \in Seq(Posts)
  BY DEF Posts, CallsTyped
<1>2. \A n \in Names : tml'[n] = IF n = f THEN Append(tml[f], <<c, k>>) ELSE tml[n]
  BY DEF CallsTyped
<1>3. Range(Append(tml[f], <<c, k>>)) = Range(tml[f]) \cup {<<c, k>>}
  BY <1>1, AppendOne
<1>4. ASSUME NEW d \in Clients \ {c} PROVE Waiting(d)' /\ FiledBefore(d)'
  <2>1. \A n \in Names : \A p \in Range(tml'[n]) : p \in Range(tml[n]) \/ p[1] # d
    BY <1>2, <1>3
  <2> QED
    BY <2>1, OthersFiled
<1>5. InOrder(Append(tml[f], <<c, k>>))
  BY <1>1, AppendInOrder DEF FiledInv
<1>6. \A n \in Names : InOrder(tml'[n])
  BY <1>2, <1>5 DEF FiledInv
<1> QED
  BY <1>4, <1>6 DEF FiledInv

\* The next post is read and filed in its author's own file.
LEMMA ReadFiled ==
    ASSUME CallsTyped, FiledInv, NEW c \in Clients, Read(c)
    PROVE  FiledInv'
<1> DEFINE k == Head(inbox[c])
           u == NameOf[c]
<1>1. /\ Waiting(c) /\ FiledBefore(c) /\ u \in Names
      /\ inbox[c] \in Seq(Nat) /\ inbox[c] # <<>>
      /\ made[c] \in Nat
  BY NamesAssumption DEF FiledInv, CallsTyped, Read
<1>2. /\ UNCHANGED made
      /\ inbox'[c] = Tail(inbox[c])
      /\ call'[c] = [pc |-> "posting", post |-> k, at |-> 0]
      /\ tml' = [tml EXCEPT ![u] = Append(@, <<c, k>>)]
      /\ \A d \in Clients \ {c} : inbox'[d] = inbox[d] /\ call'[d] = call[d]
  BY DEF Read, CallsTyped, cliVars
<1>3. /\ Increasing(inbox'[c]) /\ Range(inbox'[c]) \subseteq Range(inbox[c])
      /\ k \in Range(inbox[c]) /\ \A x \in Range(inbox'[c]) : k < x
  BY <1>1, <1>2, TailIncreasing DEF Waiting
<1>4. Range(inbox[c]) \subseteq Nat /\ k \in Nat
  BY <1>1, <1>3, RangeOfSeq
<1>5. Waiting(c)'
  BY <1>1, <1>2, <1>3 DEF Waiting
<1>6. ASSUME NEW n \in Names, NEW p \in Range(tml'[n])
      PROVE  p \in Range(tml[n]) \/ (n = u /\ p = <<c, k>>)
  <2>1. tml'[n] = IF n = u THEN Append(tml[u], <<c, k>>) ELSE tml[n]
    BY <1>1, <1>2 DEF CallsTyped
  <2>2. <<c, k>> \in Posts /\ tml[u] \in Seq(Posts)
    BY <1>1, <1>4 DEF Posts, CallsTyped
  <2>3. Range(Append(tml[u], <<c, k>>)) = Range(tml[u]) \cup {<<c, k>>}
    BY <2>2, AppendOne
  <2> HIDE DEF k, u
  <2> QED
    BY <1>6, <2>1, <2>3
<1>7. \A n \in Names : \A p \in Range(tml[n]) : p[2] \in Nat
  <2>1. \A n \in Names : tml[n] \in Seq(Posts)
    BY DEF CallsTyped
  <2> QED
    BY <2>1, RangeOfSeq DEF Posts
<1> HIDE DEF k, u
<1>8. ASSUME NEW n \in Names, NEW p \in Range(tml'[n]), p[1] = c
      PROVE  /\ p[2] =< made[c]
             /\ \A x \in Range(inbox'[c]) : p[2] < x
             /\ p[2] =< k
             /\ p[2] = k => n = u
  <2>1. CASE p \in Range(tml[n])
    <3>1. p[2] =< made[c] /\ p[2] < k /\ \A x \in Range(inbox[c]) : p[2] < x
      BY <1>1, <1>3, <1>8, <2>1 DEF FiledBefore
    <3>2. p[2] \in Nat
      BY <1>7, <2>1
    <3>3. p[2] =< k /\ ~(p[2] = k)
      BY <1>4, <3>1, <3>2
    <3>4. \A x \in Range(inbox'[c]) : p[2] < x
      BY <1>3, <3>1
    <3> QED
      BY <3>1, <3>3, <3>4
  <2>2. CASE n = u /\ p = <<c, k>>
    BY <1>1, <1>3, <1>4, <2>2 DEF Waiting
  <2> QED
    BY <1>6, <2>1, <2>2
<1>9. FiledBefore(c)'
  BY <1>2, <1>8 DEF FiledBefore, u
<1>10. \A p \in Range(tml[u]) : p[1] = c => p[2] < k
  BY <1>1, <1>3 DEF FiledBefore
<1> QED
  BY <1>1, <1>2, <1>4, <1>5, <1>9, <1>10, AppendFiled

\* The next follower's file lacks the post that is distributed.
LEMMA NotifyFiled ==
    ASSUME CallsTyped, FiledInv, NEW c \in Clients, Notify(c)
    PROVE  FiledInv'
<1> DEFINE k == call[c].post
<1>1. /\ Waiting(c) /\ FiledBefore(c) /\ Distributing(c)
      /\ k \in Nat /\ call[c].at \in Nat /\ made[c] \in Nat
      /\ UNCHANGED <<inbox, made>>
      /\ \A d \in Clients \ {c} : call'[d] = call[d]
  BY NamesAssumption
     DEF FiledInv, CallsTyped, CallRec, Notify, NextFollower, Distributing, cliVars
<1>2. PICK f \in Names :
        /\ f > call[c].at
        /\ call'[c].at = f /\ call'[c].post = k /\ Distributing(c)'
        /\ \/ f = NameOf[c] /\ UNCHANGED tml
           \/ f # NameOf[c] /\ tml' = [tml EXCEPT ![f] = Append(@, <<c, k>>)]
  BY DEF Notify, NextFollower, Distributing, CallsTyped, CallRec
<1>3. f \in Nat
  BY NamesAssumption
<1>4. Waiting(c)'
  BY <1>1, <1>2 DEF Waiting
<1>5. ASSUME NEW n \in Names, NEW p \in Range(tml'[n])
      PROVE  p \in Range(tml[n]) \/ (n = f /\ p = <<c, k>>)
  <2>1. CASE UNCHANGED tml
    BY <1>5, <2>1
  <2>2. CASE tml' = [tml EXCEPT ![f] = Append(@, <<c, k>>)]
    <3> HIDE DEF k
    <3>1. tml'[n] = IF n = f THEN Append(tml[f], <<c, k>>) ELSE tml[n]
      BY <2>2 DEF CallsTyped
    <3>2. <<c, k>> \in Posts /\ tml[f] \in Seq(Posts)
      BY <1>1 DEF Posts, CallsTyped
    <3>3. Range(Append(tml[f], <<c, k>>)) = Range(tml[f]) \cup {<<c, k>>}
      BY <3>2, AppendOne
    <3> QED
      BY <1>5, <3>1, <3>3
  <2> QED
    BY <1>2, <2>1, <2>2
<1>6. \A x \in Range(inbox[c]) : k < x /\ x =< made[c]
  BY <1>1 DEF Waiting
<1>7. ASSUME NEW n \in Names, NEW p \in Range(tml'[n]), p[1] = c
      PROVE  /\ p[2] =< made[c]
             /\ \A x \in Range(inbox[c]) : p[2] < x
             /\ p[2] =< k
             /\ p[2] = k => n = NameOf[c] \/ n =< f
  <2>1. CASE p \in Range(tml[n])
    <3>1. /\ p[2] =< made[c] /\ \A x \in Range(inbox[c]) : p[2] < x
          /\ p[2] =< k
          /\ p[2] = k => n = NameOf[c] \/ n =< call[c].at
      BY <1>1, <1>7, <2>1 DEF FiledBefore
    <3>2. n \in Nat
      BY NamesAssumption
    <3> HIDE DEF k
    <3> QED
      BY <1>1, <1>2, <1>3, <3>1, <3>2
  <2>2. CASE n = f /\ p = <<c, k>>
    <3>1. p[2] = k /\ k =< made[c]
      BY <1>1, <2>2 DEF Waiting
    <3> HIDE DEF k
    <3> QED
      BY <1>1, <1>3, <1>6, <2>2, <3>1
  <2> QED
    BY <1>5, <2>1, <2>2
<1>8. FiledBefore(c)'
  <2>1. inbox' = inbox /\ made' = made /\ call'[c].at = f /\ call'[c].post = k
    BY <1>1, <1>2
  <2> HIDE DEF k
  <2> QED
    BY <1>7, <2>1 DEF FiledBefore
<1>9. CASE UNCHANGED tml
  BY <1>1, <1>4, <1>8, <1>9, NothingFiled
<1>10. CASE f # NameOf[c] /\ tml' = [tml EXCEPT ![f] = Append(@, <<c, k>>)]
  <2>1. ASSUME NEW p \in Range(tml[f]), p[1] = c PROVE p[2] < k
    <3>1. p[2] =< k /\ (p[2] = k => f =< call[c].at)
      BY <1>1, <1>10, <2>1 DEF FiledBefore
    <3>2. p[2] \in Nat
      <4>1. tml[f] \in Seq(Posts)
        BY DEF CallsTyped
      <4> QED
        BY <4>1, RangeOfSeq DEF Posts
    <3> HIDE DEF k
    <3> QED
      BY <1>1, <1>2, <1>3, <3>1, <3>2
  <2> HIDE DEF k
  <2> QED
    BY <1>1, <1>4, <1>8, <1>10, <2>1, AppendFiled
<1> QED
  BY <1>2, <1>9, <1>10

\* Every step keeps the files in order.
LEMMA StepFiled ==
    SocialTypeOK /\ FiledInv /\ [Next]_vars => FiledInv'
<1> SUFFICES ASSUME CallsTyped, FiledInv, [Next]_vars PROVE FiledInv'
  BY TypedParts
<1>1. ASSUME UNCHANGED <<tml, call, inbox, made>> PROVE FiledInv'
  BY <1>1 DEF FiledInv, Waiting, FiledBefore, Distributing
<1>2. ASSUME NEW c \in Clients, Login(c) \/ \E v \in Names : Follow(c, v) \/ UnFollow(c, v)
      PROVE  FiledInv'
  BY <1>1, <1>2 DEF Login, Follow, UnFollow, fileVars, cliVars
<1>3. ASSUME NEW c \in Clients, Timeline(c) PROVE FiledInv'
  <2>1. UNCHANGED call \/ call' = [call EXCEPT ![c].pc = "joining"]
    BY <1>3 DEF Timeline
  <2>2. /\ UNCHANGED <<tml, inbox, made>>
        /\ \A d \in Clients \ {c} : call'[d] = call[d]
        /\ call'[c].post = call[c].post /\ call'[c].at = call[c].at
        /\ Distributing(c)' => Distributing(c)
    BY <1>3, <2>1 DEF Timeline, fileVars, CallsTyped, CallRec, Distributing
  <2> QED
    BY <2>2, SteadyFiled
<1>4. ASSUME NEW c \in Clients, Leave(c) PROVE FiledInv'
  <2>1. PICK n \in 0..Len(inbox[c]) : inbox' = [inbox EXCEPT ![c] = SubSeq(@, 1, n)]
    BY <1>4 DEF Leave
  <2>2. /\ UNCHANGED <<tml, call, made>>
        /\ inbox'[c] = SubSeq(inbox[c], 1, n)
        /\ \A d \in Clients \ {c} : inbox'[d] = inbox[d]
    BY <1>4, <2>1 DEF Leave, CallsTyped, fileVars
  <2>3. Increasing(inbox'[c]) /\ Range(inbox'[c]) \subseteq Range(inbox[c])
    <3>1. inbox[c] \in Seq(Nat) /\ Increasing(inbox[c])
      BY DEF FiledInv, Waiting, CallsTyped
    <3> QED
      BY <2>2, <3>1, PrefixIncreasing
  <2>4. Waiting(c)' /\ FiledBefore(c)'
    BY <2>2, <2>3 DEF FiledInv, Waiting, FiledBefore, Distributing
  <2> QED
    BY <2>2, <2>4, NothingFiled
<1>5. ASSUME NEW c \in Clients, Bind(c) PROVE FiledInv'
  <2>1. CASE call' = [call EXCEPT ![c].pc = "reading"]
    <3>1. /\ UNCHANGED <<tml, inbox, made>>
          /\ \A d \in Clients \ {c} : call'[d] = call[d]
          /\ call'[c].post = call[c].post /\ ~Distributing(c)'
      BY <1>5, <2>1 DEF Bind, fileVars, CallsTyped, CallRec, Distributing
    <3> QED
      BY <3>1, SteadyFiled
  <2>2. CASE call' = [call EXCEPT ![c] = Idle]
    <3>1. /\ UNCHANGED <<tml, inbox, made>>
          /\ \A d \in Clients \ {c} : call'[d] = call[d]
          /\ call'[c].post = 0 /\ ~Distributing(c)'
      BY <1>5, <2>2 DEF Bind, fileVars, CallsTyped, Distributing, Idle
    <3>2. Waiting(c)' /\ FiledBefore(c)'
      BY <3>1, ResetFiled DEF FiledInv, Waiting
    <3> QED
      BY <3>1, <3>2, NothingFiled
  <2> QED
    BY <1>5, <2>1, <2>2 DEF Bind
<1>6. ASSUME NEW c \in Clients, Write(c) PROVE FiledInv'
  <2>1. CASE Ends
    BY <2>1, EndsFiled
  <2>2. CASE ~Ends
    <3>1. /\ UNCHANGED <<tml, inbox, made>>
          /\ call[c].pc = "writing"
          /\ call' = [call EXCEPT ![c].pc = "posting"]
      BY <1>6, <2>2 DEF Write, Dies
    <3>2. /\ \A d \in Clients \ {c} : call'[d] = call[d]
          /\ call'[c].post = call[c].post /\ call'[c].at = call[c].at
          /\ Distributing(c)
      BY <3>1 DEF CallsTyped, CallRec, Distributing
    <3> QED
      BY <3>1, <3>2, SteadyFiled
  <2> QED
    BY <2>1, <2>2
<1>7. ASSUME NEW c \in Clients, Posted(c) \/ EndCall(c) PROVE FiledInv'
  <2>1. /\ UNCHANGED <<tml, made>>
        /\ call'[c].post = 0 /\ ~Distributing(c)'
        /\ \A d \in Clients \ {c} : call'[d] = call[d] /\ inbox'[d] = inbox[d]
    BY <1>7 DEF Posted, EndCall, fileVars, cliVars, CallsTyped, Distributing, Idle
  <2>2. inbox'[c] = inbox[c] \/ inbox'[c] = <<>>
    BY <1>7 DEF Posted, EndCall, CallsTyped
  <2>3. Increasing(inbox'[c]) /\ Range(inbox'[c]) \subseteq Range(inbox[c])
    <3>1. CASE inbox'[c] = inbox[c]
      BY <3>1 DEF FiledInv, Waiting
    <3>2. CASE inbox'[c] = <<>>
      <4>1. DOMAIN inbox'[c] = {}
        BY <3>2
      <4> QED
        BY <4>1 DEF Range, Increasing
    <3> QED
      BY <2>2, <3>1, <3>2
  <2>4. Waiting(c)' /\ FiledBefore(c)'
    BY <2>1, <2>3, ResetFiled
  <2> QED
    BY <2>1, <2>4, NothingFiled
<1>8. CASE Start \/ Load \/ Serve \/ Interrupt \/ InterruptEarly \/ CloseUser \/ Exit \/ Kill
  BY <1>1, <1>8, EndsFiled
     DEF Start, Load, Serve, Interrupt, InterruptEarly, CloseUser, Exit, Kill, Dies,
         fileVars, cliVars
<1>9. CASE UNCHANGED vars
  BY <1>1, <1>9 DEF vars, fileVars, cliVars
<1> QED
  BY <1>2, <1>3, <1>4, <1>5, <1>6, <1>7, <1>8, <1>9, PostFiled, ReadFiled, NotifyFiled
     DEF Next, Handler

\* The inductive invariant holds in every reachable state.
THEOREM SocialFiled == Spec => []FiledInv
<1>1. SocialTypeOK /\ FiledInv /\ [Next]_vars => FiledInv'
  BY StepFiled
<1> QED
  BY <1>1, InitFiled, SocialTyped, PTL DEF Spec

\* No file holds a post twice, or a client's posts in another order than they were
\* made.
THEOREM SocialFiledInOrder == Spec => []FiledInOrder
<1>1. FiledInv => FiledInOrder
  BY DEF FiledInv, FiledInOrder, InOrder
<1> QED
  BY <1>1, SocialFiled, PTL

-----------------------------------------------------------------------------
(* What the clients show: a post is on the file of a follower before it is *)
(* written to the stream, and a stream is of a client that shows the posts *)
(* on file.  So the inductive invariant is about the calls in between.     *)

\* A client that has yet to open its timeline has no call under way.
OnIdle == \A c \in Clients : cli[c] = "on" => call[c].pc = "none"

\* Nothing runs, and nothing is shown, before the server listens.
AtRest ==
    /\ \A n \in Names : stream[n] = Nil
    /\ \A c \in Clients : call[c].pc = "none" /\ screen[c] = <<>>

\* A stream that is bound is of a call under way, of a client of that name.
Bound ==
    \A n \in Names : stream[n] \in Clients =>
        /\ NameOf[stream[n]] = n
        /\ call[stream[n]].pc \in {"reading", "posting", "writing"}

\* The post that is about to be written is on the follower's file, and the client
\* whose stream it goes to does not show it.
Pending(c) ==
    call[c].pc = "writing" =>
        /\ call[c].at \in Names /\ stream[call[c].at] # Nil
        /\ <<c, call[c].post>> \in Range(tml[call[c].at])
        /\ stream[call[c].at] \in Clients =>
             <<c, call[c].post>> \notin Range(screen[stream[call[c].at]])

Shows(c) ==
    /\ IsInjective(screen[c])
    /\ Range(screen[c]) \subseteq Range(tml[NameOf[c]])

Streams ==
    /\ Bound
    /\ \A c \in Clients : Pending(c) /\ Shows(c)

ShownInv ==
    /\ OnIdle
    /\ phase \in {"down", "loading"} => AtRest
    /\ phase # "closing" => Streams

\* Where nothing runs and nothing is shown, nothing is shown twice.
LEMMA RestShown == AtRest => Streams
<1> SUFFICES ASSUME AtRest PROVE Streams
  OBVIOUS
<1>1. \A c \in Clients : DOMAIN screen[c] = {}
  BY DEF AtRest
<1>2. Nil \notin Clients
  BY StreamAssumption
<1> QED
  BY <1>1, <1>2 DEF AtRest, Streams, Bound, Pending, Shows, IsInjective, Range

\* No client runs at first.
LEMMA InitShown == Init => ShownInv
<1> SUFFICES ASSUME Init PROVE ShownInv
  OBVIOUS
<1>1. AtRest /\ OnIdle /\ phase = "down"
  BY DEF Init, AtRest, OnIdle, Idle
<1> QED
  BY <1>1, RestShown DEF ShownInv

\* A new element is appended to a sequence without repetitions.
LEMMA AppendUnseen ==
    ASSUME NEW S, NEW s \in Seq(S), NEW e \in S, IsInjective(s), e \notin Range(s)
    PROVE  IsInjective(Append(s, e))
<1> SUFFICES ASSUME NEW i \in DOMAIN Append(s, e), NEW j \in DOMAIN Append(s, e),
                    Append(s, e)[i] = Append(s, e)[j]
             PROVE  i = j
  BY DEF IsInjective
<1>1. /\ \/ i \in DOMAIN s /\ Append(s, e)[i] = s[i] /\ s[i] \in Range(s)
         \/ i = Len(s) + 1 /\ Append(s, e)[i] = e
      /\ \/ j \in DOMAIN s /\ Append(s, e)[j] = s[j] /\ s[j] \in Range(s)
         \/ j = Len(s) + 1 /\ Append(s, e)[j] = e
  BY AppendOne
<1> QED
  BY <1>1 DEF IsInjective

\* The newest posts of a file, the last one first, repeat none, as the file does
\* not, and are all on file.
LEMMA PageShown ==
    ASSUME NEW file \in Seq(Posts), InOrder(file), NEW first \in Nat \ {0}
    PROVE  LET shown == Reverse(SubSeq(file, first, Len(file)))
           IN  IsInjective(shown) /\ Range(shown) \subseteq Range(file)
<1> DEFINE s == SubSeq(file, first, Len(file))
<1>1. /\ Len(file) \in Nat /\ DOMAIN file = 1..Len(file)
      /\ Len(s) \in Nat
      /\ \A i \in 1..Len(s) : first + i - 1 \in 1..Len(file) /\ s[i] = file[first + i - 1]
  OBVIOUS
<1>2. \A i \in DOMAIN file : file[i] \in Posts /\ file[i][2] \in Nat
  BY <1>1 DEF Posts
<1>3. ASSUME NEW i \in DOMAIN file, NEW j \in DOMAIN file, file[i] = file[j] PROVE i = j
  <2>1. ~(i < j) /\ ~(j < i)
    BY <1>2, <1>3 DEF InOrder
  <2> QED
    BY <1>1, <2>1
<1> HIDE DEF s
<1>4. Reverse(s) = [i \in 1..Len(s) |-> s[(Len(s) - i) + 1]]
  BY DEF Reverse
<1>5. ASSUME NEW i \in 1..Len(s)
      PROVE  /\ first + (Len(s) - i) \in DOMAIN file
             /\ Reverse(s)[i] = file[first + (Len(s) - i)]
  <2>1. (Len(s) - i) + 1 \in 1..Len(s)
    BY <1>1
  <2>2. first + ((Len(s) - i) + 1) - 1 = first + (Len(s) - i)
    BY <1>1
  <2> QED
    BY <1>1, <1>4, <2>1, <2>2
<1>6. IsInjective(Reverse(s))
  <2> SUFFICES ASSUME NEW i \in 1..Len(s), NEW j \in 1..Len(s),
                      Reverse(s)[i] = Reverse(s)[j]
               PROVE  i = j
    BY <1>4 DEF IsInjective
  <2>1. first + (Len(s) - i) = first + (Len(s) - j)
    BY <1>3, <1>5
  <2> QED
    BY <1>1, <2>1
<1>7. Range(Reverse(s)) \subseteq Range(file)
  BY <1>4, <1>5 DEF Range
<1> QED
  BY <1>6, <1>7 DEF s

\* A longer file still holds all that is shown.
LEMMA MoreFiled ==
    ASSUME NEW c \in Clients, Shows(c), screen'[c] = screen[c],
           Range(tml[NameOf[c]]) \subseteq Range(tml'[NameOf[c]])
    PROVE  Shows(c)'
BY DEF Shows

\* A post that is pending stays so while its stream and what is shown there stay.
LEMMA StillPending ==
    ASSUME NEW c \in Clients, Pending(c), call'[c] = call[c],
           \A n \in Names : Range(tml[n]) \subseteq Range(tml'[n]),
           \A n \in Names : stream[n] # Nil =>
               \/ stream'[n] # Nil /\ stream'[n] \notin Clients
               \/ /\ stream'[n] = stream[n]
                  /\ stream[n] \in Clients =>
                       (<<c, call[c].post>> \in Range(screen'[stream[n]]) =>
                          <<c, call[c].post>> \in Range(screen[stream[n]]))
    PROVE  Pending(c)'
BY DEF Pending

\* A post that is appended to a file is on it, and what was on file stays there.
LEMMA FileAppended ==
    ASSUME CallsTyped, NEW f \in Names, NEW p \in Posts,
           tml' = [tml EXCEPT ![f] = Append(@, p)]
    PROVE  /\ p \in Range(tml'[f])
           /\ \A n \in Names : Range(tml[n]) \subseteq Range(tml'[n])
<1>1. tml[f] \in Seq(Posts)
  BY DEF CallsTyped
<1>2. Range(Append(tml[f], p)) = Range(tml[f]) \cup {p}
  BY <1>1, AppendOne
<1>3. tml'[f] = Append(tml[f], p) /\ \A n \in Names \ {f} : tml'[n] = tml[n]
  BY DEF CallsTyped
<1>4. Range(tml'[f]) = Range(tml[f]) \cup {p}
  BY <1>2, <1>3
<1>5. ASSUME NEW n \in Names PROVE Range(tml[n]) \subseteq Range(tml'[n])
  BY <1>3, <1>4
<1> QED
  BY <1>4, <1>5

\* Steps that touch none of it.
LEMMA SteadyShown ==
    ASSUME Streams, UNCHANGED <<stream, call, screen, tml>>
    PROVE  Streams'
BY DEF Streams, Bound, Pending, Shows

\* A client opens its timeline: it has no call, so no stream is bound to it.
LEMMA TimelineShown ==
    ASSUME CallsTyped, FiledInv, OnIdle, Streams, NEW c \in Clients, Timeline(c)
    PROVE  Streams'
<1> DEFINE file == tml[NameOf[c]]
           first == IF Len(file) > Page THEN Len(file) - Page + 1 ELSE 1
<1>1. file \in Seq(Posts) /\ InOrder(file) /\ Len(file) \in Nat
  <2>1. NameOf[c] \in Names
    BY NamesAssumption
  <2>2. file \in Seq(Posts) /\ InOrder(file)
    BY <2>1 DEF CallsTyped, FiledInv
  <2> HIDE DEF file
  <2> QED
    BY <2>2
<1>2. first \in Nat \ {0}
  BY <1>1, BoundAssumption
<1>3. call[c].pc = "none" /\ UNCHANGED <<stream, tml>>
  BY DEF Timeline, OnIdle, userVars, fileVars
<1>4. CASE UNCHANGED <<screen, call>>
  BY <1>3, <1>4, SteadyShown
<1>5. CASE /\ screen' = [screen EXCEPT ![c] = Reverse(SubSeq(file, first, Len(file)))]
           /\ call' = [call EXCEPT ![c].pc = "joining"]
  <2>1. screen'[c] = Reverse(SubSeq(file, first, Len(file)))
    BY <1>5 DEF CallsTyped
  <2>2. call'[c].pc = "joining"
    BY <1>5 DEF CallsTyped, CallRec
  <2>3. \A d \in Clients \ {c} : screen'[d] = screen[d] /\ call'[d] = call[d]
    BY <1>5 DEF CallsTyped
  <2>4. IsInjective(screen'[c]) /\ Range(screen'[c]) \subseteq Range(file)
    <3> HIDE DEF first, file
    <3> QED
      BY <1>1, <1>2, <2>1, PageShown
  <2>5. \A n \in Names : stream[n] # c
    BY <1>3 DEF Streams, Bound
  <2>6. Bound'
    BY <1>3, <2>3, <2>5 DEF Streams, Bound
  <2>7. ASSUME NEW d \in Clients PROVE Pending(d)' /\ Shows(d)'
    <3>1. CASE d = c
      BY <1>3, <2>2, <2>4, <3>1 DEF Pending, Shows
    <3>2. CASE d # c
      <4>1. Pending(d)'
        BY <1>3, <2>3, <2>5, <3>2, StillPending DEF Streams
      <4>2. Shows(d)'
        BY <1>3, <2>3, <3>2, MoreFiled DEF Streams
      <4> QED
        BY <4>1, <4>2
    <3> QED
      BY <3>1, <3>2
  <2> QED
    BY <2>6, <2>7 DEF Streams
<1> QED
  BY <1>4, <1>5 DEF Timeline

\* A call is bound to its name's stream, if that was free: nothing was pending there.
LEMMA BindShown ==
    ASSUME CallsTyped, Streams, NEW c \in Clients, Bind(c)
    PROVE  Streams'
<1> DEFINE u == NameOf[c]
<1>1. u \in Names /\ call[c].pc = "joining" /\ UNCHANGED <<screen, tml>>
  BY NamesAssumption DEF Bind, fileVars
<1>2. \A n \in Names : stream[n] # c
  BY <1>1 DEF Streams, Bound
<1>3. /\ \A d \in Clients \ {c} : call'[d] = call[d]
      /\ call'[c].pc \in {"reading", "none"}
      /\ \/ stream' = stream
         \/ /\ stream[u] = Nil /\ stream' = [stream EXCEPT ![u] = c]
            /\ call'[c].pc = "reading"
  <2>1. CASE u \in Known(following)
    <3>1. /\ stream' = [stream EXCEPT ![u] = IF stream[u] = Nil THEN c ELSE stream[u]]
          /\ call' = [call EXCEPT ![c].pc = "reading"]
      BY <2>1 DEF Bind
    <3>2. call'[c].pc = "reading" /\ \A d \in Clients \ {c} : call'[d] = call[d]
      BY <3>1 DEF CallsTyped, CallRec
    <3>3. stream[u] # Nil => stream' = stream
      BY <3>1 DEF CallsTyped
    <3> QED
      BY <3>1, <3>2, <3>3
  <2>2. CASE u \notin Known(following)
    BY <2>2 DEF Bind, CallsTyped, Idle
  <2> QED
    BY <2>1, <2>2
<1>4. \A n \in Names : \/ stream'[n] = stream[n]
                       \/ /\ n = u /\ stream[n] = Nil /\ stream'[n] = c
                          /\ call'[c].pc = "reading"
  BY <1>3 DEF CallsTyped
<1>5. Bound'
  BY <1>2, <1>3, <1>4 DEF Streams, Bound
<1>6. ASSUME NEW d \in Clients PROVE Pending(d)' /\ Shows(d)'
  <2>1. Shows(d)'
    BY <1>1, MoreFiled DEF Streams
  <2>2. CASE d = c
    BY <1>3, <2>1, <2>2 DEF Pending
  <2>3. CASE d # c
    BY <1>1, <1>3, <1>4, <2>1, <2>3, StillPending DEF Streams
  <2> QED
    BY <2>2, <2>3
<1> QED
  BY <1>5, <1>6 DEF Streams

\* A step of a call after which it is still under way but writes nothing, and that
\* takes nothing off the files.
LEMMA CallShown ==
    ASSUME Streams, NEW c \in Clients, UNCHANGED <<stream, screen>>,
           call'[c].pc \in {"reading", "posting"},
           \A d \in Clients \ {c} : call'[d] = call[d],
           \A n \in Names : Range(tml[n]) \subseteq Range(tml'[n])
    PROVE  Streams'
<1>1. Bound'
  BY DEF Streams, Bound
<1>2. ASSUME NEW d \in Clients PROVE Pending(d)' /\ Shows(d)'
  <2>1. Shows(d)'
    BY NamesAssumption, MoreFiled DEF Streams
  <2>2. CASE d = c
    BY <2>1, <2>2 DEF Pending
  <2>3. CASE d # c
    BY <2>1, <2>3, StillPending DEF Streams
  <2> QED
    BY <2>2, <2>3
<1> QED
  BY <1>1, <1>2 DEF Streams

\* The post that is read is filed, and written to no stream yet.
LEMMA ReadShown ==
    ASSUME CallsTyped, Streams, NEW c \in Clients, Read(c)
    PROVE  Streams'
<1> DEFINE k == Head(inbox[c])
<1>1. /\ tml' = [tml EXCEPT ![NameOf[c]] = Append(@, <<c, k>>)]
      /\ call' = [call EXCEPT ![c] = [pc |-> "posting", post |-> k, at |-> 0]]
      /\ UNCHANGED <<stream, screen>>
  BY DEF Read, userVars, cliVars
<1>2. <<c, k>> \in Posts /\ NameOf[c] \in Names
  <2>1. inbox[c] \in Seq(Nat) /\ inbox[c] # <<>>
    BY DEF CallsTyped, Read
  <2> QED
    BY <2>1, NamesAssumption DEF Posts
<1> HIDE DEF k
<1>3. \A n \in Names : Range(tml[n]) \subseteq Range(tml'[n])
  BY <1>1, <1>2, FileAppended
<1>4. call'[c].pc = "posting" /\ \A d \in Clients \ {c} : call'[d] = call[d]
  BY <1>1 DEF CallsTyped
<1> QED
  BY <1>1, <1>3, <1>4, CallShown

\* The next follower's file, and so its client's timeline, lacked the post.
LEMMA NotifyShown ==
    ASSUME CallsTyped, FiledInv, Streams, NEW c \in Clients, Notify(c)
    PROVE  Streams'
<1> DEFINE k == call[c].post
<1>1. /\ call[c].pc = "posting" /\ k \in Nat /\ call[c].at \in Nat
      /\ UNCHANGED <<stream, screen>>
  BY NamesAssumption DEF Notify, CallsTyped, CallRec, userVars, cliVars
<1>2. PICK f \in Names :
        /\ f > call[c].at
        /\ \/ f = NameOf[c] /\ call' = [call EXCEPT ![c].at = f] /\ UNCHANGED tml
           \/ /\ f # NameOf[c]
              /\ tml' = [tml EXCEPT ![f] = Append(@, <<c, k>>)]
              /\ call' = [call EXCEPT ![c].at = f,
                            ![c].pc = IF stream[f] = Nil THEN @ ELSE "writing"]
  BY DEF Notify, NextFollower
<1>3. /\ \A d \in Clients \ {c} : call'[d] = call[d]
      /\ call'[c].post = k /\ call'[c].at = f
      /\ call'[c].pc = IF f = NameOf[c] \/ stream[f] = Nil THEN "posting" ELSE "writing"
  BY <1>1, <1>2 DEF CallsTyped, CallRec
<1>4. <<c, k>> \in Posts
  BY <1>1 DEF Posts
<1> HIDE DEF k
<1>5. \A n \in Names : Range(tml[n]) \subseteq Range(tml'[n])
  BY <1>2, <1>4, FileAppended
<1>6. CASE call'[c].pc = "posting"
  BY <1>1, <1>3, <1>5, <1>6, CallShown
<1>7. CASE call'[c].pc = "writing"
  <2>1. /\ f # NameOf[c] /\ stream[f] # Nil
        /\ tml' = [tml EXCEPT ![f] = Append(@, <<c, k>>)]
    BY <1>2, <1>3, <1>7
  <2>2. <<c, k>> \in Range(tml'[f])
    BY <1>4, <2>1, FileAppended
  <2>3. <<c, k>> \notin Range(tml[f])
    <3>1. SUFFICES ASSUME <<c, k>> \in Range(tml[f]) PROVE FALSE
      OBVIOUS
    <3>2. FiledBefore(c) /\ Distributing(c)
      BY <1>1 DEF FiledInv, Distributing
    <3>3. <<c, k>>[1] = c /\ <<c, k>>[2] = k
      OBVIOUS
    <3>4. f = NameOf[c] \/ f =< call[c].at
      BY <3>1, <3>2, <3>3 DEF FiledBefore, k
    <3>5. f \in Nat
      BY NamesAssumption
    <3> QED
      BY <1>1, <1>2, <2>1, <3>4, <3>5
  <2>4. Pending(c)'
    <3>1. ASSUME stream[f] \in Clients PROVE <<c, k>> \notin Range(screen[stream[f]])
      <4>1. NameOf[stream[f]] = f /\ Shows(stream[f])
        BY <3>1 DEF Streams, Bound
      <4> QED
        BY <2>3, <4>1 DEF Shows
    <3> QED
      BY <1>1, <1>3, <2>1, <2>2, <3>1 DEF Pending
  <2>5. Bound'
    BY <1>1, <1>3, <1>7 DEF Streams, Bound
  <2>6. ASSUME NEW d \in Clients PROVE Pending(d)' /\ Shows(d)'
    <3>1. Shows(d)'
      BY <1>1, <1>5, NamesAssumption, MoreFiled DEF Streams
    <3>2. CASE d # c
      BY <1>1, <1>3, <1>5, <3>1, <3>2, StillPending DEF Streams
    <3> QED
      BY <2>4, <3>1, <3>2
  <2> QED
    BY <2>5, <2>6 DEF Streams
<1> QED
  BY <1>3, <1>6, <1>7

\* The post is shown: it was on file, and not on the screen.
LEMMA WriteShown ==
    ASSUME CallsTyped, Streams, NEW c \in Clients, Write(c), ~Ends
    PROVE  Streams'
<1> DEFINE p == <<c, call[c].post>>
           s == stream[call[c].at]
<1>1. /\ call[c].pc = "writing"
      /\ call' = [call EXCEPT ![c].pc = "posting"]
      /\ screen' = IF s # Gone /\ cli[s] = "timeline"
                   THEN [screen EXCEPT ![s] = Append(@, p)] ELSE screen
      /\ UNCHANGED <<stream, tml>>
  BY DEF Write, Dies, userVars
<1>2. /\ call[c].at \in Names /\ s # Nil /\ p \in Range(tml[call[c].at])
      /\ s \in Clients => p \notin Range(screen[s]) /\ NameOf[s] = call[c].at
      /\ p \in Posts
  BY <1>1 DEF Streams, Pending, Bound, CallsTyped, CallRec, Posts
<1>3. /\ \A d \in Clients \ {c} : call'[d] = call[d]
      /\ call'[c].pc = "posting"
  BY <1>1 DEF CallsTyped, CallRec
<1>4. CASE screen' = screen
  BY <1>1, <1>3, <1>4, CallShown
<1>5. CASE s # Gone /\ screen' = [screen EXCEPT ![s] = Append(@, p)]
  <2>1. s \in Clients
    BY <1>2, <1>5 DEF CallsTyped
  <2> HIDE DEF p, s
  <2>2. /\ screen'[s] = Append(screen[s], p)
        /\ \A d \in Clients \ {s} : screen'[d] = screen[d]
        /\ screen[s] \in Seq(Posts)
    BY <1>5, <2>1 DEF CallsTyped
  <2>3. Range(screen'[s]) = Range(screen[s]) \cup {p}
    BY <1>2, <2>2, AppendOne
  <2>4. Shows(s) /\ p \notin Range(screen[s])
    BY <1>2, <2>1 DEF Streams
  <2>5. IsInjective(screen'[s])
    BY <1>2, <2>2, <2>4, AppendUnseen DEF Shows
  <2>6. ASSUME NEW d \in Clients PROVE Shows(d)'
    <3>1. CASE d = s
      BY <1>1, <1>2, <2>1, <2>3, <2>4, <2>5, <3>1 DEF Shows
    <3>2. CASE d # s
      BY <1>1, <2>2, <3>2, MoreFiled DEF Streams
    <3> QED
      BY <3>1, <3>2
  <2>7. ASSUME NEW d \in Clients PROVE Pending(d)'
    <3>1. CASE d = c
      BY <1>3, <3>1 DEF Pending
    <3>2. CASE d # c
      <4>1. <<d, call[d].post>> # p
        BY <3>2 DEF p
      <4>2. \A e \in Clients : <<d, call[d].post>> \in Range(screen'[e])
                                 => <<d, call[d].post>> \in Range(screen[e])
        BY <2>2, <2>3, <4>1
      <4> QED
        BY <1>1, <1>3, <3>2, <4>2, StillPending DEF Streams
    <3> QED
      BY <3>1, <3>2
  <2>8. Bound'
    BY <1>1, <1>3 DEF Streams, Bound
  <2> QED
    BY <2>6, <2>7, <2>8 DEF Streams
<1> QED
  BY <1>1, <1>4, <1>5

\* The call returns: its streams are gone, and it writes nothing.
LEMMA EndCallShown ==
    ASSUME CallsTyped, Streams, NEW c \in Clients, EndCall(c)
    PROVE  Streams'
<1>1. /\ UNCHANGED <<tml, screen>>
      /\ call' = [call EXCEPT ![c] = Idle]
      /\ stream' = [n \in Names |-> IF stream[n] = c THEN Gone ELSE stream[n]]
  BY DEF EndCall, fileVars, cliVars
<1>2. /\ call'[c].pc = "none"
      /\ \A d \in Clients \ {c} : call'[d] = call[d]
  BY <1>1 DEF CallsTyped, Idle
<1>3. \A n \in Names : \/ stream'[n] = stream[n] /\ stream[n] # c
                       \/ stream'[n] = Gone
  BY <1>1
<1>4. Gone # Nil /\ Gone \notin Clients
  BY StreamAssumption
<1>5. Bound'
  BY <1>2, <1>3, <1>4 DEF Streams, Bound
<1>6. ASSUME NEW d \in Clients PROVE Pending(d)' /\ Shows(d)'
  <2>1. Shows(d)'
    BY <1>1, MoreFiled DEF Streams
  <2>2. CASE d = c
    BY <1>2, <2>1, <2>2 DEF Pending
  <2>3. CASE d # c
    BY <1>1, <1>2, <1>3, <1>4, <2>1, <2>3, StillPending DEF Streams
  <2> QED
    BY <2>2, <2>3
<1> QED
  BY <1>5, <1>6 DEF Streams

\* A client that leaves shows nothing.
LEMMA LeaveShown ==
    ASSUME CallsTyped, Streams, NEW c \in Clients, Leave(c)
    PROVE  Streams'
<1>1. /\ UNCHANGED <<tml, stream, call>>
      /\ screen'[c] = <<>> /\ DOMAIN screen'[c] = {}
      /\ \A d \in Clients \ {c} : screen'[d] = screen[d]
  BY DEF Leave, userVars, fileVars, CallsTyped
<1>2. Range(screen'[c]) = {}
  BY <1>1 DEF Range
<1>3. ASSUME NEW d \in Clients PROVE Pending(d)' /\ Shows(d)'
  <2>1. Pending(d)'
    <3>1. \A e \in Clients : Range(screen'[e]) \subseteq Range(screen[e])
      BY <1>1, <1>2
    <3> QED
      BY <1>1, <3>1, StillPending DEF Streams
  <2>2. CASE d = c
    BY <1>1, <1>2, <2>1, <2>2 DEF Shows, IsInjective
  <2>3. CASE d # c
    BY <1>1, <2>1, <2>3, MoreFiled DEF Streams
  <2> QED
    BY <2>1, <2>2, <2>3
<1>4. Bound'
  BY <1>1 DEF Streams, Bound
<1> QED
  BY <1>3, <1>4 DEF Streams

\* The end of the process leaves nothing under way, and nothing shown.
LEMMA EndsShown ==
    ASSUME CallsTyped, Ends
    PROVE  ShownInv'
<1>1. AtRest' /\ OnIdle' /\ phase' = "down"
  BY DEF Ends, AtRest, OnIdle, Idle
<1>2. Streams'
  <2>1. \A c \in Clients : DOMAIN screen'[c] = {}
    BY <1>1 DEF AtRest
  <2>2. Nil \notin Clients
    BY StreamAssumption
  <2> QED
    BY <1>1, <2>1, <2>2 DEF AtRest, Streams, Bound, Pending, Shows, IsInjective, Range
<1> QED
  BY <1>1, <1>2 DEF ShownInv

\* The steps of clients and calls, short of the end of the process.
LEMMA ClientShown ==
    ASSUME CallsTyped, FiledInv, ShownInv, ~Ends, NEW c \in Clients,
           \/ Login(c) \/ Timeline(c) \/ Post(c) \/ Leave(c) \/ Handler(c)
           \/ \E v \in Names : Follow(c, v) \/ UnFollow(c, v)
    PROVE  ShownInv'
<1>1. phase' = phase
  BY DEF Login, Timeline, Post, Leave, Handler, Bind, Read, Notify, Write, Dies, Posted, EndCall,
         Follow, UnFollow
<1>2. OnIdle'
  <2>1. ASSUME NEW d \in Clients, cli'[d] = "on" PROVE call'[d].pc = "none"
    <3>1. CASE Login(c)
      BY <2>1, <3>1 DEF Login, OnIdle, ShownInv, CallsTyped, Idle
    <3>2. CASE Timeline(c)
      BY <2>1, <3>2 DEF Timeline, OnIdle, ShownInv, CallsTyped
    <3>3. CASE Bind(c)
      BY <2>1, <3>3 DEF Bind, OnIdle, ShownInv, CallsTyped, Idle
    <3>4. CASE Leave(c)
      BY <2>1, <3>4 DEF Leave, OnIdle, ShownInv, CallsTyped
    <3>5. CASE EndCall(c)
      BY <2>1, <3>5 DEF EndCall, OnIdle, ShownInv, CallsTyped, Idle, cliVars
    <3>6. CASE Read(c) \/ Notify(c) \/ Write(c) \/ Posted(c)
      <4>1. cli' = cli /\ call[c].pc # "none"
        BY <3>6 DEF Read, Notify, Write, Dies, Posted, cliVars
      <4>2. \A e \in Clients \ {c} : call'[e] = call[e]
        BY <3>6 DEF Read, Notify, Write, Dies, Posted, CallsTyped
      <4> QED
        BY <2>1, <4>1, <4>2 DEF OnIdle, ShownInv
    <3>7. CASE Post(c) \/ \E v \in Names : Follow(c, v) \/ UnFollow(c, v)
      BY <2>1, <3>7 DEF Post, Follow, UnFollow, OnIdle, ShownInv, cliVars
    <3> QED
      BY <3>1, <3>2, <3>3, <3>4, <3>5, <3>6, <3>7 DEF Handler
  <2> QED
    BY <2>1 DEF OnIdle
<1>3. ASSUME phase \in {"down", "loading"} PROVE AtRest'
  <2>1. AtRest /\ ~Handling /\ ~Listening /\ call[c].pc = "none"
    BY <1>3 DEF ShownInv, AtRest, Handling, Listening
  <2>2. Timeline(c) \/ Leave(c)
    BY <2>1 DEF Login, Post, Handler, Bind, Read, Notify, Write, Posted, EndCall,
                Follow, UnFollow
  <2>3. /\ UNCHANGED <<stream, call>>
        /\ \A d \in Clients : screen'[d] = screen[d] \/ screen'[d] = <<>>
    BY <2>1, <2>2 DEF Timeline, Leave, userVars, CallsTyped
  <2> QED
    BY <2>1, <2>3 DEF AtRest
<1>4. ASSUME phase # "closing" PROVE Streams'
  <2>1. Streams /\ OnIdle
    BY <1>4 DEF ShownInv
  <2>2. CASE Login(c) \/ Post(c) \/ \E v \in Names : Follow(c, v) \/ UnFollow(c, v)
    BY <2>1, <2>2, SteadyShown DEF Login, Post, Follow, UnFollow, userVars, fileVars, cliVars
  <2>3. CASE Posted(c)
    <3>1. /\ UNCHANGED <<stream, screen, tml>>
          /\ call'[c].pc = "reading"
          /\ \A d \in Clients \ {c} : call'[d] = call[d]
      BY <2>3 DEF Posted, userVars, fileVars, cliVars, CallsTyped, Idle
    <3> QED
      BY <2>1, <3>1, CallShown
  <2> QED
    BY <2>1, <2>2, <2>3, TimelineShown, LeaveShown, BindShown, ReadShown, NotifyShown,
       WriteShown, EndCallShown DEF Handler
<1> QED
  BY <1>1, <1>2, <1>3, <1>4 DEF ShownInv

\* Every step keeps what is shown on file, and once.
LEMMA StepShown ==
    SocialTypeOK /\ FiledInv /\ ShownInv /\ [Next]_vars => ShownInv'
<1> SUFFICES ASSUME CallsTyped, FiledInv, ShownInv, [Next]_vars PROVE ShownInv'
  BY TypedParts
<1>1. CASE Ends
  BY <1>1, EndsShown
<1>2. CASE /\ ~Ends
           /\ \E c \in Clients :
                \/ Login(c) \/ Timeline(c) \/ Post(c) \/ Leave(c) \/ Handler(c)
                \/ \E v \in Names : Follow(c, v) \/ UnFollow(c, v)
  BY <1>2, ClientShown
<1>3. ASSUME UNCHANGED <<stream, call, screen, tml, cli>>,
             phase' \in {"down", "loading"} => AtRest,
             phase' # "closing" => phase # "closing"
      PROVE  ShownInv'
  BY <1>3, SteadyShown DEF ShownInv, OnIdle, AtRest
<1>4. CASE Start \/ Load \/ (Serve /\ ~Ends) \/ Interrupt
  BY <1>3, <1>4 DEF Start, Load, Serve, Interrupt, ShownInv, userVars, fileVars, cliVars
<1>5. CASE CloseUser
  BY <1>5 DEF CloseUser, ShownInv, OnIdle, cliVars
<1>6. CASE UNCHANGED vars
  BY <1>3, <1>6 DEF vars, ShownInv, userVars, fileVars, cliVars
<1> QED
  BY <1>1, <1>2, <1>4, <1>5, <1>6 DEF Next, InterruptEarly, Exit, Kill, Dies

\* No timeline shows a post twice, or one that is not on its user's file, as long
\* as the server serves.
THEOREM SocialShownOnce == Spec => []ShownOnce
<1>1. SocialTypeOK /\ FiledInv /\ ShownInv /\ [Next]_vars => ShownInv'
  BY StepShown
<1>2. ShownInv => ShownOnce
  BY DEF ShownInv, Streams, Shows, ShownOnce
<1> QED
  BY <1>1, <1>2, InitShown, SocialTyped, SocialFiled, PTL DEF Spec
=============================================================================
