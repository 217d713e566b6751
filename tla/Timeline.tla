------------------------------ MODULE Timeline ------------------------------
(***************************************************************************)
(* How a post reaches the screen of a follower in the distributed social   *)
(* network, by the clock.                                                  *)
(*                                                                         *)
(* The author's server (MP_3/tsd.cc, Timeline) writes a post to the        *)
(* author's timeline.txt.  A thread of the author's synchronizer           *)
(* (MP_3/tsf.cc, checkTimelineUpdates) looks every thirty seconds for      *)
(* posts of the last thirty and appends them to the follower's             *)
(* fTimelines.txt (newMessage).  A thread of the follower's server         *)
(* (MP_3/tsd.cc, catchTimlineUpdates) looks every second whether that file *)
(* was just written and writes what is newer than its last time to the     *)
(* follower's stream.                                                      *)
(*                                                                         *)
(* Nobody sees more of the time than whole seconds, and what happens       *)
(* within a second happens in any order.  The processes are up throughout. *)
(***************************************************************************)
EXTENDS Integers, FiniteSets, Sequences, FiniteSetsExt, SequencesExt

CONSTANTS
    Authors,  \* the users one user follows
    Period,   \* seconds between two looks of the synchronizer, 30 in the code
    Flood,    \* most posts a stream starts with, 20 in the code
    Early,    \* seconds by which a parsed time is early: none in summer, an hour in winter
    Delay,    \* bound on the seconds a post is on its way to the server
    MaxPosts, \* bound on the posts
    Late,     \* bound on the seconds by which a thread sleeps too long
    MaxTime   \* bound on the clock

ASSUME PeriodAssumption == Period \in Nat \ {0} /\ Flood \in Nat /\ Early \in Nat
ASSUME BoundAssumption  ==
    Delay \in Nat /\ MaxPosts \in Nat /\ Late \in Nat /\ MaxTime \in Nat /\ Period =< MaxTime

Fresh == 2    \* a file written less than Fresh seconds ago is read by the stream's thread
Turn  == 1    \* what that thread sleeps after every turn
Nap   == 2    \* and what it sleeps after reading

VARIABLES
    now,        \* the clock
    timeline,   \* author -> the posts in timeline.txt: when made, when written
    looks,      \* author -> when its thread has looked
    fTimelines, \* the posts in the follower's fTimelines.txt: also by whom, when sent
    edited,     \* when that file was last written or created, 0 before there is one
    due,        \* when the stream's thread looks again, 0 before there is a stream
    lasttime,   \* when that thread last wrote to the stream
    read,       \* how many of fTimelines it has read
    flood,      \* the posts the stream started with
    caught      \* the posts that thread wrote to the stream

fileVars   == <<timeline, looks, fTimelines, edited>>
streamVars == <<due, lasttime, read, flood, caught>>
vars == <<now, fileVars, streamVars>>

Posts == UNION {Range(timeline[a]) : a \in Authors}

LastLook(a) == Max(looks[a])

\* parseMessage: the local time is read as if it were summer
Stamp(p) == p.made - Early

\* What a loop over the lines of a file takes: the elements of s at the positions in
\* taken, in their order.
Those(s, taken) ==
    LET upto[i \in 0..Len(s)] ==
          IF i = 0 THEN <<>>
          ELSE IF i \in taken THEN Append(upto[i - 1], s[i])
          ELSE upto[i - 1]
    IN  upto[Len(s)]

\* the threads have been started at different times
Init ==
    /\ now = Period
    /\ timeline = [a \in Authors |-> <<>>]
    /\ looks \in [Authors -> {{t} : t \in 1..Period}]
    /\ fTimelines = <<>>
    /\ edited = 0
    /\ due = 0
    /\ lasttime = 0
    /\ read = 0
    /\ flood = <<>>
    /\ caught = <<>>

\* a second passes when no thread is overdue
Tick ==
    /\ now < MaxTime
    /\ \A a \in Authors : now < LastLook(a) + Period + Late
    /\ due # 0 => now < due + Late
    /\ now' = now + 1
    /\ UNCHANGED <<fileVars, streamVars>>

\* the server writes a post, one a second at most
Timeline(a) ==
    \E made \in (now - Delay)..now :
        /\ Cardinality(Posts) < MaxPosts
        /\ timeline[a] # <<>> => made > Last(timeline[a]).made
        /\ timeline' = [timeline EXCEPT ![a] =
                          Append(@, [by |-> a, made |-> made, written |-> now])]
        /\ UNCHANGED <<now, looks, fTimelines, edited, streamVars>>

\* as if a post exactly as old as the period were still recent
RecentInclusive(a) ==
    Those(timeline[a], {i \in DOMAIN timeline[a] : Stamp(timeline[a][i]) >= now - Period})

\* as if the period were counted a second short
RecentShort(a) ==
    Those(timeline[a], {i \in DOMAIN timeline[a] : Stamp(timeline[a][i]) > now - (Period - 1)})

\* the posts a look finds recent
Recent(a) ==
    Those(timeline[a], {i \in DOMAIN timeline[a] : Stamp(timeline[a][i]) > now - Period})

\* as if the file were truncated when it is opened
newMessageTrunc(posts) ==
    /\ fTimelines' = [i \in 1..Len(posts) |-> [post |-> posts[Len(posts) + 1 - i], sent |-> now]]
    /\ edited' = IF posts = <<>> /\ edited # 0 THEN edited ELSE now

\* newMessage: the posts are appended, the newest first; without a post the file is
\* created all the same when there is none
newMessage(posts) ==
    /\ fTimelines' = fTimelines \o
         [i \in 1..Len(posts) |-> [post |-> posts[Len(posts) + 1 - i], sent |-> now]]
    /\ edited' = IF posts = <<>> /\ edited # 0 THEN edited ELSE now

\* the author's thread has slept long enough and looks whether the file was edited
Look(a) ==
    /\ now >= LastLook(a) + Period
    /\ looks' = [looks EXCEPT ![a] = @ \cup {now}]
    /\ IF timeline[a] # <<>> /\ now - Last(timeline[a]).written < Period
       THEN newMessage(Recent(a)) ELSE UNCHANGED <<fTimelines, edited>>
    /\ UNCHANGED <<now, timeline, streamVars>>

\* the follower opens its timeline: the last posts, the last one first, and a file
\* is created when there is none
Open ==
    /\ due = 0
    /\ flood' = Reverse(SubSeq(fTimelines, Max({1, Len(fTimelines) - Flood + 1}), Len(fTimelines)))
    /\ due' = now
    /\ edited' = IF edited = 0 THEN now ELSE edited
    /\ UNCHANGED <<now, timeline, looks, fTimelines, lasttime, read, caught>>

\* as if the time were not kept
TimeForgotten(new) == lasttime

\* as if the time were taken at every reading
TimeOfReading(new) == now

\* the last time after new was shown: when anything was
TimeShown(new) == IF new = <<>> THEN lasttime ELSE now

\* The stream's thread looks: what it reads in a file just edited is written to the
\* stream when it was made after the last time.
Poll ==
    LET new == Those(fTimelines,
                     {i \in DOMAIN fTimelines : Stamp(fTimelines[i].post) > lasttime})
    IN
    /\ due # 0
    /\ now >= due
    /\ IF now - edited < Fresh
       THEN /\ caught' = caught \o new
            /\ read' = Len(fTimelines)
            /\ lasttime' = TimeShown(new)
            /\ due' = now + Nap + Turn
       ELSE /\ due' = now + Turn
            /\ UNCHANGED <<caught, read, lasttime>>
    /\ UNCHANGED <<now, fileVars, flood>>

Next ==
    \/ Tick
    \/ \E a \in Authors : Timeline(a) \/ Look(a)
    \/ Open
    \/ Poll

Spec == Init /\ [][Next]_vars

-----------------------------------------------------------------------------

Sent == {l.post : l \in Range(fTimelines)}

\* Clocks, files and streams have their shape, and files are in the order in which
\* they were written.
TimelineTypeOK ==
    /\ now \in Period..MaxTime
    /\ \A a \in Authors :
         /\ looks[a] \subseteq 1..now
         /\ \A p \in Range(timeline[a]) : p.by = a /\ p.made =< p.written /\ p.written =< now
    /\ \A l \in Range(fTimelines) : l.post \in Posts /\ l.sent \in looks[l.post.by]
    /\ \A i, j \in DOMAIN fTimelines : i < j => fTimelines[i].sent =< fTimelines[j].sent
    /\ edited =< now
    /\ fTimelines # <<>> => edited = Last(fTimelines).sent
    /\ due =< now + Nap + Turn
    /\ lasttime =< now
    /\ read =< Len(fTimelines)

\* No post is sent to a follower twice, although every look goes through the whole
\* file again.
SentOnce == IsInjective([i \in DOMAIN fTimelines |-> fTimelines[i].post])

\* A look leaves out only what was written after an earlier look and made no later
\* than that look and what its thread slept too long.  So it is in summer; an hour
\* off the time of a post, and every post is left out.
MissedAtEdge ==
    \A p \in Posts \ Sent :
        p.written < LastLook(p.by) =>
            \E t \in looks[p.by] : t =< p.written /\ p.made =< t + Late

\* A stream shows no post more often than twice: once when it starts, and once when
\* its thread catches it.
ShownTwice ==
    \A p \in Posts :
        Cardinality({i \in DOMAIN flood : flood[i].post = p})
      + Cardinality({i \in DOMAIN caught : caught[i].post = p}) =< 2

\* What the stream's thread reads and does not show was overtaken: a post that
\* another look sent is before it in the file, sent after it was made or in the
\* second before.
SkippedWhenOvertaken ==
    \A i \in 1..read :
        LET l == fTimelines[i] IN
        l \notin Range(caught) =>
            \E k \in 1..(i - 1) :
                LET o == fTimelines[k] IN
                /\ o.post.by = l.post.by => o.sent # l.sent
                /\ l.post.made < o.sent + Fresh
=============================================================================
