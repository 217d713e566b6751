--------------------------- MODULE TimelineProofs ---------------------------
(***************************************************************************)
(* The way of a post by the clock, for every set of authors, every period, *)
(* every lateness of the threads and files of every length.                *)
(***************************************************************************)
EXTENDS Timeline, SequenceTheorems, FiniteSetTheorems, WellFoundedInduction, TLAPS

-----------------------------------------------------------------------------
(* Loops over files *)

\* A set that holds 0 and with a number the next one holds all numbers.
LEMMA AllNumbers ==
    ASSUME NEW P, 0 \in P, \A n \in Nat : n \in P => n + 1 \in P
    PROVE  Nat \subseteq P
<1> SUFFICES ASSUME Nat \ P # {} PROVE FALSE
  OBVIOUS
<1>1. Nat \ P \subseteq Nat
  OBVIOUS
<1>2. PICK m \in Nat \ P : \A x \in Nat \ P : ~ (<<x, m>> \in OpToRel(<, Nat))
  BY <1>1, NatLessThanWellFounded, WFMin
<1>3. m # 0 /\ m \in Nat /\ m - 1 \in Nat /\ m - 1 < m
  OBVIOUS
<1>4. m - 1 \notin P
  <2> SUFFICES ASSUME m - 1 \in P PROVE FALSE
    OBVIOUS
  <2>1. (m - 1) + 1 \in P
    BY <1>3
  <2> QED
    BY <2>1, <1>3
<1>5. m - 1 \in Nat \ P
  BY <1>3, <1>4
<1> QED
  BY <1>2, <1>3, <1>5, Zenon DEF OpToRel

\* What a loop has taken when it has read n lines.
Taken(s, taken, f, n) ==
    IF n = 0 THEN <<>> ELSE IF n \in taken THEN Append(f[n - 1], s[n]) ELSE f[n - 1]

\* The loop is a function of the number of lines read.
LEMMA LoopExists ==
    ASSUME NEW s, NEW taken, NEW n \in Nat
    PROVE  \E f : f = [i \in 0..n |-> Taken(s, taken, f, i)]
<1> DEFINE P == {k \in Nat : \E f : f = [i \in 0..k |-> Taken(s, taken, f, i)]}
<1>1. 0 \in P
  <2> DEFINE f == [i \in 0..0 |-> <<>>]
  <2>1. f = [i \in 0..0 |-> Taken(s, taken, f, i)]
    BY DEF Taken
  <2> HIDE DEF f
  <2> QED
    BY <2>1
<1>2. ASSUME NEW k \in Nat, k \in P PROVE k + 1 \in P
  <2>1. PICK f : f = [i \in 0..k |-> Taken(s, taken, f, i)]
    BY <1>2
  <2>2. PICK g : g = [i \in 0..(k + 1) |-> IF i = k + 1 THEN Taken(s, taken, f, i) ELSE f[i]]
    OBVIOUS
  <2>3. ASSUME NEW i \in 0..(k + 1) PROVE g[i] = Taken(s, taken, g, i)
    <3>1. i = 0 \/ (i - 1 \in 0..k /\ g[i - 1] = f[i - 1])
      BY <2>2
    <3>2. Taken(s, taken, g, i) = Taken(s, taken, f, i)
      BY <3>1 DEF Taken
    <3>3. CASE i = k + 1
      BY <2>2, <3>2, <3>3
    <3>4. CASE i # k + 1
      <4>1. i \in 0..k
        BY <3>4
      <4>2. f[i] = Taken(s, taken, f, i)
        BY <2>1, <4>1
      <4>3. g[i] = f[i]
        BY <2>2, <3>4
      <4> QED
        BY <4>2, <4>3, <3>2
    <3> QED
      BY <3>3, <3>4
  <2>4. g = [i \in 0..(k + 1) |-> Taken(s, taken, g, i)]
    BY <2>2, <2>3
  <2> QED
    BY <2>4
<1>3. Nat \subseteq P
  <2> HIDE DEF P
  <2> QED
    BY <1>1, <1>2, AllNumbers
<1> QED
  BY <1>3

\* t is s at the positions in taken, in their order.
Picks(s, taken, t, at) ==
    /\ at \in [1..Len(t) -> taken]
    /\ \A j \in 1..Len(t) : t[j] = s[at[j]]
    /\ \A j, k \in 1..Len(t) : j < k => at[j] < at[k]
    /\ \A i \in taken : \E j \in 1..Len(t) : at[j] = i

\* A loop takes the lines at the positions it is told to take, each once and in order.
LEMMA ThoseOf ==
    ASSUME NEW S, NEW s \in Seq(S), NEW taken \in SUBSET (1..Len(s))
    PROVE  /\ Those(s, taken) \in Seq(S)
           /\ \E at : Picks(s, taken, Those(s, taken), at)
<1> DEFINE Loop(f) == f = [i \in 0..Len(s) |->
                IF i = 0 THEN <<>>
                ELSE IF i \in taken THEN Append(f[i - 1], s[i])
                ELSE f[i - 1]]
<1>0. Len(s) \in Nat
  OBVIOUS
<1>1. \E f : Loop(f)
  <2>1. PICK f : f = [i \in 0..Len(s) |-> Taken(s, taken, f, i)]
    BY <1>0, LoopExists
  <2>2. Loop(f)
    BY <2>1 DEF Taken
  <2> QED
    BY <2>2
<1>2. PICK f : Loop(f) /\ Those(s, taken) = f[Len(s)]
  <2>1. PICK f : f = (CHOOSE g : Loop(g))
    OBVIOUS
  <2>2. Loop(f)
    <3> HIDE DEF Loop
    <3> QED
      BY <1>1, <2>1
  <2>3. Those(s, taken) = f[Len(s)]
    BY <2>1 DEF Those
  <2> QED
    BY <2>2, <2>3
<1>3. /\ f[0] = <<>>
      /\ \A i \in 1..Len(s) : f[i] = IF i \in taken THEN Append(f[i - 1], s[i]) ELSE f[i - 1]
  <2>1. f[0] = <<>>
    BY <1>2
  <2>2. ASSUME NEW i \in 1..Len(s)
        PROVE f[i] = IF i \in taken THEN Append(f[i - 1], s[i]) ELSE f[i - 1]
    <3>1. i \in 0..Len(s) /\ i # 0
      OBVIOUS
    <3> QED
      BY <1>2, <3>1
  <2> QED
    BY <2>1, <2>2
<1> DEFINE upto(n) == taken \cap (1..n)
           Good(n) == f[n] \in Seq(S) /\ \E at : Picks(s, upto(n), f[n], at)
           P == {n \in Nat : n =< Len(s) => Good(n)}
<1>4. 0 \in P
  <2>1. upto(0) = {}
    OBVIOUS
  <2>2. f[0] \in Seq(S) /\ Len(f[0]) = 0
    BY <1>3
  <2>3. PICK at : at = [j \in 1..Len(f[0]) |-> j]
    OBVIOUS
  <2>4. Picks(s, upto(0), f[0], at)
    BY <2>1, <2>2, <2>3 DEF Picks
  <2> QED
    BY <2>2, <2>4
<1>5. ASSUME NEW n \in Nat, n \in P PROVE n + 1 \in P
  <2> SUFFICES ASSUME n + 1 =< Len(s)
               PROVE Good(n + 1)
    <3> HIDE DEF Good
    <3> QED
      OBVIOUS
  <2>0. Good(n)
    <3> HIDE DEF Good
    <3> QED
      BY <1>5
  <2>1. f[n] \in Seq(S)
    BY <2>0
  <2>2. PICK at : Picks(s, upto(n), f[n], at)
    BY <2>0
  <2>3. n + 1 \in 1..Len(s) /\ (n + 1) - 1 = n /\ n + 1 # 0
    OBVIOUS
  <2>4. CASE n + 1 \notin taken
    <3>1. f[n + 1] = f[n]
      BY <1>3, <2>3, <2>4
    <3>2. upto(n + 1) = upto(n)
      BY <2>4
    <3> QED
      BY <2>1, <2>2, <3>1, <3>2
  <2>5. CASE n + 1 \in taken
    <3>1. f[n + 1] = Append(f[n], s[n + 1])
      BY <1>3, <2>3, <2>5
    <3>2. upto(n + 1) = upto(n) \cup {n + 1}
      BY <2>5
    <3>3. s[n + 1] \in S
      BY <2>3
    <3> HIDE DEF P, upto
    <3> PICK m \in Nat : m = Len(f[n])
      BY <2>1
    <3>4. PICK t, u : m = Len(f[n]) /\ t = f[n] /\ u = f[n + 1]
      OBVIOUS
    <3>5. /\ t \in Seq(S)
          /\ u \in Seq(S)
          /\ Len(t) = m
          /\ Len(u) = m + 1
          /\ \A j \in 1..m : u[j] = t[j]
          /\ u[m + 1] = s[n + 1]
      BY <2>1, <3>1, <3>3, <3>4
    <3>6. PICK b : b = [j \in 1..(m + 1) |-> IF j = m + 1 THEN n + 1 ELSE at[j]]
      OBVIOUS
    <3>7. /\ b \in [1..(m + 1) -> upto(n + 1)]
          /\ b[m + 1] = n + 1
          /\ \A j \in 1..m : b[j] = at[j] /\ at[j] \in upto(n)
      <4>1. at \in [1..m -> upto(n)]
        BY <3>4, <2>2 DEF Picks
      <4>2. \A j \in 1..m : j # m + 1 /\ j \in 1..(m + 1)
        OBVIOUS
      <4>3. b[m + 1] = n + 1 /\ \A j \in 1..m : b[j] = at[j] /\ at[j] \in upto(n)
        BY SMTT(20), <4>1, <4>2, <3>6
      <4>4. \A j \in 1..(m + 1) : b[j] \in upto(n + 1)
        BY <4>3, <3>2
      <4> QED
        BY <4>3, <4>4, <3>6
    <3>8. \A j \in 1..(m + 1) : u[j] = s[b[j]]
      BY <3>4, <3>5, <3>7, <2>2 DEF Picks
    <3>9. ASSUME NEW j \in 1..(m + 1), NEW k \in 1..(m + 1), j < k PROVE b[j] < b[k]
      <4>1. j \in 1..m
        BY <3>9
      <4>2. CASE k \in 1..m
        BY <4>1, <4>2, <3>7, <3>9, <3>4, <2>2 DEF Picks
      <4>3. CASE k = m + 1
        BY <4>1, <4>3, <3>7 DEF upto
      <4> QED
        BY <4>2, <4>3
    <3>10. ASSUME NEW i \in upto(n + 1) PROVE \E j \in 1..(m + 1) : b[j] = i
      <4>1. CASE i = n + 1
        BY <4>1, <3>7
      <4>2. CASE i \in upto(n)
        <5>1. PICK j \in 1..m : at[j] = i
          BY <4>2, <3>4, <2>2 DEF Picks
        <5> QED
          BY <5>1, <3>7
      <4> QED
        BY <4>1, <4>2, <3>2
    <3>11. Picks(s, upto(n + 1), u, b)
      BY <3>5, <3>7, <3>8, <3>9, <3>10 DEF Picks
    <3> QED
      BY <3>4, <3>5, <3>11
  <2> QED
    BY <2>4, <2>5
<1>6. Nat \subseteq P
  <2> HIDE DEF P
  <2> QED
    BY <1>4, <1>5, AllNumbers
<1>7. Good(Len(s))
  <2> HIDE DEF Good
  <2> QED
    BY <1>0, <1>6
<1>8. upto(Len(s)) = taken
  OBVIOUS
<1> QED
  BY <1>2, <1>7, <1>8

-----------------------------------------------------------------------------
(* The invariant *)

\* What the variables hold.
PostRecs == [by : Authors, made : Int, written : Nat]
LineRecs == [post : PostRecs, sent : Nat]

Typed ==
    /\ now \in Nat /\ now >= Period /\ now =< MaxTime
    /\ timeline \in [Authors -> Seq(PostRecs)]
    /\ looks \in [Authors -> SUBSET Nat]
    /\ fTimelines \in Seq(LineRecs)
    /\ flood \in Seq(LineRecs)
    /\ caught \in Seq(LineRecs)
    /\ due \in Nat /\ due =< now + Nap + Turn
    /\ lasttime \in Nat /\ lasttime =< now
    /\ read \in 0..Len(fTimelines)
    /\ edited \in Nat /\ edited =< now

\* A file of posts is in the order in which they were made and written.
FileInOrder(a) ==
    /\ \A i \in 1..Len(timeline[a]) :
         LET p == timeline[a][i] IN p.by = a /\ p.made =< p.written /\ p.written =< now
    /\ \A i, j \in 1..Len(timeline[a]) :
         i < j => /\ timeline[a][i].made < timeline[a][j].made
                  /\ timeline[a][i].written =< timeline[a][j].written

\* A thread lets a period pass between two looks, and not much more.
Paced(a) ==
    /\ \A t \in looks[a] : 1 =< t /\ t =< now
    /\ \A t, u \in looks[a] : t < u => t + Period =< u
    /\ \E l \in looks[a] :
         /\ \A t \in looks[a] : t =< l
         /\ now =< l + Period + Late

\* A line was sent by a look, not the first one, that found its post written and recent.
SentByLook(l) ==
    /\ \E i \in 1..Len(timeline[l.post.by]) : l.post = timeline[l.post.by][i]
    /\ l.sent \in looks[l.post.by]
    /\ l.post.written =< l.sent
    /\ Stamp(l.post) > l.sent - Period
    /\ \E t \in looks[l.post.by] : t < l.sent

SentInOrder ==
    \A i, j \in 1..Len(fTimelines) :
        i < j => /\ fTimelines[i].sent =< fTimelines[j].sent
                 /\ fTimelines[i].post # fTimelines[j].post

\* The stream shows lines of the file, each once since its start, and none that is newer
\* than the last time.
ShownLines ==
    /\ \A i \in 1..Len(flood) : \E k \in 1..Len(fTimelines) : flood[i] = fTimelines[k]
    /\ \A i \in 1..Len(caught) :
         /\ \E k \in 1..Len(fTimelines) : caught[i] = fTimelines[k]
         /\ Stamp(caught[i].post) =< lasttime
    /\ \A i, j \in 1..Len(flood) : i # j => flood[i].post # flood[j].post
    /\ \A i, j \in 1..Len(caught) : i # j => caught[i].post # caught[j].post

\* What the last time stands for, and where the thread stopped reading.
ReadTo ==
    /\ lasttime # 0 => \E k \in 1..read : fTimelines[k].sent > lasttime - Fresh
    /\ \A i, j \in 1..Len(fTimelines) :
         (i =< read /\ read < j /\ fTimelines[i].post.by = fTimelines[j].post.by)
           => fTimelines[i].sent # fTimelines[j].sent

\* A post that a look left out had just been written, and the look was late for it.
LeftOut(a) ==
    \A i \in 1..Len(timeline[a]) :
        LET p == timeline[a][i] IN
        (/\ \A k \in 1..Len(fTimelines) : fTimelines[k].post # p
         /\ \E u \in looks[a] : p.written < u)
            => \E t \in looks[a] : t =< p.written /\ Stamp(p) =< t + Late

\* The last line of the file is of its last edit.
LastEdit == \A n \in Nat \ {0} : n = Len(fTimelines) => edited = fTimelines[n].sent

\* What was read and not shown was overtaken, by the time as it is parsed.
Overtaken ==
    \A i \in 1..read :
        fTimelines[i] \notin Range(caught) =>
            \E k \in 1..(i - 1) :
                /\ fTimelines[k].post.by = fTimelines[i].post.by
                     => fTimelines[k].sent # fTimelines[i].sent
                /\ Stamp(fTimelines[i].post) < fTimelines[k].sent + Fresh

TimelineInv ==
    /\ Typed
    /\ \A a \in Authors : FileInOrder(a) /\ Paced(a) /\ LeftOut(a)
    /\ \A i \in 1..Len(fTimelines) : SentByLook(fTimelines[i])
    /\ SentInOrder
    /\ ShownLines
    /\ ReadTo
    /\ LastEdit
    /\ Overtaken

-----------------------------------------------------------------------------
(* Looks *)

\* The greatest element is the one no element exceeds.
LEMMA MaxIs ==
    ASSUME NEW S \in SUBSET Int, NEW m \in S, \A t \in S : t =< m
    PROVE  Max(S) = m
<1>1. \A x \in S : (\A y \in S : x >= y) => x = m
  OBVIOUS
<1>2. \A y \in S : m >= y
  OBVIOUS
<1> QED
  BY <1>1, <1>2 DEF Max

\* The last look is one of the looks, and the thread is due a period after it.
LEMMA LastLookIs ==
    ASSUME TimelineInv, NEW a \in Authors
    PROVE  /\ LastLook(a) \in looks[a]
           /\ LastLook(a) \in Nat
           /\ \A t \in looks[a] : t =< LastLook(a)
           /\ now =< LastLook(a) + Period + Late
<1>1. looks[a] \in SUBSET Nat
  BY DEF TimelineInv, Typed
<1>2. PICK l \in looks[a] : (\A t \in looks[a] : t =< l) /\ now =< l + Period + Late
  BY DEF TimelineInv, Paced
<1>3. Max(looks[a]) = l
  BY <1>1, <1>2, MaxIs
<1> QED
  BY <1>1, <1>2, <1>3 DEF LastLook

\* What a look sends: nothing when the file was not edited.
Found(a) ==
    IF timeline[a] # <<>> /\ now - Last(timeline[a]).written < Period
    THEN Recent(a) ELSE <<>>

\* What a look finds: some of the posts, in their order, and all that are recent in a
\* file that is.
LEMMA RecentOf ==
    ASSUME TimelineInv, NEW a \in Authors
    PROVE  /\ Found(a) \in Seq(PostRecs)
           /\ \E at : /\ at \in [1..Len(Found(a)) -> 1..Len(timeline[a])]
                      /\ \A j \in 1..Len(Found(a)) :
                           /\ Found(a)[j] = timeline[a][at[j]]
                           /\ Stamp(Found(a)[j]) > now - Period
                      /\ \A j, k \in 1..Len(Found(a)) : j < k => at[j] < at[k]
           /\ \A i \in 1..Len(timeline[a]) :
                (\A j \in 1..Len(Found(a)) : Found(a)[j] # timeline[a][i])
                  => Stamp(timeline[a][i]) =< now - Period
<1> USE PeriodAssumption
<1> DEFINE posts == timeline[a]
           recent == {i \in DOMAIN posts : Stamp(posts[i]) > now - Period}
<1>1. /\ posts \in Seq(PostRecs)
      /\ FileInOrder(a)
      /\ now \in Nat
  BY DEF TimelineInv, Typed
<1>2. \A i \in 1..Len(posts) : /\ posts[i].made \in Int /\ posts[i].written \in Nat
                               /\ Stamp(posts[i]) \in Int
                               /\ Stamp(posts[i]) =< posts[i].written
                               /\ posts[i].written =< Last(posts).written
  <2> SUFFICES ASSUME NEW i \in 1..Len(posts)
               PROVE  /\ posts[i].made \in Int /\ posts[i].written \in Nat
                      /\ Stamp(posts[i]) \in Int
                      /\ Stamp(posts[i]) =< posts[i].written
                      /\ posts[i].written =< Last(posts).written
    OBVIOUS
  <2>1. posts[i] \in PostRecs /\ Len(posts) \in 1..Len(posts)
    BY <1>1
  <2>2. posts[i].made =< posts[i].written
    BY <1>1 DEF FileInOrder
  <2>3. posts[i].written =< posts[Len(posts)].written
    <3>1. CASE i = Len(posts)
      BY <3>1, <2>1 DEF PostRecs
    <3>2. CASE i < Len(posts)
      BY <3>2, <2>1, <1>1 DEF FileInOrder
    <3> QED
      BY <3>1, <3>2
  <2> QED
    BY <2>1, <2>2, <2>3 DEF PostRecs, Stamp, Last
<1>3. CASE posts = <<>> \/ now - Last(posts).written >= Period
  <2>1. Found(a) = <<>>
    <3>1. CASE posts = <<>>
      BY <3>1 DEF Found
    <3>2. CASE posts # <<>>
      <4>1. posts[Len(posts)] \in PostRecs
        BY <1>1, <3>2
      <4>2. Last(posts).written \in Nat
        BY <4>1 DEF Last, PostRecs
      <4> QED
        BY <1>1, <1>3, <3>2, <4>2 DEF Found
    <3> QED
      BY <3>1, <3>2
  <2>2. PICK at : at = [j \in 1..Len(Found(a)) |-> 1]
    OBVIOUS
  <2>3. at \in [1..Len(Found(a)) -> 1..Len(posts)] /\ Len(Found(a)) = 0
    BY <2>1, <2>2
  <2>4. ASSUME NEW i \in 1..Len(posts) PROVE Stamp(posts[i]) =< now - Period
    <3>1. now - Last(posts).written >= Period
      BY <1>3
    <3>2. posts[Len(posts)] \in PostRecs
      BY <1>1
    <3>3. Last(posts).written \in Nat
      BY <3>2 DEF Last, PostRecs
    <3> QED
      BY SMTT(20), <1>1, <1>2, <3>1, <3>3
  <2>5. \A j \in 1..Len(Found(a)) : FALSE
    BY <2>3
  <2>6. Found(a) \in Seq(PostRecs)
    BY <2>1
  <2> HIDE DEF posts
  <2> QED
    BY <2>3, <2>4, <2>5, <2>6 DEF posts
<1>4. CASE ~ (posts = <<>> \/ now - Last(posts).written >= Period)
  <2>1. Found(a) = Those(posts, recent)
    <3>1. posts[Len(posts)] \in PostRecs
      BY <1>1, <1>4
    <3>2. Last(posts).written \in Nat
      BY <3>1 DEF Last, PostRecs
    <3> QED
      BY <1>1, <1>4, <3>2 DEF Found, Recent
  <2>2. recent \in SUBSET (1..Len(posts))
    BY <1>1
  <2>3. /\ Found(a) \in Seq(PostRecs)
        /\ \E at : Picks(posts, recent, Found(a), at)
    BY <1>1, <2>1, <2>2, ThoseOf
  <2>4. PICK at : Picks(posts, recent, Found(a), at)
    BY <2>3
  <2> PICK m \in Nat : m = Len(Found(a))
    BY <2>3
  <2>5. PICK r : m = Len(Found(a)) /\ r = Found(a)
    OBVIOUS
  <2>6. at \in [1..m -> recent]
    BY <2>4, <2>5 DEF Picks
  <2>7. at \in [1..m -> 1..Len(posts)] /\ \A j \in 1..m : Stamp(posts[at[j]]) > now - Period
    BY <2>2, <2>6
  <2>8. /\ \A j \in 1..m : r[j] = posts[at[j]]
        /\ \A j, k \in 1..m : j < k => at[j] < at[k]
        /\ \A i \in recent : \E j \in 1..m : at[j] = i
    BY <2>4, <2>5 DEF Picks
  <2>9. ASSUME NEW i \in 1..Len(posts), \A j \in 1..m : r[j] # posts[i]
        PROVE  Stamp(posts[i]) =< now - Period
    <3>1. i \notin recent
      BY <2>8, <2>9
    <3>2. ~ (Stamp(posts[i]) > now - Period)
      BY <3>1, <1>1
    <3> QED
      BY <3>2, <1>1, <1>2
  <2> QED
    BY <2>3, <2>5, <2>7, <2>8, <2>9
<1> QED
  BY <1>3, <1>4

-----------------------------------------------------------------------------
(* The steps *)

\* Nothing has been posted and every thread has looked once.
LEMMA InitTimeline == Init => TimelineInv
<1> USE PeriodAssumption, BoundAssumption
<1> SUFFICES ASSUME Init PROVE TimelineInv
  OBVIOUS
<1>1. /\ now = Period /\ due = 0 /\ lasttime = 0 /\ read = 0
      /\ timeline = [a \in Authors |-> <<>>]
      /\ looks \in [Authors -> {{t} : t \in 1..Period}]
      /\ fTimelines = <<>> /\ edited = 0 /\ flood = <<>> /\ caught = <<>>
  BY DEF Init
<1>2. ASSUME NEW a \in Authors
      PROVE  \E t \in 1..Period : looks[a] = {t}
  BY <1>1
<1>3. looks \in [Authors -> SUBSET Nat]
  BY <1>1, <1>2
<1>4. Typed
  BY <1>1, <1>3 DEF Typed, Nap, Turn
<1>5. ASSUME NEW a \in Authors PROVE FileInOrder(a) /\ Paced(a) /\ LeftOut(a)
  <2>1. PICK t \in 1..Period : looks[a] = {t}
    BY <1>2
  <2>2. timeline[a] = <<>>
    BY <1>1
  <2>3. FileInOrder(a) /\ LeftOut(a)
    BY <2>2 DEF FileInOrder, LeftOut
  <2>4. Paced(a)
    BY <1>1, <2>1 DEF Paced
  <2> QED
    BY <2>3, <2>4
<1>6. /\ \A i \in 1..Len(fTimelines) : SentByLook(fTimelines[i])
      /\ SentInOrder /\ ShownLines /\ ReadTo /\ LastEdit /\ Overtaken
  BY <1>1 DEF SentInOrder, ShownLines, ReadTo, LastEdit, Overtaken
<1> QED
  BY <1>4, <1>5, <1>6 DEF TimelineInv

\* A second passes: no thread becomes later than it may.
LEMMA TickKeeps == TimelineInv /\ Tick => TimelineInv'
<1> USE PeriodAssumption, BoundAssumption
<1> SUFFICES ASSUME TimelineInv, Tick PROVE TimelineInv'
  OBVIOUS
<1>1. /\ now \in Nat /\ now < MaxTime /\ now' = now + 1
      /\ \A a \in Authors : now < LastLook(a) + Period + Late
      /\ UNCHANGED <<timeline, looks, fTimelines, edited, due, lasttime, read, flood, caught>>
  BY DEF Tick, TimelineInv, Typed, fileVars, streamVars
<1>2. Typed'
  BY <1>1 DEF TimelineInv, Typed, Nap, Turn
<1>3. ASSUME NEW a \in Authors PROVE FileInOrder(a)' /\ Paced(a)' /\ LeftOut(a)'
  <2>0. TimelineInv /\ FileInOrder(a) /\ Paced(a) /\ LeftOut(a)
    BY DEF TimelineInv
  <2>1. LeftOut(a)'
    BY <1>1, <2>0 DEF LeftOut, Stamp
  <2>2. timeline[a] \in Seq(PostRecs) /\ looks[a] \in SUBSET Nat
    BY DEF TimelineInv, Typed
  <2>3. FileInOrder(a)'
    <3>1. \A i \in 1..Len(timeline[a]) : timeline[a][i].written \in Nat
      <4> SUFFICES ASSUME NEW i \in 1..Len(timeline[a]) PROVE timeline[a][i].written \in Nat
        OBVIOUS
      <4>1. timeline[a][i] \in PostRecs
        BY <2>2
      <4> QED
        BY <4>1 DEF PostRecs
    <3>2. \A i \in 1..Len(timeline[a]) : timeline[a][i].written =< now + 1
      BY <3>1, <1>1, <2>0 DEF FileInOrder
    <3> QED
      BY <1>1, <2>0, <3>2 DEF FileInOrder
  <2>4. PICK l \in Nat : l = LastLook(a) /\ l \in looks[a] /\ (\A t \in looks[a] : t =< l)
    BY LastLookIs
  <2>5. now + 1 =< l + Period + Late
    BY <1>1, <2>4
  <2>6. Paced(a)'
    BY <1>1, <2>0, <2>2, <2>4, <2>5 DEF Paced
  <2> QED
    BY <2>1, <2>3, <2>6
<1>4. \A i \in 1..Len(fTimelines') : SentByLook(fTimelines[i])'
  BY <1>1 DEF TimelineInv, SentByLook, Stamp
<1>5. SentInOrder' /\ ShownLines' /\ ReadTo' /\ LastEdit' /\ Overtaken'
  BY <1>1 DEF TimelineInv, SentInOrder, ShownLines, ReadTo, LastEdit, Overtaken, Stamp
<1> QED
  BY <1>2, <1>3, <1>4, <1>5 DEF TimelineInv

\* A post is written: it is the last one of its file, and no look came after it.
LEMMA TimelineKeeps ==
    ASSUME TimelineInv, NEW a \in Authors, Timeline(a)
    PROVE  TimelineInv'
<1> USE PeriodAssumption, BoundAssumption
<1>1. PICK made \in (now - Delay)..now :
         /\ timeline[a] # <<>> => made > Last(timeline[a]).made
         /\ timeline' = [timeline EXCEPT ![a] =
                           Append(@, [by |-> a, made |-> made, written |-> now])]
         /\ UNCHANGED <<now, looks, fTimelines, edited, due, lasttime, read, flood, caught>>
  BY DEF Timeline, streamVars
<1>2. PICK p : p = [by |-> a, made |-> made, written |-> now]
  OBVIOUS
<1>3. /\ now \in Nat
      /\ p \in PostRecs /\ p.by = a /\ p.made = made /\ p.written = now
      /\ made \in Int /\ made =< now
      /\ timeline \in [Authors -> Seq(PostRecs)]
      /\ timeline' = [timeline EXCEPT ![a] = Append(@, p)]
  BY <1>1, <1>2 DEF TimelineInv, Typed, PostRecs
<1> PICK n \in Nat : n = Len(timeline[a])
  BY <1>3
<1>4. PICK t, u : t = timeline[a] /\ u = timeline'[a] /\ n = Len(t)
  OBVIOUS
<1>5. /\ t \in Seq(PostRecs) /\ u \in Seq(PostRecs)
      /\ Len(u) = n + 1
      /\ \A i \in 1..n : u[i] = t[i]
      /\ u[n + 1] = p
  BY <1>3, <1>4
<1>6. Typed'
  BY <1>1, <1>3 DEF TimelineInv, Typed
<1>7. /\ FileInOrder(a) /\ LeftOut(a)
      /\ \A b \in Authors \ {a} : timeline'[b] = timeline[b]
  BY <1>3 DEF TimelineInv
<1>8. FileInOrder(a)'
  <2>1. \A i \in 1..n : /\ t[i] \in PostRecs
                        /\ t[i].by = a /\ t[i].made =< t[i].written /\ t[i].written =< now
    BY <1>4, <1>5, <1>7 DEF FileInOrder
  <2>2. ASSUME NEW i \in 1..n PROVE t[i].made < made /\ t[i].written =< now
    <3>1. n \in 1..n /\ t[n] \in PostRecs /\ t[i] \in PostRecs
      BY <1>5, <1>4
    <3>2. t # <<>> /\ Last(t) = t[n]
      BY <1>4, <3>1 DEF Last
    <3>3. made > t[n].made
      BY <1>1, <1>4, <3>2
    <3>4. t[i].made =< t[n].made
      <4>1. CASE i = n
        BY <4>1, <3>1 DEF PostRecs
      <4>2. CASE i < n
        BY <4>2, <3>1, <1>4, <1>7 DEF FileInOrder, PostRecs
      <4> QED
        BY <4>1, <4>2
    <3> QED
      <4>1. t[i].made \in Int /\ t[n].made \in Int
        BY <3>1 DEF PostRecs
      <4> QED
        BY <2>1, <3>3, <3>4, <4>1, <1>3
  <2>3. \A i \in 1..(n + 1) : u[i].by = a /\ u[i].made =< u[i].written /\ u[i].written =< now
    <3> SUFFICES ASSUME NEW i \in 1..(n + 1)
                 PROVE u[i].by = a /\ u[i].made =< u[i].written /\ u[i].written =< now
      OBVIOUS
    <3>1. CASE i \in 1..n
      BY <3>1, <2>1, <1>5
    <3>2. CASE i = n + 1
      BY <3>2, <1>3, <1>5
    <3> QED
      BY <3>1, <3>2
  <2>4. ASSUME NEW i \in 1..(n + 1), NEW j \in 1..(n + 1), i < j
        PROVE  u[i].made < u[j].made /\ u[i].written =< u[j].written
    <3>1. i \in 1..n
      BY <2>4
    <3>2. CASE j \in 1..n
      BY <3>1, <3>2, <2>4, <1>4, <1>5, <1>7 DEF FileInOrder
    <3>3. CASE j = n + 1
      BY <3>1, <3>3, <2>2, <1>3, <1>5
    <3> QED
      BY <3>2, <3>3
  <2> QED
    BY <1>1, <1>4, <1>5, <2>3, <2>4 DEF FileInOrder
<1>9. LeftOut(a)'
  <2> SUFFICES ASSUME NEW i \in 1..(n + 1),
                      \A k \in 1..Len(fTimelines) : fTimelines[k].post # u[i],
                      NEW v \in looks[a], u[i].written < v
               PROVE  \E e \in looks[a] : e =< u[i].written /\ Stamp(u[i]) =< e + Late
    BY <1>1, <1>4, <1>5 DEF LeftOut, Stamp
  <2>1. looks[a] \in SUBSET Nat /\ v =< now
    BY DEF TimelineInv, Typed, Paced
  <2>2. i # n + 1
    BY <2>1, <1>3, <1>5
  <2>3. i \in 1..n /\ u[i] = t[i]
    BY <2>2, <1>5
  <2> QED
    BY <2>3, <1>4, <1>7 DEF LeftOut
<1>10. ASSUME NEW b \in Authors PROVE FileInOrder(b)' /\ Paced(b)' /\ LeftOut(b)'
  <2>1. Paced(b)'
    BY <1>1 DEF TimelineInv, Paced
  <2>2. CASE b = a
    BY <2>1, <2>2, <1>8, <1>9
  <2>3. CASE b # a
    <3>1. FileInOrder(b) /\ LeftOut(b) /\ timeline'[b] = timeline[b]
      BY <2>3, <1>7 DEF TimelineInv
    <3>2. FileInOrder(b)'
      BY <3>1, <1>1 DEF FileInOrder
    <3>3. LeftOut(b)'
      BY <3>1, <1>1 DEF LeftOut, Stamp
    <3> QED
      BY <2>1, <3>2, <3>3
  <2> QED
    BY <2>2, <2>3
<1>11. ASSUME NEW i \in 1..Len(fTimelines') PROVE SentByLook(fTimelines[i])'
  <2>1. PICK l : l = fTimelines[i] /\ l = fTimelines'[i]
    BY <1>1
  <2>2. SentByLook(l)
    BY <2>1, <1>1 DEF TimelineInv
  <2>3. l.post.by \in Authors
    <3>1. l \in LineRecs
      BY <2>1, <1>1 DEF TimelineInv, Typed
    <3> QED
      BY <3>1 DEF LineRecs, PostRecs
  <2>4. \E k \in 1..Len(timeline'[l.post.by]) : l.post = timeline'[l.post.by][k]
    <3>1. CASE l.post.by = a
      <4>1. PICK k \in 1..n : l.post = t[k]
        BY <3>1, <2>2, <1>4 DEF SentByLook
      <4>2. k \in 1..(n + 1) /\ u[k] = t[k]
        BY <1>5
      <4> QED
        BY <3>1, <4>1, <4>2, <1>4, <1>5
    <3>2. CASE l.post.by # a
      BY <3>2, <2>2, <2>3, <1>7 DEF SentByLook
    <3> QED
      BY <3>1, <3>2
  <2>5. SentByLook(l)'
    BY <2>2, <2>4, <1>1 DEF SentByLook, Stamp
  <2> QED
    BY <2>1, <2>5 DEF SentByLook, Stamp
<1>12. SentInOrder /\ ShownLines /\ ReadTo /\ LastEdit /\ Overtaken
  BY DEF TimelineInv
<1>13. SentInOrder' /\ ShownLines' /\ ReadTo'
  BY <1>1, <1>12 DEF SentInOrder, ShownLines, ReadTo, Stamp
<1>14. LastEdit' /\ Overtaken'
  BY <1>1, <1>12 DEF LastEdit, Overtaken, Stamp
<1> QED
  BY <1>6, <1>10, <1>11, <1>13, <1>14 DEF TimelineInv

\* A look sends what it finds: posts of the time since the thread's last look, which
\* no look has sent before.
LEMMA LookKeeps ==
    ASSUME TimelineInv, NEW a \in Authors, Look(a)
    PROVE  TimelineInv'
<1> USE PeriodAssumption, BoundAssumption
<1>1. /\ now >= LastLook(a) + Period
      /\ looks' = [looks EXCEPT ![a] = @ \cup {now}]
      /\ UNCHANGED <<now, timeline, due, lasttime, read, flood, caught>>
  BY DEF Look, streamVars
<1>2. /\ now \in Nat
      /\ timeline \in [Authors -> Seq(PostRecs)]
      /\ looks \in [Authors -> SUBSET Nat]
      /\ fTimelines \in Seq(LineRecs)
      /\ read \in 0..Len(fTimelines)
  BY DEF TimelineInv, Typed
<1>3. PICK l \in Nat : /\ l \in looks[a]
                       /\ \A t \in looks[a] : t =< l
                       /\ now >= l + Period
                       /\ now =< l + Period + Late
  BY <1>1, LastLookIs
<1>4. PICK rec : rec = Found(a) /\ rec \in Seq(PostRecs)
  BY RecentOf
<1>40. /\ fTimelines' = fTimelines \o
            [i \in 1..Len(rec) |-> [post |-> rec[Len(rec) + 1 - i], sent |-> now]]
       /\ edited' = edited \/ edited' = now
       /\ rec # <<>> => edited' = now
       /\ rec = <<>> /\ edited # 0 => edited' = edited
  <2>1. CASE timeline[a] # <<>> /\ now - Last(timeline[a]).written < Period
    <3>1. newMessage(Recent(a)) /\ rec = Recent(a)
      BY <2>1, <1>4 DEF Look, Found
    <3> QED
      BY <3>1 DEF newMessage
  <2>2. CASE ~ (timeline[a] # <<>> /\ now - Last(timeline[a]).written < Period)
    <3>1. rec = <<>> /\ UNCHANGED <<fTimelines, edited>>
      BY <2>2, <1>4 DEF Look, Found
    <3>2. [i \in 1..Len(rec) |-> [post |-> rec[Len(rec) + 1 - i], sent |-> now]] = <<>>
      BY <3>1
    <3>3. fTimelines \o <<>> = fTimelines
      BY <1>2
    <3> QED
      BY <3>1, <3>2, <3>3
  <2> QED
    BY <2>1, <2>2
<1> PICK m \in Nat : m = Len(rec)
  BY <1>4
<1> PICK n \in Nat : n = Len(fTimelines)
  BY <1>2
<1>50. \E at : /\ at \in [1..Len(Found(a)) -> 1..Len(timeline[a])]
               /\ \A j \in 1..Len(Found(a)) :
                    /\ Found(a)[j] = timeline[a][at[j]]
                    /\ Stamp(Found(a)[j]) > now - Period
               /\ \A j, k \in 1..Len(Found(a)) : j < k => at[j] < at[k]
  BY RecentOf
<1>5. PICK at : /\ at \in [1..m -> 1..Len(timeline[a])]
                /\ \A j \in 1..m : rec[j] = timeline[a][at[j]] /\ Stamp(rec[j]) > now - Period
                /\ \A j, k \in 1..m : j < k => at[j] < at[k]
  BY <1>50, <1>4
<1>6. \A i \in 1..Len(timeline[a]) :
        (\A j \in 1..m : rec[j] # timeline[a][i]) => Stamp(timeline[a][i]) =< now - Period
  BY <1>4, RecentOf
<1>7. PICK f, g : f = fTimelines /\ g = fTimelines'
  OBVIOUS
<1>8. /\ g \in Seq(LineRecs)
      /\ Len(g) = n + m
      /\ \A i \in 1..n : g[i] = f[i]
      /\ \A i \in (n + 1)..(n + m) : g[i] = [post |-> rec[n + m + 1 - i], sent |-> now]
  <2> PICK new : new = [i \in 1..m |-> [post |-> rec[m + 1 - i], sent |-> now]]
    OBVIOUS
  <2>1. \A i \in 1..m : m + 1 - i \in 1..m /\ rec[m + 1 - i] \in PostRecs
    BY <1>4
  <2>2. \A i \in 1..m : new[i] \in LineRecs
    BY <2>1, <1>2 DEF LineRecs
  <2>3. new \in Seq(LineRecs) /\ Len(new) = m
    BY <2>2
  <2>4. g = f \o new
    BY <1>40, <1>7
  <2>5. /\ g \in Seq(LineRecs)
        /\ Len(g) = n + m
        /\ \A i \in 1..(n + m) : g[i] = IF i =< n THEN f[i] ELSE new[i - n]
    BY <1>2, <1>7, <2>3, <2>4, ConcatProperties
  <2>6. ASSUME NEW i \in (n + 1)..(n + m)
        PROVE  g[i] = [post |-> rec[n + m + 1 - i], sent |-> now]
    <3>1. i \in 1..(n + m) /\ ~ (i =< n) /\ i - n \in 1..m /\ m + 1 - (i - n) = n + m + 1 - i
      OBVIOUS
    <3> QED
      BY <3>1, <2>5
  <2> QED
    BY <2>5, <2>6
<1>9. /\ \A i \in 1..n : f[i] \in LineRecs /\ SentByLook(f[i])
      /\ FileInOrder(a) /\ Paced(a) /\ LeftOut(a)
  BY <1>2, <1>7 DEF TimelineInv
<1>10. \A i \in 1..n : /\ f[i].sent \in Nat /\ f[i].post \in PostRecs
                       /\ f[i].post.by \in Authors
                       /\ f[i].post.made \in Int /\ f[i].post.written \in Nat
                       /\ Stamp(f[i].post) \in Int
  BY <1>9, PeriodAssumption DEF LineRecs, PostRecs, Stamp
<1>11. ASSUME NEW i \in (n + 1)..(n + m)
       PROVE  /\ n + m + 1 - i \in 1..m
              /\ g[i].post = rec[n + m + 1 - i] /\ g[i].sent = now
              /\ g[i].post = timeline[a][at[n + m + 1 - i]]
              /\ at[n + m + 1 - i] \in 1..Len(timeline[a])
              /\ g[i].post.by = a
              /\ g[i].post.written =< now
              /\ Stamp(g[i].post) > now - Period
  <2>1. n + m + 1 - i \in 1..m
    OBVIOUS
  <2>2. g[i].post = rec[n + m + 1 - i] /\ g[i].sent = now
    <3>1. g[i] = [post |-> rec[n + m + 1 - i], sent |-> now]
      BY <1>8
    <3> QED
      BY <3>1
  <2>3. at[n + m + 1 - i] \in 1..Len(timeline[a])
    BY <2>1, <1>5
  <2> QED
    BY <2>1, <2>2, <2>3, <1>5, <1>9 DEF FileInOrder
<1>12. ASSUME NEW i \in 1..n
       PROVE  /\ f[i].sent =< now
              /\ f[i].post.by = a => f[i].sent =< l /\ f[i].sent < now
                                     /\ Stamp(f[i].post) =< now - Period
  <2>1. f[i].sent \in looks[f[i].post.by] /\ f[i].post.written =< f[i].sent
    BY <1>9 DEF SentByLook
  <2>2. f[i].sent =< now
    BY <2>1, <1>10 DEF TimelineInv, Paced
  <2>3. f[i].post.made =< f[i].post.written
    <3>1. FileInOrder(f[i].post.by)
      BY <1>10 DEF TimelineInv
    <3>2. PICK k \in 1..Len(timeline[f[i].post.by]) : f[i].post = timeline[f[i].post.by][k]
      BY <1>9 DEF SentByLook
    <3> QED
      BY <3>1, <3>2 DEF FileInOrder
  <2>4. Stamp(f[i].post) =< f[i].post.made
    BY <1>10 DEF Stamp
  <2>5. f[i].post.by = a => f[i].sent =< l
    BY <1>3, <2>1
  <2> QED
    BY SMTT(20), <2>1, <2>2, <2>3, <2>4, <2>5, <1>3, <1>10, <1>2
<1>13. /\ \A b \in Authors : looks[b] \subseteq looks'[b]
       /\ \A b \in Authors \ {a} : looks'[b] = looks[b]
       /\ looks'[a] = looks[a] \cup {now}
       /\ looks' \in [Authors -> SUBSET Nat]
  BY <1>1, <1>2
<1>14. Typed'
  BY <1>1, <1>2, <1>40, <1>7, <1>8, <1>13 DEF TimelineInv, Typed
<1>15. ASSUME NEW b \in Authors PROVE FileInOrder(b)' /\ Paced(b)' /\ LeftOut(b)'
  <2>0. /\ FileInOrder(b) /\ Paced(b) /\ LeftOut(b)
        /\ looks[b] \in SUBSET Nat
    BY <1>2 DEF TimelineInv
  <2>1. FileInOrder(b)'
    BY <2>0, <1>1 DEF FileInOrder
  <2>2. Paced(b)'
    <3>1. CASE b = a
      <4>1. \A t \in looks'[a] : 1 =< t /\ t =< now
        BY <3>1, <2>0, <1>2, <1>3, <1>13 DEF Paced
      <4>2. \A t, u \in looks'[a] : t < u => t + Period =< u
        <5> SUFFICES ASSUME NEW t \in looks'[a], NEW u \in looks'[a], t < u
                     PROVE t + Period =< u
          OBVIOUS
        <5>1. t \in looks[a]
          BY <4>1, <3>1, <2>0, <1>2, <1>13
        <5>2. CASE u \in looks[a]
          BY <5>1, <5>2, <3>1, <2>0 DEF Paced
        <5>3. CASE u = now
          BY <5>1, <5>3, <3>1, <2>0, <1>2, <1>3
        <5> QED
          BY <5>2, <5>3, <1>13
      <4>3. now \in looks'[a] /\ now =< now + Period + Late
        BY <1>2, <1>13
      <4> QED
        BY <3>1, <4>1, <4>2, <4>3, <1>1 DEF Paced
    <3>2. CASE b # a
      BY <3>2, <2>0, <1>1, <1>13 DEF Paced
    <3> QED
      BY <3>1, <3>2
  <2>3. LeftOut(b)'
    <3>1. PICK posts : posts = timeline[b] /\ posts = timeline'[b]
      BY <1>1
    <3> SUFFICES ASSUME NEW i \in 1..Len(posts),
                        \A k \in 1..(n + m) : g[k].post # posts[i],
                        NEW u \in looks'[b], posts[i].written < u
                 PROVE  \E t \in looks'[b] : t =< posts[i].written /\ Stamp(posts[i]) =< t + Late
      BY <1>1, <1>7, <1>8, <3>1, SMTT(20) DEF LeftOut, Stamp
    <3>2. \A k \in 1..n : f[k].post # posts[i]
      BY <1>8
    <3>3. CASE \E v \in looks[b] : posts[i].written < v
      <4>1. \E t \in looks[b] : t =< posts[i].written /\ Stamp(posts[i]) =< t + Late
        BY <3>1, <3>2, <3>3, <2>0, <1>7 DEF LeftOut
      <4> QED
        BY <4>1, <1>13
    <3>4. CASE ~ \E v \in looks[b] : posts[i].written < v
      <4>1. b = a /\ u = now
        BY <3>4, <1>13
      <4>2. \A j \in 1..m : rec[j] # posts[i]
        <5> SUFFICES ASSUME NEW j \in 1..m PROVE rec[j] # posts[i]
          OBVIOUS
        <5> DEFINE k == n + m + 1 - j
        <5>1. k \in (n + 1)..(n + m) /\ k \in 1..(n + m) /\ n + m + 1 - k = j
          OBVIOUS
        <5> HIDE DEF k
        <5>2. g[k].post = rec[j]
          BY <5>1, <1>11
        <5> QED
          BY <5>1, <5>2
      <4>3. Stamp(posts[i]) =< now - Period
        BY <4>1, <4>2, <3>1, <1>6
      <4>4. posts[i].written \in Nat /\ Stamp(posts[i]) \in Int
        <5>1. posts \in Seq(PostRecs)
          BY <3>1, <1>2
        <5>2. posts[i] \in PostRecs
          BY <5>1
        <5> QED
          BY <5>2 DEF PostRecs, Stamp
      <4>5. l =< posts[i].written
        BY <3>4, <4>1, <4>4, <1>3
      <4>6. Stamp(posts[i]) =< l + Late
        BY <4>3, <4>4, <1>2, <1>3
      <4> QED
        BY <4>1, <4>5, <4>6, <1>3, <1>13
    <3> QED
      BY <3>3, <3>4
  <2> QED
    BY <2>1, <2>2, <2>3
<1>16. ASSUME NEW i \in 1..(n + m) PROVE SentByLook(g[i])'
  <2>1. CASE i \in 1..n
    <3>1. PICK q : q = f[i] /\ q = g[i]
      BY <2>1, <1>8
    <3>2. SentByLook(q) /\ q.post.by \in Authors
      BY <2>1, <3>1, <1>9, <1>10
    <3>3. SentByLook(q)'
      BY <3>2, <1>1, <1>13 DEF SentByLook, Stamp
    <3> QED
      BY <3>1, <3>3 DEF SentByLook, Stamp
  <2>2. CASE i \in (n + 1)..(n + m)
    <3>1. PICK q : q = g[i]
      OBVIOUS
    <3>2. /\ q.post.by = a /\ q.sent = now /\ q.post.written =< now
          /\ Stamp(q.post) > now - Period
          /\ \E k \in 1..Len(timeline[a]) : q.post = timeline[a][k]
      BY <2>2, <3>1, <1>11
    <3>3. l < now
      BY <1>2, <1>3
    <3>4. SentByLook(q)'
      BY <3>2, <3>3, <1>1, <1>3, <1>13 DEF SentByLook, Stamp
    <3> QED
      BY <3>1, <3>4 DEF SentByLook, Stamp
  <2> QED
    BY <2>1, <2>2
<1>17. SentInOrder'
  <2> SUFFICES ASSUME NEW i \in 1..(n + m), NEW j \in 1..(n + m), i < j
               PROVE  g[i].sent =< g[j].sent /\ g[i].post # g[j].post
    BY <1>7, <1>8 DEF SentInOrder
  <2>1. CASE j \in 1..n
    <3>1. i \in 1..n
      BY <2>1
    <3> QED
      BY <2>1, <3>1, <1>7, <1>8 DEF TimelineInv, SentInOrder
  <2>2. CASE i \in 1..n /\ j \in (n + 1)..(n + m)
    <3>1. g[i] = f[i] /\ f[i].sent =< now /\ g[j].sent = now
      BY <2>2, <1>8, <1>11, <1>12
    <3>2. ASSUME f[i].post = g[j].post PROVE FALSE
      <4>1. f[i].post.by = a /\ Stamp(f[i].post) > now - Period
        BY <2>2, <3>2, <1>11
      <4>2. Stamp(f[i].post) =< now - Period /\ Stamp(f[i].post) \in Int
        BY <2>2, <4>1, <1>10, <1>12
      <4> QED
        BY <4>1, <4>2, <1>2
    <3> QED
      BY <3>1, <3>2
  <2>3. CASE i \in (n + 1)..(n + m) /\ j \in (n + 1)..(n + m)
    <3> PICK x \in 1..m, y \in 1..m : x = n + m + 1 - i /\ y = n + m + 1 - j
      BY <2>3, <1>11
    <3>1. y < x
      OBVIOUS
    <3>2. at[y] < at[x] /\ at[x] \in 1..Len(timeline[a]) /\ at[y] \in 1..Len(timeline[a])
      BY <3>1, <1>5
    <3>3. timeline[a][at[y]].made < timeline[a][at[x]].made
      BY <3>2, <1>9 DEF FileInOrder
    <3>4. timeline[a][at[x]] \in PostRecs
      BY <3>2, <1>2
    <3>5. g[i].post = timeline[a][at[x]] /\ g[j].post = timeline[a][at[y]]
      BY <2>3, <1>11
    <3>6. g[i].sent = now /\ g[j].sent = now
      BY <2>3, <1>11
    <3>7. g[i].post.made \in Int
      BY <3>4, <3>5 DEF PostRecs
    <3> QED
      BY SMTT(20), <3>3, <3>5, <3>6, <3>7, <1>2
  <2> QED
    BY <2>1, <2>2, <2>3
<1>18. ShownLines'
  <2>1. /\ \A i \in 1..Len(flood) : \E k \in 1..n : flood[i] = f[k]
        /\ \A i \in 1..Len(caught) :
             /\ \E k \in 1..n : caught[i] = f[k]
             /\ Stamp(caught[i].post) =< lasttime
        /\ \A i, j \in 1..Len(flood) : i # j => flood[i].post # flood[j].post
        /\ \A i, j \in 1..Len(caught) : i # j => caught[i].post # caught[j].post
    BY <1>7 DEF TimelineInv, ShownLines
  <2>2. \A k \in 1..n : k \in 1..(n + m) /\ g[k] = f[k]
    BY <1>8
  <2>3. /\ \A i \in 1..Len(flood) : \E k \in 1..(n + m) : flood[i] = g[k]
        /\ \A i \in 1..Len(caught) :
             /\ \E k \in 1..(n + m) : caught[i] = g[k]
             /\ Stamp(caught[i].post) =< lasttime
    <3>1. ASSUME NEW i \in 1..Len(flood) PROVE \E k \in 1..(n + m) : flood[i] = g[k]
      BY <2>1, <2>2
    <3>2. ASSUME NEW i \in 1..Len(caught) PROVE \E k \in 1..(n + m) : caught[i] = g[k]
      BY <2>1, <2>2
    <3> QED
      BY <2>1, <3>1, <3>2
  <2>4. Len(fTimelines') = n + m /\ fTimelines' = g
    BY <1>7, <1>8
  <2>5. flood' = flood /\ caught' = caught /\ lasttime' = lasttime
    BY <1>1
  <2>6. \A i \in 1..Len(flood') : \E k \in 1..Len(fTimelines') : flood'[i] = fTimelines'[k]
    BY <2>3, <2>4, <2>5, Zenon
  <2>7. \A i \in 1..Len(caught') : \E k \in 1..Len(fTimelines') : caught'[i] = fTimelines'[k]
    BY <2>3, <2>4, <2>5, Zenon
  <2>8. /\ \A i \in 1..Len(caught') : Stamp(caught'[i].post) =< lasttime'
        /\ \A i, j \in 1..Len(flood') : i # j => flood'[i].post # flood'[j].post
        /\ \A i, j \in 1..Len(caught') : i # j => caught'[i].post # caught'[j].post
    BY <2>1, <2>5
  <2> QED
    BY <2>6, <2>7, <2>8 DEF ShownLines, Stamp
<1>19. ReadTo'
  <2>1. lasttime # 0 => \E k \in 1..read : g[k].sent > lasttime - Fresh
    <3>1. \A k \in 1..read : k \in 1..n /\ g[k] = f[k]
      BY <1>2, <1>8
    <3> QED
      BY <3>1, <1>7 DEF TimelineInv, ReadTo
  <2>2. ASSUME NEW i \in 1..(n + m), NEW j \in 1..(n + m),
               i =< read, read < j, g[i].post.by = g[j].post.by
        PROVE  g[i].sent # g[j].sent
    <3>1. i \in 1..n /\ g[i] = f[i]
      BY <2>2, <1>2, <1>8
    <3>2. CASE j \in 1..n
      <4>1. \A x, y \in 1..n :
              (x =< read /\ read < y /\ f[x].post.by = f[y].post.by) => f[x].sent # f[y].sent
        BY <1>7 DEF TimelineInv, ReadTo
      <4>2. g[j] = f[j]
        BY <3>2, <1>8
      <4> QED
        BY <2>2, <3>1, <3>2, <4>1, <4>2
    <3>3. CASE j \in (n + 1)..(n + m)
      <4>1. g[j].post.by = a /\ g[j].sent = now
        BY <3>3, <1>11
      <4>2. f[i].post.by = a
        BY <2>2, <3>1, <4>1
      <4>3. f[i].sent < now /\ f[i].sent \in Nat
        BY <3>1, <4>2, <1>10, <1>12
      <4> QED
        BY <3>1, <4>1, <4>3, <1>2
    <3> QED
      BY <3>2, <3>3
  <2>3. Len(fTimelines') = n + m /\ fTimelines' = g
    BY <1>7, <1>8
  <2>4. read' = read /\ lasttime' = lasttime
    BY <1>1
  <2>5. lasttime' # 0 => \E k \in 1..read' : fTimelines'[k].sent > lasttime' - Fresh
    BY <2>1, <2>3, <2>4
  <2>6. \A i, j \in 1..Len(fTimelines') :
          (i =< read' /\ read' < j /\ fTimelines'[i].post.by = fTimelines'[j].post.by)
            => fTimelines'[i].sent # fTimelines'[j].sent
    BY <2>2, <2>3, <2>4
  <2> QED
    BY <2>5, <2>6 DEF ReadTo
<1>20. Overtaken'
  <2>1. \A i \in 1..read : f[i] \notin Range(caught) =>
          \E k \in 1..(i - 1) :
             /\ f[k].post.by = f[i].post.by => f[k].sent # f[i].sent
             /\ Stamp(f[i].post) < f[k].sent + Fresh
    BY <1>7 DEF TimelineInv, Overtaken
  <2>2. \A i \in 1..read : g[i] = f[i] /\ \A k \in 1..(i - 1) : g[k] = f[k]
    BY <1>2, <1>8
  <2>3. \A i \in 1..read : g[i] \notin Range(caught) =>
          \E k \in 1..(i - 1) :
             /\ g[k].post.by = g[i].post.by => g[k].sent # g[i].sent
             /\ Stamp(g[i].post) < g[k].sent + Fresh
    BY <2>1, <2>2
  <2> QED
    BY <2>3, <1>1, <1>7 DEF Overtaken, Stamp
<1>22. LastEdit'
  <2>1. CASE m = 0
    <3>1. ASSUME n # 0 PROVE edited' = g[n].sent
      <4>1. n \in 1..n /\ edited = f[n].sent /\ f[n] = g[n]
        BY <3>1, <1>7, <1>8 DEF TimelineInv, LastEdit
      <4>2. PICK t \in looks[f[n].post.by] : t < f[n].sent
        BY <4>1, <1>9 DEF SentByLook
      <4>3. t \in Nat /\ f[n].sent \in Nat
        BY <4>1, <4>2, <1>2, <1>10
      <4>4. rec = <<>>
        <5>1. rec \in Seq(PostRecs) /\ Len(rec) = 0
          BY <2>1, <1>4
        <5> QED
          BY <5>1, EmptySeq
      <4> QED
        BY <4>1, <4>2, <4>3, <4>4, <1>40
    <3> QED
      BY <2>1, <3>1, <1>7, <1>8 DEF LastEdit
  <2>2. CASE m # 0
    <3>1. edited' = now
      BY <2>2, <1>40, <1>4
    <3>2. g[n + m].sent = now
      BY <2>2, <1>11
    <3> QED
      BY <3>1, <3>2, <1>7, <1>8 DEF LastEdit
  <2> QED
    BY <2>1, <2>2
<1>21. \A i \in 1..Len(fTimelines') : SentByLook(fTimelines[i])'
  <2>1. Len(fTimelines') = n + m
    BY <1>7, <1>8
  <2> QED
    BY <2>1, <1>7, <1>16 DEF SentByLook, Stamp
<1> QED
  BY <1>14, <1>15, <1>17, <1>18, <1>19, <1>20, <1>21, <1>22 DEF TimelineInv

\* Opening the timeline starts the stream with some of the file's lines, each once.
LEMMA OpenKeeps == TimelineInv /\ Open => TimelineInv'
<1> USE PeriodAssumption, BoundAssumption
<1> SUFFICES ASSUME TimelineInv, Open PROVE TimelineInv'
  OBVIOUS
<1> PICK n \in Nat : n = Len(fTimelines)
  BY DEF TimelineInv, Typed
<1> PICK m \in Int : m = IF n - Flood + 1 > 1 THEN n - Flood + 1 ELSE 1
  OBVIOUS
<1>1. /\ flood' = Reverse(SubSeq(fTimelines, Max({1, n - Flood + 1}), n))
      /\ due' = now
      /\ edited' = IF edited = 0 THEN now ELSE edited
      /\ UNCHANGED <<now, timeline, looks, fTimelines, lasttime, read, caught>>
  BY DEF Open
<1>2. Max({1, n - Flood + 1}) = m
  <2>1. {1, n - Flood + 1} \in SUBSET Int /\ m \in {1, n - Flood + 1}
    OBVIOUS
  <2>2. \A t \in {1, n - Flood + 1} : t =< m
    OBVIOUS
  <2> QED
    BY <2>1, <2>2, MaxIs
<1>3. fTimelines \in Seq(LineRecs) /\ m >= 1
  BY DEF TimelineInv, Typed
<1>4. PICK part : part = SubSeq(fTimelines, m, n)
  OBVIOUS
<1>5. /\ part \in Seq(LineRecs)
      /\ Len(part) = IF m =< n THEN n - m + 1 ELSE 0
      /\ \A i \in 1..(n - m + 1) : part[i] = fTimelines[m + i - 1]
  <2>1. \A i \in m..n : fTimelines[i] \in LineRecs
    BY <1>3
  <2> QED
    BY SMTT(20), <2>1, <1>4, SubSeqProperties
<1> PICK c \in Nat : c = Len(part)
  <2>1. part \in Seq(LineRecs)
    BY <1>5
  <2>2. Len(part) \in Nat
    BY <2>1
  <2> QED
    BY <2>2
<1>6. PICK fl : fl = flood' /\ fl = [i \in 1..c |-> part[(c - i) + 1]]
  BY <1>1, <1>2, <1>4 DEF Reverse
<1>7. ASSUME NEW i \in 1..c
      PROVE  n - i + 1 \in 1..n /\ fl[i] = fTimelines[n - i + 1] /\ fl[i] \in LineRecs
  <2>0. c = IF m =< n THEN n - m + 1 ELSE 0
    BY <1>5
  <2>1. m =< n /\ c = n - m + 1 /\ (c - i) + 1 \in 1..c /\ m + ((c - i) + 1) - 1 = n - i + 1
    <3>1. CASE m =< n
      <4>1. c = n - m + 1
        BY <2>0, <3>1
      <4>2. i \in Int /\ 1 =< i /\ i =< c
        OBVIOUS
      <4>3. (c - i) + 1 \in 1..c
        BY <4>2
      <4>4. m + ((c - i) + 1) - 1 = n - i + 1
        BY <4>1, <4>2
      <4> QED
        BY <3>1, <4>1, <4>3, <4>4
    <3>2. CASE ~ (m =< n)
      <4>1. c = 0
        BY <2>0, <3>2
      <4> QED
        BY <4>1
    <3> QED
      BY <3>1, <3>2
  <2>2. part[(c - i) + 1] = fTimelines[n - i + 1]
    BY <2>1, <1>5
  <2>3. n - i + 1 \in 1..n
    BY <2>1, <1>3
  <2> QED
    BY <2>2, <2>3, <1>3, <1>6
<1>8. fl \in Seq(LineRecs) /\ Len(fl) = c
  BY <1>6, <1>7
<1>9. Typed'
  BY <1>1, <1>6, <1>8 DEF TimelineInv, Typed, Nap, Turn
<1>10. ASSUME NEW a \in Authors PROVE FileInOrder(a)' /\ Paced(a)' /\ LeftOut(a)'
  <2>1. FileInOrder(a) /\ Paced(a) /\ LeftOut(a)
    BY DEF TimelineInv
  <2> QED
    BY <2>1, <1>1 DEF FileInOrder, Paced, LeftOut, Stamp
<1>11. \A i \in 1..Len(fTimelines') : SentByLook(fTimelines[i])'
  BY <1>1 DEF TimelineInv, SentByLook, Stamp
<1>12. SentInOrder /\ ShownLines /\ ReadTo /\ LastEdit /\ Overtaken
  BY DEF TimelineInv
<1>13. SentInOrder' /\ ReadTo'
  BY <1>1, <1>12 DEF SentInOrder, ReadTo, Stamp
<1>14. Overtaken'
  BY <1>1, <1>12 DEF Overtaken, Stamp
<1>16. LastEdit'
  <2> SUFFICES ASSUME n # 0 PROVE edited' = fTimelines[n].sent
    BY <1>1 DEF LastEdit
  <2>1. n \in 1..n /\ edited = fTimelines[n].sent /\ SentByLook(fTimelines[n])
    BY <1>12 DEF LastEdit, TimelineInv
  <2>2. fTimelines[n].post.by \in Authors /\ fTimelines[n].sent \in Nat
    <3>1. fTimelines[n] \in LineRecs
      BY <2>1, <1>3
    <3> QED
      BY <3>1 DEF LineRecs, PostRecs
  <2>3. PICK t \in looks[fTimelines[n].post.by] : t < fTimelines[n].sent
    BY <2>1 DEF SentByLook
  <2>4. t \in Nat
    BY <2>2, <2>3 DEF TimelineInv, Typed
  <2> QED
    BY <2>1, <2>2, <2>3, <2>4, <1>1
<1>15. ShownLines'
  <2>1. \A i \in 1..c : \E k \in 1..n : fl[i] = fTimelines[k]
    BY <1>7
  <2>2. ASSUME NEW i \in 1..c, NEW j \in 1..c, i # j PROVE fl[i].post # fl[j].post
    <3> PICK x \in 1..n, y \in 1..n : x = n - i + 1 /\ y = n - j + 1
      BY <1>7
    <3>1. x < y \/ y < x
      BY <2>2
    <3>2. fTimelines[x].post # fTimelines[y].post
      BY <3>1, <1>12 DEF SentInOrder
    <3> QED
      BY <3>2, <1>7
  <2>3. /\ \A i \in 1..Len(caught) :
             /\ \E k \in 1..n : caught[i] = fTimelines[k]
             /\ Stamp(caught[i].post) =< lasttime
        /\ \A i, j \in 1..Len(caught) : i # j => caught[i].post # caught[j].post
    BY <1>12 DEF ShownLines
  <2>4. flood' = fl /\ Len(fl) = c /\ fTimelines' = fTimelines /\ Len(fTimelines) = n
    BY <1>1, <1>6, <1>8
  <2>5. /\ \A i \in 1..Len(flood') : \E k \in 1..Len(fTimelines') : flood'[i] = fTimelines'[k]
        /\ \A i, j \in 1..Len(flood') : i # j => flood'[i].post # flood'[j].post
    BY <2>1, <2>2, <2>4, Zenon
  <2>6. /\ \A i \in 1..Len(caught') :
             /\ \E k \in 1..Len(fTimelines') : caught'[i] = fTimelines'[k]
             /\ Stamp(caught'[i].post) =< lasttime'
        /\ \A i, j \in 1..Len(caught') : i # j => caught'[i].post # caught'[j].post
    BY <2>3, <2>4, <1>1, Zenon
  <2> QED
    BY <2>5, <2>6 DEF ShownLines, Stamp
<1> QED
  BY <1>9, <1>10, <1>11, <1>13, <1>14, <1>15, <1>16 DEF TimelineInv

\* A turn of the stream's thread shows lines it has not shown before, and skips only
\* those that others have overtaken.
LEMMA PollKeeps == TimelineInv /\ Poll => TimelineInv'
<1> USE PeriodAssumption, BoundAssumption
<1> SUFFICES ASSUME TimelineInv, Poll PROVE TimelineInv'
  OBVIOUS
<1> DEFINE unread == {i \in DOMAIN fTimelines : Stamp(fTimelines[i].post) > lasttime}
           fresh == now - edited < Fresh
<1>0. UNCHANGED <<now, timeline, looks, fTimelines, edited, flood>>
  BY DEF Poll, fileVars
<1>1. ASSUME NEW a \in Authors PROVE FileInOrder(a)' /\ Paced(a)' /\ LeftOut(a)'
  <2>1. FileInOrder(a) /\ Paced(a) /\ LeftOut(a)
    BY DEF TimelineInv
  <2> QED
    BY <2>1, <1>0 DEF FileInOrder, Paced, LeftOut, Stamp
<1>2. \A i \in 1..Len(fTimelines') : SentByLook(fTimelines[i])'
  BY <1>0 DEF TimelineInv, SentByLook, Stamp
<1>3. SentInOrder /\ ShownLines /\ ReadTo /\ LastEdit /\ Overtaken
  BY DEF TimelineInv
<1>4. SentInOrder' /\ LastEdit'
  BY <1>0, <1>3 DEF SentInOrder, LastEdit
<1>5. CASE ~ fresh
  <2>1. due' = now + Turn /\ UNCHANGED <<caught, read, lasttime>>
    BY <1>5 DEF Poll
  <2>2. Typed'
    BY <1>0, <2>1 DEF TimelineInv, Typed, Nap, Turn
  <2>3. ShownLines' /\ ReadTo'
    BY <1>0, <1>3, <2>1 DEF ShownLines, ReadTo, Stamp
  <2>4. Overtaken'
    BY <1>0, <1>3, <2>1 DEF Overtaken, Stamp
  <2> QED
    BY <1>1, <1>2, <1>4, <2>2, <2>3, <2>4 DEF TimelineInv
<1>6. CASE fresh
  <2> PICK n \in Nat : n = Len(fTimelines)
    BY DEF TimelineInv, Typed
  <2>1. PICK new : /\ new = Those(fTimelines, unread)
                   /\ caught' = caught \o new
                   /\ read' = n
                   /\ lasttime' = IF new = <<>> THEN lasttime ELSE now
                   /\ due' = now + Nap + Turn
    BY <1>6 DEF Poll, TimeShown
  <2>2. PICK f : f = fTimelines /\ f \in Seq(LineRecs) /\ Len(f) = n
    BY DEF TimelineInv, Typed
  <2>3. /\ n # 0 => now - f[n].sent < Fresh
        /\ now \in Nat /\ lasttime \in Nat /\ lasttime =< now
        /\ read \in 0..n
        /\ caught \in Seq(LineRecs)
    BY <1>6, <2>2 DEF LastEdit, TimelineInv, Typed
  <2>4. \A i \in 1..n : /\ f[i] \in LineRecs /\ SentByLook(f[i])
    BY <2>2 DEF TimelineInv
  <2>5. ASSUME NEW i \in 1..n
        PROVE  /\ f[i].sent \in Nat /\ f[i].post.by \in Authors
               /\ Stamp(f[i].post) \in Int /\ Stamp(f[i].post) =< now
               /\ f[i].sent \in looks[f[i].post.by]
    <3>1. f[i].sent \in Nat /\ f[i].post \in PostRecs
      BY <2>4 DEF LineRecs
    <3>2. /\ f[i].post.by \in Authors /\ f[i].post.made \in Int /\ f[i].post.written \in Nat
      BY <3>1 DEF PostRecs
    <3>3. FileInOrder(f[i].post.by)
      BY <3>2 DEF TimelineInv
    <3>4. PICK k \in 1..Len(timeline[f[i].post.by]) : f[i].post = timeline[f[i].post.by][k]
      BY <2>4 DEF SentByLook
    <3>5. f[i].post.made =< f[i].post.written /\ f[i].post.written =< now
      BY <3>3, <3>4 DEF FileInOrder
    <3>6. f[i].sent \in looks[f[i].post.by]
      BY <2>4 DEF SentByLook
    <3> QED
      BY SMTT(20), <3>1, <3>2, <3>5, <3>6, <2>3, PeriodAssumption DEF Stamp
  <2>6. unread \in SUBSET (1..n) /\ \A i \in 1..n : i \in unread <=> Stamp(f[i].post) > lasttime
    BY <2>2
  <2> HIDE DEF unread, fresh
  <2>7. new \in Seq(LineRecs) /\ \E at : Picks(f, unread, new, at)
    BY <2>1, <2>2, <2>6, ThoseOf
  <2> PICK m \in Nat : m = Len(new)
    BY <2>7
  <2>8. PICK at : /\ at \in [1..m -> unread]
                  /\ \A j \in 1..m : new[j] = f[at[j]]
                  /\ \A j, k \in 1..m : j < k => at[j] < at[k]
                  /\ \A i \in unread : \E j \in 1..m : at[j] = i
    BY <2>7 DEF Picks
  <2> PICK c \in Nat : c = Len(caught)
    BY <2>3
  <2>9. PICK d : /\ d = caught'
                 /\ d \in Seq(LineRecs)
                 /\ Len(d) = c + m
                 /\ \A i \in 1..(c + m) : d[i] = IF i =< c THEN caught[i] ELSE new[i - c]
    <3>1. /\ caught \o new \in Seq(LineRecs)
          /\ Len(caught \o new) = Len(caught) + Len(new)
          /\ \A i \in 1..Len(caught) + Len(new) :
               (caught \o new)[i] = IF i =< Len(caught) THEN caught[i] ELSE new[i - Len(caught)]
      BY <2>3, <2>7, ConcatProperties
    <3> QED
      BY <3>1, <2>1
  <2>10. \A i \in 1..c : i \in 1..(c + m) /\ d[i] = caught[i]
    BY <2>9
  <2>11. ASSUME NEW i \in 1..m
         PROVE  /\ c + i \in 1..(c + m) /\ d[c + i] = f[at[i]]
                /\ at[i] \in 1..n /\ at[i] \in unread
    <3>1. c + i \in 1..(c + m) /\ ~ (c + i =< c) /\ (c + i) - c = i
      OBVIOUS
    <3>2. d[c + i] = new[i]
      BY <3>1, <2>9
    <3> QED
      BY <3>1, <3>2, <2>6, <2>8
  <2>12. ASSUME NEW i \in 1..(c + m) PROVE i \in 1..c \/ \E j \in 1..m : i = c + j
    <3>1. CASE i > c
      <4>1. i - c \in 1..m /\ i = c + (i - c)
        BY <3>1
      <4> QED
        BY <4>1
    <3> QED
      BY <3>1
  <2>13. m # 0 => lasttime' = now
    BY <2>1
  <2>14. m = 0 => lasttime' = lasttime
    BY <2>1, <2>7
  <2>15. Typed'
    BY <1>0, <2>1, <2>3, <2>9 DEF TimelineInv, Typed, Nap, Turn
  <2>16. ShownLines'
    <3>1. /\ \A i \in 1..Len(flood) : \E k \in 1..n : flood[i] = f[k]
          /\ \A i \in 1..c : (\E k \in 1..n : caught[i] = f[k]) /\ Stamp(caught[i].post) =< lasttime
          /\ \A i, j \in 1..Len(flood) : i # j => flood[i].post # flood[j].post
          /\ \A i, j \in 1..c : i # j => caught[i].post # caught[j].post
      BY <1>3, <2>2 DEF ShownLines
    <3>2. ASSUME NEW i \in 1..(c + m)
          PROVE  (\E k \in 1..n : d[i] = f[k]) /\ Stamp(d[i].post) =< lasttime'
      <4>1. CASE i \in 1..c
        <5>1. PICK k \in 1..n : caught[i] = f[k]
          BY <3>1, <4>1
        <5>2. Stamp(f[k].post) =< lasttime'
          BY <5>1, <4>1, <3>1, <2>3, <2>5, <2>13, <2>14
        <5> QED
          BY <4>1, <5>1, <5>2, <2>10
      <4>2. CASE \E j \in 1..m : i = c + j
        <5>1. PICK j \in 1..m : i = c + j
          BY <4>2
        <5>2. d[i] = f[at[j]] /\ at[j] \in 1..n
          BY <5>1, <2>11
        <5>3. Stamp(f[at[j]].post) =< lasttime'
          BY <5>2, <2>5, <2>13
        <5> QED
          BY <5>2, <5>3
      <4> QED
        BY <4>1, <4>2, <2>12
    <3>3. ASSUME NEW i \in 1..(c + m), NEW j \in 1..(c + m), i < j
          PROVE  d[i].post # d[j].post
      <4>1. CASE j \in 1..c
        <5>1. i \in 1..c
          BY <3>3, <4>1
        <5> QED
          BY <3>1, <3>3, <4>1, <5>1, <2>10
      <4>2. CASE i \in 1..c /\ \E y \in 1..m : j = c + y
        <5>1. PICK y \in 1..m : j = c + y
          BY <4>2
        <5>2. d[j] = f[at[y]] /\ at[y] \in 1..n /\ at[y] \in unread
          BY <5>1, <2>11
        <5>3. Stamp(d[j].post) > lasttime /\ Stamp(d[j].post) \in Int
          BY <5>2, <2>5, <2>6
        <5>4. Stamp(d[i].post) =< lasttime
          BY <4>2, <3>1, <2>10
        <5> QED
          BY <5>3, <5>4, <2>3
      <4>3. CASE (\E x \in 1..m : i = c + x) /\ (\E y \in 1..m : j = c + y)
        <5>1. PICK x \in 1..m, y \in 1..m : i = c + x /\ j = c + y
          BY <4>3
        <5>2. x < y
          BY <3>3, <5>1
        <5>3. at[x] < at[y] /\ at[x] \in 1..n /\ at[y] \in 1..n
          BY <5>2, <2>8, <2>11
        <5>4. f[at[x]].post # f[at[y]].post
          BY <5>3, <1>3, <2>2 DEF SentInOrder
        <5> QED
          BY <5>1, <5>4, <2>11
      <4>4. (\E x \in 1..m : i = c + x) => ~ (j \in 1..c)
        BY <3>3
      <4> QED
        BY <4>1, <4>2, <4>3, <4>4, <2>12
    <3>4. ASSUME NEW i \in 1..(c + m), NEW j \in 1..(c + m), i # j
          PROVE  d[i].post # d[j].post
      <4>1. i < j \/ j < i
        BY <3>4
      <4> QED
        BY <4>1, <3>3
    <3>5. fTimelines' = f /\ flood' = flood /\ caught' = d /\ Len(d) = c + m /\ Len(f) = n
      BY <1>0, <2>2, <2>9
    <3>6. /\ \A i \in 1..Len(flood') : \E k \in 1..Len(fTimelines') : flood'[i] = fTimelines'[k]
          /\ \A i, j \in 1..Len(flood') : i # j => flood'[i].post # flood'[j].post
      BY <3>1, <3>5, Zenon
    <3>7. /\ \A i \in 1..Len(caught') :
               /\ \E k \in 1..Len(fTimelines') : caught'[i] = fTimelines'[k]
               /\ Stamp(caught'[i].post) =< lasttime'
          /\ \A i, j \in 1..Len(caught') : i # j => caught'[i].post # caught'[j].post
      BY <3>2, <3>4, <3>5, Zenon
    <3> QED
      BY <3>6, <3>7 DEF ShownLines, Stamp
  <2>17. ReadTo'
    <3>1. lasttime # 0 => \E k \in 1..read : f[k].sent > lasttime - Fresh
      BY <1>3, <2>2 DEF ReadTo
    <3>2. lasttime' # 0 => \E k \in 1..n : f[k].sent > lasttime' - Fresh
      <4>1. CASE m = 0
        <5>1. \A k \in 1..read : k \in 1..n
          BY <2>3
        <5> QED
          BY <3>1, <4>1, <5>1, <2>14
      <4>2. CASE m # 0
        <5>0. 1 \in 1..m
          BY <4>2
        <5>2. at[1] \in 1..n
          BY <5>0, <2>6, <2>8
        <5>1. n \in 1..n /\ f[n].sent \in Nat
          BY <5>2, <2>5
        <5>3. f[n].sent > now - Fresh
          BY <5>1, <2>3 DEF Fresh
        <5> QED
          BY <4>2, <5>1, <5>3, <2>13
      <4> QED
        BY <4>1, <4>2
    <3>3. fTimelines' = f /\ read' = n /\ Len(f) = n
      BY <1>0, <2>1, <2>2
    <3>4. \A i, j \in 1..n : ~ (i =< n /\ n < j)
      OBVIOUS
    <3> QED
      BY <3>2, <3>3, <3>4 DEF ReadTo
  <2>18. Overtaken'
    <3> SUFFICES ASSUME NEW i \in 1..n, f[i] \notin Range(d)
                 PROVE  \E k \in 1..(i - 1) :
                           /\ f[k].post.by = f[i].post.by => f[k].sent # f[i].sent
                           /\ Stamp(f[i].post) < f[k].sent + Fresh
      BY <1>0, <2>1, <2>2, <2>9 DEF Overtaken, Stamp
    <3>1. \A j \in 1..(c + m) : d[j] # f[i]
      BY SMTT(20), <2>9 DEF Range
    <3>2. i \notin unread
      <4>1. \A j \in 1..m : at[j] # i
        BY <3>1, <2>11
      <4> QED
        BY <4>1, <2>8
    <3>3. Stamp(f[i].post) =< lasttime
      BY <3>2, <2>3, <2>5, <2>6
    <3>4. CASE i =< read
      <4>1. f[i] \notin Range(caught)
        BY <3>1, <2>3, <2>10 DEF Range
      <4> QED
        BY <3>4, <4>1, <1>3, <2>2 DEF Overtaken
    <3>5. CASE read < i
      <4>1. lasttime # 0
        <5>1. PICK t \in looks[f[i].post.by] : t < f[i].sent
          BY <2>4 DEF SentByLook
        <5>2. /\ t \in Nat /\ 1 =< t /\ t + Period =< f[i].sent
          BY <5>1, <2>5 DEF TimelineInv, Typed, Paced
        <5>3. Stamp(f[i].post) > f[i].sent - Period
          BY <2>4 DEF SentByLook
        <5> QED
          BY <5>2, <5>3, <3>3, <2>5
      <4>2. PICK k \in 1..read : f[k].sent > lasttime - Fresh
        BY <4>1, <1>3, <2>2 DEF ReadTo
      <4>3. k \in 1..n /\ k < i /\ k \in 1..(i - 1)
        BY <3>5, <2>3
      <4>5. f[k].post.by = f[i].post.by => f[k].sent # f[i].sent
        <5>1. k =< read
          BY <2>3
        <5> QED
          BY <5>1, <4>3, <3>5, <1>3, <2>2 DEF ReadTo
      <4>6. Stamp(f[i].post) < f[k].sent + Fresh
        BY <4>2, <4>3, <3>3, <2>3, <2>5 DEF Fresh
      <4> QED
        BY <4>3, <4>5, <4>6
    <3> QED
      BY <3>4, <3>5, <2>3
  <2> QED
    BY <1>1, <1>2, <1>4, <2>15, <2>16, <2>17, <2>18 DEF TimelineInv
<1> QED
  BY <1>5, <1>6

\* Every step keeps the invariant.
LEMMA StepTimeline == TimelineInv /\ [Next]_vars => TimelineInv'
<1> SUFFICES ASSUME TimelineInv, [Next]_vars PROVE TimelineInv'
  OBVIOUS
<1>1. CASE Tick
  BY <1>1, TickKeeps
<1>2. ASSUME NEW a \in Authors, Timeline(a) PROVE TimelineInv'
  BY <1>2, TimelineKeeps
<1>3. ASSUME NEW a \in Authors, Look(a) PROVE TimelineInv'
  BY <1>3, LookKeeps
<1>4. CASE Open
  BY <1>4, OpenKeeps
<1>5. CASE Poll
  BY <1>5, PollKeeps
<1>6. CASE UNCHANGED vars
  <2>1. /\ Typed /\ SentInOrder /\ ShownLines /\ ReadTo /\ LastEdit /\ Overtaken
        /\ UNCHANGED <<now, timeline, looks, fTimelines, edited, due, lasttime, read, flood, caught>>
    BY <1>6 DEF TimelineInv, vars, fileVars, streamVars
  <2>2. Typed' /\ SentInOrder'
    BY <2>1 DEF Typed, SentInOrder
  <2>3. ShownLines' /\ ReadTo'
    BY <2>1 DEF ShownLines, ReadTo, Stamp
  <2>4. LastEdit' /\ Overtaken'
    BY <2>1 DEF LastEdit, Overtaken, Stamp
  <2>5. ASSUME NEW a \in Authors PROVE FileInOrder(a)' /\ Paced(a)' /\ LeftOut(a)'
    <3>1. FileInOrder(a) /\ Paced(a) /\ LeftOut(a)
      BY DEF TimelineInv
    <3> QED
      BY <2>1, <3>1 DEF FileInOrder, Paced, LeftOut, Stamp
  <2>6. \A i \in 1..Len(fTimelines') : SentByLook(fTimelines[i])'
    BY <2>1 DEF TimelineInv, SentByLook, Stamp
  <2> QED
    BY <2>2, <2>3, <2>4, <2>5, <2>6 DEF TimelineInv
<1> QED
  BY <1>1, <1>2, <1>3, <1>4, <1>5, <1>6 DEF Next

\* The invariant of the timelines holds.
THEOREM TimelineHolds == Spec => []TimelineInv
<1> QED
  BY InitTimeline, StepTimeline, PTL DEF Spec

-----------------------------------------------------------------------------
(* What follows from it *)

\* The posts are what the files hold.
LEMMA PostsAre ==
    ASSUME TimelineInv
    PROVE  /\ \A p \in Posts : /\ p.by \in Authors
                               /\ \E i \in 1..Len(timeline[p.by]) : p = timeline[p.by][i]
           /\ \A a \in Authors : \A i \in 1..Len(timeline[a]) : timeline[a][i] \in Posts
<1>1. ASSUME NEW a \in Authors
      PROVE  Range(timeline[a]) = {timeline[a][i] : i \in 1..Len(timeline[a])}
  BY DEF Range, TimelineInv, Typed
<1>2. ASSUME NEW p \in Posts
      PROVE p.by \in Authors /\ \E i \in 1..Len(timeline[p.by]) : p = timeline[p.by][i]
  <2>1. PICK a \in Authors : p \in Range(timeline[a])
    BY DEF Posts
  <2>2. PICK i \in 1..Len(timeline[a]) : p = timeline[a][i]
    BY <1>1, <2>1
  <2>3. p.by = a
    BY <2>2 DEF TimelineInv, FileInOrder
  <2> QED
    BY <2>2, <2>3
<1>3. ASSUME NEW a \in Authors, NEW i \in 1..Len(timeline[a]) PROVE timeline[a][i] \in Posts
  BY <1>1 DEF Posts
<1> QED
  BY <1>2, <1>3

\* Clocks, files and streams keep their shape, and files their order.
THEOREM TimelineTyped == Spec => []TimelineTypeOK
<1>1. TimelineInv => TimelineTypeOK
  <2> SUFFICES ASSUME TimelineInv PROVE TimelineTypeOK
    OBVIOUS
  <2> USE PeriodAssumption, BoundAssumption
  <2>1. now \in Period..MaxTime
    BY DEF TimelineInv, Typed
  <2>2. ASSUME NEW a \in Authors
        PROVE  /\ looks[a] \subseteq 1..now
               /\ \A p \in Range(timeline[a]) : p.by = a /\ p.made =< p.written /\ p.written =< now
    <3>1. /\ now \in Nat /\ looks[a] \in SUBSET Nat /\ timeline[a] \in Seq(PostRecs)
          /\ Paced(a) /\ FileInOrder(a)
      BY DEF TimelineInv, Typed
    <3>2. looks[a] \subseteq 1..now
      BY <3>1 DEF Paced
    <3> QED
      BY <3>1, <3>2 DEF FileInOrder, Range
  <2>3. fTimelines \in Seq(LineRecs)
    BY DEF TimelineInv, Typed
  <2>4. \A l \in Range(fTimelines) : l.post \in Posts /\ l.sent \in looks[l.post.by]
    <3> SUFFICES ASSUME NEW i \in 1..Len(fTimelines)
                 PROVE  /\ fTimelines[i].post \in Posts
                        /\ fTimelines[i].sent \in looks[fTimelines[i].post.by]
      BY <2>3 DEF Range
    <3>1. SentByLook(fTimelines[i])
      BY DEF TimelineInv
    <3>2. fTimelines[i] \in LineRecs
      BY <2>3
    <3>3. fTimelines[i].post.by \in Authors
      BY <3>2 DEF LineRecs, PostRecs
    <3> QED
      BY <3>1, <3>3, PostsAre DEF SentByLook
  <2>5. \A i, j \in DOMAIN fTimelines : i < j => fTimelines[i].sent =< fTimelines[j].sent
    BY <2>3 DEF TimelineInv, SentInOrder
  <2>6. /\ due =< now + Nap + Turn /\ lasttime =< now /\ read =< Len(fTimelines)
        /\ edited =< now
    BY <2>3 DEF TimelineInv, Typed
  <2>7. fTimelines # <<>> => edited = Last(fTimelines).sent
    BY <2>3 DEF TimelineInv, LastEdit, Last
  <2> QED
    BY <2>1, <2>2, <2>4, <2>5, <2>6, <2>7 DEF TimelineTypeOK
<1> QED
  BY <1>1, TimelineHolds, PTL

\* No post is sent to a follower twice, although every look goes through the whole file
\* again.
THEOREM TimelineSentOnce == Spec => []SentOnce
<1>1. TimelineInv => SentOnce
  <2> SUFFICES ASSUME TimelineInv,
                      NEW i \in DOMAIN fTimelines, NEW j \in DOMAIN fTimelines,
                      fTimelines[i].post = fTimelines[j].post
               PROVE  i = j
    BY DEF SentOnce, IsInjective
  <2>1. DOMAIN fTimelines = 1..Len(fTimelines) /\ Len(fTimelines) \in Nat
    BY DEF TimelineInv, Typed
  <2>2. ~ (i < j) /\ ~ (j < i)
    BY <2>1 DEF TimelineInv, SentInOrder
  <2> QED
    BY <2>1, <2>2
<1> QED
  BY <1>1, TimelineHolds, PTL

\* What a look left out, by the time as it is parsed, whatever its error.
LEMMA MissedStamp ==
    ASSUME TimelineInv, NEW p \in Posts, p \notin Sent, p.written < LastLook(p.by)
    PROVE  \E t \in looks[p.by] : t =< p.written /\ Stamp(p) =< t + Late
<1>1. PICK a \in Authors, i \in 1..Len(timeline[p.by]) : a = p.by /\ p = timeline[p.by][i]
  BY PostsAre
<1>2. LastLook(a) \in looks[a] /\ LeftOut(a)
  BY LastLookIs DEF TimelineInv
<1>3. \A k \in 1..Len(fTimelines) : fTimelines[k].post # p
  BY DEF Sent, Range, TimelineInv, Typed
<1> QED
  BY <1>1, <1>2, <1>3 DEF LeftOut

\* In summer a look leaves out only what was made no later than its thread was late
\* for the look.
THEOREM TimelineMissedAtEdge ==
    ASSUME Early = 0
    PROVE  Spec => []MissedAtEdge
<1>1. TimelineInv => MissedAtEdge
  <2> SUFFICES ASSUME TimelineInv,
                      NEW p \in Posts, p \notin Sent, p.written < LastLook(p.by)
               PROVE  \E t \in looks[p.by] : t =< p.written /\ p.made =< t + Late
    BY DEF MissedAtEdge
  <2>1. PICK t \in looks[p.by] : t =< p.written /\ Stamp(p) =< t + Late
    BY MissedStamp
  <2>2. p.made \in Int
    <3>1. PICK i \in 1..Len(timeline[p.by]) : p = timeline[p.by][i]
      BY PostsAre
    <3>2. p \in PostRecs
      BY <3>1, PostsAre DEF TimelineInv, Typed
    <3> QED
      BY <3>2 DEF PostRecs
  <2>3. Stamp(p) = p.made
    BY <2>2 DEF Stamp
  <2> QED
    BY <2>1, <2>3
<1> QED
  BY <1>1, TimelineHolds, PTL

\* In winter, with an error of a period or more, no post is ever sent.
THEOREM TimelineWinter ==
    ASSUME Early >= Period
    PROVE  Spec => [](fTimelines = <<>>)
<1>1. TimelineInv => fTimelines = <<>>
  <2> USE PeriodAssumption
  <2> SUFFICES ASSUME TimelineInv, fTimelines # <<>> PROVE FALSE
    OBVIOUS
  <2>1. PICK l : l = fTimelines[1] /\ l \in LineRecs /\ SentByLook(l)
    BY DEF TimelineInv, Typed
  <2>2. /\ l.sent \in Nat /\ l.post.by \in Authors
        /\ l.post.made \in Int /\ l.post.written \in Nat
    BY <2>1 DEF LineRecs, PostRecs
  <2>3. PICK i \in 1..Len(timeline[l.post.by]) : l.post = timeline[l.post.by][i]
    BY <2>1 DEF SentByLook
  <2>4. l.post.made =< l.post.written
    BY <2>2, <2>3 DEF TimelineInv, FileInOrder
  <2>5. l.post.written =< l.sent /\ l.post.made - Early > l.sent - Period
    BY <2>1 DEF SentByLook, Stamp
  <2> QED
    BY <2>2, <2>4, <2>5
<1> QED
  BY <1>1, TimelineHolds, PTL

\* A stream shows no post more often than twice.
THEOREM TimelineShownTwice == Spec => []ShownTwice
<1>1. ASSUME NEW S, NEW s \in Seq(S), NEW p,
             \A i, j \in 1..Len(s) : i # j => s[i].post # s[j].post
      PROVE  /\ Cardinality({i \in DOMAIN s : s[i].post = p}) \in Nat
             /\ Cardinality({i \in DOMAIN s : s[i].post = p}) =< 1
  <2> PICK I : I = {i \in DOMAIN s : s[i].post = p}
    OBVIOUS
  <2>1. \A i, j \in I : i = j
    BY <1>1
  <2>2. I = {} \/ \E i : I = {i}
    BY <2>1
  <2>3. CASE I = {}
    BY <2>3, FS_EmptySet
  <2>4. CASE \E i : I = {i}
    <3>1. PICK i : I = {i}
      BY <2>4
    <3>2. Cardinality(I) = 1
      BY <3>1, FS_Singleton
    <3> QED
      BY <3>2
  <2> QED
    BY <2>2, <2>3, <2>4
<1>2. TimelineInv => ShownTwice
  <2> SUFFICES ASSUME TimelineInv, NEW p \in Posts
               PROVE  Cardinality({i \in DOMAIN flood : flood[i].post = p})
                    + Cardinality({i \in DOMAIN caught : caught[i].post = p}) =< 2
    BY DEF ShownTwice
  <2>1. flood \in Seq(LineRecs) /\ caught \in Seq(LineRecs) /\ ShownLines
    BY DEF TimelineInv, Typed
  <2>2. /\ Cardinality({i \in DOMAIN flood : flood[i].post = p}) \in Nat
        /\ Cardinality({i \in DOMAIN flood : flood[i].post = p}) =< 1
    <3>1. \A i, j \in 1..Len(flood) : i # j => flood[i].post # flood[j].post
      BY <2>1 DEF ShownLines
    <3> QED
      BY <1>1, <2>1, <3>1
  <2>3. /\ Cardinality({i \in DOMAIN caught : caught[i].post = p}) \in Nat
        /\ Cardinality({i \in DOMAIN caught : caught[i].post = p}) =< 1
    <3>1. \A i, j \in 1..Len(caught) : i # j => caught[i].post # caught[j].post
      BY <2>1 DEF ShownLines
    <3> QED
      BY <1>1, <2>1, <3>1
  <2> QED
    BY <2>2, <2>3
<1> QED
  BY <1>2, TimelineHolds, PTL

\* In summer, what the stream's thread reads and does not show was overtaken by a post
\* of another look.
THEOREM TimelineSkippedWhenOvertaken ==
    ASSUME Early = 0
    PROVE  Spec => []SkippedWhenOvertaken
<1>1. TimelineInv => SkippedWhenOvertaken
  <2> SUFFICES ASSUME TimelineInv,
                      NEW i \in 1..read, fTimelines[i] \notin Range(caught)
               PROVE  \E k \in 1..(i - 1) :
                         /\ fTimelines[k].post.by = fTimelines[i].post.by
                              => fTimelines[k].sent # fTimelines[i].sent
                         /\ fTimelines[i].post.made < fTimelines[k].sent + Fresh
    BY DEF SkippedWhenOvertaken
  <2>1. PICK k \in 1..(i - 1) :
            /\ fTimelines[k].post.by = fTimelines[i].post.by
                 => fTimelines[k].sent # fTimelines[i].sent
            /\ Stamp(fTimelines[i].post) < fTimelines[k].sent + Fresh
    BY DEF TimelineInv, Overtaken
  <2>2. i \in 1..Len(fTimelines) /\ fTimelines[i] \in LineRecs
    BY DEF TimelineInv, Typed
  <2>3. fTimelines[i].post.made \in Int
    BY <2>2 DEF LineRecs, PostRecs
  <2>4. Stamp(fTimelines[i].post) = fTimelines[i].post.made
    BY <2>3 DEF Stamp
  <2> QED
    BY <2>1, <2>4
<1> QED
  BY <1>1, TimelineHolds, PTL
=============================================================================
