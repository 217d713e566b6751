---------------------------- MODULE ClusterClock ----------------------------
(***************************************************************************)
(* Cluster with the pace of its two sleep(10)'s: the one in heartbeat of   *)
(* MP_3/tsd.cc and the one in checkCluster of MP_3/tso.cc.  Time is a      *)
(* sequence of periods of ten seconds.  In a period every running          *)
(* heartbeat thread beats once and every checking thread turns once, in    *)
(* any order; a thread that starts beats at once, or turns first in the    *)
(* period after.  A heartbeat's period is ten seconds and the time its     *)
(* call takes, so now and then a beat slips past the end of a period.      *)
(***************************************************************************)
EXTENDS Cluster

CONSTANTS
    MaxPeriods, \* bound on the periods that are counted
    MaxSlips    \* bound on the beats of a server that slip out of a period

ASSUME ClockAssumption == MaxPeriods \in Nat /\ MaxSlips \in Nat

VARIABLES
    period, \* the periods that are over
    due,    \* server -> whether its heartbeat thread has yet to beat: no, its
            \* first beat, or one that may slip
    turn,   \* the threads that have yet to check in this period
    heard,  \* the servers that have beaten in this period
    missed, \* server -> the whole periods since it started or beat last
    starts, \* server -> how often it was started
    accepted, \* the servers that run and whose ClusterSpawn was accepted
    slips   \* server -> how many of its beats slipped

clockVars == <<period, due, turn, heard, missed, starts, accepted, slips>>
pacedVars == <<vars, clockVars>>

PacedInit ==
    /\ Init
    /\ period = 0
    /\ due = [s \in Servers |-> "no"]
    /\ turn = {}
    /\ heard = {}
    /\ missed = [s \in Servers |-> 0]
    /\ starts = [s \in Servers |-> 0]
    /\ accepted = {}
    /\ slips = [s \in Servers |-> 0]

PacedHeartbeat(s) ==
    /\ due[s] # "no"
    /\ Heartbeat(s)
    /\ due' = [due EXCEPT ![s] = "no"]
    /\ heard' = heard \cup {s}
    /\ missed' = [missed EXCEPT ![s] = 0]
    /\ UNCHANGED <<period, turn, starts, accepted, slips>>

PacedTick(w) ==
    /\ w \in turn
    /\ CoordTick(w)
    /\ turn' = turn \ {w}
    /\ UNCHANGED <<period, due, heard, missed, starts, accepted, slips>>

PacedStart(s) ==
    /\ ServerStart(s)
    /\ missed' = [missed EXCEPT ![s] = 0]
    /\ starts' = [starts EXCEPT ![s] = @ + 1]
    /\ UNCHANGED <<period, due, turn, heard, accepted, slips>>

PacedHandler(s) ==
    /\ SpawnHandler(s)
    /\ accepted' = IF proc[s] = "spawning" /\ live' # live
                   THEN accepted \cup {s} ELSE accepted
    /\ UNCHANGED <<period, due, turn, heard, missed, starts, slips>>

PacedReply(s) ==
    /\ ReceiveReply(s)
    /\ due' = IF beating'[s] THEN [due EXCEPT ![s] = "first"] ELSE due
    /\ UNCHANGED <<period, turn, heard, missed, starts, accepted, slips>>

PacedCrash(s) ==
    /\ ServerCrash(s)
    /\ due' = [due EXCEPT ![s] = "no"]
    /\ accepted' = accepted \ {s}
    /\ UNCHANGED <<period, turn, heard, missed, starts, slips>>

Unpaced ==
    /\ \E s \in Servers : Poke(s) \/ Serve(s)
    /\ UNCHANGED clockVars

\* ten seconds are over; a call takes far less, so none is under way, and a
\* heartbeat thread that just started has beaten
EndPeriod ==
    LET late == {s \in Servers : due[s] # "no"} IN
    /\ period < MaxPeriods
    /\ turn = {}
    /\ \A s \in Servers : proc[s] \in {"down", "serving"} /\ spawn_pc[s] = "idle"
    /\ \A s \in late : due[s] = "next" /\ slips[s] < MaxSlips
    /\ period' = period + 1
    /\ slips' = [s \in Servers |-> slips[s] + IF s \in late THEN 1 ELSE 0]
    /\ due' = [s \in Servers |-> IF beating[s] THEN "next" ELSE "no"]
    /\ turn' = {w \in Watchers : watch[w] # Nil}
    /\ missed' = [s \in Servers |-> IF s \in heard THEN 0 ELSE missed[s] + 1]
    /\ heard' = {}
    /\ UNCHANGED <<vars, starts, accepted>>

\* the periods that are counted are over
Horizon == period = MaxPeriods /\ UNCHANGED pacedVars

PacedNext ==
    \/ \E s \in Servers :
         \/ PacedStart(s) \/ PacedHandler(s) \/ PacedReply(s)
         \/ PacedHeartbeat(s) \/ PacedCrash(s)
    \/ \E w \in Watchers : PacedTick(w)
    \/ Unpaced
    \/ EndPeriod
    \/ Horizon

PacedSpec == PacedInit /\ [][PacedNext]_pacedVars

-----------------------------------------------------------------------------

BelievedAlive(s) == \E r \in Recs : addr[r][RoleOf[s]] = s /\ live[r][RoleOf[s]]

\* While no two threads check its record, a server that was accepted and beats on
\* time is never believed dead, and a master, whose registration starts the
\* thread, not even after one beat has slipped.
NoFalseDeath ==
    \A s \in accepted :
        /\ \A v, w \in Watchers : {watch[v], watch[w]} = {c_map[IdOf[s]]} => v = w
        /\ slips[s] =< IF RoleOf[s] = "master" THEN 1 ELSE 0
        => BelievedAlive(s)

\* A server that was accepted and missed no beat is believed alive, however often
\* it was started before.
AliveUnlessMissed == \A s \in accepted : slips[s] = 0 => BelievedAlive(s)

\* A master that fell silent is believed dead two periods later, and one more for
\* every time it was started: each start beats at once, and the beat stays to the
\* master's credit until a crash is noticed.
DetectedInTime ==
    \A s \in Servers :
        RoleOf[s] = "master" /\ missed[s] >= starts[s] + 2 => ~BelievedAlive(s)

\* A master that listens calls a slave once one listens, as long as neither was
\* started twice and the master's beats slipped at most once: it replicates every
\* login and follow to it.
MasterKnowsSlave ==
    \A m, s \in Servers :
        /\ RoleOf[m] = "master" /\ RoleOf[s] = "slave" /\ IdOf[m] = IdOf[s]
        /\ proc[m] = "serving" /\ proc[s] = "serving"
        /\ starts[m] = 1 /\ starts[s] = 1 /\ slips[m] =< 1
        => s_stub[m] # Nil
=============================================================================
