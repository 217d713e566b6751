---------------------------- MODULE LeakyBucket ----------------------------
(***************************************************************************)
(* What checkCluster of MP_3/tso.cc promises about one process whose       *)
(* record one thread checks.  The two counters it compares, the beats of   *)
(* the record and its own count of turns, amount to one bucket: a          *)
(* heartbeat puts a token in, a turn takes one out, and the process is     *)
(* declared dead by the turn that finds the bucket empty.  Nothing bounds  *)
(* the bucket, so the tokens of early or repeated starts put off that turn.*)
(***************************************************************************)
EXTENDS Naturals

VARIABLES
    tokens, \* how many more turns the process survives without a heartbeat
    up      \* it is believed alive

bucketVars == <<tokens, up>>

BucketInit == tokens = 1 /\ up = FALSE

\* the process registers
Join == ~up /\ up' = TRUE /\ UNCHANGED tokens

Beat == tokens' = tokens + 1 /\ UNCHANGED up

\* a turn with a token left; a heartbeat since its death brings a process back
Survive ==
    /\ tokens > 0
    /\ up \/ tokens > 1
    /\ tokens' = tokens - 1
    /\ up' = TRUE

\* a turn that finds the bucket empty; the next one must not declare it again
Die ==
    /\ up
    /\ tokens = 0
    /\ tokens' = 1
    /\ up' = FALSE

BucketNext == Join \/ Beat \/ Survive \/ Die

BucketSpec == BucketInit /\ [][BucketNext]_bucketVars
=============================================================================
