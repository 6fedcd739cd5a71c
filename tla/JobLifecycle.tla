---------------------------- MODULE JobLifecycle ----------------------------
(***************************************************************************)
(* What the platform promises about the life of a generation job, without  *)
(* the table, the leases, the engines or the workers that carry it out: a  *)
(* submitted job waits, is attempted a bounded number of times, and ends   *)
(* in exactly one of three ways.  JobStore and Dispatcher implement it.    *)
(***************************************************************************)
EXTENDS Integers, FiniteSets

CONSTANTS
  Jobs,           \* the jobs that may be submitted
  AttemptLimit,   \* how many times a job may be started
  RunningLimit    \* how many jobs may be in progress at once

VARIABLES
  phase,          \* where each job is in its life
  attempts        \* how often each job was started

InProgress == {j \in Jobs : phase[j] = "running"}

Moves(j, from, to) ==
  /\ phase[j] \in from
  /\ phase' = [phase EXCEPT ![j] = to]

Init ==
  /\ phase = [j \in Jobs |-> "absent"]
  /\ attempts = [j \in Jobs |-> 0]

Submit(j) == Moves(j, {"absent"}, "queued") /\ UNCHANGED attempts

Start(j) ==
  /\ Moves(j, {"queued"}, "running")
  /\ Cardinality(InProgress) < RunningLimit
  /\ attempts[j] < AttemptLimit
  /\ attempts' = [attempts EXCEPT ![j] = @ + 1]

Retry(j) == Moves(j, {"running"}, "queued") /\ UNCHANGED attempts

Succeed(j) == Moves(j, {"running"}, "succeeded") /\ UNCHANGED attempts

Fail(j) == Moves(j, {"running"}, "failed") /\ UNCHANGED attempts

Cancel(j) == Moves(j, {"queued", "running"}, "cancelled") /\ UNCHANGED attempts

Next ==
  \E j \in Jobs :
    Submit(j) \/ Start(j) \/ Retry(j) \/ Succeed(j) \/ Fail(j) \/ Cancel(j)

Spec == Init /\ [][Next]_<<phase, attempts>>
=============================================================================
