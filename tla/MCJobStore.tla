----------------------------- MODULE MCJobStore -----------------------------
(* A small job table: three jobs contend for one queue place and one       *)
(* running place, so admission can be refused, a claim can be refused,     *)
(* and a retry can overfill the queue.                                     *)
EXTENDS JobStore

MCJobs == 1..3

MCEngines == {1}

MCRemotes == {2}

MCProgress == {1}
=============================================================================
