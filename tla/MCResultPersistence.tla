------------------------ MODULE MCResultPersistence ------------------------
(* One job, whose paths all its writers share, with two attempts and two   *)
(* writers: a save can be resumed, repeated by a later attempt, begin late *)
(* or overlap another.  An attempt generates nothing, two images, or only  *)
(* the second of them.  Faults are not bounded.                            *)
EXTENDS ResultPersistence, TLC

CONSTANTS w1, w2

MCJobs == {1}

MCEngines == {1}

MCRemotes == {1}

MCProgress == {}

MCImages == {1, 2}

MCBatches == {<<>>, <<1, 2>>, <<2>>}

MCWriters == {w1, w2}

\* Writers are told apart by nothing.
MCSymmetry == Permutations(MCWriters)
=============================================================================
