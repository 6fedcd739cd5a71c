---------------------------- MODULE MCDispatcher ----------------------------
(* Small dispatchers.  Two jobs compete for the engines; every worker      *)
(* holds an engine slot, so there are as many workers as slots.            *)
EXTENDS Dispatcher

OneJob == {1}

TwoJobs == {1, 2}

OneEngine == {1}

TwoEngines == {1, 2}

OneModel == {"sd"}

ServesAll == [e \in Engines |-> OneModel]

OneSlotEach == [e \in Engines |-> 1]

TwoSlotsEach == [e \in Engines |-> 2]

ThresholdTwo == [e \in Engines |-> 2]

SameModel == [j \in Jobs |-> "sd"]

OneWorker == {1}

TwoWorkers == {1, 2}

FirstTwo == 1..2

FirstThree == 1..3

NoProgress == {}

SomeProgress == {1}
=============================================================================
