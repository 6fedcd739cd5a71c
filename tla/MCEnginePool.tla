---------------------------- MODULE MCEnginePool ----------------------------
(* Three engines of different sizes; two models that overlap on one of     *)
(* them, so loads tie, differ as fractions, and compatibility matters.     *)
EXTENDS EnginePool

MCEngines == {1, 2, 3}

MCModels == {"sd", "xl"}

MCServes == [e \in MCEngines |-> IF e = 3 THEN {"xl"} ELSE {"sd", "xl"}]

MCMaxConcurrent == [e \in MCEngines |-> e]

MCFailureThreshold == [e \in MCEngines |-> IF e = 1 THEN 1 ELSE 2]
=============================================================================
