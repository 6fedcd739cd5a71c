-------------------------- MODULE MCEngineAdapter --------------------------
(* Two fibers call two engines, one of them of a provider without adapter. *)
EXTENDS EngineAdapter, TLC

CallersAlike == Permutations(Callers)

TwoInstances == {1, 2}

OneRegistered == {1}

TwoIdentifiers == {1, 2}
=============================================================================
