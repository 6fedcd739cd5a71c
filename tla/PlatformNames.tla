--------------------------- MODULE PlatformNames ----------------------------
(* The identifiers the job table and the engine pool both speak about.     *)
EXTENDS Integers, FiniteSets

CONSTANTS
  Engines,    \* config.engines, by id: numbers in the order of the ids
  None        \* a NULL column, an Option.none

ASSUME NamesAssumption ==
  /\ Engines \subseteq Nat
  /\ IsFiniteSet(Engines)   \* an array of the configuration
  /\ None \notin Nat
=============================================================================
