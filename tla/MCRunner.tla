------------------------------ MODULE MCRunner ------------------------------
(* Instances of Runner small enough to exhaust: a run of one pass and an   *)
(* endurance run, each chosen in the initial state.                        *)
EXTENDS Runner

Quick == [modules |-> 2, repeats |-> FALSE, samples |-> 1]
Endurance == [modules |-> 1, repeats |-> TRUE, samples |-> 0]

QuickAndEndurance == {Quick, Endurance}
OnlyQuick == {Quick}
=============================================================================
