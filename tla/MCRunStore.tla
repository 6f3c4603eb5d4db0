----------------------------- MODULE MCRunStore -----------------------------
(* Instances of RunStore small enough to exhaust: two commands at once,    *)
(* each of them a reconciliation at start-up or a prune.                   *)
EXTENDS RunStore, TLC

CONSTANTS command1, command2

TwoCommands == {command1, command2}
CleanOrInvalid == {"clean", "invalid"}
Interchangeable == Permutations(TwoCommands)
=============================================================================
