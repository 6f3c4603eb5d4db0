--------------------------- MODULE MCRunRegistry ----------------------------
(* Instances of RunRegistry small enough to exhaust.                       *)
EXTENDS RunRegistry

CONSTANTS q1

OneRequest == {q1}
=============================================================================
