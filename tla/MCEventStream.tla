--------------------------- MODULE MCEventStream ----------------------------
(* Instances of EventStream, and of the page on top of it, small enough to *)
(* exhaust.                                                                *)
EXTENDS RunStream

CONSTANTS run, tel, c1

TwoEmitters == {run, tel}
OneClient == {c1}
=============================================================================
