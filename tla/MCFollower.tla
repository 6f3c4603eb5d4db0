----------------------------- MODULE MCFollower -----------------------------
(* Instances of Follower small enough to exhaust: a plain follower, a      *)
(* dashboard, or both, of a run that emits a few events past the buffer.   *)
EXTENDS Follower

CONSTANTS run, tel, plain, tui

TwoEmitters == {run, tel}
OnePlain == {plain}
OneDashboard == {tui}
Nobody == {}
=============================================================================
