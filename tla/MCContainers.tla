---------------------------- MODULE MCContainers -----------------------------
EXTENDS Containers, TLC

CONSTANTS cli, server

\* A command-line run of one module beside an agent that runs two.
TwoAgents == {cli, server}
Offered == cli :> {"cache"} @@ server :> {"oltp", "deployment", "wordpress"}
Bounds == cli :> 1 @@ server :> 2
=============================================================================
