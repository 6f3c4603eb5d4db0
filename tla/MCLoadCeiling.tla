--------------------------- MODULE MCLoadCeiling ----------------------------
(* Instances of LoadCeiling: a machine of one's own, without and with a    *)
(* module whose workload runs in a container; one shared through a CPU     *)
(* quota that no label gives away, and a container.                        *)
EXTENDS LoadCeiling

Host(scope, limit, outside) ==
    [scope |-> scope, limit |-> limit, cpus |-> 4, outside |-> outside]

BareMetal == Host("bare_metal", None, {})
SecondOutside == Host("bare_metal", None, {2})
Quota == Host("bare_metal", 2, {})
FullQuota == Host("bare_metal", 4, {})
Container == Host("container", None, {2})

AllHosts == {BareMetal, SecondOutside, Quota, FullQuota, Container}
TheContainerised == {SecondOutside}
=============================================================================
