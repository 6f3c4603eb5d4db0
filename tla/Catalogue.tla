------------------------------ MODULE Catalogue -------------------------------
(***************************************************************************)
(* What the build ships: the modules and their manifests (core/module.rs,  *)
(* modules/*.rs), the module set of each profile (modules/registry.rs),    *)
(* the reference anchors a metric is scored against (scoring/reference.rs) *)
(* and the preflight decision taken before a run starts (preflight.rs).    *)
(* Stability bounds are percentages and disk figures are MiB.              *)
(***************************************************************************)
EXTENDS Integers, Sequences, SequencesExt, TLC

-----------------------------------------------------------------------------
(* Manifests.  `bound` is stability_cv_bound, `safety` the position of the *)
(* safety class, `writes` max_bytes_written, `egress` whether the module   *)
(* declares network bytes, `wears` whether it declares a write volume.     *)

Observational        == 0
ComputeIntensive     == 1
WritesTemporaryFiles == 2
UsesNetwork          == 3
ProvisionsServices   == 4

Manifest(bound, safety, writes, egress, wears) ==
    [bound |-> bound, safety |-> safety, writes |-> writes,
     egress |-> egress, wears |-> wears]

CpuMixed        == Manifest(15, ComputeIntensive, 0, FALSE, FALSE)
MemoryBandwidth == Manifest(15, ComputeIntensive, 0, FALSE, FALSE)
StorageMixed    == Manifest(20, WritesTemporaryFiles, 2048, FALSE, TRUE)
NetworkTransfer == Manifest(30, UsesNetwork, 0, TRUE, FALSE)
WebStatic       == Manifest(20, ProvisionsServices, 0, FALSE, FALSE)
PhpRuntime      == Manifest(20, ProvisionsServices, 1, FALSE, FALSE)
NodeRuntime     == Manifest(20, ProvisionsServices, 1, FALSE, TRUE)
DatabaseOltp    == Manifest(15, ProvisionsServices, 0, TRUE, FALSE)
DatabaseCache   == Manifest(15, ProvisionsServices, 0, TRUE, FALSE)
WordpressSite   == Manifest(20, ProvisionsServices, 350, TRUE, FALSE)
DeploymentBuild == Manifest(20, ProvisionsServices, 72, TRUE, FALSE)

Builtin == [cpu |-> CpuMixed, memory |-> MemoryBandwidth,
            storage |-> StorageMixed, network |-> NetworkTransfer,
            web |-> WebStatic, php |-> PhpRuntime, node |-> NodeRuntime,
            oltp |-> DatabaseOltp, cache |-> DatabaseCache,
            wordpress |-> WordpressSite, deployment |-> DeploymentBuild]

ModuleIds == DOMAIN Builtin

-----------------------------------------------------------------------------
(* Profiles.                                                               *)

Core     == <<"cpu", "memory", "storage">>
Standard == Core \o <<"network", "web">>

ModulesForProfile ==
    [web       |-> <<"web", "php", "node">>,
     read_only |-> <<"cpu", "memory">>,
     quick     |-> Core,
     endurance |-> Core,
     standard  |-> Standard,
     custom    |-> Standard,
     deep      |-> Standard \o <<"php", "node", "oltp", "cache",
                                 "wordpress", "deployment">>]

Profiles == DOMAIN ModulesForProfile

IsStandard(profile) == profile \notin {"custom", "read_only"}
Cycles(profile)     == profile = "endurance"

-----------------------------------------------------------------------------
(* Anchors: the category each module's metrics are scored in.  The five    *)
(* path-latency metrics were anchored by the 0.1.0-dev model only.         *)

ComputeAnchors    == [m \in {"cpu"} |-> "Compute"]
MemoryAnchors     == [m \in {"memory"} |-> "Memory"]
StorageAnchors    == [m \in {"storage"} |-> "Storage"]
NetworkAnchors    == [m \in {"network"} |-> "Network"]
WebAnchors        == [m \in {"web", "php", "node", "wordpress"} |-> "Web"]
DatabaseAnchors   == [m \in {"oltp", "cache"} |-> "Database"]
DeploymentAnchors == [m \in {"deployment"} |-> "Deployment"]

CategoryOf == ComputeAnchors @@ MemoryAnchors @@ StorageAnchors @@ NetworkAnchors
              @@ WebAnchors @@ DatabaseAnchors @@ DeploymentAnchors

PathLatency == {"dns_resolve.mean", "tcp_connect.mean", "tcp_connect.jitter",
                "tls_handshake.mean", "ttfb.mean"}

Anchored(model, m, key) ==
    \/ key \notin PathLatency \/ m # "network"
    \/ model = "dbs/0.1.0-dev"

Required == {"Compute", "Memory", "Storage", "Network", "Web"}

\* The module named in the verdict when nothing filled a required category.
PlaceholderFor == [Compute |-> "cpu", Memory |-> "memory", Storage |-> "storage",
                   Network |-> "network", Web |-> "web"]

\* Percentages of each composite's weight.
CompositeWeights ==
    [wordpress_hosting |-> [Compute |-> 20, Storage |-> 20, Web |-> 30, Database |-> 25, Memory |-> 5],
     php_commerce      |-> [Compute |-> 25, Storage |-> 15, Web |-> 25, Database |-> 30, Memory |-> 5],
     node_nextjs       |-> [Compute |-> 40, Memory |-> 15, Web |-> 30, Storage |-> 10, Deployment |-> 5],
     database_server   |-> [Storage |-> 35, Database |-> 35, Memory |-> 20, Compute |-> 10],
     static_media      |-> [Network |-> 40, Storage |-> 30, Web |-> 20, Compute |-> 10],
     build_server      |-> [Compute |-> 45, Storage |-> 25, Memory |-> 20, Deployment |-> 10],
     general_vps       |-> [Compute |-> 30, Memory |-> 15, Storage |-> 25, Network |-> 15, Web |-> 15]]

-----------------------------------------------------------------------------
(* Preflight.  A host is what the inventory and the disk say of it: free   *)
(* scratch space (-1 unknown), load per CPU and the share of available     *)
(* memory the run would take (percentages), and whether it looks like a    *)
(* machine serving production, or one with any other condition that is     *)
(* only warned about (swap in use, container scope, CPU quota, governor).  *)

Host(free, load, share, production, odd) ==
    [free |-> free, load |-> load, share |-> share,
     production |-> production, odd |-> odd]

MinFree == 2048

\* A module asked for twice is counted twice.
Writes(plan) == MapThenSumSet(LAMBDA i : Builtin[plan[i]].writes, DOMAIN plan)
MaxSafety(plan) == Max({Observational} \union {Builtin[m].safety : m \in Range(plan)})

\* Mutant: only the reserve is asked for.
ReserveOnly(plan, host) == host.free >= 0 /\ host.free < MinFree

NoRoom(plan, host) ==
    IF host.free < 0 THEN Writes(plan) > 0 ELSE host.free < Writes(plan) + MinFree

NothingToRun(plan) == plan = <<>> \/ ~ Range(plan) \subseteq ModuleIds
Crowds(host)       == host.share > 60

Blocking(plan, host) == NothingToRun(plan) \/ NoRoom(plan, host) \/ Crowds(host)

Wears(plan)      == \E m \in Range(plan) : Builtin[m].wears
Sends(plan)      == \E m \in Range(plan) : Builtin[m].egress
Busy(host)       == host.load > 70
Holds(host)      == host.share > 10

Warned(repeats, plan, host) ==
    \/ repeats \/ Wears(plan) \/ Sends(plan)
    \/ Busy(host) \/ host.production \/ Holds(host) \/ host.odd

ProductionRisk(plan, host) ==
    \/ host.production /\ MaxSafety(plan) > Observational
    \/ host.load > 200

PreflightPasses(repeats, plan, host, force) ==
    /\ ~ Blocking(plan, host)
    /\ force \/ ~ Warned(repeats, plan, host) \/ ~ ProductionRisk(plan, host)

\* The fixture storage.mixed sizes for itself, an eighth of what is free.
FixtureFor(free) ==
    IF free <= 0 THEN 64
    ELSE IF free \div 8 < 64 THEN 64
    ELSE IF free \div 8 > 2048 THEN 2048 ELSE free \div 8

FixtureFits(free) == free >= 0 /\ FixtureFor(free) < free
=============================================================================
