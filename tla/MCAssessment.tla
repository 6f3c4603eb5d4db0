----------------------------- MODULE MCAssessment -----------------------------
EXTENDS Assessment

\* Per module the units where something particular can happen.
Walked ==
    [cpu        |-> {"crypto_sha256.single", "float_matmul.multi"},
     memory     |-> {"triad.multi", "latency_random.single"},
     storage    |-> {"sequential_write.qd1", "random_read_4k.qd1"},
     network    |-> {"tcp_connect.mean", "download.single", "download.multi"},
     web        |-> {"requests.small_keepalive", "latency.small_mean"},
     php        |-> {"json.encode", "startup.cold"},
     node       |-> {"ssr.render", "startup.cold"},
     oltp       |-> {"read.tps", "read.latency_mean"},
     cache      |-> {"get.throughput", "roundtrip.unloaded_mean"},
     wordpress  |-> {"origin.cold", "origin.warm", "origin.capacity"},
     deployment |-> {"build.uncached", "image.save", "startup.cold"}]

\* A wide tail around a steady middle, unsteady for a module, unsteady for the
\* verdict.
Unsteady == {[cv |-> 60, mad |-> 4], [cv |-> 22, mad |-> 22], [cv |-> 28, mad |-> 28]}

Roomy      == Host(20000, 10, 5, FALSE, FALSE)
Tight      == Host(4200, 10, 5, FALSE, FALSE)
Production == Host(20000, 80, 5, TRUE, TRUE)
SomeHosts  == {Roomy, Tight, Production, Host(-1, 10, 5, FALSE, FALSE)}

Plain(p)         == [profile |-> p, modules |-> {}, minutes |-> {}]
Picked(p, list)  == [Plain(p) EXCEPT !.modules = {list}]
Lasting(p, n)    == [Plain(p) EXCEPT !.minutes = {n}]

\* One module over and over, so that a cycle can be whole and measure little.
OverAndOver == [profile |-> "endurance", modules |-> {<<"network">>}, minutes |-> {30}]

\* Every profile; the modules of one by hand, one module twice, a shorter
\* endurance run; and what is refused.
SomeRequests == {Plain(p) : p \in Profiles}
    \union {Picked("standard", ModulesForProfile["standard"]), Picked("quick", <<"cpu", "cpu">>),
            Lasting("endurance", 30), OverAndOver}
    \union {Lasting("quick", 30), Lasting("endurance", 1), Picked("quick", <<>>),
            Picked("quick", <<"none">>)}

\* Faults on the roomy host; the others are there for what preflight says of them.
Bound == [q \in SomeRequests, h \in SomeHosts |->
             IF h # Roomy \/ ~ (AsAsked(q) \/ q = OverAndOver) THEN 0
             ELSE IF q.profile \in {"quick", "read_only", "endurance"} /\ AsAsked(q) THEN 2 ELSE 1]

OneHost      == {Roomy}
StandardOnly == {Plain("standard")}
OneFault     == [q \in StandardOnly, h \in OneHost |-> 1]
=============================================================================
