----------------------------- MODULE Measurement ------------------------------
(***************************************************************************)
(* One module measuring (the `run` of each file under core/ and modules/,  *)
(* over the loops of core/harness.rs), and the result the runner makes of  *)
(* what it returned.  A module is a table of units.  A unit either calls   *)
(* something once, or repeats a workload; it ends with metrics published,  *)
(* withheld with a warning, withheld without one, or by failing the whole  *)
(* module.  The machine below walks the tables; a cancellation is seen     *)
(* only where the code looks.                                              *)
(***************************************************************************)
EXTENDS Catalogue

CONSTANTS Sample,    \* bound: per module, the metrics whose units are walked
          Warmups,   \* bound: warm-up repetitions
          Measured,  \* bound: measured repetitions
          Usable,    \* repetitions a metric is published from
          Spreads    \* unsteady distributions, [cv, mad] in percent

ASSUME MeasurementAssumption ==
    /\ Warmups \in Nat /\ Measured \in Nat \ {0} /\ Usable \in 1..Measured
    /\ \A s \in Spreads : s.cv \in Nat /\ s.mad \in Nat

VARIABLES work,       \* the module running: its place, and what it has so far
          results,    \* module results of the run, in order
          cancelled,  \* the run has been asked to stop
          since,      \* history: pieces of work this module began after that
          faults      \* faults and cancellations left

-----------------------------------------------------------------------------
(* How a unit ends: metrics absent, metrics a warning accounts for, codes  *)
(* raised, later units that are then skipped, whether the module fails.    *)
(* A warning accounts for what its message speaks of, all the metrics of   *)
(* the command; its metric_key names the first of them only.               *)

End(absent, told, codes, drops, fails) ==
    [absent |-> absent, told |-> told, codes |-> codes, drops |-> drops, fails |-> fails]

Published      == End({}, {}, {}, {}, FALSE)
Fails          == End({}, {}, {}, {}, TRUE)
Flagged(code)  == End({}, {}, {code}, {}, FALSE)
Withheld(keys) == End(keys, keys, {"ValidationFailed"}, {}, FALSE)
Silently(keys) == End(keys, {}, {}, {}, FALSE)

\* A measured repetition under MIN_REP_MS is kept and flagged.
TooShort == Flagged("ValidationFailed")

(* A unit: `of` names it, `keys` are its metrics, `poll` whether it looks  *)
(* at the cancel flag first, `early` how its calibration may go wrong,     *)
(* `bad` what a failed repetition leads to, `odd` its other ends.          *)

Command(of, keys, poll, odd) ==
    [op |-> "command", of |-> of, keys |-> keys, poll |-> poll, probe |-> FALSE,
     early |-> {}, bad |-> "never", many |-> FALSE, odd |-> odd]

Reps(of, keys, probe, early, bad, odd) ==
    [op |-> "reps", of |-> of, keys |-> keys, poll |-> TRUE, probe |-> probe,
     early |-> early, bad |-> bad, many |-> TRUE, odd |-> odd \union {TooShort}]

Distribution(key, poll, odd) == [Command(key, {key}, poll, odd) EXCEPT !.many = TRUE]

Gate            == Command("gate", {}, FALSE, {Fails})
PolledGate      == Command("gate", {}, TRUE, {Fails})
Condition(code) == Command("gate", {}, FALSE, {Flagged(code)})

Each(keys, unit(_)) == [i \in DOMAIN keys |-> unit(keys[i])]

-----------------------------------------------------------------------------
(* The tables.                                                             *)

Kernel(key) == Reps(key, {key}, TRUE, {}, "never", {})

CpuMetrics ==
    <<"crypto_sha256.single", "crypto_sha256.multi",
      "compress_deflate.single", "compress_deflate.multi",
      "json_roundtrip.single", "json_roundtrip.multi",
      "integer_sort.single", "integer_sort.multi",
      "float_matmul.single", "float_matmul.multi">>

CpuUnits == Each(CpuMetrics, Kernel)

\* Plan::for_machine: no cache topology to size the working set by, or too little
\* memory for it.
CacheSizeAssumed   == Condition("ValidationFailed")
WorkingSetTooSmall == Condition("MemoryPressure")

MemoryMetrics ==
    <<"sequential_read.single", "sequential_read.multi",
      "sequential_write.single", "sequential_write.multi",
      "sequential_copy.single", "sequential_copy.multi",
      "triad.single", "triad.multi", "random_read.single", "random_read.multi",
      "cache_read.single", "cache_read.multi", "latency_random.single">>

\* One way of walking a working set prepared before anything is timed.
Walk(key) == Kernel(key)

MemoryUnits == <<CacheSizeAssumed, WorkingSetTooSmall>> \o Each(MemoryMetrics, Walk)

\* No scratch directory or no room in it; then the fixture is made and filled, on
\* a file system that may refuse direct I/O.
PlanFits      == Gate
CreateFixture == PolledGate
PageCacheOnly == Condition("ValidationFailed")

\* A write that slows down over its repetitions is flagged, a percentile of too
\* few operations is withheld.
SlowsDown      == Flagged("ValidationFailed")
ThinTail(tail) == Withheld(tail)

\* The device settles before a workload is calibrated.
Settle(key) == Command(key, {}, TRUE, {Fails})

\* A failed operation fails the module, after the loop it happened in.
Operations(key, tail, writes) ==
    Reps(key, {key} \union tail, TRUE, {Fails}, "fails",
         (IF writes THEN {SlowsDown} ELSE {})
         \union (IF tail # {} THEN {ThinTail(tail)} ELSE {}))

Io(key, tail, writes) == <<Settle(key), Operations(key, tail, writes)>>

StorageUnits ==
    <<PlanFits, CreateFixture, PageCacheOnly>>
    \o Io("sequential_read.qd1", {}, FALSE)  \o Io("sequential_write.qd1", {}, TRUE)
    \o Io("random_read_4k.qd1", {"latency_read_4k.p99"}, FALSE)
    \o Io("random_read_4k.qd16", {}, FALSE)
    \o Io("random_write_4k.qd1", {"latency_write_4k.p99"}, TRUE)
    \o Io("random_write_4k.qd16", {}, TRUE)  \o Io("random_mixed_4k.qd16", {}, TRUE)
    \o Io("latency_fsync.mean", {}, TRUE)

\* An endpoint of the compiled-in list that answers.
ChooseEndpoint == Gate

\* One connection per repetition; a phase it did not get to has no sample, and
\* one of too few samples is left out without a word.
PhaseMissed(key) == Silently({key})

PathPhases ==
    Reps("tcp_connect.mean", PathLatency, FALSE, {}, "short",
         {PhaseMissed(k) : k \in PathLatency \ {"tcp_connect.mean"}})

\* Mutant: what the budget left no room for is not mentioned.
DownloadAlone(key, rest) ==
    Reps(key, {key}, TRUE, {End({key} \union rest, {key}, {"ValidationFailed"}, rest, FALSE)},
         "withheld", {})

\* The transfer budget is reserved from once per download, before its
\* repetitions; once spent it stays spent.
BudgetSpent(key, rest) == [Withheld({key} \union rest) EXCEPT !.drops = rest]

Download(key, rest) == Reps(key, {key}, TRUE, {BudgetSpent(key, rest)}, "withheld", {})

NetworkUnits ==
    <<ChooseEndpoint, PathPhases,
      Download("download.single", {"download.multi"}), Download("download.multi", {})>>

\* The origin is bound and its certificate made.
OriginStarts == Gate

\* Without any small-object capacity there is no rate to offer a latency phase.
LatencyKeys == {"latency.small_mean", "latency.small_p99"}
NoCapacity  == LET k == {"requests.small_keepalive"} \union LatencyKeys
               IN  [Withheld(k) EXCEPT !.drops = {"latency.small_mean"}]

Shape(key) ==
    Reps(key, {key}, FALSE, {}, "withheld",
         IF key = "requests.small_keepalive" THEN {NoCapacity} ELSE {})

ShapeKeys == <<"requests.small_keepalive", "connections.plaintext", "connections.tls",
               "throughput.medium", "throughput.large">>

\* Offered at a fixed share of the capacity; the generator may not keep it up.
SmallLatency ==
    <<Command("latency.small_mean", {}, TRUE, {}),
      Reps("latency.small_mean", LatencyKeys, FALSE, {}, "withheld",
           {Flagged("GeneratorSaturated")})>>

WebUnits == <<OriginStarts>> \o Each(ShapeKeys, Shape) \o SmallLatency

\* A candidate that exists and that only root could have changed; the workload
\* written beside nothing else; what the interpreter says of itself; and a build
\* nobody serves sites from.
FindInterpreter == Gate
WriteScript     == Gate
Describe        == Gate
UnusualBuild    == Condition("ValidationFailed")
Interpreter     == <<FindInterpreter, WriteScript, Describe, UnusualBuild>>

\* A checksum that moves withholds the metric.
Script(key)  == Reps(key, {key}, TRUE, {Fails}, "voided", {Withheld({key})})
Startup(key) == Reps(key, {key}, FALSE, {}, "withheld", {})

PhpWorkloads  == <<"json.encode", "json.decode", "array.ops", "template.render",
                   "hash.sha256", "hash.password">>
NodeWorkloads == <<"json.stringify", "json.parse", "ssr.render", "crypto.hash",
                   "async.fileio", "module.load">>

PhpUnits  == Interpreter \o Each(PhpWorkloads, Script) \o <<Startup("startup.cold")>>
NodeUnits == Interpreter \o Each(NodeWorkloads, Script) \o <<Startup("startup.cold")>>

\* The container modules: standing the stack up is one gate here.
ServerServes == Gate
BuildDataset == Gate

\* No transactions, or clients lost on the way; no deviation to estimate from.
NotCredible(keys) == Withheld(keys)
NoDeviation(p95)  == Silently({p95})

Throughput(key) == Command(key, {key}, FALSE, {Fails, NotCredible({key})})

OltpLatency(mean, p95) ==
    Command(mean, {mean, p95}, FALSE,
            {Fails, NotCredible({mean, p95}), NoDeviation(p95), Flagged("GeneratorSaturated")})

OltpUnits ==
    <<ServerServes, BuildDataset, Throughput("read.tps"), Throughput("write.tps"),
      OltpLatency("read.latency_mean", "read.latency_estimated_p95"),
      OltpLatency("write.latency_mean", "write.latency_estimated_p95")>>

CacheShapes == <<"get.throughput", "set.throughput", "incr.throughput", "pipelined.throughput">>

\* The phase printed no row of its own, or none with a rate.
NoRow(key)      == Withheld({key})
CacheShape(key) == Command(key, {key}, FALSE, {Fails, NoRow(key)})

RoundTripKeys == {"roundtrip.unloaded_mean", "roundtrip.unloaded_max"}
RoundTrip == Command("roundtrip.unloaded_mean", RoundTripKeys, FALSE, {Withheld(RoundTripKeys)})

CacheUnits == <<ServerServes>> \o Each(CacheShapes, CacheShape) \o <<RoundTrip>>

\* The image is written out only if the first build worked, and read back only
\* if it was written: neither absence is mentioned.
Builds == {"build.uncached", "build.cached", "cache.speedup"}
Images == {"image.save", "image.load"}

BuildTwice ==
    Command("build.uncached", Builds, FALSE,
            {Withheld(Builds), Withheld({"cache.speedup"}), Silently({"cache.speedup"}),
             End(Builds \union Images, Builds, {"ValidationFailed"}, {"image.save"}, FALSE)})

SaveAndLoad == Command("image.save", Images, FALSE, {Silently(Images), Silently({"image.load"})})

\* Fewer than half of the containers started, or answered.
TooFewStarted(keys) == Withheld(keys)

Startups ==
    LET all == {"startup.cold", "health.to_serving"}
    IN  [Command("startup.cold", all, FALSE, {TooFewStarted(k) : k \in SUBSET all \ {{}}})
         EXCEPT !.many = TRUE]

WriteContext == Gate

DeploymentUnits == <<Gate, WriteContext, BuildTwice, SaveAndLoad, Startups>>

\* The site is set up and filled before it is asked for anything.  Its first
\* answer is timed, and must show what was imported; then every page once more
\* to warm it; the page and an archive, timed; the dashboard behind a log-in;
\* the capacity.
StackComesUp  == Gate
InstallSite   == Gate
ImportFixture == Gate
NotTheFixture == Fails

ColdRequest == Command("origin.cold", {"origin.cold"}, FALSE, {NotTheFixture})
WarmUp      == Command("gate", {}, TRUE, {})
Page(key)   == Distribution(key, TRUE, {Withheld({key})})
Dashboard   == Page("admin.dashboard")
Capacity    == Command("origin.capacity", {"origin.capacity"}, TRUE,
                       {Withheld({"origin.capacity"})})

WordpressUnits ==
    <<StackComesUp, InstallSite, ImportFixture, ColdRequest, WarmUp, Page("origin.warm"), Page("database.archive"), Dashboard,
      Capacity>>

AllUnits ==
    [cpu |-> CpuUnits, memory |-> MemoryUnits, storage |-> StorageUnits,
     network |-> NetworkUnits, web |-> WebUnits, php |-> PhpUnits, node |-> NodeUnits,
     oltp |-> OltpUnits, cache |-> CacheUnits, wordpress |-> WordpressUnits,
     deployment |-> DeploymentUnits]

Units(m)   == AllUnits[m]
Sampled(m) == {i \in DOMAIN Units(m) : Units(m)[i].of \in Sample[m] \union {"gate"}}

\* What the module publishes, and of that what is walked here.
Metrics(m) == UNION {u.keys : u \in Range(Units(m))}
Keys(m)    ==
    UNION {u.keys : u \in {x \in Range(Units(m)) : x.of \in Sample[m] \union {"gate"}}}

-----------------------------------------------------------------------------
(* The machine.                                                            *)

\* No module is running.
Idle == [stage |-> "idle"]

Total == Warmups + Measured

Stage(u) == IF u.op = "command" THEN "call" ELSE IF u.probe THEN "calibrate" ELSE "reps"

\* The module stands before unit i, or past its last one.
Before(w, i) ==
    [w EXCEPT !.at = i, !.reps = 0, !.bad = 0,
              !.stage = IF i > Len(Units(w.mod)) THEN "over" ELSE Stage(Units(w.mod)[i])]

NextUnit(w) ==
    LET later == {i \in Sampled(w.mod) : i > w.at /\ Units(w.mod)[i].of \notin w.dropped}
    IN  IF later = {} THEN Len(Units(w.mod)) + 1 ELSE CHOOSE i \in later : \A j \in later : i <= j

Entered(m, cycle) ==
    LET w == [mod |-> m, cycle |-> cycle, at |-> 0, stage |-> "over", reps |-> 0, bad |-> 0,
              completed |-> 0, shown |-> 0, absent |-> {}, told |-> {}, wide |-> {},
              codes |-> {}, dropped |-> {}]
    IN  Before(w, NextUnit(w))

Unit == Units(work.mod)[work.at]

\* Mutant: the loops of the harness do not ask.
LooksOutsideLoops == Unit.poll /\ Unit.op = "command"

Looks == Unit.poll

\* The flag is looked at here and found clear, or is not looked at here.
GoesOn ==
    /\ ~ (cancelled /\ Looks)
    /\ since' = IF cancelled THEN since + 1 ELSE 0

Costs(n) == faults >= n /\ faults' = faults - n

Result(status, w, contention) ==
    [mod |-> w.mod, cycle |-> w.cycle, status |-> status,
     absent |-> w.absent, told |-> w.told, wide |-> w.wide,
     codes |-> w.codes \union contention]

\* Variation of these two kinds is no evidence about the machine.
MeasuresDispersion == {"tcp_connect.jitter"}
TailQuantile       == {"latency_read_4k.p99", "latency_write_4k.p99"}

IsUnstable(spread, bound) == spread.cv > bound /\ spread.mad > bound

\* A module sweeps what it publishes for instability; web.static asks the
\* coefficient of variation alone.
Swept(m) == IF m = "network" THEN Keys(m) \ PathLatency ELSE Keys(m) \ TailQuantile

HighVariance(m, key, spread) ==
    /\ key \in Swept(m)
    /\ IF m = "web" THEN spread.cv > Builtin[m].bound ELSE IsUnstable(spread, Builtin[m].bound)

\* The watchdog is suspended while the workload runs outside this process.
Outside == {"oltp", "cache", "wordpress", "deployment"}

\* The load ceiling's verdict on the window of the module that just ended.
Contention(m) == IF m \in Outside THEN {{}} ELSE {{}, {"ExternalLoad"}}

\* Mutant: only a unit without a failed repetition counts.
CompletesUnhurt(w) == IF w.stage = "reps" /\ w.bad = 0 THEN w.completed + 1 ELSE w.completed

\* A unit that reached its repetitions counts as completed, published or not.
Completes(w) == IF w.stage = "reps" THEN w.completed + 1 ELSE w.completed

Concluded(w, e, wide) ==
    LET past == [w EXCEPT !.absent = @ \union e.absent, !.told = @ \union e.told,
                          !.dropped = @ \union e.drops, !.wide = @ \union wide,
                          !.completed = Completes(w),
                          !.codes = @ \union e.codes \union
                              {"HighVariance" : v \in {v \in wide : HighVariance(w.mod, v[1], v[2])}}]
    IN  Before(past, NextUnit(past))

Conclude(e, wide) ==
    IF e.fails
    THEN /\ work' = Idle
         /\ \E contention \in Contention(work.mod) :
              results' = Append(results,
                  Result("Failed", Entered(work.mod, work.cycle), contention))
    ELSE /\ work' = Concluded(work, e, wide)
         /\ UNCHANGED results

\* What the repetitions amount to, before anything else goes wrong.
Usual(u, w) ==
    IF w.bad = 0 THEN Published
    ELSE IF u.bad = "fails" THEN Fails
    ELSE IF Measured - w.bad < Usable
         THEN IF u.bad = "short" THEN Fails ELSE Withheld(u.keys)
    ELSE IF u.bad = "voided" THEN TooShort ELSE Published

\* One published metric of the unit may have varied.
Wide(u, e) ==
    {{}} \union (IF u.many THEN {{<<k, s>>} : k \in u.keys \ e.absent, s \in Spreads} ELSE {})

EndUnit(usual) ==
    \E e \in {usual} \union (IF usual = Published THEN Unit.odd ELSE {}) :
      \E wide \in (IF e.fails THEN {{}} ELSE Wide(Unit, e)) :
        /\ Costs((IF e = usual THEN 0 ELSE 1) + (IF wide = {} THEN 0 ELSE 1))
        /\ Conclude(e, wide)

-----------------------------------------------------------------------------
(* Steps of the module.                                                    *)

Running == work # Idle /\ work.stage # "over"

Call ==
    /\ Running /\ work.stage = "call"
    /\ GoesOn
    /\ EndUnit(Published)
    /\ UNCHANGED cancelled

Calibrate ==
    /\ Running /\ work.stage = "calibrate"
    /\ GoesOn
    /\ \/ /\ work' = [work EXCEPT !.stage = "reps"]
          /\ UNCHANGED <<results, faults>>
       \/ \E e \in Unit.early : Costs(1) /\ Conclude(e, {})
    /\ UNCHANGED cancelled

\* Progress is shown after each repetition, in repetitions of the whole module.
Repeat ==
    /\ Running /\ work.stage = "reps" /\ work.reps < Total
    /\ GoesOn
    /\ \E failed \in IF Unit.bad = "never" THEN {FALSE} ELSE BOOLEAN :
         /\ Costs(IF failed THEN 1 ELSE 0)
         /\ work' = [work EXCEPT
              !.reps = @ + 1,
              !.shown = work.completed * Total + work.reps + 1,
              !.bad = IF failed /\ (work.reps >= Warmups \/ Unit.bad = "fails")
                      THEN @ + 1 ELSE @]
    /\ UNCHANGED <<results, cancelled>>

CloseUnit ==
    /\ Running /\ work.stage = "reps" /\ work.reps = Total
    /\ EndUnit(Usual(Unit, work))
    /\ UNCHANGED <<cancelled, since>>

\* ModuleError::Cancelled: no result, and the runner's loop ends.
GiveUp ==
    /\ Running /\ cancelled /\ Looks
    /\ ~ (work.stage = "reps" /\ work.reps = Total)
    /\ work' = Idle /\ since' = 0
    /\ UNCHANGED <<results, cancelled, faults>>

Degrading == {"HighVariance", "ValidationFailed", "MemoryPressure", "ThermalThrottle",
              "ExternalLoad", "GeneratorSaturated"}

StatusOf(codes) == IF codes \intersect Degrading # {} THEN "Degraded" ELSE "Completed"

Return ==
    /\ work # Idle /\ work.stage = "over"
    /\ \E contention \in Contention(work.mod) :
         /\ Costs(Cardinality(contention))
         /\ results' = Append(results,
                Result(StatusOf(work.codes \union contention), work, contention))
    /\ work' = Idle /\ since' = 0
    /\ UNCHANGED cancelled

Measure == Call \/ Calibrate \/ Repeat \/ CloseUnit \/ GiveUp \/ Return

-----------------------------------------------------------------------------
UsableResult(r) == r.status \in {"Completed", "Degraded"}
Present(r) == IF UsableResult(r) THEN Keys(r.mod) \ r.absent ELSE {}
=============================================================================
