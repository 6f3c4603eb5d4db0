------------------------------ MODULE Assessment ------------------------------
(***************************************************************************)
(* A run from the request for it to its verdicts.  `darcbench run` and     *)
(* create_run (main.rs, server.rs) make of the request a profile and a     *)
(* module set; RunManager::execute admits the run, walks the module set    *)
(* once or in cycles and finalises it: the results are scored, the bundle  *)
(* is validated and signed last (runner.rs).  Whoever receives the bundle  *)
(* validates it again, scoring its results anew (validate.rs).  In between *)
(* the card may come to say something else than the results do.            *)
(***************************************************************************)
EXTENDS Verdict

CONSTANTS Requests,   \* what an operator may ask for
          Hosts,      \* hosts it is started on
          MaxCycles,  \* bound: cycles an endurance run has time for
          MaxFaults   \* bound: per request and host, faults and cancellations

ASSUME AssessmentAssumption ==
    /\ \A q \in Requests : q.profile \in Profiles /\ q.modules \subseteq Seq(STRING)
    /\ \A h \in Hosts : h.free \in Int
    /\ MaxCycles \in Nat
    /\ MaxFaults \in [Requests \X Hosts -> Nat]

VARIABLES run,     \* the run as the manager sees it
          bundle,  \* the bundle, once sealed
          judged   \* what the receiver of the bundle made of it

vars == <<work, results, cancelled, since, faults, run, bundle, judged>>

-----------------------------------------------------------------------------
(* The request: a profile, at most one list of modules, at most one length. *)

EnduranceMinutes == 2 .. 1440

Refused(q) ==
    \/ \E n \in q.minutes : ~ Cycles(q.profile) \/ n \notin EnduranceMinutes
    \/ \E list \in q.modules : list = <<>> \/ ~ Range(list) \subseteq ModuleIds

\* The length of a cycling profile leaves it its modules, but not its name.
AsAsked(q) == q.modules = {} /\ q.minutes = {}

Started(q) ==
    [profile |-> IF AsAsked(q) THEN q.profile ELSE "custom",
     plan    |-> IF q.modules = {} THEN ModulesForProfile[q.profile]
                 ELSE CHOOSE list \in q.modules : TRUE,
     repeats |-> q.minutes # {} \/ (AsAsked(q) /\ Cycles(q.profile))]

Plan == run.plan

MinEnduranceCycles == 2

\* Neither finalised nor judged yet.
NoBundle == [state |-> "none"]

Init ==
    /\ \E q \in {r \in Requests : ~ Refused(r)}, host \in Hosts, force \in BOOLEAN :
           run = [profile |-> Started(q).profile, plan |-> Started(q).plan,
                  repeats |-> Started(q).repeats, asked |-> q, host |-> host, force |-> force,
                  phase |-> "preflight", next |-> 1, cycle |-> 0, state |-> "Preflight"]
    /\ work = Idle /\ results = <<>> /\ cancelled = FALSE /\ since = 0
    /\ faults = MaxFaults[<<run.asked, run.host>>]
    /\ bundle = NoBundle /\ judged = NoBundle

-----------------------------------------------------------------------------
(* The run.                                                                *)

Measuring == run.phase = "measuring"

Admit ==
    /\ run.phase = "preflight"
    /\ PreflightPasses(run.repeats, Plan, run.host, run.force)
    /\ run' = [run EXCEPT !.phase = "measuring", !.state = "Running"]
    /\ UNCHANGED <<work, results, cancelled, since, faults, bundle, judged>>

\* A run that is not admitted is finalised all the same, as failed.
Refuse ==
    /\ run.phase = "preflight"
    /\ ~ PreflightPasses(run.repeats, Plan, run.host, run.force)
    /\ run' = [run EXCEPT !.phase = "finalising", !.state = "Failed"]
    /\ UNCHANGED <<work, results, cancelled, since, faults, bundle, judged>>

BeginModule ==
    /\ Measuring /\ work = Idle /\ ~ cancelled /\ run.next <= Len(Plan)
    /\ work' = Entered(Plan[run.next], run.cycle)
    /\ run' = [run EXCEPT !.next = @ + 1]
    /\ UNCHANGED <<results, cancelled, since, faults, bundle, judged>>

InModule == Measuring /\ Measure /\ UNCHANGED <<run, bundle, judged>>

Cancel ==
    /\ Measuring /\ ~ cancelled /\ Costs(1)
    /\ cancelled' = TRUE
    /\ UNCHANGED <<work, results, since, run, bundle, judged>>

CycleOver == Measuring /\ work = Idle /\ (cancelled \/ run.next > Len(Plan))

\* Past the second cycle it depends on the time that is left.
AnotherCycle ==
    /\ CycleOver /\ run.repeats /\ ~ cancelled
    /\ run.cycle + 1 < MaxCycles
    /\ run' = [run EXCEPT !.cycle = @ + 1, !.next = 1]
    /\ UNCHANGED <<work, results, cancelled, since, faults, bundle, judged>>

Ends == cancelled \/ ~ run.repeats \/ run.cycle + 1 >= MinEnduranceCycles

FinishModules ==
    /\ CycleOver /\ Ends
    /\ run' = [run EXCEPT !.phase = "finalising",
                          !.state = IF cancelled THEN "Cancelled" ELSE "Completed"]
    /\ UNCHANGED <<work, results, cancelled, since, faults, bundle, judged>>

-----------------------------------------------------------------------------
(* The bundle.                                                             *)

\* The agent's verdict is taken, then everything is signed.
Sealed(build, whole, clock, signed) ==
    LET b == [state |-> run.state, profile |-> run.profile, build |-> build, schema |-> Schema,
              whole |-> whole, clock |-> clock, intact |-> signed, results |-> results,
              card |-> ScoreRun(CurrentModel, run.profile, results),
              verdict |-> NoBundle, altered |-> {}]
    IN  [b EXCEPT !.verdict = ValidateBundle(b, FALSE)]

Finalise ==
    /\ run.phase = "finalising"
    /\ \E build \in {"release", "debug"}, whole, clock, signed \in BOOLEAN :
         /\ Costs((IF build = "release" THEN 0 ELSE 1)
                  + Cardinality({i \in 1..3 : ~ <<whole, clock, signed>>[i]}))
         /\ bundle' = Sealed(build, whole, clock, signed)
    /\ run' = [run EXCEPT !.phase = "sealed"]
    /\ UNCHANGED <<work, results, cancelled, since, judged>>

\* Another reading of one field: nothing where there was something, or the like.
Otherwise(card, f) ==
    CASE f = "model"    -> "another"
      [] f = "profile"  -> IF card.profile = "custom" THEN "quick" ELSE "custom"
      [] f = "standard" -> ~ card.standard
      [] f = "flags"    -> card.flags + 1
      [] OTHER          -> {}

\* The card of an agent that scores differently, which signs what it says, or a
\* bundle that is no longer what was signed.
Misstate ==
    /\ run.phase = "sealed" /\ bundle.altered = {} /\ Costs(1)
    /\ \E f \in CardFields, signed \in BOOLEAN :
         /\ Otherwise(bundle.card, f) # bundle.card[f]
         /\ bundle' = [bundle EXCEPT !.card[f] = Otherwise(bundle.card, f),
                                     !.intact = @ /\ signed, !.altered = {f}]
    /\ UNCHANGED <<work, results, cancelled, since, run, judged>>

\* A bundle in a schema the receiver does not read.
Age ==
    /\ run.phase = "sealed" /\ bundle.altered = {} /\ Costs(1)
    /\ bundle' = [bundle EXCEPT !.schema = "older", !.altered = {"schema"}]
    /\ UNCHANGED <<work, results, cancelled, since, run, judged>>

Judge ==
    /\ run.phase = "sealed"
    /\ judged' = ValidateBundle(bundle, TRUE)
    /\ run' = [run EXCEPT !.phase = "judged"]
    /\ UNCHANGED <<work, results, cancelled, since, faults, bundle>>

Next ==
    \/ Admit \/ Refuse \/ BeginModule \/ InModule \/ Cancel \/ AnotherCycle
    \/ FinishModules \/ Finalise \/ Misstate \/ Age \/ Judge

Spec == Init /\ [][Next]_vars

-----------------------------------------------------------------------------
(* Invariants.                                                             *)

ResultOK(r) ==
    /\ r.mod \in Range(Plan) /\ r.cycle \in 0..run.cycle
    /\ r.status \in {"Completed", "Degraded", "Failed"}
    /\ r.told \subseteq Metrics(r.mod) /\ r.absent \subseteq Metrics(r.mod)

TypeOK ==
    /\ run.asked \in Requests /\ run.profile \in Profiles
    /\ run.host \in Hosts /\ run.force \in BOOLEAN
    /\ run.phase \in {"preflight", "measuring", "finalising", "sealed", "judged"}
    /\ run.state \in {"Preflight", "Running", "Completed", "Cancelled", "Failed"}
    /\ run.next \in 1..Len(Plan) + 1 /\ run.cycle \in Nat
    /\ work # Idle => /\ Measuring /\ work.mod \in Range(Plan)
                      /\ work.at \in 1..Len(Units(work.mod)) + 1
                      /\ work.stage \in {"call", "calibrate", "reps", "over"}
                      /\ work.reps \in 0..Total /\ work.shown \in Nat
    /\ \A i \in DOMAIN results : ResultOK(results[i])
    /\ cancelled \in BOOLEAN /\ since \in Nat /\ faults \in Nat
    /\ (bundle = NoBundle) <=> (run.phase \in {"preflight", "measuring", "finalising"})
    /\ (judged = NoBundle) <=> (run.phase # "judged")

\* What the code drops without a word: percentiles the tool's output did not
\* carry, the parts of a connection that was not made, and the image once a
\* build or a save has failed.
Unspoken == {"read.latency_estimated_p95", "write.latency_estimated_p95", "cache.speedup",
             "image.save", "image.load"} \union (PathLatency \ {"tcp_connect.mean"})

\* A module that returns has published every metric of its manifest, or has
\* said of the metric that it is missing and is degraded for it
\* (BENCHMARK-METHODOLOGY.md: a withheld metric is never silently absent), also
\* when one failure takes later measurements with it.
AbsentIsExplained ==
    TypeOK /\ \A i \in DOMAIN results : LET r == results[i] IN
        UsableResult(r) =>
            /\ r.absent \ r.told \subseteq Unspoken
            /\ r.told # {} => r.status = "Degraded"

\* The longest stretch of work between two looks at the cancellation token.
LongestBlindStretch == 4

\* The database and deployment modules ask nobody until they are done.
NeverLook == {"oltp", "cache", "deployment"}

\* ModuleReporter: "Modules must call `is_cancelled` between repetitions"
\* (core/module.rs).  A cancelled module goes on for a few unrepeated pieces of
\* work at the most, whichever loop of its it is in.
CancelIsSeen ==
    work # Idle /\ work.mod \notin NeverLook => since <= LongestBlindStretch

\* A run that is admitted leaves the host the room preflight reserves, counted
\* with the fixture storage.mixed sizes by itself later on; and a host that
\* looks like production is loaded only when that was asked for.
AdmittedHostIsSpared ==
    run.state \in {"Running", "Completed", "Cancelled"} =>
        LET others  == Range(Plan) \ {"storage"}
            fixture == IF "storage" \in Range(Plan) THEN FixtureFor(run.host.free) ELSE 0
        IN  /\ IF run.host.free < 0 THEN Writes(Plan) = 0
               ELSE run.host.free - fixture
                    - MapThenSumSet(LAMBDA m : Builtin[m].writes, others) >= MinFree
            /\ run.host.production /\ ~ run.force => MaxSafety(Plan) = Observational

\* A category a module filled in the last cycle that ran them all is in the
\* card, whatever went wrong in the other cycles, and from that cycle alone.
\* Retention compares what was measured early with what was measured late, never
\* a cycle with itself, and leaves out nothing that every whole cycle measured.
ScoredWholeCycle ==
    bundle # NoBundle =>
        LET full     == {c \in 0..run.cycle : Range(Plan) \subseteq ModulesIn(results, c)}
            In(c)    == MeasuredIn(results, {c})
            pairs    == {p \in full \X full : p[1] < p[2]}
            compared == UNION {s.metrics : s \in bundle.card.sustained}
        IN  full # {} /\ bundle.altered = {} =>
              /\ bundle.card.total = {mk \in In(Max(full)) : Anchored(CurrentModel, mk[1], mk[2])}
              /\ \A s \in bundle.card.sustained : s.scored = Max(full)
              /\ compared \subseteq UNION {In(p[1]) \intersect In(p[2]) : p \in pairs}
              /\ pairs # {} => \A mk \in In(Max(full)) \ compared : \E c \in full : mk \notin In(c)

\* Validated is the one state that ranks.  It says the run is whole: released
\* build, a standard profile asked for as it is, every module of every cycle
\* measured cleanly, the required categories filled, and nothing but jitter and
\* tails unsteady.
ValidatedIsEarned ==
    judged # NoBundle /\ judged.state = "Validated" =>
        /\ run.state = "Completed" /\ bundle.build = "release" /\ bundle.whole /\ bundle.clock
        /\ AsAsked(run.asked) /\ IsStandard(run.asked.profile)
        /\ Plan = ModulesForProfile[run.asked.profile]
        /\ \A m \in Range(Plan), c \in 0..run.cycle :
              \E i \in DOMAIN results : results[i].mod = m /\ results[i].cycle = c
        /\ \A i \in DOMAIN results : LET r == results[i] IN
              /\ r.status = "Completed" /\ r.absent \subseteq Unspoken
              /\ \A w \in r.wide : IsUnstable(w[2], MaxAcceptableCv) =>
                    w[1] \in {"tcp_connect.jitter", "latency_read_4k.p99", "latency_write_4k.p99"}
        /\ Required \subseteq {CategoryOf[m] : m \in Range(Plan)}

\* Agent and server apply one rule set: a bundle nobody touched is judged as
\* its agent judged it, but for the state a server alone can award, and one
\* whose card or signature does not hold is rejected whichever field it is.
ServerAgreesOrRejects ==
    judged # NoBundle =>
        IF bundle.altered = {} /\ bundle.intact
        THEN /\ judged.reasons = bundle.verdict.reasons
             /\ judged.state = IF bundle.verdict.state = "Local" THEN "Validated"
                               ELSE bundle.verdict.state
        ELSE judged.state = "Invalid"

\* network_transfer.rs says of the path metrics that they are "neither scored
\* nor allowed to degrade a run".
PathLatencyNeverDegrades ==
    bundle # NoBundle /\ bundle.verdict.state = "Partial" =>
        \/ bundle.build # "release" \/ ~ bundle.whole
        \/ bundle.card.missing # {}
        \/ \E i \in DOMAIN results : LET r == results[i] IN
              r.status # "Completed" \/ \E w \in r.wide : w[1] \notin PathLatency

-----------------------------------------------------------------------------
(* What a step may never do.                                               *)

\* The progress a module shows does not fall back, and never passes its end,
\* also when some of its measurements are withheld.
ProgressNeverFallsBack ==
    [][work # Idle /\ work' # Idle /\ work'.mod = work.mod /\ work'.cycle = work.cycle =>
         /\ work'.shown >= work.shown
         /\ work'.shown <=
              Total * Cardinality({i \in Sampled(work.mod) : Units(work.mod)[i].op = "reps"})]_vars

=============================================================================
