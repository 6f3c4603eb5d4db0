------------------------------- MODULE Verdict --------------------------------
(***************************************************************************)
(* The pure rules that turn module results into a score card               *)
(* (scoring/model.rs, scoring/sustained.rs) and a bundle into a verdict    *)
(* (report/validate.rs).  Both are run twice, by the agent that measured   *)
(* and by the server that recomputes.  A score is a function of the        *)
(* metrics it is computed from, so it is represented by them.              *)
(***************************************************************************)
EXTENDS Measurement

CurrentModel == "dbs/0.2.0-dev"
KnownModels  == {CurrentModel, "dbs/0.1.0-dev"}

-----------------------------------------------------------------------------
(* Cycles.                                                                 *)

Working(rs) == {i \in DOMAIN rs : UsableResult(rs[i])}

ModulesIn(rs, c) == {rs[i].mod : i \in {j \in Working(rs) : rs[j].cycle = c}}

\* Mutant: complete is what holds the modules the first cycle managed.
ExpectedOfFirst(rs) == ModulesIn(rs, 0)

\* Every module that worked in some cycle worked in this one.
Expected(rs)       == {rs[i].mod : i \in Working(rs)}
CompleteCycles(rs) == {c \in {rs[i].cycle : i \in Working(rs)} : ModulesIn(rs, c) = Expected(rs)}

ScoringCycle(rs) == IF CompleteCycles(rs) = {} THEN 0 ELSE Max(CompleteCycles(rs))

Least(S, n)    == {c \in S : Cardinality({d \in S : d < c}) < n}
Greatest(S, n) == {c \in S : Cardinality({d \in S : d > c}) < n}

MeasuredIn(rs, cycles) ==
    UNION {{rs[i].mod} \X Present(rs[i]) : i \in {j \in Working(rs) : rs[j].cycle \in cycles}}

\* Retention compares the last third of the complete cycles with the first.
MinCyclesForRetention == 2

Analyse(rs) ==
    LET cycles  == CompleteCycles(rs)
        window  == Max({1, Cardinality(cycles) \div 3})
        opening == Least(cycles, window)
        closing == Greatest(cycles, window)
        both    == MeasuredIn(rs, opening) \intersect MeasuredIn(rs, closing)
    IN  IF Cardinality(cycles) < MinCyclesForRetention \/ both = {} THEN {}
        ELSE {[cycles |-> Cardinality(cycles), scored |-> Max(cycles), metrics |-> both]}

-----------------------------------------------------------------------------
(* The score card.                                                         *)

Scored(model, rs) ==
    {mk \in MeasuredIn(rs, {ScoringCycle(rs)}) : Anchored(model, mk[1], mk[2])}

CategoriesOf(scored) == {CategoryOf[mk[1]] : mk \in scored}

\* What the stability index comes from: the variation of the metrics of the
\* scored cycle, and the warnings that are about the machine.
Flags == {"HighVariance", "StealTimeObserved", "ThermalThrottle", "FrequencyDrop", "ExternalLoad"}

Current(rs)   == {i \in Working(rs) : rs[i].cycle = ScoringCycle(rs)}
Variation(rs) == UNION {{<<rs[i].mod, w[1], w[2]>> : w \in rs[i].wide} : i \in Current(rs)}
FlagCount(rs) == MapThenSumSet(LAMBDA i : Cardinality(rs[i].codes \intersect Flags), Current(rs))

\* A composite needs 60% of its weight.
Covered(weights, cats) == MapThenSumSet(LAMBDA c : weights[c], DOMAIN weights \intersect cats)
Composites(cats) == {c \in DOMAIN CompositeWeights : Covered(CompositeWeights[c], cats) >= 60}

ScoreRun(model, profile, rs) ==
    LET scored == Scored(model, rs)
        cats   == CategoriesOf(scored)
    IN  [model        |-> model,
         profile      |-> profile,
         total        |-> scored,
         standard     |-> Required \subseteq cats /\ IsStandard(profile),
         categories   |-> {<<CategoryOf[mk[1]], mk[1]>> : mk \in scored},
         composites   |-> Composites(cats),
         variation    |-> Variation(rs),
         flags        |-> FlagCount(rs),
         missing      |-> Required \ cats,
         unreferenced |-> MeasuredIn(rs, {ScoringCycle(rs)}) \ scored,
         sustained    |-> Analyse(rs)]

\* scores_match goes through the card group by group.
ContextFields   == {"model", "profile"}
TotalFields     == {"total", "standard"}
StabilityFields == {"variation", "flags"}
ListFields      == {"categories", "composites"}
AbsenceFields   == {"missing", "unreferenced"}
CardFields      == ContextFields \union TotalFields \union StabilityFields \union ListFields
                   \union AbsenceFields \union {"sustained"}

\* Mutant: the sustained outcome is not compared.
ScoresMatchButSustained(recomputed, claimed) ==
    \A f \in CardFields \ {"sustained"} : recomputed[f] = claimed[f]

ScoresMatch(recomputed, claimed) == \A f \in CardFields : recomputed[f] = claimed[f]

-----------------------------------------------------------------------------
(* The verdict.  A bundle carries the run's state, profile and build, the  *)
(* schema it is written in, its results and its card; `whole` that the     *)
(* required metadata is there, `clock` that it did not finish before it    *)
(* started, `intact` that the signature covers what is in it.              *)

Schema == "current"

Reason(kind, about) == [kind |-> kind, about |-> about]

\* Saturation is warned of before the sweep for variance, and the first of the
\* two decides.
DegradationReason(r) ==
    IF "GeneratorSaturated" \in r.codes THEN Reason("LoadGeneratorSaturated", r.mod)
    ELSE IF "HighVariance" \in r.codes THEN Reason("ExcessiveVariance", r.mod)
    ELSE Reason("ModuleDegraded", r.mod)

MaxAcceptableCv == 25

EvidenceOfInstability(key) == key \notin MeasuresDispersion \union TailQuantile

TooVaried(r) ==
    \E w \in r.wide : EvidenceOfInstability(w[1]) /\ IsUnstable(w[2], MaxAcceptableCv)

OutcomeReasons(rs) ==
    {DegradationReason(rs[i]) : i \in {j \in DOMAIN rs : rs[j].status = "Degraded"}}
    \union {Reason("ModuleFailed", rs[i].mod) : i \in {j \in DOMAIN rs : rs[j].status = "Failed"}}

VarianceReasons(rs) ==
    {Reason("ExcessiveVariance", rs[i].mod) : i \in {j \in DOMAIN rs : TooVaried(rs[j])}}

CompletionReasons(b) == IF b.state # "Completed" THEN {Reason("Interrupted", "")} ELSE {}

VersionReasons(b) ==
    {Reason("IncompatibleBenchmarkVersion", what) :
        what \in (IF b.schema # Schema THEN {"schema"} ELSE {})
               \union (IF b.build # "release" THEN {"build"} ELSE {})}

RecordReasons(b) ==
    (IF ~ b.whole THEN {Reason("MissingMetadata", "")} ELSE {})
    \union (IF ~ b.clock THEN {Reason("ClockAnomaly", "")} ELSE {})
    \union (IF ~ IsStandard(b.profile) THEN {Reason("CustomProfile", "")} ELSE {})

SignatureHolds(b) == b.intact

\* Only the server looks at the signature and at the card.
ServerReasons(b) ==
    (IF ~ SignatureHolds(b) THEN {Reason("SignatureInvalid", "")} ELSE {})
    \union (IF b.card.model \notin KnownModels
            THEN {Reason("IncompatibleBenchmarkVersion", "model")}
            ELSE IF ScoresMatch(ScoreRun(b.card.model, b.profile, b.results), b.card) THEN {}
            ELSE {Reason("ScoreRecomputationMismatch", "")})

\* The missing categories are read off the recomputed card where there is one.
Authoritative(b, server) ==
    IF server /\ b.card.model \in KnownModels
    THEN ScoreRun(b.card.model, b.profile, b.results) ELSE b.card

MissingReasons(card) == {Reason("RequiredModuleMissing", PlaceholderFor[c]) : c \in card.missing}

\* Mutant: the list that let a saturated generator pass.
IsPartialUnlessSaturated(reason) ==
    reason.kind \in {"RequiredModuleMissing", "ModuleFailed", "ExcessiveVariance",
                     "ModuleDegraded", "IncompatibleBenchmarkVersion", "MissingMetadata"}

IsPartialReason(reason) ==
    reason.kind \in {"RequiredModuleMissing", "ModuleFailed", "ExcessiveVariance",
                     "ModuleDegraded", "LoadGeneratorSaturated",
                     "IncompatibleBenchmarkVersion", "MissingMetadata"}

Fatal(b, server) ==
    \/ b.state # "Completed" \/ b.schema # Schema \/ ~ b.clock
    \/ server /\ (~ SignatureHolds(b) \/ Reason("ScoreRecomputationMismatch", "") \in ServerReasons(b)
                             \/ b.card.model \notin KnownModels)

ValidateBundle(b, server) ==
    LET card    == Authoritative(b, server)
        reasons == CompletionReasons(b) \union VersionReasons(b) \union RecordReasons(b)
                   \union OutcomeReasons(b.results) \union VarianceReasons(b.results)
                   \union MissingReasons(card) \union (IF server THEN ServerReasons(b) ELSE {})
        state   == IF Fatal(b, server) THEN "Invalid"
                   ELSE IF ~ IsStandard(b.profile) THEN "Custom"
                   ELSE IF card.missing # {} \/ \E r \in reasons : IsPartialReason(r) THEN "Partial"
                   ELSE IF server THEN "Validated" ELSE "Local"
    IN  [state |-> state, reasons |-> reasons]
=============================================================================
