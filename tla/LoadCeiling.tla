---------------------------- MODULE LoadCeiling -----------------------------
(***************************************************************************)
(* The watchdog of darcbench-agent/src/runner.rs and what its verdicts do  *)
(* to the results: the telemetry task judges one sample a second (hard     *)
(* runtime ceiling, temperature, external CPU load), and the module loop   *)
(* discards, suspends, resumes and takes the contamination it records.     *)
(* The two share the suspension flag and the contention slot without a     *)
(* lock across their steps, so a verdict can land between any two of them. *)
(***************************************************************************)
EXTENDS Integers, Sequences, FiniteSets

CONSTANTS NModules,       \* modules of the run, in order
          Hosts,          \* the hosts considered: scope, CPU limit and CPUs, and
                          \* which modules have workload_runs_outside_this_process()
          WarnSamples,    \* EXTERNAL_LOAD_WARN_SAMPLES (20)
          AbortSamples,   \* EXTERNAL_LOAD_ABORT_SAMPLES (300)
          ThermalSamples, \* THERMAL_ABORT_SAMPLES (30)
          MaxTicks,       \* bound of the model: samples taken
          None

ASSUME LoadCeilingAssumption ==
    /\ NModules \in Nat \ {0}
    /\ \A h \in Hosts : h.outside \subseteq 1..NModules
    /\ WarnSamples \in Nat \ {0}
    /\ AbortSamples \in Nat /\ AbortSamples >= WarnSamples
    /\ ThermalSamples \in Nat \ {0}
    /\ MaxTicks \in Nat
    /\ None \notin {"ceiling", "heat", "load"}

\* External busy share of a sample, against the two thresholds (10%, 40%);
\* "missing" is a tick whose /proc/stat read failed.
Loads == {"quiet", "contended", "heavy", "missing"}
Contended == {"contended", "heavy"}

VARIABLES pc,         \* the module loop
          module,     \* the module it is at
          suspended,  \* load_ceiling_suspended
          wasSuspended, \* load_ceiling_was_suspended
          contention, \* the contention slot is Some
          status,     \* status[m]: how module m's result came out
          host,       \* the host the run is on
          sampler,    \* the telemetry task and the load of its sample
          hot,        \* consecutive_hot
          contended,  \* consecutive_contended
          heavy,      \* consecutive_heavily_contended
          reported,   \* contention_reported
          stopped,    \* why the watchdog stopped the run, or None
          overdue,    \* the hard runtime ceiling has passed
          trail,      \* history: what the load ceiling judged, failed reads apart
          heat,       \* history: whether each of the last samples was hot
          announced,  \* history: Degrade verdicts given
          sustained   \* history: modules measured under sustained contention

loopVars == <<pc, module, suspended, wasSuspended, status>>
watchdogVars == <<hot, contended, heavy, reported>>
histories == <<trail, heat, announced, sustained>>
vars == <<loopVars, contention, host, sampler, watchdogVars, stopped,
          overdue, histories>>

Modules == 1..NModules
Outside == host.outside

\* HostView::proc_stat_may_describe_the_host.
ProcStatMayDescribeTheHost(h) ==
    \/ h.scope = "container"
    \/ h.limit # None /\ h.limit > 0 /\ h.limit < h.cpus

\* external_load_enforced
enforced == ~ProcStatMayDescribeTheHost(host)

Init ==
    /\ pc = "gap"
    /\ module = 1
    /\ suspended = FALSE
    /\ wasSuspended = FALSE
    /\ contention = FALSE
    /\ status = [m \in Modules |-> "pending"]
    /\ host \in Hosts
    /\ sampler = [at |-> "waiting", load |-> "quiet", ticks |-> 0]
    /\ hot = 0
    /\ contended = 0
    /\ heavy = 0
    /\ reported = FALSE
    /\ stopped = None
    /\ overdue = FALSE
    /\ trail = <<>>
    /\ heat = <<>>
    /\ announced = 0
    /\ sustained = {}

-----------------------------------------------------------------------------
(* The module loop                                                         *)

loopFrame == <<host, sampler, watchdogVars, stopped, overdue, histories>>

\* The loop head: a stopped run begins no further module.
BeginModule ==
    /\ pc = "gap"
    /\ module <= NModules
    /\ stopped = None
    /\ pc' = "begin"
    /\ UNCHANGED <<module, suspended, wasSuspended, status, contention, loopFrame>>

\* take_contention, its value dropped: what was seen before this module.
DiscardContention ==
    /\ pc = "begin"
    /\ contention' = FALSE
    /\ pc' = "suspend"
    /\ UNCHANGED <<module, suspended, wasSuspended, status, loopFrame>>

SetSuspension ==
    /\ pc = "suspend"
    /\ suspended' = (module \in Outside)
    /\ wasSuspended' = (wasSuspended \/ module \in Outside)
    /\ pc' = "run"
    /\ UNCHANGED <<module, status, contention, loopFrame>>

ModuleReturns ==
    /\ pc = "run"
    /\ \/ pc' = "resume"
       \/ stopped # None /\ pc' = "unwind"  \* it saw the cancellation
    /\ UNCHANGED <<module, suspended, wasSuspended, status, contention, loopFrame>>

Resume ==
    /\ pc = "resume"
    /\ suspended' = FALSE
    /\ pc' = "take"
    /\ UNCHANGED <<module, wasSuspended, status, contention, loopFrame>>

\* The verdict on the window that just closed lands on this module's result.
TakeContention ==
    /\ pc = "take"
    /\ status' = [status EXCEPT ![module] = IF contention THEN "degraded" ELSE "clean"]
    /\ contention' = FALSE
    /\ module' = module + 1
    /\ pc' = "gap"
    /\ UNCHANGED <<suspended, wasSuspended, loopFrame>>

\* A cancelled module leaves no result, and the loop.
ModuleCancelled ==
    /\ pc = "unwind"
    /\ suspended' = FALSE
    /\ contention' = FALSE
    /\ status' = [status EXCEPT ![module] = "cancelled"]
    /\ pc' = "done"
    /\ UNCHANGED <<module, wasSuspended, loopFrame>>

LoopEnds ==
    /\ pc = "gap"
    /\ module > NModules \/ stopped # None
    /\ pc' = "done"
    /\ UNCHANGED <<module, suspended, wasSuspended, status, contention, loopFrame>>

ModuleLoop ==
    \/ BeginModule \/ DiscardContention \/ SetSuspension \/ ModuleReturns \/ Resume
    \/ TakeContention \/ ModuleCancelled \/ LoopEnds

-----------------------------------------------------------------------------
(* How long the current stretch is, read off the history of the samples:   *)
(* what the counters of the watchdog are meant to say.                     *)

StretchEndingAt(samples, last, kinds) ==
    Cardinality({k \in 1..last : \A i \in k..last : samples[i] \in kinds})

Stretch(samples, kinds) == StretchEndingAt(samples, Len(samples), kinds)

\* Stretches of contention that grew long enough to be reported.
SustainedStretches(samples) ==
    Cardinality({i \in 1..Len(samples) :
                    StretchEndingAt(samples, i, Contended) = WarnSamples})

-----------------------------------------------------------------------------
(* The telemetry task: Watchdog::check, then check_external_load           *)

CeilingPasses ==
    /\ ~overdue
    /\ overdue' = TRUE
    /\ UNCHANGED <<loopVars, contention, host, sampler, watchdogVars, stopped,
                   histories>>

TooHot(samples) == samples >= ThermalSamples

LastOf(samples, n) ==
    IF Len(samples) <= n THEN samples ELSE SubSeq(samples, Len(samples) - n + 1, Len(samples))

\* One sample: the hard ceiling first, then the temperature.  An abort ends
\* the task before the load is looked at.
Sample(load, isHot) ==
    /\ sampler.at = "waiting"
    /\ sampler.ticks < MaxTicks
    /\ pc # "done"
    /\ LET hotNow == IF isHot THEN hot + 1 ELSE 0
           verdict == IF overdue THEN "ceiling"
                      ELSE IF TooHot(hotNow) THEN "heat"
                      ELSE None
       IN /\ hot' = IF overdue THEN hot ELSE hotNow
          /\ stopped' = verdict
          /\ sampler' = [at |-> IF verdict = None THEN "judging" ELSE "off",
                         load |-> load, ticks |-> sampler.ticks + 1]
    /\ heat' = LastOf(Append(heat, isHot), ThermalSamples)
    /\ UNCHANGED <<loopVars, contention, host, contended, heavy, reported,
                   overdue, trail, announced, sustained>>

NotEnforced ==
    /\ sampler.at = "judging"
    /\ ~enforced
    /\ sampler' = [sampler EXCEPT !.at = "waiting"]
    /\ UNCHANGED <<loopVars, contention, host, watchdogVars, stopped, overdue,
                   histories>>

\* Suspended: the counters are reset, not merely skipped.
Suspended ==
    /\ sampler.at = "judging"
    /\ enforced
    /\ suspended
    /\ contended' = 0
    /\ heavy' = 0
    /\ reported' = FALSE
    /\ sampler' = [sampler EXCEPT !.at = "waiting"]
    /\ trail' = Append(trail, "suspended")
    /\ UNCHANGED <<loopVars, contention, host, hot, stopped, overdue, heat,
                   announced, sustained>>

\* The flag has been read; the rest of the check no longer looks at it.
NotSuspended ==
    /\ sampler.at = "judging"
    /\ enforced
    /\ ~suspended
    /\ sampler' = [sampler EXCEPT !.at = "counting"]
    /\ UNCHANGED <<loopVars, contention, host, watchdogVars, stopped, overdue,
                   histories>>

\* Mutant: a sample below the threshold does not break the stretch.
HeavySoFar == IF sampler.load = "heavy" THEN heavy + 1 ELSE heavy

HeavyNow == IF sampler.load = "heavy" THEN heavy + 1 ELSE 0
ContendedNow == IF sampler.load \in Contended THEN contended + 1 ELSE 0

\* Mutant: a failed read breaks the stretch.
ResetOnMissing ==
    /\ sampler.at = "counting"
    /\ sampler.load = "missing"
    /\ contended' = 0
    /\ heavy' = 0
    /\ reported' = FALSE
    /\ sampler' = [sampler EXCEPT !.at = "waiting"]
    /\ UNCHANGED <<loopVars, contention, host, hot, stopped, overdue, histories>>

\* A failed read holds the counters.
HoldCounters ==
    /\ sampler.at = "counting"
    /\ sampler.load = "missing"
    /\ sampler' = [sampler EXCEPT !.at = "waiting"]
    /\ UNCHANGED <<loopVars, contention, host, watchdogVars, stopped, overdue,
                   histories>>

AbortOnLoad ==
    /\ sampler.at = "counting"
    /\ sampler.load # "missing"
    /\ HeavyNow >= AbortSamples
    /\ heavy' = HeavyNow
    /\ stopped' = "load"
    /\ sampler' = [sampler EXCEPT !.at = "off"]
    /\ trail' = Append(trail, sampler.load)
    /\ UNCHANGED <<loopVars, contention, host, hot, contended, reported, overdue,
                   heat, announced, sustained>>

\* Mutants: the contention is noted only on the sample that announces it, and
\* a stretch that ends leaves the announcement standing.
CountLoadNotingOnce ==
    /\ sampler.at = "counting"
    /\ sampler.load # "missing"
    /\ HeavyNow < AbortSamples
    /\ heavy' = HeavyNow
    /\ contended' = ContendedNow
    /\ IF ContendedNow >= WarnSamples /\ ~reported
       THEN /\ contention' = TRUE
            /\ announced' = announced + 1
            /\ reported' = TRUE
       ELSE /\ reported' = (reported /\ ContendedNow # 0)
            /\ UNCHANGED <<contention, announced>>
    /\ sampler' = [sampler EXCEPT !.at = "waiting"]
    /\ trail' = Append(trail, sampler.load)
    /\ sustained' = IF pc = "run" /\ Stretch(trail', Contended) >= WarnSamples
                    THEN sustained \cup {module}
                    ELSE sustained
    /\ UNCHANGED <<loopVars, host, hot, stopped, overdue, heat>>
StillReported == reported

ReportedNow == reported /\ ContendedNow # 0

\* Below the abort threshold: count, and once the stretch is long enough note
\* it on every sample but announce it only once.
CountLoad ==
    /\ sampler.at = "counting"
    /\ sampler.load # "missing"
    /\ HeavyNow < AbortSamples
    /\ heavy' = HeavyNow
    /\ contended' = ContendedNow
    /\ IF ContendedNow >= WarnSamples
       THEN /\ contention' = TRUE
            /\ announced' = IF reported THEN announced ELSE announced + 1
            /\ reported' = TRUE
       ELSE /\ reported' = ReportedNow
            /\ UNCHANGED <<contention, announced>>
    /\ sampler' = [sampler EXCEPT !.at = "waiting"]
    /\ trail' = Append(trail, sampler.load)
    /\ sustained' = IF pc = "run" /\ Stretch(trail', Contended) >= WarnSamples
                    THEN sustained \cup {module}
                    ELSE sustained
    /\ UNCHANGED <<loopVars, host, hot, stopped, overdue, heat>>

Watchdog ==
    \/ CeilingPasses
    \/ \E load \in Loads, isHot \in BOOLEAN : Sample(load, isHot)
    \/ NotEnforced \/ Suspended \/ NotSuspended
    \/ HoldCounters \/ AbortOnLoad \/ CountLoad

Next == ModuleLoop \/ Watchdog

Spec == Init /\ [][Next]_vars

-----------------------------------------------------------------------------
(* Properties                                                              *)

TypeOK ==
    /\ pc \in {"gap", "begin", "suspend", "run", "resume", "take", "unwind", "done"}
    /\ module \in 1..(NModules + 1)
    /\ suspended \in BOOLEAN
    /\ wasSuspended \in BOOLEAN
    /\ contention \in BOOLEAN
    /\ status \in [Modules -> {"pending", "clean", "degraded", "cancelled"}]
    /\ host \in Hosts
    /\ sampler \in [at : {"waiting", "judging", "counting", "off"}, load : Loads,
                    ticks : 0..MaxTicks]
    /\ hot \in 0..ThermalSamples
    /\ contended \in 0..MaxTicks
    /\ heavy \in 0..AbortSamples
    /\ reported \in BOOLEAN
    /\ stopped \in {None, "ceiling", "heat", "load"}
    /\ overdue \in BOOLEAN
    /\ announced \in Nat
    /\ sustained \subseteq Modules

\* The counters mean what the two thresholds are documented in: consecutive
\* samples.  A failed read neither breaks a stretch nor lengthens it, and a
\* suspension ends it, whatever the order the module loop and the sampler
\* were scheduled in.
CountersAreConsecutive ==
    TypeOK /\ (sampler.at # "off" =>
        /\ heavy = Stretch(trail, {"heavy"})
        /\ contended = Stretch(trail, Contended))

\* A guard that stops runs fires only on evidence: a load stop takes
\* AbortSamples heavy samples in a row with no suspension between them, a heat
\* stop ThermalSamples hot ones.
StopsAreEarned ==
    /\ stopped = "load" => Stretch(trail, {"heavy"}) >= AbortSamples
    /\ stopped = "heat" => /\ Len(heat) = ThermalSamples
                           /\ \A i \in DOMAIN heat : heat[i]
    /\ stopped = "ceiling" => overdue

\* An hour of competition is announced once, and a second stretch again.
AnnouncedOncePerStretch ==
    sampler.at # "off" => announced = SustainedStretches(trail)

\* Contention that was sustained while a module was being measured degrades
\* that module, every one of them when the stretch outlasts several, and not
\* only the one it was announced in.
SustainedLoadDegrades ==
    \A m \in sustained \ Outside : status[m] \in {"pending", "degraded", "cancelled"}

\* A module whose workload runs in a container has no admissible evidence
\* against it, and is never degraded by the load ceiling.
SuspendedModuleIsNotCharged ==
    \A m \in Outside : status[m] # "degraded"

=============================================================================
