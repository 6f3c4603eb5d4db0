------------------------------- MODULE Runner -------------------------------
(***************************************************************************)
(* One benchmark run, from execute() to its terminal state: the            *)
(* orchestrator (execute, run_cycle, finalise, persist of                  *)
(* darcbench-agent/src/runner.rs), the blocking thread of the module in    *)
(* flight, the 1 Hz telemetry task with its watchdog, and an operator who  *)
(* may cancel at any time.                                                 *)
(*                                                                         *)
(* Every emission appends to one log; RunEvents and EventStream show why   *)
(* that is a fair picture of emit().  What the watchdog decides about a    *)
(* sample is a free choice here: the counters behind it are LoadCeiling's. *)
(* A file write may fail at any point where the code handles the failure.  *)
(***************************************************************************)
EXTENDS Integers, Sequences, FiniteSets

CONSTANTS Profiles,   \* the profiles considered: how many modules they run,
                      \* whether they repeat them (endurance: cycle_target)
                      \* and, a bound of the model, how many samples are reported
          MinCycles,  \* MIN_ENDURANCE_CYCLES
          MaxCycles,  \* bound of the model: cycles before the target elapses
          MaxTicks,   \* bound of the model: ticks of the telemetry task
          HeartbeatEvery, \* ticks between heartbeats (10 in the code)
          PanicsUnwind, \* the build profile does not set panic = "abort"
          None

TerminalStates == {"completed", "failed", "cancelled"}

Causes == {"operator", "watchdog"}

Results == [module : Nat, cycle : Nat, status : {"completed", "failed"}]

Bundles == [state : TerminalStates, digest : Nat, count : Nat, stopped : BOOLEAN,
            modules : Seq(Results)]

ASSUME RunnerAssumption ==
    /\ \A p \in Profiles : /\ p.modules \in Nat \ {0}
                            /\ p.repeats \in BOOLEAN
                            /\ p.samples \in Nat
    /\ MinCycles \in Nat \ {0}
    /\ MaxCycles \in Nat /\ MaxCycles >= MinCycles
    /\ MaxTicks \in Nat
    /\ HeartbeatEvery \in Nat \ {0}
    /\ PanicsUnwind \in BOOLEAN
    /\ None \notin Nat /\ None \notin Causes \cup TerminalStates /\ None \notin Bundles

VARIABLES pc,        \* where the orchestrator is
          state,     \* RunState, as published on the watch channel
          cancel,    \* the CancellationToken; history: who cancelled first, and
                     \* how many modules were started after that
          profile,   \* the profile of the run
          cycle,     \* cycles completed
          index,     \* module the cycle is at
          current,   \* current_module, read by the telemetry task
          thread,    \* the blocking thread: whether it runs, how it ended
          telemetry, \* the telemetry task: where it is, ticks, abort requested
          results,   \* ModuleResults pushed so far
          stopped,   \* stopped_because is Some
          log,       \* every event emitted, in order
          ending,    \* what finalise has decided and measured so far
          bundle,    \* the bundle slot of the RunHandle
          disk       \* the run directory

orchestratorVars == <<pc, profile, cycle, index, results, ending, bundle, disk>>
vars == <<pc, state, cancel, profile, cycle, index, current, thread, telemetry,
          results, stopped, log, ending, bundle, disk>>

Terminal == state \in TerminalStates

cancelled == cancel.by # None

CancelBy(who) == cancel' = IF cancelled THEN cancel ELSE [cancel EXCEPT !.by = who]

Event(kind, module) == [kind |-> kind, module |-> module]

RunEvent(kind) == Event(kind, None)

NModules == profile.modules

Kinds(kinds) == {i \in DOMAIN log : log[i].kind \in kinds}

NotRunning == [at |-> "none", outcome |-> None]
NothingDecided == [state |-> None, digest |-> 0, count |-> 0,
                   stopped |-> FALSE, final |-> 0]
EmptyDirectory == [bundle |-> FALSE, report |-> FALSE,
                   events |-> None, cut |-> FALSE]

Init ==
    /\ pc = "created"
    /\ state = "created"
    /\ cancel = [by |-> None, late |-> 0]
    /\ profile \in Profiles
    /\ cycle = 0
    /\ index = 1
    /\ current = None
    /\ thread = NotRunning
    /\ telemetry = [at |-> "off", ticks |-> 0, aborting |-> FALSE]
    /\ results = <<>>
    /\ stopped = FALSE
    /\ log = <<>>
    /\ ending = NothingDecided
    /\ bundle = None
    /\ disk = EmptyDirectory

-----------------------------------------------------------------------------
(* execute: preflight                                                      *)

BeginPreflight ==
    /\ pc = "created"
    /\ log' = log \o <<RunEvent("run.created"), RunEvent("run.preflight.started")>>
    /\ state' = "preflight"
    /\ pc' = "preflight"
    /\ UNCHANGED <<cancel, profile, cycle, index, current, thread, telemetry, results,
                   stopped, ending, bundle, disk>>

PreflightPassed ==
    /\ pc = "preflight"
    /\ log' = Append(log, RunEvent("run.preflight.completed"))
    /\ state' = "running"
    /\ telemetry' = [telemetry EXCEPT !.at = "waiting"]
    /\ pc' = "next"
    /\ UNCHANGED <<cancel, profile, cycle, index, current, thread, results, stopped,
                   ending, bundle, disk>>

PreflightFailed ==
    /\ pc = "preflight"
    /\ log' = Append(log, RunEvent("run.preflight.completed"))
    /\ ending' = [ending EXCEPT !.state = "failed"]
    /\ pc' = "finalise"
    /\ UNCHANGED <<state, cancel, profile, cycle, index, current, thread, telemetry,
                   results, stopped, bundle, disk>>

-----------------------------------------------------------------------------
(* run_cycle                                                               *)

\* The loop head: a cancelled run starts no further module.
NextModule ==
    /\ pc = "next"
    /\ index <= NModules
    /\ ~cancelled
    /\ current' = index
    /\ pc' = "announce"
    /\ UNCHANGED <<state, cancel, profile, cycle, index, thread, telemetry, results,
                   stopped, log, ending, bundle, disk>>

\* The lifecycle events, then the workload on its own blocking thread.
StartModule ==
    /\ pc = "announce"
    /\ log' = log \o <<Event("module.queued", index), Event("module.preparing", index),
                       Event("module.warmup", index), Event("module.started", index)>>
    /\ thread' = [at |-> "running", outcome |-> None]
    /\ cancel' = [cancel EXCEPT !.late = IF cancelled THEN @ + 1 ELSE @]
    /\ pc' = "measuring"
    /\ UNCHANGED <<state, profile, cycle, index, current, telemetry, results,
                   stopped, ending, bundle, disk>>

Result(status) == [module |-> index, cycle |-> cycle, status |-> status]

ThreadReturned(outcome) ==
    /\ pc = "measuring"
    /\ thread.at = "returned"
    /\ thread.outcome = outcome
    /\ thread' = NotRunning
    /\ UNCHANGED <<state, cancel, profile, cycle, current, telemetry, stopped, ending,
                   bundle, disk>>

ModuleCompleted ==
    /\ ThreadReturned("ok")
    /\ results' = Append(results, Result("completed"))
    /\ log' = log \o <<Event("module.completed", index), RunEvent("score.provisional")>>
    /\ index' = index + 1
    /\ pc' = "next"

\* Mutant: a failure that is announced and leaves no result.
ModuleFailedUnrecorded ==
    /\ ThreadReturned("error")
    /\ log' = Append(log, Event("module.failed", index))
    /\ index' = index + 1
    /\ pc' = "next"
    /\ UNCHANGED results

ModuleFailed ==
    /\ ThreadReturned("error")
    /\ log' = Append(log, Event("module.failed", index))
    /\ results' = Append(results, Result("failed"))
    /\ index' = index + 1
    /\ pc' = "next"

\* The blocking task panicked: announced as fatal, no result is pushed, and
\* the loop goes on to the next module.
ModulePanicked ==
    /\ ThreadReturned("panic")
    /\ log' = Append(log, Event("module.failed (fatal)", index))
    /\ index' = index + 1
    /\ pc' = "next"
    /\ UNCHANGED results

\* Leaves the loop.
ModuleCancelled ==
    /\ ThreadReturned("cancelled")
    /\ log' = Append(log, Event("module.cancelled", index))
    /\ pc' = "cycle"
    /\ UNCHANGED <<results, index>>

\* Mutant: the loop ends only when it has run out of modules.
EndOfModulesOnly ==
    /\ pc = "next"
    /\ index > NModules
    /\ pc' = "cycle"
    /\ UNCHANGED <<state, cancel, profile, cycle, index, current, thread, telemetry,
                   results, stopped, log, ending, bundle, disk>>

EndOfModules ==
    /\ pc = "next"
    /\ cancelled \/ index > NModules
    /\ pc' = "cycle"
    /\ UNCHANGED <<state, cancel, profile, cycle, index, current, thread, telemetry,
                   results, stopped, log, ending, bundle, disk>>

-----------------------------------------------------------------------------
(* execute: repeat, or stop                                                *)

\* Whether another cycle must or may follow once `done` have completed.  Past
\* the minimum it depends on the clock, which may decide either way.
MustRepeat(done) == profile.repeats /\ ~cancelled /\ done < MinCycles
MayRepeat(done) == profile.repeats /\ ~cancelled /\ done < MaxCycles

RepeatCycle ==
    /\ pc = "cycle"
    /\ MayRepeat(cycle + 1)
    /\ cycle' = cycle + 1
    /\ index' = 1
    /\ pc' = "next"
    /\ UNCHANGED <<state, cancel, profile, current, thread, telemetry, results,
                   stopped, log, ending, bundle, disk>>

\* telemetry_task.abort(): requested, not awaited.
StopCycling ==
    /\ pc = "cycle"
    /\ ~MustRepeat(cycle + 1)
    /\ cycle' = cycle + 1
    /\ telemetry' = [telemetry EXCEPT !.aborting = TRUE]
    /\ current' = None
    /\ pc' = "decide"
    /\ UNCHANGED <<state, cancel, profile, index, thread, results, stopped, log,
                   ending, bundle, disk>>

\* Mutant: the final state is read off the stop reason instead of the token.
DecideFromStopReason ==
    /\ pc = "decide"
    /\ ending' = [ending EXCEPT !.state = IF stopped THEN "cancelled" ELSE "completed"]
    /\ pc' = "finalise"
    /\ UNCHANGED <<state, cancel, profile, cycle, index, current, thread, telemetry,
                   results, stopped, log, bundle, disk>>

DecideFinalState ==
    /\ pc = "decide"
    /\ ending' = [ending EXCEPT !.state = IF cancelled THEN "cancelled" ELSE "completed"]
    /\ pc' = "finalise"
    /\ UNCHANGED <<state, cancel, profile, cycle, index, current, thread, telemetry,
                   results, stopped, log, bundle, disk>>

-----------------------------------------------------------------------------
(* finalise                                                                *)

PublishScore ==
    /\ pc = "finalise"
    /\ state' = "finalizing"
    /\ log' = Append(log, RunEvent("score.final"))
    /\ pc' = "digest"
    /\ UNCHANGED <<cancel, profile, cycle, index, current, thread, telemetry, results,
                   stopped, ending, bundle, disk>>

\* events_digest and event_count are two reads of a stream still open.
TakeDigest ==
    /\ pc = "digest"
    /\ ending' = [ending EXCEPT !.digest = Len(log)]
    /\ pc' = "count"
    /\ UNCHANGED <<state, cancel, profile, cycle, index, current, thread, telemetry,
                   results, stopped, log, bundle, disk>>

CountEvents ==
    /\ pc = "count"
    /\ ending' = [ending EXCEPT !.count = Len(log)]
    /\ pc' = "seal"
    /\ UNCHANGED <<state, cancel, profile, cycle, index, current, thread, telemetry,
                   results, stopped, log, bundle, disk>>

\* The rest of the bundle, its verdict and its signature.
SealBundle ==
    /\ pc = "seal"
    /\ ending' = [ending EXCEPT !.stopped = stopped]
    /\ pc' = "persist"
    /\ UNCHANGED <<state, cancel, profile, cycle, index, current, thread, telemetry,
                   results, stopped, log, bundle, disk>>

-----------------------------------------------------------------------------
(* persist, and the steps that follow it                                   *)

\* bundle.json.partial, then rename.
WriteBundle ==
    /\ pc = "persist"
    /\ disk' = [disk EXCEPT !.bundle = TRUE]
    /\ pc' = "report"
    /\ UNCHANGED <<state, cancel, profile, cycle, index, current, thread, telemetry,
                   results, stopped, log, ending, bundle>>

WriteReport ==
    /\ pc = "report"
    /\ disk' = [disk EXCEPT !.report = TRUE]
    /\ pc' = "index"
    /\ UNCHANGED <<state, cancel, profile, cycle, index, current, thread, telemetry,
                   results, stopped, log, ending, bundle>>

\* Whether the row could be written changes nothing here (an error is logged
\* and dropped); the rows are RunStore's.
RecordInIndex ==
    /\ pc = "index"
    /\ log' = Append(log, RunEvent("report.generated"))
    /\ pc' = "publish"
    /\ UNCHANGED <<state, cancel, profile, cycle, index, current, thread, telemetry,
                   results, stopped, ending, bundle, disk>>

\* A write before the index failed: no row, no report.generated.
PersistFailed ==
    /\ pc \in {"persist", "report"}
    /\ pc' = "publish"
    /\ UNCHANGED <<state, cancel, profile, cycle, index, current, thread, telemetry,
                   results, stopped, log, ending, bundle, disk>>

\* The bundle slot is filled, and final_seq computed from last_seq().
PublishBundle ==
    /\ pc = "publish"
    /\ bundle' = [state |-> ending.state, digest |-> ending.digest,
                  count |-> ending.count, stopped |-> ending.stopped,
                  modules |-> results]
    /\ ending' = [ending EXCEPT !.final = Len(log)]
    /\ pc' = "announce_end"
    /\ UNCHANGED <<state, cancel, profile, cycle, index, current, thread, telemetry,
                   results, stopped, log, disk>>

\* Mutant: the terminal state goes out with the announcement.
AnnounceEndAsTerminal ==
    /\ pc = "announce_end"
    /\ log' = Append(log, RunEvent("run.completed"))
    /\ state' = ending.state
    /\ pc' = "write_log"
    /\ UNCHANGED <<cancel, profile, cycle, index, current, thread, telemetry,
                   results, stopped, ending, bundle, disk>>

AnnounceEnd ==
    /\ pc = "announce_end"
    /\ log' = Append(log, RunEvent("run.completed"))
    /\ pc' = "write_log"
    /\ UNCHANGED <<state, cancel, profile, cycle, index, current, thread, telemetry,
                   results, stopped, ending, bundle, disk>>

\* write_event_log, in place; a failure is logged, and leaves no file or one
\* that was cut short.
WriteEventLog ==
    /\ pc = "write_log"
    /\ \/ disk' = [disk EXCEPT !.events = Len(log)]
       \/ disk' = [disk EXCEPT !.events = 0, !.cut = TRUE]
       \/ UNCHANGED disk
    /\ pc' = "publish_state"
    /\ UNCHANGED <<state, cancel, profile, cycle, index, current, thread, telemetry,
                   results, stopped, log, ending, bundle>>

PublishTerminalState ==
    /\ pc = "publish_state"
    /\ state' = ending.state
    /\ pc' = "done"
    /\ UNCHANGED <<cancel, profile, cycle, index, current, thread, telemetry, results,
                   stopped, log, ending, bundle, disk>>

Orchestrator ==
    \/ BeginPreflight \/ PreflightPassed \/ PreflightFailed
    \/ NextModule \/ StartModule \/ EndOfModules
    \/ ModuleCompleted \/ ModuleFailed \/ ModulePanicked \/ ModuleCancelled
    \/ RepeatCycle \/ StopCycling \/ DecideFinalState
    \/ PublishScore \/ TakeDigest \/ CountEvents \/ SealBundle
    \/ WriteBundle \/ WriteReport \/ RecordInIndex \/ PersistFailed
    \/ PublishBundle \/ AnnounceEnd \/ WriteEventLog \/ PublishTerminalState

-----------------------------------------------------------------------------
(* The module's blocking thread                                            *)

ReportSample ==
    /\ thread.at = "running"
    /\ Cardinality(Kinds({"module.sample"})) < profile.samples
    /\ log' = Append(log, Event("module.sample", index))
    /\ UNCHANGED <<orchestratorVars, state, cancel, current, thread, telemetry, stopped>>

\* ModuleError::Cancelled only comes from having seen is_cancelled().
Outcomes == {"ok", "error"}
            \cup (IF PanicsUnwind THEN {"panic"} ELSE {})
            \cup (IF cancelled THEN {"cancelled"} ELSE {})

ReturnFromModule ==
    /\ thread.at = "running"
    /\ \E outcome \in Outcomes :
         thread' = [thread EXCEPT !.at = "returned", !.outcome = outcome]
    /\ UNCHANGED <<orchestratorVars, state, cancel, current, telemetry, stopped, log>>

Thread == ReportSample \/ ReturnFromModule

-----------------------------------------------------------------------------
(* The telemetry task.  An abort() takes effect at its next await, that is *)
(* when it is waiting for a tick; an iteration under way runs to its end.  *)

telemetryFrame == <<orchestratorVars, state, thread, current>>

\* What follows the sample is the watchdog's verdict on it.
Tick ==
    /\ telemetry.at = "waiting"
    /\ ~telemetry.aborting
    /\ ~Terminal
    /\ telemetry.ticks < MaxTicks
    /\ \E next \in {"abort", "degrade", "emit"} :
         telemetry' = [telemetry EXCEPT !.at = next, !.ticks = @ + 1]
    /\ UNCHANGED <<telemetryFrame, cancel, stopped, log>>

TelemetryEnds ==
    /\ telemetry.at = "waiting"
    /\ telemetry.aborting \/ Terminal
    /\ telemetry' = [telemetry EXCEPT !.at = "off"]
    /\ UNCHANGED <<telemetryFrame, cancel, stopped, log>>

\* The warning is emitted only while a module is in flight.
Warning == IF current = None THEN <<>> ELSE <<Event("module.warning", current)>>

\* Mutant: the reason is kept only while a module is in flight, like the
\* warning.
RecordStopReasonInFlight ==
    /\ telemetry.at = "abort"
    /\ stopped' = (stopped \/ current # None)
    /\ telemetry' = [telemetry EXCEPT !.at = "warn"]
    /\ UNCHANGED <<telemetryFrame, cancel, log>>

RecordStopReason ==
    /\ telemetry.at = "abort"
    /\ stopped' = TRUE
    /\ telemetry' = [telemetry EXCEPT !.at = "warn"]
    /\ UNCHANGED <<telemetryFrame, cancel, log>>

WarnOfStop ==
    /\ telemetry.at = "warn"
    /\ log' = log \o Warning
    /\ telemetry' = [telemetry EXCEPT !.at = "cancel"]
    /\ UNCHANGED <<telemetryFrame, cancel, stopped>>

WatchdogCancels ==
    /\ telemetry.at = "cancel"
    /\ CancelBy("watchdog")
    /\ telemetry' = [telemetry EXCEPT !.at = "off"]
    /\ UNCHANGED <<telemetryFrame, stopped, log>>

WarnOfContention ==
    /\ telemetry.at = "degrade"
    /\ log' = log \o Warning
    /\ telemetry' = [telemetry EXCEPT !.at = "emit"]
    /\ UNCHANGED <<telemetryFrame, cancel, stopped>>

Heartbeat == IF telemetry.ticks % HeartbeatEvery = 0
             THEN <<RunEvent("stream.heartbeat")>>
             ELSE <<>>

EmitTelemetry ==
    /\ telemetry.at = "emit"
    /\ log' = log \o (<<Event("module.telemetry", current)>> \o Heartbeat)
    /\ telemetry' = [telemetry EXCEPT !.at = "waiting"]
    /\ UNCHANGED <<telemetryFrame, cancel, stopped>>

Telemetry ==
    \/ Tick \/ TelemetryEnds \/ RecordStopReason \/ WarnOfStop
    \/ WatchdogCancels \/ WarnOfContention \/ EmitTelemetry

-----------------------------------------------------------------------------
\* cancel_run, Ctrl-C and the TUI's stop key, at any time.
OperatorCancels ==
    /\ ~cancelled
    /\ CancelBy("operator")
    /\ UNCHANGED <<orchestratorVars, state, current, thread, telemetry, stopped, log>>

Next == Orchestrator \/ Thread \/ Telemetry \/ OperatorCancels

Spec == Init /\ [][Next]_vars

\* The runtime schedules the orchestrator and the telemetry task.  A workload
\* polls is_cancelled() and returns once it is set; nothing makes one that was
\* not cancelled return.
Fairness ==
    /\ WF_vars(Orchestrator)
    /\ WF_vars(Telemetry)
    /\ WF_vars(cancelled /\ ReturnFromModule)

FairSpec == Spec /\ Fairness

-----------------------------------------------------------------------------
(* Properties                                                              *)

OutcomeKinds == {"module.completed", "module.failed", "module.failed (fatal)",
                 "module.cancelled"}

EventKinds == {"run.created", "run.preflight.started", "run.preflight.completed",
               "module.queued", "module.preparing", "module.warmup", "module.started",
               "module.sample", "module.warning", "module.telemetry", "stream.heartbeat",
               "score.provisional", "score.final", "report.generated", "run.completed"}
              \cup OutcomeKinds

Cancels == [by : Causes \cup {None}, late : Nat]
Threads == [at : {"none", "running", "returned"},
            outcome : {None, "ok", "error", "panic", "cancelled"}]
Telemetries == [at : {"off", "waiting", "abort", "warn", "cancel", "degrade", "emit"},
                ticks : Nat, aborting : BOOLEAN]
Events == [kind : EventKinds, module : (1..NModules) \cup {None}]
Decisions == [state : TerminalStates \cup {None}, digest : Nat, count : Nat,
              stopped : BOOLEAN, final : Nat]
Directories == [bundle : BOOLEAN, report : BOOLEAN, events : Nat \cup {None}, cut : BOOLEAN]

TypeOK ==
    /\ pc \in {"created", "preflight", "next", "announce", "measuring", "cycle",
               "decide", "finalise", "digest", "count", "seal", "persist",
               "report", "index", "publish", "announce_end", "write_log",
               "publish_state", "done"}
    /\ state \in {"created", "preflight", "running", "finalizing"} \cup TerminalStates
    /\ cancel \in Cancels
    /\ profile \in Profiles
    /\ cycle \in 0..MaxCycles
    /\ index \in 1..(NModules + 1)
    /\ current \in (1..NModules) \cup {None}
    /\ thread \in Threads
    /\ telemetry \in Telemetries
    /\ results \in Seq(Results)
    /\ stopped \in BOOLEAN
    /\ log \in Seq(Events)
    /\ ending \in Decisions
    /\ bundle \in Bundles \cup {None}
    /\ disk \in Directories

\* The places in the log where modules start, where they end, and where they
\* end with a result.
Starts == Kinds({"module.started"})
Endings == Kinds(OutcomeKinds)
Recorded == Kinds({"module.completed", "module.failed"})

UpTo(places, i) == Cardinality({j \in places : j <= i})

\* Cancelling stops the run at a module boundary: whoever cancels, at most the
\* module whose announcement was already under way still starts.  And only that
\* cuts a run short: one reported as completed ran every module of every cycle
\* it claims, in order, and an endurance run made at least the two passes
\* retention needs.  (run_cycle's early exits all come from the same token
\* execute reads when it names the final state.)
OnlyCancellingCutsShort ==
    /\ cancel.late <= 1
    /\ ending.state = "completed" =>
         /\ IF profile.repeats THEN cycle >= MinCycles ELSE cycle = 1
         /\ Cardinality(Starts) = NModules * cycle
         /\ \A s \in Starts : \E pass \in 0..(cycle - 1) :
               UpTo(Starts, s) = NModules * pass + log[s].module

\* Every module announced as started is closed by exactly one outcome before
\* the next one starts, and all are closed once the run is being finalised:
\* the folds of the terminal view and the dashboard pair them up.
Paired ==
    /\ \A i \in Endings : \E s \in Starts :
          /\ s < i /\ log[s].module = log[i].module
          /\ \A k \in Starts \cup Endings : k <= s \/ k >= i
    /\ \A s, t \in Starts : s < t => \E i \in Endings : s < i /\ i < t
    /\ ending.state # None => \A s \in Starts : \E i \in Endings : s < i

\* What the bundle carries is what the stream announced: one result for every
\* module that completed or failed, in the order of their outcomes, except for
\* a panic, which leaves none.
Reported ==
    /\ Len(results) = Cardinality(Recorded)
    /\ \A i \in Recorded :
          LET result == results[UpTo(Recorded, i)]
          IN  /\ result.module = log[i].module
              /\ (result.status = "failed") <=> (log[i].kind = "module.failed")

EveryStartHasItsOutcome == TypeOK /\ Paired /\ Reported

\* A run the watchdog stopped says so in its signed bundle; without that it
\* reads like one the operator cancelled.  (The reason is recorded before the
\* token is set, and the bundle is sealed after the token is read.)
StopReasonReachesBundle ==
    bundle # None /\ bundle.state = "cancelled" /\ cancel.by = "watchdog"
        => bundle.stopped

\* "Terminal" means the results are readable now: once a terminal state is
\* published, neither it, nor the bundle, nor anything on disk changes, and
\* the bundle tells the same state.
TerminalIsFinal ==
    [][/\ Terminal => UNCHANGED <<state, results, bundle, disk>>
       /\ Terminal' => bundle' # None /\ bundle'.state = state']_vars

\* A cancelled run ends, as long as the workload heeds the token; a run that
\* nobody cancels ends too, unless a workload runs for ever.
RunEnds ==
    /\ cancelled ~> Terminal
    /\ []<>(thread.at # "running") => <>Terminal

\* events.rs: final_seq is the number of events emitted, so that a consumer
\* can prove it saw all of them.
FinalSeqCountsEveryEvent ==
    pc = "write_log" => ending.final = Cardinality(
        {i \in DOMAIN log : \E j \in Kinds({"run.completed"}) : i <= j})

\* The persisted log ends with a terminal event.
StoredLogEndsWithTheEnd ==
    disk.events # None /\ ~disk.cut => log[disk.events].kind = "run.completed"

\* bundle.rs: a run the watchdog stopped early is Cancelled either way.
StoppedRunIsCancelled == bundle # None /\ bundle.stopped => bundle.state = "cancelled"

\* events_digest covers everything up to and including the last outcome of a
\* module, and nothing of the finalisation.
DigestStopsBeforeFinalisation ==
    bundle # None /\ bundle.digest > 0 => log[bundle.digest].kind # "score.final"

\* events.rs: a module failure announced as fatal means the whole run must
\* abort, so no module starts after it.
FatalFailureAbortsTheRun ==
    \A i \in Kinds({"module.failed (fatal)"}) : Kinds({"module.started"}) \subseteq 1..i
=============================================================================
