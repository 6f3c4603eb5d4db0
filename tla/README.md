# DARCBench: TLA+ models, checks and proofs

These modules model the parts of DARCBench whose correctness depends on the
order in which things happen, and the rules that turn what was measured into a
verdict: the event stream of a run and its observers, the run itself, the guard
against other load, the modules and what they publish, the containers they use,
scoring and validation, the stored runs and their index, the runs an agent
answers for, the external load sessions, and the reverse-proxy configuration.
TLC checks every module on small instances; for the event stream, its observers,
the run, the load ceiling, the way from a request to its verdicts, the
containers, the registry, the stored runs, the external session and the proxy,
TLAPS proves the safety properties for every value of the constants (section 5).

Source paths are relative to the repository; `agent/` stands for
`crates/darcbench-agent/src/`, and likewise `core/`, `modules/`, `protocol/`,
`report/` and `scoring/`. `PROJECT.json` maps every definition to the lines it
models.

    tlc -config MCRunner.cfg MCRunner.tla      # one run
    tlapm RunnerProofs.tla                     # its proofs

## 1. The system

`darcbench` is one binary: a command-line tool and an agent with a web
dashboard. It runs benchmark modules on a server, streams what happens as
numbered events, and seals the results in a signed bundle in a directory per
run, which a SQLite index describes. Whoever receives a bundle validates it
again with the rules the agent applied.

| Component | State it keeps | Operations | Interacts with |
|---|---|---|---|
| Event stream (`agent/runner.rs` RunHandle, `agent/server.rs` stream_events) | sequence counter, full record, bounded replay buffer, broadcast channel | `emit`, `events_since`, `subscribe`, the SSE handler | every task of a run emits; browsers and terminal views read |
| Terminal observers (`agent/follow.rs`, `agent/tui.rs`) | a receiver, a folded view | `plain`, `drive`, `drain` | the event stream, the state watch channel |
| Browser dashboard (`apps/web/src`) | a folded view, an EventSource, a pool of pending events and its timer | connect, handle, flush, disconnect | the SSE endpoint, the run list |
| Run orchestration (`agent/runner.rs` RunManager) | RunState, cancellation token, results, stop reason, bundle slot | `execute`, `run_cycle`, `spawn_telemetry`, `finalise`, `persist`, `write_event_log` | a blocking thread per module, the telemetry task, the HTTP cancel |
| External-load ceiling (`agent/runner.rs` Watchdog) | three sample counters, the reported flag, the suspension flag and the contention slot | `check`, `check_external_load`, `suspend_load_ceiling`, `take_contention` | the module loop writes the flags, the telemetry task judges |
| Requests and preflight (`agent/main.rs` run, `agent/server.rs` create_run, `agent/preflight.rs`) | none | what a request asks for, whether the host may be loaded | the registry, the inventory, the run |
| Modules and registry (`core/module.rs`, `modules/registry.rs`) | manifests, profiles | `modules_for_profile`, `run` | the runner; the harness |
| Harness and kernels (`core/`) | samples of one workload | calibrate, repeat | the reporter's cancellation |
| Containers and the modules that use them (`modules/container.rs`, databases, deployment, WordPress) | labelled containers, networks and images | ensure, launch, ready, exec, remove, reap | Docker or Podman, other agents on the host |
| Storage, network, web and runtime modules (`modules/`) | a fixture, a budget, a script, an origin | `run` | the disk, endpoints, interpreters |
| Scoring (`scoring/`) | none | `score_run`, `complete_cycles`, `analyse` | the agent and the validator |
| Validation, bundle, signing (`report/`) | none | `validate_bundle`, `scores_match`, sign | the agent and whoever receives a bundle |
| Run registry and read endpoints (`agent/runner.rs`, `agent/server.rs`) | runs in memory, one running slot | `start`, `evict_replayable`, `list_runs`, `get_run`, `get_bundle`, `stream_events` | the index, the run directories |
| Index and retention (`agent/index.rs`, `agent/main.rs` prune) | SQLite rows, run directories | `record`, `reconcile`, `forget`, `prune` | several processes share one state directory |
| External sessions (`agent/external.rs`, `modules/external_session.rs`, `protocol/external.rs`) | origin counters, an inbox for one report, a deadline, a stop flag | `accept`, `web-target`, `web-drive`, `reconcile` | a control thread, an origin, generators on other machines |
| Reverse proxy (`agent/proxy.rs`) | the generated file, a displaced file, a receipt | `apply`, `rollback` | two web servers' validators, the operator's own edits |
| Inventory (`crates/darcbench-inventory`) | none | reads /proc, /sys | the ceiling, preflight |
| CLI, config, characterise, HTML report, WordPress fixture | none | parsing, printing, generating | |

`apps/control-plane` is a document at this commit; `benchmarks/` and `corpus/`
are data.

### What is hard, and what must hold

* **Concurrency inside a run.** Three tasks emit; the watchdog and an operator
  cancel; the telemetry task is aborted and not awaited, so it may still act
  while the run is being finalised. Numbering must stay gapless, every module
  that starts must be closed, and "terminal" must mean that the results are
  readable and final.
* **Bounded buffers.** The replay buffer and the broadcast channel have one
  capacity. Subscribing, taking the backlog and reading the channel are
  separate steps, and a slow reader is overtaken. Delivery must stay in order
  and must miss only what was overwritten, and a view must reach the end.
* **Check-then-act without a lock.** The load ceiling's flags are set by one
  task and judged by another; the index is reconciled and pruned by processes
  that do not know of each other; a list is two reads; two agents sweep one
  daemon by one label.
* **Failure.** Any file write and any container command may fail or be killed
  at its deadline and take effect later, a process may die between two, and
  the operator edits the same directories. What was created must be removed,
  or be known to be unconfirmed.
* **Partial results.** A module loses units to a budget, a missing tool, an
  unsteady machine or a cancellation. What is absent must be said, and must
  reach the verdict through warning, status, score and reason.
* **Two counts of one thing.** An external session compares what a generator
  claims with what the origin counted, over a network that loses and delays;
  the validator compares a card with the results it claims to be made from.
* **Termination.** Runs, followers, pages, modules and sessions must end
  although what they wait for ends only if asked properly.

The full list, by line, is `hazards` in `PROJECT.json`.

## 2. The modules

| Module | Models | Composed with |
|---|---|---|
| `OrderedLog` | abstract: a log numbered from 0, readers that get increasing numbers | implemented by `EventStream` |
| `RunEvents` | `RunHandle::emit` (three steps under one lock), the buffer, the channel, `events_since` | extended by `EventStream` and `Follower` |
| `EventStream` | the SSE handler and a client that reconnects with Last-Event-ID | `RunEvents`, refines `OrderedLog` |
| `RunStream` | the dashboard's hook: EventSource, pool, timer, fold, teardown | a client of `EventStream` |
| `Follower` | `plain()` and the terminal dashboard's `drive()` | `RunEvents` |
| `Runner` | one run from preflight to the terminal state | |
| `LoadCeiling` | the watchdog and the module loop's side of it | |
| `Catalogue` | manifests, profiles, anchors and the preflight decision | extended by `Measurement` |
| `Measurement` | one module measuring, unit by unit, and the result made of it | extended by `Verdict` |
| `Verdict` | scoring's eligibility and cycles, `scores_match`, `validate_bundle` | extended by `Assessment` |
| `Assessment` | a run from its request to the receiver's verdict | composes the three above |
| `Containers` | the container tier and the four modules on it, two agents, one daemon | |
| `RunRegistry` | memory, eviction, and what each endpoint answers | |
| `RunStore` | run directories, index rows, reconcile and prune in several processes | |
| `ExternalSession` | ticket, target, control thread, origin and generators | |
| `Proxy` | apply, rollback, and the operator between them | |
| `StreamProofs` | inductive invariants and theorems about `RunEvents`, `EventStream`, `RunStream`, `Follower`, and about the registry that keeps the streams, `RunRegistry` | extends the observers and the registry |
| `RunnerProofs`, `LoadCeilingProofs`, `AssessmentProofs`, `ContainersProofs`, `RunStoreProofs`, `ExternalSessionProofs`, `ProxyProofs` | inductive invariants and theorems about the module named | |

The `MC*` modules only give constants their values. Operators that follow the
comment "Mutant:" are never used by a specification: each is a plausible bug of
the definition below it, kept so that a property can be shown to detect it.

### How state and actions correspond to the code

**RunEvents.** `seq`, `record`, `events`, `truncated` are the counter, the full
record, the replay buffer and its flag under the `events` lock; `sent` is all
that was broadcast. `Allocate`, `Retain`, `Broadcast` are `emit`'s three steps
and `emission` says where an emitter is in them. `events_since` is `EventsSince`,
with its `partition_point` as a cut of the buffer. A broadcast receiver is a
position in `sent`; what lies more than `ReplayBuffer` behind has been
overwritten.

**EventStream.** `Subscribe`, `Snapshot` (or `RefuseReplay`, the 410), `Replay`
one event at a time, then `Receive` and `Lag`. The handler's filter drops what
the backlog already held (`highest`). `Disconnect` can fall anywhere and the
client comes back with the last number it received. `Refetch` is what the
protocol asks of a client after a 410.

**RunStream.** A client is a protocol client or a page, chosen at the start; so
one instance checks both. A page adds to `EventStream`'s steps what the hook
does at each: `Message` pools an event and folds the pool when it is full or
the event is terminal, `TimerFires` folds it after `FLUSH_MS`, `Breaks` leaves
the source to reconnect, `IsRefused` ends it for good, `Closes` is the effect
on `view.state`. The fold keeps the numbers; what it draws is left out. A run
that preflight blocks is over for the page at its second event.

**Follower.** `plain` waits for an event, folds it and then looks at the state;
`drive` looks at the state once a frame and drains the channel. Both re-read
the buffer after a lag. `cursor` is the position of the receiver, `overrun` tells
that it was overtaken. `end` is the number of `run.completed`, `state` the
watch channel, which the orchestrator writes last; `blocked` is a run that
preflight will refuse, whose view is over for the dashboard at preflight's
result, the third event, and whose state is not. The process holds a handle, so
the channel never closes under a follower.

**Runner.** `pc` walks `execute`, `run_cycle` and `finalise`; the blocking
thread is `thread`, the 1 Hz task `telemetry`, with every `await` or emission
of it a step. Cancelling sets a token only; each place that reads it is an
action. Each write of `persist` and `write_event_log` may fail where the code
handles the failure. Two abstractions: `RunReporter`'s warnings and samples are
one action, and the index row is left to `RunStore`. `PanicsUnwind` is TRUE in
the runs, as in a test build; the release profile aborts (`Cargo.toml:135`).

**LoadCeiling.** One tick is split at the reads the code makes: `waiting`,
`judging` (ceiling, heat, whether enforced and suspended), `counting`. The
module loop's `DiscardContention`, `SetSuspension`, `Resume`, `Take` are its own
steps, so a sample can fall between any two. Percentages are the classes the
thresholds tell apart. An operator's cancellation is Runner's.

**Catalogue.** Tables as the build ships them: `Builtin` is the registry with
each manifest's bound, safety class, writes and egress; `ModulesForProfile` the
module sets; `Anchored` which metrics each scoring model has a reference for.
`PreflightPasses` is the decision over the plan, the host and `--force`, with
`NoRoom`, `NothingToRun`, `Crowds` the blocking findings and `Warned` the
others. `FixtureFor` is the size `storage.mixed` gives itself later.

**Measurement.** A module is a table of units (`CpuUnits`, `StorageUnits`, ...)
and `work` is the place in it, or `Idle`. `Sample` bounds which units are walked
(`Sampled`); the metrics of the others count as published. A unit calls once (`Call`) or calibrates and
repeats (`Calibrate`, `Repeat`, `CloseUnit`), and ends in one of its `End`s:
published, flagged, withheld with a warning, missing without one, or failing
the module; `Conclude`, `GiveUp` and `Return` make a result of it as
`run_cycle` does. What a warning accounts for is what its message speaks of, all
the metrics of a command; its `metric_key` names the first only
(`database_cache.rs:658`, `database_oltp.rs:708, 726`). A cancellation is seen where the code looks (`Looks`) and
nowhere else; `since` counts what a module still begins. Every fault and every
unsteady distribution costs one of `faults`. A distribution is its coefficient
of variation and its median deviation in percent.

**Verdict.** Scores are represented by the metrics they are computed from, so
that a card that says something else is told apart from one that does not,
without arithmetic. `CompleteCycles` and `ScoringCycle` pick what is scored;
`ScoreRun` is the card; `ScoresMatch` compares field by field as
`scores_match` does; the `*Reasons` operators are `validate_bundle` in its
order; `ValidateBundle` the state they amount to, for an agent and for a server.

**Assessment.** `Refused` and `Started` make of a request a profile, a plan and
whether it cycles, as `run` and `create_run` do; `Admit`/`Refuse` is preflight;
`BeginModule`, `InModule`, `AnotherCycle`, `FinishModules` the loop; `Finalise`
scores, validates and signs. `Misstate` and `Age` are what may happen to the
bundle before `Judge`, the receiver's validation. Time is not modelled: past
the second cycle another one is a choice.

**Containers.** Each module is a program: a table of commands with where each
answer leads (success, failure, killed at the deadline). `run[a]` is the place
in it, and `owed` the stack of what Drop will remove; `daemon` is what carries
the label, `local` the images on the host, `late` what a killed client asked for
and the daemon may still do. An image comes by a module's fetch
(`EnsureImagePresent`) or because the daemon pulls what a container it makes
needs (`Pulls`), and somebody else may remove one that nothing runs from
(`ImageGoes`). `ReapLists` and `ReapRemoves` are two steps, so an object may
appear or go between them. `gone`, `excused` and `strays` are histories: images
that went, since its fetch, while an agent still needed them; objects some
command about which was not confirmed; and objects a sweep could not be sure to
take. A sweep does not ask whose an object is.

**RunStore.** A statement against SQLite and a file operation are atomic,
nothing else is. A bundle is a version and a verdict, its identity the version.
`cmd` is one process in `reconcile` and perhaps `prune`; `writer` is the agent
that finishes a run. The scan visits bundles in a fixed order, which loses
nothing because rows are independent; the order of runs is their number. The
in-memory index an unusable database falls back to is not modelled, nor the
directory `write_event_log` recreates for a run pruned meanwhile.

**RunRegistry.** `memory`, `bundles`, `logs`, `rows` are where a run can be
answered from; the four steps of `finalise` and their failures move it. Paging
(`RUN_LIST_LIMIT`), authentication and parsing are left out.

**ExternalSession.** `PerPhase`, `Load` and their neighbours are
`SessionOffer::accept`: the ceilings, the clamps and the time left shared by
the phases. A generator sends one request at a time: the workers' concurrency
changes when requests overlap, and not what is counted. The origin counts
before it answers; an answer may be lost and a request may arrive after its
sender gave up (`late`). A failed warm-up request is claimed nowhere, as in
`loadgen::run`. The control thread takes one connection at a time; Drop sets
`stop`, wakes and joins it, and then waits for the origin's connections
(`JoinOrigin`). Reading a control request is one step although
`CONTROL_DEADLINE` is one per read: what ends it in every case is
`MAX_CONTROL_BYTES` (`external_session.rs:416, 480`), and the model says nothing
of how long that takes. Tokens, HTTP and TLS are left out.

**Proxy.** Two servers may be installed and there is one receipt. Every file
operation is a step with its failures, and `Crash` may fall between any two.
`Preflight` is what `apply` asks of the host; a validator may pass, reject or
say nothing, and Apache is never asked about a fragment. `FindReference` finds
a line that names the file by its whole path, and not one that names it
relatively, as the code does; its bounds (depth, files, size) are left out. The
operator acts only between commands. Two commands at once are not modelled.

## 3. What is checked

Every run is exhaustive over its instance.

| Run | Instance | Shows |
|---|---|---|
| `event_stream` | 2 emitters; 1 client, either a protocol client or a page with 2 breaks and a pool of 2; buffer 2, 6 events | Numbering is gapless (`StreamIsGapless`); delivery in order, once (`DeliveredInOrder`); a gap takes a lag (`NoGapUnlessLagged`); an open stream catches up or ends (`OpenStreamCatchesUp`); `OrderedLog` is implemented (`ImplementsOrderedLog`); a page that is not refused ends with the run and shows all it received (`ViewEndsWithTheRun`) |
| `follower` | a plain follower and a dashboard on a run that preflight may refuse, buffer 2, 4 events | What is shown is in order (`ShownOnceInOrder`) and misses only what was overwritten in both buffers (`OnlyOverwrittenEventsAreMissed`); the dashboard ends with the run (`DashboardEndsWithTheRun`) |
| `runner` | a run of two modules, and an endurance run of two passes | Every start gets its outcome (`EveryStartHasItsOutcome`), only a cancellation cuts a run short (`OnlyCancellingCutsShort`), the stop reason reaches the bundle (`StopReasonReachesBundle`), terminal means final and readable (`TerminalIsFinal`), every run ends (`RunEnds`) |
| `load_ceiling` | 5 samples, 2 modules, 5 kinds of host; thresholds 2, 3, 2 | Counters mean "consecutive" (`CountersAreConsecutive`), stops are earned (`StopsAreEarned`), one announcement per stretch (`AnnouncedOncePerStretch`), a stretch degrades every module it was sustained in (`SustainedLoadDegrades`) |
| `assessment` | every profile, and requests for a hand-picked list, a module twice, another length, one module over and over, and four that are refused; 4 hosts (roomy, tight, production, unknown free space); 1 warm-up and 2 repetitions; up to 3 cycles; up to 2 faults | What is absent is told and degrades (`AbsentIsExplained`); a cancellation is seen within four pieces of work (`CancelIsSeen`); an admitted host keeps its reserve (`AdmittedHostIsSpared`); the card is that of the last whole cycle, and retention compares what an earlier and a later one measured and leaves out nothing that all did (`ScoredWholeCycle`); only a clean standard run is validated (`ValidatedIsEarned`); agent and server agree or the bundle is rejected (`ServerAgreesOrRejects`); progress never falls back (`ProgressNeverFallsBack`) |
| `containers` | `database.cache` from the command line beside an agent running two of `oltp`, `deployment`, `wordpress`; 1 fault, kill, crash or image removed; no image preloaded | Nothing outlives its module unless a command about it was not confirmed (`NothingOutlivesItsModule`); a sweep that worked leaves no residue of its own (`OwnResidueIsSwept`); what a module makes a container from it has fetched itself, and it is on the host unless removed since (`NoImplicitPull`); every module returns (`ModulesReturn`) |
| `run_store` | 2 runs, 2 commands, one edit, one removal by hand | Reconciliation ends in agreement (`ReconciledIndexMatchesDisk`), prune keeps the newest and the invalid (`PruneKeepsTheNewest`), no row is lost while its bundle is there (`EvidenceIsKept`) |
| `run_registry` | 4 runs, 1 retained, one list request, one removal, one restart | Memory is bounded (`MemoryIsBounded`), eviction turns no answer into a 404 (`NoResultIsEvictedAway`), a list that straddles an eviction is complete (`ListMissesNoRun`) |
| `external_session` | 4 holders of a ticket: two shapes, one shape, a rate that is none, more phases than there is time for; slack 2 | An honest report is rejected only if somebody else was served (`RejectionMeansAnotherGenerator`); an accepted one describes one generator (`AcceptedDescribesOneGenerator`); the target always leaves (`WaitEnds`) |
| `proxy` | two servers, one receipt | Receipt and files agree and the include keeps its file (`FilesMatchTheReceipt`); no copy of the operator's file is lost to a true receipt (`OperatorsFileSurvives`) |

**Why the bounds are enough.** A buffer of two distinguishes the oldest entry
from the newest and six events evict four of them, so a resume position falls
before, on and after the first entry kept; two breaks let a page resume twice,
once across an eviction. The thresholds of the load ceiling are as small as
they can be while warn, abort and heat remain distinct (20, 300 and 30 in the
code): no comparison sees more than below, at and above. Two commands are
enough for every pair of an index operation and a file operation to
interleave; a third adds only another of the same. Four runs with one retained
make eviction choose. In `external_session` the slack equals what the first
generator's failed warm-ups can leave unclaimed, the boundary the code is on
(4 shapes of 256 workers, `RECONCILE_SLACK_REQUESTS` 1024). In `assessment`
each module walks the units where something particular can happen (`Walked` in
`MCAssessment`) with the metrics of the others taken as published; units do
not share state but for what the tables say, so the others add length and no
case; three cycles are the fewest that have a whole one before, at and after a
failure, and one module over and over makes whole cycles that measured
different things; the spreads are one that only a tail shows, one a module finds
unsteady and one the validator does. In `containers` a sweep meets the residue
of an earlier module of its own and the live objects of another agent; with
one fault every command fails, is killed, or takes effect late once. Two
commands are interchangeable in `run_store`.

**Deadlock.** `CHECK_DEADLOCK FALSE` is set where the system stops of itself: a
run that has ended (`runner`, `load_ceiling`, `follower`, `assessment`), a page
that has let go of the stream once everything was emitted (`event_stream`), a
session that is over (`external_session`), a registry whose bounded operations
are used up. `containers`, `run_store` and `proxy` are checked for deadlock.

**Fairness.** `runner`: the tokio runtime schedules the orchestrator and the
telemetry task, and a workload returns once the token is set, which is the
modules' contract; that workloads return otherwise is the property's own
hypothesis. `follower`, `event_stream`: an emitter inside the lock leaves it,
and a follower or connection with something to do is scheduled; a protocol
client never has to reconnect or read. A page's browser reconnects, delivers
and runs timers and effects, and its connection breaks a bounded number of
times. `containers`: an agent takes its next step, because every client command
has a deadline and every poll a limit; nothing is asked of the daemon.
`external_session`: the target's two threads run, the deadline passes, and a
connection the origin serves ends, each of its socket operations having a
timeout. Nothing is asked of a generator. An accept error is outside that
fairness.

## 4. Where the code and its documentation part

Two runs check a property the documentation states and find it violated; the
counterexample is what the code does.

* `plain_hangs` (`PlainEndsWithTheRun`). `plain` looks at the state only after
  an event. One that subscribes between `run.completed` and the terminal state,
  or was overtaken past the end, waits for an event that never comes.
* `path_latency_downgrades` (`PathLatencyNeverDegrades`). The path metrics of
  `network.transfer` are marked neither as dispersion nor as a tail, so the
  validator takes their variation for an unsteady machine and the run is
  partial, though they are "neither scored nor allowed to degrade a run"
  (`modules/network_transfer.rs:97-98`).

Other divergences met on the way. The definitions named stay in the modules;
put one in a .cfg to see its trace.

* `NoUndetectedGap` (`EventStream`): a lagged SSE receiver is not ended; the
  stream goes on after the hole (`agent/server.rs:854`), against the comment at
  851-853 and `docs/REALTIME-PROTOCOL.md:83`.
* `NoTruncatedPrefix` (`EventStream`): a client without a position is given
  what is left of the buffer, truncated or not (`runner.rs:49-51, 694`).
* `RefusedPageRecovers` (`RunStream`): after a 410 the protocol's client
  refetches; an EventSource gives up for good and the hook only shows it as
  reconnecting, so the page shows a running run and its start button stays
  disabled (`useRunStream.ts:376-380`, `REALTIME-PROTOCOL.md:100`). And a run
  that preflight blocks is `failed` for the page at that event, so it lets go
  of a stream that still has `run.completed` and the verdict to bring
  (`useRunStream.ts:179, 387-391`).
* `PlainPrintsTheEnd`, `LagIsRecovered` (`Follower`): `plain` may return with
  `run.completed` unread; after a lag the buffer has dropped the same events as
  the channel (`follow.rs:52-62`, `tui.rs:731-736`).
* `SuspendedModuleIsNotCharged` (`LoadCeiling`): a sample judged on either side
  of a suspension degrades a container module that the comment at
  `runner.rs:1307-1309` protects. Contention noted in the gap between modules is
  discarded by the next module's start, although `runner.rs:519-521` charges it
  to that module.
* `FinalSeqCountsEveryEvent` (`Runner`): `final_seq` is read before
  `run.completed` gets its own number (`runner.rs:1648`, `events.rs:317`).
* `StoredLogEndsWithTheEnd`, `StoppedRunIsCancelled`,
  `DigestStopsBeforeFinalisation`, `FatalFailureAbortsTheRun` (`Runner`): an
  aborted telemetry task may emit after `run.completed`; a stop reason recorded
  after the last token read is sealed into a completed run; `score.final` is in
  the digest that says it stops before it; a failure announced as fatal does
  not abort.
* `EvictedRunIsFullyAnswerable`, `OnlyFailuresStayResident` (`RunRegistry`):
  eviction asks for the bundle alone, and a run whose directory was pruned is
  never evicted (`runner.rs:922-934`).
* `CurrentRowDescribesItsFile` (with `EditsAnytime = TRUE`) and
  `UnreadableBundlesAreLeftAlone` (`RunStore`): a rewrite between reading and
  stamping a bundle goes unnoticed; prune deletes an unreadable bundle by the
  row it left (`index.rs:741-746`).
* `EveryFetchIsExplicit` (`Containers`): `docker run` is given no
  `--pull=never`, so an image removed between a module's fetch and its `run` is
  pulled inside the measurement, against "the fetch is explicit, before the clock
  starts" (`container.rs:780`).
* `RemovesOnlyWhatItCreated` (`Proxy`): a receipt outlives the file it records,
  after a crash between `undo_files` and its own removal or because the
  operator replaced the snippet, and the rollback deletes a file DARCBench did
  not create (`proxy.rs:691`, promised at 640-642).
* `FailedApplyLeavesNothing` (`Proxy`): a write that fails half way where
  nothing was displaced leaves half a file and no receipt (`proxy.rs:530-533`).
  `find_reference` misses a line that names the snippet relatively, although
  its comment has it err in the other direction (`proxy.rs:820-823`).
* Containers. A sweep removes whatever carries the label, and so the live
  containers of another agent on the host (`container.rs:983-992`), though
  `reap_networks` spares "somebody's live run" (965-966). A `run` that fails or
  is killed, and an ephemeral command that is killed, leave their container
  although "on any failure after the container starts, the container is removed"
  (1294-1297); a `network create` that is killed is not owed either.
  `deployment.container` sweeps images before containers, `reap_networks` says
  containers go first in both cases (951-956).
* Cancellation. `database.oltp`, `database.cache` and `deployment.container`
  never ask the reporter, though modules "must call is_cancelled between
  repetitions" (`core/module.rs:185-187`); `NeverLook` in `Assessment` names
  them.
* Percentiles a tool's output did not carry, the parts of a connection that was
  not made, and the image once a build or a save has failed are absent without
  a warning (`Unspoken` in `Assessment`), against "absent and unexplained is
  the one outcome this codebase does not allow" (`database_oltp.rs:697-699`).
* Two bounds for one figure: `network.transfer` accepts a variation of 0.30, the
  validator flags it from 0.25; `web.static` warns on the plain coefficient of
  variation where the others use the robust rule.
* `complete_cycles` says completeness is judged against the first cycle, and
  judges against the union of all (`sustained.rs:95-98, 101-116`).
* External session: a second report is acknowledged once the first has been
  taken out of the inbox, though "a session accepts one report"
  (`external_session.rs:572`); a report acknowledged between the last look into
  the inbox and the deadline is never judged; the 202 is sent before the
  reconciliation, though the comment at 84-88 has the target reconcile first.
* Two processes that migrate an old index at once: the slower one, which read
  the old version, drops the tables the faster one has made and stamped; if it
  ends before its own CREATE, the index is stamped current and has no tables,
  and no later open makes them (`index.rs:273-357`). Seen while reading; not
  modelled.

## 5. What is proved

Theorems hold for every value of the constants: any number of emitters, clients,
followers, runs, modules, agents, commands, generators, requests, hosts,
repetitions, cycles, ticks and faults, any buffer, any thresholds and any offer. Each proof module stands beside the module
it is about and is checked by `tlapm` to the last leaf. All but the type theorems
and `PagesAreClients` state a property that a run checks on a small instance.

| Module | Theorem | States |
|---|---|---|
| `StreamProofs` | `ClientTypeCorrect`, `StreamIsAlwaysGapless`, `AlwaysDeliveredInOrder`, `GapsComeFromLagAlone` | `TypeOK`, `StreamIsGapless`, `DeliveredInOrder`, `NoGapUnlessLagged` always hold |
| | `StreamImplementsOrderedLog` | `Spec => ImplementsOrderedLog` |
| | `PagesAreClients` | `PageSpec => Spec`: a page takes the stream's steps or none |
| | `PagesGetWhatClientsArePromised` | the three safety properties and `ImplementsOrderedLog`, of `PageSpec`, the specification `event_stream` checks |
| | `FollowTypeCorrect`, `AlwaysShownOnceInOrder`, `OnlyOverwrittenEventsAreEverMissed` | `FollowTypeOK`, `ShownOnceInOrder`, `OnlyOverwrittenEventsAreMissed`, of `FollowSpec` |
| | `RegistryTypeCorrect`, `MemoryIsAlwaysBounded`, `ListNeverMissesARun` | `RegistryTypeOK`, `MemoryIsBounded`, `ListMissesNoRun`, of `RegistrySpec` |
| | `ResultsAreNeverEvictedAway` | the action property `NoResultIsEvictedAway` |
| `RunnerProofs` | `TypeCorrect`, `EveryStartAlwaysHasItsOutcome`, `OnlyCancellingEverCutsShort`, `StopReasonAlwaysReachesBundle` | `TypeOK`, `EveryStartHasItsOutcome`, `OnlyCancellingCutsShort`, `StopReasonReachesBundle` |
| | `TerminalIsAlwaysFinal` | the action property `TerminalIsFinal` |
| `LoadCeilingProofs` | `TypeCorrect`, `CountersAreAlwaysConsecutive`, `StopsAreAlwaysEarned`, `AlwaysAnnouncedOncePerStretch`, `SustainedLoadAlwaysDegrades` | `TypeOK`, `CountersAreConsecutive`, `StopsAreEarned`, `AnnouncedOncePerStretch`, `SustainedLoadDegrades` |
| `AssessmentProofs` | `AbsentIsAlwaysExplained`, `CancelIsAlwaysSeen`, `ValidatedIsAlwaysEarned`, `AgentAndServerAgree` | `AbsentIsExplained`, `CancelIsSeen`, `ValidatedIsEarned`, `ServerAgreesOrRejects` |
| | `AdmittedHostIsAlwaysSpared`, `AlwaysScoredWholeCycle` | `AdmittedHostIsSpared`, `ScoredWholeCycle` |
| | `ProgressNeverFalls` | the action property `ProgressNeverFallsBack` |
| `RunStoreProofs` | `PruneAlwaysKeepsTheNewest` | `PruneKeepsTheNewest` |
| | `ReconciliationIsComplete`, `EvidenceIsAlwaysKept` | unless a bundle is edited under a command, `ReconciledIndexMatchesDisk` and the action property `EvidenceIsKept` |
| `ExternalSessionProofs` | `HonestReportsAreNeverBlamed` | `RejectionMeansAnotherGenerator` |
| | `AcceptedAlwaysDescribesOneGenerator` | the action property `AcceptedDescribesOneGenerator` |
| `ProxyProofs` | `TypeCorrect`, `FilesAlwaysMatchTheReceipt` | `TypeOK`, `FilesMatchTheReceipt` |
| | `OperatorsFileAlwaysSurvives` | the action property `OperatorsFileSurvives` |
| `ContainersProofs` | `TypeCorrect`, `NothingEverOutlivesItsModule`, `OwnResidueIsAlwaysSwept`, `NeverAnImplicitPull` | `TypeOK`, `NothingOutlivesItsModule`, `OwnResidueIsSwept`, `NoImplicitPull` |

**Assumptions.** Those the modules state on their constants, which TLC evaluates
in every run, and no others: bounds are natural numbers; the replay buffer is
not empty, a run has a module and a cycle, and a heartbeat a period; the load
ceiling warns no later than it aborts (`LoadCeilingAssumption`, 20 and 300 in the
code); the orchestrator emits, and a follower is of one kind
(`FollowerAssumption`); an agent's modules are the four that use containers, and
what is on the host before them is one of the images in `ALLOWED_IMAGES`
(`ContainersAssumption`, `PreloadedAssumption`); a request
names a profile and lists modules by name, a host's free space is an integer, and
what is measured is repeated at least once (`AssessmentAssumption`, `MeasurementAssumption`); the warm-ups of all
shapes fit the slack (`ExternalSessionAssumption`; section 3 says why). The rest say that
`None` is none of the values it stands beside. Two theorems of `RunStoreProofs`
assume `~EditsAnytime`, that no operator edits a bundle while a command is under
way. The code does not rule such an edit out, and without the condition both
properties fail: a rewrite between reading and stamping goes unnoticed (section
4), and a prune may then choose by a verdict the file no longer has. The
`run_store` run has the same condition. `PruneAlwaysKeepsTheNewest` needs none.

**The arguments.** None of these properties is inductive. In each module `Inv`
(in `StreamProofs` `StreamInv`, `ClientsInv`, `FollowInv` and `RegistryInv`, in `RunStoreProofs`
`StoreInv` and `Unedited`, in `ExternalSessionProofs` `SessionInv`) is the
inductive invariant that implies them.

* *The stream* (first part of `StreamProofs`). `StreamInv` is about `emit` alone: at most
  one emitter is inside (`OneEmitter`), and counter, record and channel are out
  of step by exactly what it has done so far (`InStep`). With `StreamIsGapless`
  and `HoldsTheNewest` each of its three steps preserves it; `RetainStep` carries
  the argument that evicting the oldest entry keeps the buffer the latest
  stretch. Both observers only read the stream, so both build on these lemmas.
* *Its clients.* Per client, how receiver, backlog, filter and received events
  are placed in the record: `Closed`, `Resuming`, `Replaying`, `Following`,
  `InOrder`. "In order" alone does not survive `Snapshot`: the buffer's cut at
  the client's position must be exactly the continuation (`SnapshotResumes`, from
  `PartitionPointIsACut` and `StretchIsConsecutive`). The refinement needs no
  more: a delivery appends an event of the record newer than the last
  (`ShownFromTheRecord`), the rest stutters.
* *The followers.* Per follower, the next event of its receiver is in what it
  folded or right behind it, unless it was overtaken, and then it is no newer
  than the oldest the buffer keeps (`Continues`). Hence a re-read of the buffer
  can neither go back nor leave out what could still be had.
* *A run.* Everything is tied to where the orchestrator is: what it has decided
  and published (`Placed`), what is known of a stop (`Told`) and of a cancellation
  (`Cut`), how many modules have started and in which order (`Counted`,
  `InOrder`), and how the log pairs starts, outcomes and results (`Closed`,
  `Reported`). The module's thread and the telemetry task emit at any of these
  places; `GrowsBy` is what any emission does to the places of the log that count.
* *The load ceiling.* The counters are kept sample by sample, the properties read
  whole stretches off the history. Lemmas about `Stretch` say what one more
  sample does; `Counting`, `Bounded`, `Warming` and `Stopping` follow the sampler
  through a tick, and `Charged` the module loop across every interleaving with it.
* *From a request to its verdicts.* The argument goes up in four steps. Of each
  table of units a lemma says that its ends account for what they leave out
  (`Explained`) and where its rows look at the flag (`Looking`); `EveryTable` sums
  them up, and nothing after it opens a table. `WorkOK` is the invariant of one
  module on its way through such a table: what it will have to say (`Mentions`),
  and that the progress it shows is covered by the repeated units behind it
  (`Shows`), of which each step to the next unit (`NextIsAhead`) leaves one more.
  `RunInv` adds that each module a run has been through left a result
  (`Covering`), that results are such modules' (`Recorded`), and that a cancelled
  module has begun no more than it has rows behind it (`Blind`). `Certified` says
  what a bundle can be once signed: `Genuine`, `Misstated` in one field, or
  `Aged`; the first is confirmed by both sides (`UntouchedIsConfirmed`), the
  others are rejected (`TouchedIsRejected`). `ValidatedIsEarned` follows because
  each reason is empty and so each result is clean (`ValidatedMeans`,
  `CleanResult`).
* *What is scored, and what is written.* A run under way was admitted
  (`Admitted`). The sum the decision is made on goes over the plan in order, the
  property's over the set of its modules: `SumsUp` says what a sum over a finite
  set is, `AnyFirst` that it may begin with any element, `SumOverPlaces` that the
  first is no less. Complete cycles are those in which every module of the plan has a
  result (`CompleteAreWhole`); the windows of retention are disjoint and not empty
  (`WindowsAreApart`, `WindowsHaveACycle`), so what it compares was measured in an
  earlier and a later one, and what all measured is compared
  (`RetentionCompares`). Induction over sizes is by a least counterexample again
  (`BySize`).
* *The registry.* A run in flight is resident (`Resident`) and alone in that
  (`OneInFlight`), one with files has begun (`Begun`); the bounded memory and a
  list request between its two reads owe something to that (`Bounded`, `Owed`).
  `LeastOfASet` is the induction eviction needs, by a least counterexample.
* *The store.* Nothing is known of a run before it was written (`Traced`). What
  is gone from the disk, or chosen to go, is too old or superseded by as many
  newer runs on disk as are kept (`NewestKept`). A prune counts rows, and a row
  may belong to a run another prune has removed already; that run is then
  superseded itself, and by the same runs the older one is (`SelectStep`). The
  newest of the chosen is removed first, so what supersedes it supersedes the
  others (`RemoveStep`). Without edits under a command, rows and files agree version
  for version (`Truthful`), each command still has every bundle before it whose
  row is out of date (`Informed`), and one that nobody disturbs leaves nothing
  out (`Steady`).
* *The external session.* Per generator, `Balanced` relates what the origin
  counted to what it will claim: no answer is read that was not counted, and
  what is counted, or still may be, is claimed or was a warm-up request, of which
  `Planned` says how many there can be at its place in the plan and `WarmupsFit`
  that all shapes' fit the slack. `Sums` ties the one counter to the generators.
  A generator that has reported counts no more, so a report in the target's
  hands stays its last word (`Reported`), and a rejection was right (`Blamed`).
  For an accepted report the counter is the sum of what all were served
  (`AddsUp`). `MapThenSumSet` is a fold over a recursive function; that the
  function exists (`SumsExist`) and what one more of one element does to it
  (`SumOfOneMore`) are shown by a least counterexample (`OneByOne`).
* *The proxy.* `Holding` says what each step of a command implies about the file
  at the target path and the receipt whatever has failed before; `Undoable` what
  must be undone, and still can be, as long as nothing has.
* *The containers.* `Row` says what a step must be for what comes after it, and
  each of the four tables is shown row by row to consist of such steps
  (`ProgramsAreSound`): a step past a fetch or a sweep can only be reached through
  it, and a step that drops something only where something is owed. The actions
  are then proved from the rows, for a module at any place of any program.
  `Shape`, `Own`, `Fetched` and `Swept` say what an agent's place means for what it
  owes, what it fetched (what it still needs of that is on the host, or went since)
  and what its sweep found; `Accounted` says of every object
  that a running module owes it or is just making it, or that some command about
  it was not confirmed. `PopStep` has the argument for the order of removal: a
  network that refuses to go holds a container that is not owed, because a network
  is owed first and removed last, so that container is an unconfirmed one.

**What the proofs asked of the models.** A receipt of `Proxy` is absent,
unreadable or parsed, and `OperatorsFileSurvives` leaves out only a receipt for a
file the operator has replaced. The histories of `LoadCeiling` leave out reads
that failed, as its counters do. `Runner`'s properties speak of places in the log
and not of filtered copies of it. `Follower` discards a stretch by its first
number, which decides for all of it because numbers grow. `Containers` states
which images may be on the host at first; its `Inv` is also an invariant TLC
finds on the `containers` instance (466 934 states), as are those of `RunStore`
on `run_store` (4 222 748) and of `ExternalSession` on `external_session`
(2 408 505) and of `Assessment` on `assessment` (470 241). `ScoredWholeCycle` said
too much at first: that retention is reported whenever the last whole cycle and
any earlier one measured something in common. No proof could be had, and a run
of one module over and over shows why: retention compares the first third of the
whole cycles with the last, and what only a cycle between measured before the
last is not compared. The property and the instance were changed accordingly. `Measurement` walks a
table by the places in it (`Sampled`) and not through a filtered copy, and
`Assessment` writes its records out instead of merging them. `RunStore` names the rows and bundles it may hold (`Rows`, `Content`)
and keeps `None` out of them, and `ExternalSession` keeps it out of its answers.
`Follower` and `EventStream` share no name but `RunEvents`'s, so that one module
can speak of both. The models use no RECURSIVE
operator, and no `@` inside a nested EXCEPT, which the prover expands wrongly.

**Only model-checked.**

* Liveness under fairness (`OpenStreamCatchesUp`, `ViewEndsWithTheRun`,
  `DashboardEndsWithTheRun`, `RunEnds`, `ModulesReturn`, `WaitEnds`) and ENABLED:
  out of the prover's reach as used here.
* What a page makes of the stream. That it is a client like any other is proved;
  its pool and its fold are TLC's (`event_stream`).

## 6. What is not modelled

* Arithmetic: the kernels, the statistics behind a coefficient of variation,
  and the scores themselves are floating point; the models keep which values
  are computed from which, and on which side of a bound they fall.
* Parsing, printing and rendering: the HTML report, the terminal and browser
  views beyond what they keep of the stream, argument and configuration
  parsing, tools' output beyond its classes of outcome.
* The WordPress fixture and `darcbench-characterise`: deterministic functions
  of their input that share no state with the rest.
* Reading /proc and /sys: what the readers may return is `LoadCeiling`'s input.
* Canonical JSON and signatures: `Runner` keeps what the digest covers,
  `Assessment` whether a bundle is what was signed.
* Schema migration, compare and trend, the in-memory index; authentication.
* The load generator's schedule over concurrent workers: counts do not depend
  on how requests overlap.
* The control plane, which is a document.

## 7. Plan

1. *Done.* The stream and its refinement, the observers and the page, the run,
   the ceiling, the modules, scoring and validation, the containers, the store,
   the registry, the external session, the proxy; the proofs of section 5.
2. Prove next: what a page's pool and fold keep of its stream.
3. Model next: schema migration beside the index's other writers; the writers
   of the event log joined with `RunStore`.
