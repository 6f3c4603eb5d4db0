---------------------------- MODULE RunnerProofs ----------------------------
(***************************************************************************)
(* Theorems about one benchmark run, for any profile, any number of        *)
(* modules, samples, cycles and ticks, and either panic setting.           *)
(*                                                                         *)
(* The invariant ties everything to where the orchestrator is: what it has *)
(* decided and published (Placed), what is known of a stop (Told) and of a *)
(* cancellation (Cut), how many modules have started and in which order    *)
(* (Counted, InOrder), and how the log pairs starts, outcomes and results  *)
(* (Closed, Reported).                                                     *)
(***************************************************************************)
EXTENDS Runner, FiniteSetTheorems, SequenceTheorems, TLAPS

-----------------------------------------------------------------------------
(* The invariant                                                           *)

\* Until StopCycling, until the final state is named, from the seal on, and
\* from the bundle's publication on.
Cycling == {"created", "preflight", "next", "announce", "measuring", "cycle"}
Undecided == Cycling \cup {"decide"}
Published == {"announce_end", "write_log", "publish_state", "done"}
Sealed == {"persist", "report", "index", "publish"} \cup Published

Placed ==
    /\ pc \in {"announce", "measuring"} => index <= NModules
    /\ pc \in {"created", "preflight"} => cycle = 0 /\ index = 1
    /\ pc \in Cycling => cycle < MaxCycles
    /\ thread.at # "none" <=> pc = "measuring"
    /\ ending.state = None <=> pc \in Undecided
    /\ Terminal <=> pc = "done"
    /\ Terminal => state = ending.state
    /\ bundle # None <=> pc \in Published
    /\ bundle # None => bundle.state = ending.state /\ bundle.stopped = ending.stopped

\* A stop is known before the token is set, and the token before the state is
\* named, and the state before the bundle is sealed.
Told ==
    /\ telemetry.at \in {"warn", "cancel"} => stopped
    /\ cancel.by = "watchdog" => stopped
    /\ ending.state = "cancelled" => cancelled
    /\ pc \in Sealed /\ ending.state = "cancelled" /\ cancel.by = "watchdog" => ending.stopped

Cut ==
    /\ cancel.late <= 1
    /\ ~cancelled \/ pc = "announce" => cancel.late = 0
    /\ thread.outcome = "cancelled" => cancelled
    /\ ~profile.repeats /\ pc \in Cycling => cycle = 0
    /\ ~profile.repeats /\ (pc = "decide" \/ ending.state = "completed") => cycle = 1
    /\ profile.repeats /\ ((pc = "decide" /\ ~cancelled) \/ ending.state = "completed") =>
         cycle >= MinCycles

\* Whole cycles, unless the run was cancelled, and the modules of this one.
Counted ==
    /\ pc \in Cycling \ {"cycle"} =>
         Cardinality(Starts) = NModules * cycle + index - (IF pc = "measuring" THEN 0 ELSE 1)
    /\ pc = "cycle" /\ ~cancelled => Cardinality(Starts) = NModules * (cycle + 1)
    /\ (pc = "decide" /\ ~cancelled) \/ ending.state = "completed" =>
         Cardinality(Starts) = NModules * cycle

LastPass == IF pc \in Cycling THEN cycle ELSE cycle - 1

InOrder ==
    \A s \in Starts : \E pass \in 0..LastPass :
        UpTo(Starts, s) = NModules * pass + log[s].module

\* While a module is measured its start is the last that happened; otherwise
\* every start has been closed.
Closed ==
    /\ \A i \in Endings : \E s \in Starts :
          /\ s < i /\ log[s].module = log[i].module
          /\ \A k \in Starts \cup Endings : k <= s \/ k >= i
    /\ \A s, t \in Starts : s < t => \E i \in Endings : s < i /\ i < t
    /\ pc = "measuring" => \E s \in Starts : /\ log[s].module = index
                                             /\ \A k \in Starts \cup Endings : k <= s
    /\ pc # "measuring" => \A s \in Starts : \E i \in Endings : s < i

Control == TypeOK /\ Placed /\ Told /\ Cut

Inv == Control /\ Counted /\ InOrder /\ Closed /\ Reported

-----------------------------------------------------------------------------
(* The places of a log that grows                                          *)

Lifecycle == {"module.started"} \cup OutcomeKinds

\* The log keeps what it holds, and of what is new only the event at `place`
\* can be of the lifecycle.
GrowsBy(place) ==
    /\ Len(log) \in Nat /\ Len(log') \in Nat
    /\ DOMAIN log = 1..Len(log) /\ DOMAIN log' = 1..Len(log')
    /\ Len(log) <= Len(log')
    /\ \A i \in 1..Len(log) : log'[i] = log[i]
    /\ place \in Nat /\ place > Len(log)
    /\ \A i \in (Len(log) + 1)..Len(log') : i # place => log'[i].kind \notin Lifecycle

SameLifecycle ==
    /\ Starts' = Starts /\ Endings' = Endings /\ Recorded' = Recorded
    /\ \A i \in Starts \cup Endings : log'[i] = log[i]

\* The places of some kinds of event are finitely many positions of the log.
LEMMA Places ==
    ASSUME Len(log) \in Nat, DOMAIN log = 1..Len(log), NEW kinds
    PROVE  Kinds(kinds) \subseteq 1..Len(log) /\ IsFiniteSet(Kinds(kinds))
<1>1. Kinds(kinds) \subseteq 1..Len(log)
  BY DEF Kinds
<1>2. IsFiniteSet(1..Len(log))
  BY FS_Interval
<1> QED BY <1>1, <1>2, FS_Subset

\* Nothing of the lifecycle is new.
LEMMA Quiet ==
    ASSUME NEW place, GrowsBy(place),
           place \in 1..Len(log') => log'[place].kind \notin Lifecycle
    PROVE  SameLifecycle
<1>1. \A i \in 1..Len(log') : i \notin 1..Len(log) => log'[i].kind \notin Lifecycle
  BY DEF GrowsBy
<1>2. 1..Len(log) \subseteq 1..Len(log')
  BY DEF GrowsBy
<1>3. \A i \in 1..Len(log) : log'[i] = log[i]
  BY DEF GrowsBy
<1>4. DOMAIN log = 1..Len(log) /\ DOMAIN log' = 1..Len(log')
  BY DEF GrowsBy
<1>5. Starts' = Starts
  BY <1>1, <1>2, <1>3, <1>4 DEF Starts, Kinds, Lifecycle
<1>6. Endings' = Endings
  BY <1>1, <1>2, <1>3, <1>4 DEF Endings, Kinds, Lifecycle
<1>7. Recorded' = Recorded
  BY <1>1, <1>2, <1>3, <1>4 DEF Recorded, Kinds, Lifecycle, OutcomeKinds
<1>8. \A i \in Starts \cup Endings : log'[i] = log[i]
  BY <1>3, <1>4 DEF Starts, Endings, Kinds
<1> QED BY <1>5, <1>6, <1>7, <1>8 DEF SameLifecycle

\* One event of the lifecycle is new.
LEMMA NewPlace ==
    ASSUME NEW place, GrowsBy(place), place \in 1..Len(log'),
           NEW kinds \in SUBSET Lifecycle
    PROVE  /\ Kinds(kinds)' = Kinds(kinds) \cup (IF log'[place].kind \in kinds THEN {place} ELSE {})
           /\ \A i \in Kinds(kinds) : i < place /\ log'[i] = log[i]
<1>1. \A i \in 1..Len(log') : i \notin 1..Len(log) /\ i # place => log'[i].kind \notin kinds
  BY DEF GrowsBy
<1>2. 1..Len(log) \subseteq 1..Len(log')
  BY DEF GrowsBy
<1>3. \A i \in 1..Len(log) : log'[i] = log[i] /\ i < place
  BY DEF GrowsBy
<1>4. DOMAIN log = 1..Len(log) /\ DOMAIN log' = 1..Len(log')
  BY DEF GrowsBy
<1>5. place \notin 1..Len(log)
  BY <1>3 DEF GrowsBy
<1> QED BY <1>1, <1>2, <1>3, <1>4, <1>5 DEF Kinds

\* Counting up to a place, and with a new one after all the others.
LEMMA CountUpTo ==
    ASSUME NEW places \in SUBSET Nat, IsFiniteSet(places)
    PROVE  /\ Cardinality(places) \in Nat
           /\ \A i \in places : UpTo(places, i) \in 1..Cardinality(places)
<1>1. Cardinality(places) \in Nat
  BY FS_CardinalityType
<1>2. ASSUME NEW i \in places  PROVE UpTo(places, i) \in 1..Cardinality(places)
  <2> DEFINE before == {j \in places : j <= i}
  <2>1. before \subseteq places /\ i \in before
    OBVIOUS
  <2> HIDE DEF before
  <2>2. IsFiniteSet(before) /\ Cardinality(before) <= Cardinality(places)
    BY <2>1, FS_Subset
  <2>3. Cardinality(before) \in Nat /\ Cardinality(before) # 0
    BY <2>1, <2>2, FS_CardinalityType, FS_EmptySet
  <2>4. UpTo(places, i) = Cardinality(before)
    BY DEF UpTo, before
  <2> QED BY <1>1, <2>2, <2>3, <2>4
<1> QED BY <1>1, <1>2

LEMMA CountNewPlace ==
    ASSUME NEW places \in SUBSET Nat, IsFiniteSet(places),
           NEW new \in Nat, \A i \in places : i < new
    PROVE  /\ Cardinality(places) \in Nat
           /\ Cardinality(places \cup {new}) = Cardinality(places) + 1
           /\ UpTo(places \cup {new}, new) = Cardinality(places) + 1
           /\ \A i \in places : UpTo(places \cup {new}, i) = UpTo(places, i)
<1>1. new \notin places
  OBVIOUS
<1>2. Cardinality(places \cup {new}) = Cardinality(places) + 1
  BY <1>1, FS_AddElement
<1>3. {j \in places \cup {new} : j <= new} = places \cup {new}
  <2>1. \A j \in places \cup {new} : j <= new
    OBVIOUS
  <2> QED BY <2>1
<1>4. \A i \in places : {j \in places \cup {new} : j <= i} = {j \in places : j <= i}
  OBVIOUS
<1> QED BY <1>2, <1>3, <1>4, FS_CardinalityType DEF UpTo

-----------------------------------------------------------------------------
(* The steps of Next in groups: the preflight, the loop over the modules,  *)
(* the end of a module, the final state and the bundle, the writes.        *)

Beginning == BeginPreflight \/ PreflightPassed \/ PreflightFailed

Ending == DecideFinalState \/ PublishScore \/ TakeDigest \/ CountEvents \/ SealBundle

Persisting ==
    \/ WriteBundle \/ WriteReport \/ RecordInIndex \/ PersistFailed
    \/ PublishBundle \/ AnnounceEnd \/ WriteEventLog \/ PublishTerminalState

Stepping == NextModule \/ StartModule \/ EndOfModules \/ RepeatCycle \/ StopCycling

Returning == ModuleCompleted \/ ModuleFailed \/ ModulePanicked \/ ModuleCancelled

-----------------------------------------------------------------------------
(* Types.  What a step does to the log is the subject of a section below.  *)

\* The preflight, and the decision it may force.
LEMMA TypeBeginning ==
    ASSUME TypeOK, Beginning, log' \in Seq(Events)
    PROVE  TypeOK'
<1>1. /\ telemetry' \in Telemetries /\ ending' \in Decisions
      /\ state' \in {"preflight", "running"} \cup {state}
  BY DEF TypeOK, Beginning, BeginPreflight, PreflightPassed, PreflightFailed, Telemetries,
         Decisions, TerminalStates
<1>2. profile' = profile
  BY DEF Beginning, BeginPreflight, PreflightPassed, PreflightFailed
<1>3. Events' = Events
  BY <1>2 DEF Events, NModules
<1> QED BY <1>1, <1>3 DEF TypeOK, Beginning, BeginPreflight, PreflightPassed, PreflightFailed,
     NModules

\* The decision, the two reads of the log, the seal.
LEMMA TypeEnding ==
    ASSUME TypeOK, Ending, log' \in Seq(Events)
    PROVE  TypeOK'
<1>1. Len(log) \in Nat
  BY LenProperties DEF TypeOK
<1>2. ending' \in Decisions
  BY <1>1 DEF TypeOK, Ending, DecideFinalState, PublishScore, TakeDigest, CountEvents,
       SealBundle, Decisions, TerminalStates
<1>3. profile' = profile
  BY DEF Ending, DecideFinalState, PublishScore, TakeDigest, CountEvents, SealBundle
<1>4. Events' = Events
  BY <1>3 DEF Events, NModules
<1> QED BY <1>2, <1>4 DEF TypeOK, Ending, DecideFinalState, PublishScore, TakeDigest,
     CountEvents, SealBundle, NModules

\* The writes, and the publications between and after them.
LEMMA TypePersisting ==
    ASSUME TypeOK, Placed, Persisting, log' \in Seq(Events)
    PROVE  TypeOK'
<1>1. Len(log) \in Nat
  BY LenProperties DEF TypeOK
<1>8. disk' \in {disk, [disk EXCEPT !.bundle = TRUE], [disk EXCEPT !.report = TRUE],
                  [disk EXCEPT !.events = Len(log)], [disk EXCEPT !.events = 0, !.cut = TRUE]}
  BY DEF Persisting, WriteBundle, WriteReport, RecordInIndex, PersistFailed,
       PublishBundle, AnnounceEnd, WriteEventLog, PublishTerminalState
<1>2. disk' \in Directories
  <2>1. disk \in Directories
    BY DEF TypeOK
  <2>2. [disk EXCEPT !.bundle = TRUE] \in Directories
    BY <2>1 DEF Directories
  <2>3. [disk EXCEPT !.report = TRUE] \in Directories
    BY <2>1 DEF Directories
  <2>4. [disk EXCEPT !.events = Len(log)] \in Directories
    BY <1>1, <2>1 DEF Directories
  <2>5. [disk EXCEPT !.events = 0, !.cut = TRUE] \in Directories
    BY <2>1 DEF Directories
  <2> QED BY <1>8, <2>1, <2>2, <2>3, <2>4, <2>5
<1>3. ending' \in Decisions
  BY <1>1 DEF TypeOK, Decisions, Persisting, WriteBundle, WriteReport, RecordInIndex,
       PersistFailed, PublishBundle, AnnounceEnd, WriteEventLog, PublishTerminalState
<1>4. pc \in {"publish", "publish_state"} => ending.state \in TerminalStates
  BY DEF TypeOK, Decisions, Placed, Undecided, Cycling
<1>5. bundle' \in Bundles \cup {None}
  <2>1. CASE PublishBundle
    BY <2>1, <1>4 DEF PublishBundle, TypeOK, Decisions, Bundles
  <2>2. CASE ~PublishBundle
    BY <2>2 DEF TypeOK, Persisting, WriteBundle, WriteReport, RecordInIndex, PersistFailed,
       AnnounceEnd, WriteEventLog, PublishTerminalState
  <2> QED BY <2>1, <2>2
<1>6. state' \in {"created", "preflight", "running", "finalizing"} \cup TerminalStates
  BY <1>4 DEF TypeOK, Persisting, WriteBundle, WriteReport, RecordInIndex, PersistFailed,
       PublishBundle, AnnounceEnd, WriteEventLog, PublishTerminalState
<1>7. Events' = Events /\ profile' = profile
  BY DEF Events, NModules, Persisting, WriteBundle, WriteReport, RecordInIndex, PersistFailed,
       PublishBundle, AnnounceEnd, WriteEventLog, PublishTerminalState
<1> QED BY <1>2, <1>3, <1>5, <1>6, <1>7 DEF TypeOK, Persisting, WriteBundle, WriteReport,
     RecordInIndex, PersistFailed,
       PublishBundle, AnnounceEnd, WriteEventLog, PublishTerminalState, NModules

\* The cycle count stays under its bound, the index among the modules.
LEMMA TypeStepping ==
    ASSUME TypeOK, Placed, Stepping, log' \in Seq(Events)
    PROVE  TypeOK'
<1>4. /\ cancel' \in {cancel, [cancel EXCEPT !.late = @ + 1]}
      /\ thread' \in {thread, [at |-> "running", outcome |-> None]}
      /\ telemetry' \in {telemetry, [telemetry EXCEPT !.aborting = TRUE]}
  <2>1. CASE StartModule
    BY <2>1 DEF StartModule, TypeOK, Cancels
  <2>2. CASE ~StartModule
    BY <2>2 DEF Stepping, NextModule, EndOfModules, RepeatCycle, StopCycling
  <2> QED BY <2>1, <2>2
<1>1. cancel' \in Cancels /\ thread' \in Threads /\ telemetry' \in Telemetries
  <2>1. cancel \in Cancels /\ thread \in Threads /\ telemetry \in Telemetries
    BY DEF TypeOK
  <2>2. cancel' \in Cancels
    BY <1>4, <2>1 DEF Cancels
  <2>3. thread' \in Threads
    BY <1>4, <2>1 DEF Threads
  <2>4. telemetry' \in Telemetries
    BY <1>4, <2>1 DEF Telemetries
  <2> QED BY <2>2, <2>3, <2>4
<1>2. cycle' \in 0..MaxCycles
  BY RunnerAssumption DEF TypeOK, Placed, Cycling, Stepping, NextModule, StartModule,
       EndOfModules, RepeatCycle, StopCycling, MayRepeat
<1>3. NModules \in Nat \ {0}
  BY RunnerAssumption DEF TypeOK, NModules
<1>7. Events' = Events /\ profile' = profile /\ NModules' = NModules
  BY DEF Events, NModules, Stepping, NextModule, StartModule, EndOfModules, RepeatCycle,
       StopCycling
<1>8. index' \in 1..(NModules + 1) /\ current' \in (1..NModules) \cup {None}
  BY <1>3 DEF TypeOK, Stepping, NextModule, StartModule, EndOfModules, RepeatCycle, StopCycling
<1> QED BY <1>1, <1>2, <1>7, <1>8 DEF TypeOK, Stepping, NextModule, StartModule, EndOfModules,
     RepeatCycle, StopCycling

\* A result names a module of the profile and the cycle under way.
LEMMA TypeReturning ==
    ASSUME TypeOK, Placed, Returning, log' \in Seq(Events)
    PROVE  TypeOK'
<1>1. thread' = NotRunning
  BY DEF Returning, ModuleCompleted, ModuleFailed, ModulePanicked, ModuleCancelled,
       ThreadReturned
<1>9. thread' \in Threads
  BY <1>1 DEF Threads, NotRunning
<1>2. pc = "measuring" /\ index <= NModules
  BY DEF Placed, Returning, ModuleCompleted, ModuleFailed, ModulePanicked, ModuleCancelled,
       ThreadReturned
<1>3. NModules \in Nat \ {0}
  BY RunnerAssumption DEF TypeOK, NModules
<1>4. Result("completed") \in Results /\ Result("failed") \in Results
  BY <1>3, RunnerAssumption DEF Result, Results, TypeOK
<1>6. results' \in {results, Append(results, Result("completed")), Append(results, Result("failed"))}
      /\ index' \in {index, index + 1}
  BY DEF Returning, ModuleCompleted, ModuleFailed, ModulePanicked, ModuleCancelled
<1>5. results' \in Seq(Results)
  <2>1. results \in Seq(Results)
    BY DEF TypeOK
  <2>2. \A r \in Results : Append(results, r) \in Seq(Results)
    BY <2>1, AppendProperties
  <2> QED BY <1>4, <1>6, <2>1, <2>2
<1>7. Events' = Events /\ profile' = profile /\ NModules' = NModules
  BY DEF Events, NModules, Returning, ModuleCompleted, ModuleFailed, ModulePanicked,
       ModuleCancelled, ThreadReturned
<1>8. index' \in 1..(NModules + 1)
  BY <1>2, <1>3, <1>6 DEF TypeOK
<1> QED BY <1>9, <1>5, <1>7, <1>8 DEF TypeOK, Returning, ModuleCompleted, ModuleFailed,
     ModulePanicked, ModuleCancelled, ThreadReturned

\* The blocking thread reports, or returns.
LEMMA TypeThread ==
    ASSUME TypeOK, Thread, log' \in Seq(Events)
    PROVE  TypeOK'
<1>1. thread' \in Threads
  BY DEF TypeOK, Threads, Thread, ReportSample, ReturnFromModule, Outcomes
<1>7. Events' = Events /\ profile' = profile /\ NModules' = NModules
  BY DEF Events, NModules, Thread, ReportSample, ReturnFromModule, orchestratorVars
<1> QED BY <1>1, <1>7 DEF TypeOK, Thread, ReportSample, ReturnFromModule, orchestratorVars

\* The telemetry task ticks, warns, and may set the token.
LEMMA TypeTelemetry ==
    ASSUME TypeOK, Telemetry, log' \in Seq(Events)
    PROVE  TypeOK'
<1>1. stopped' \in BOOLEAN
  BY DEF TypeOK, Telemetry, Tick, TelemetryEnds, RecordStopReason, WarnOfStop,
       WatchdogCancels, WarnOfContention, EmitTelemetry
<1>3. \/ \E at \in {"warn", "cancel", "off", "waiting", "emit"} :
            telemetry' = [telemetry EXCEPT !.at = at]
      \/ \E at \in {"abort", "degrade", "emit"} :
            telemetry' = [telemetry EXCEPT !.at = at, !.ticks = @ + 1]
  BY DEF Telemetry, Tick, TelemetryEnds, RecordStopReason, WarnOfStop, WatchdogCancels,
       WarnOfContention, EmitTelemetry
<1>4. telemetry' \in Telemetries
  <2>1. telemetry \in Telemetries
    BY DEF TypeOK
  <2>2. ASSUME NEW at \in {"warn", "cancel", "off", "waiting", "emit"},
               telemetry' = [telemetry EXCEPT !.at = at]
        PROVE  telemetry' \in Telemetries
    BY <2>1, <2>2 DEF Telemetries
  <2>3. ASSUME NEW at \in {"abort", "degrade", "emit"},
               telemetry' = [telemetry EXCEPT !.at = at, !.ticks = @ + 1]
        PROVE  telemetry' \in Telemetries
    <3>1. telemetry.ticks + 1 \in Nat /\ telemetry.aborting \in BOOLEAN
      BY <2>1 DEF Telemetries
    <3>2. telemetry' = [at |-> at, ticks |-> telemetry.ticks + 1,
                        aborting |-> telemetry.aborting]
      BY <2>1, <2>3 DEF Telemetries
    <3> QED BY <3>1, <3>2 DEF Telemetries
  <2> QED BY <1>3, <2>2, <2>3
<1>2. cancel' \in Cancels
  BY DEF TypeOK, Cancels, Causes, CancelBy, Telemetry, Tick, TelemetryEnds, RecordStopReason,
       WarnOfStop, WatchdogCancels, WarnOfContention, EmitTelemetry
<1>7. UNCHANGED telemetryFrame
  BY DEF Telemetry, Tick, TelemetryEnds, RecordStopReason, WarnOfStop, WatchdogCancels,
       WarnOfContention, EmitTelemetry
<1>8. Events' = Events /\ NModules' = NModules
  BY <1>7 DEF Events, NModules, telemetryFrame, orchestratorVars
<1> QED BY <1>1, <1>2, <1>4, <1>7, <1>8 DEF TypeOK, telemetryFrame, orchestratorVars

\* The operator sets the token.
LEMMA TypeOperator ==
    ASSUME TypeOK, OperatorCancels
    PROVE  TypeOK'
<1>2. cancel' \in Cancels
  BY DEF TypeOK, Cancels, Causes, CancelBy, OperatorCancels
<1>8. Events' = Events /\ NModules' = NModules
  BY DEF Events, NModules, OperatorCancels, orchestratorVars
<1> QED BY <1>2, <1>8 DEF TypeOK, OperatorCancels, orchestratorVars

-----------------------------------------------------------------------------
(* Where the orchestrator is: Placed, Told, Cut, group by group            *)

\* A module that ended leads to the next, or out of the loop of a cancelled run.
LEMMA ReturningFrame ==
    ASSUME TypeOK, Placed, Cut, Returning
    PROVE  /\ pc = "measuring" /\ thread' = NotRunning /\ index <= NModules
           /\ UNCHANGED <<state, cancel, profile, cycle, current, telemetry, stopped, ending,
                          bundle, disk>>
           /\ \/ pc' = "next" /\ index' = index + 1
              \/ pc' = "cycle" /\ index' = index /\ cancelled
<1>1. /\ pc = "measuring" /\ thread' = NotRunning
      /\ UNCHANGED <<state, cancel, profile, cycle, current, telemetry, stopped, ending,
                     bundle, disk>>
  BY DEF Returning, ModuleCompleted, ModuleFailed, ModulePanicked, ModuleCancelled,
       ThreadReturned
<1>2. index <= NModules
  BY <1>1 DEF Placed
<1>3. \/ pc' = "next" /\ index' = index + 1
      \/ pc' = "cycle" /\ index' = index /\ thread.outcome = "cancelled"
  BY DEF Returning, ModuleCompleted, ModuleFailed, ModulePanicked, ModuleCancelled,
       ThreadReturned
<1> QED BY <1>1, <1>2, <1>3 DEF Cut

LEMMA PlacedReturning ==
    ASSUME Control, Returning
    PROVE  Placed'
BY ReturningFrame DEF Control, Placed, NotRunning, Terminal, Cycling, Undecided, Published,
     NModules

LEMMA CutReturning ==
    ASSUME Control, Returning
    PROVE  Cut'
BY ReturningFrame, RunnerAssumption DEF Control, Cut, NotRunning, cancelled, Cycling,
     TerminalStates

LEMMA PlacedStepping ==
    ASSUME Control, Stepping
    PROVE  Placed'
<1> USE RunnerAssumption DEF Control, TypeOK, Placed, Terminal, TerminalStates, Cycling,
     Undecided, Published, NModules, Decisions, Threads
<1>1. CASE NextModule
  BY <1>1 DEF NextModule
<1>2. CASE StartModule
  BY <1>2 DEF StartModule
<1>3. CASE EndOfModules
  BY <1>3 DEF EndOfModules
<1>4. CASE RepeatCycle
  BY <1>4 DEF RepeatCycle, MayRepeat
<1>5. CASE StopCycling
  BY <1>5 DEF StopCycling, MayRepeat, MustRepeat
<1> QED BY <1>1, <1>2, <1>3, <1>4, <1>5 DEF Stepping

LEMMA CutStepping ==
    ASSUME Control, Stepping
    PROVE  Cut'
<1> USE RunnerAssumption DEF Control, Cut, Threads, Decisions, TypeOK, Placed, cancelled,
     Cycling, TerminalStates, Causes, Cancels
<1>1. CASE NextModule
  BY <1>1 DEF NextModule
<1>2. CASE StartModule
  BY <1>2 DEF StartModule
<1>3. CASE EndOfModules
  BY <1>3 DEF EndOfModules
<1>4. CASE RepeatCycle
  BY <1>4 DEF RepeatCycle, MayRepeat
<1>5. CASE StopCycling
  BY <1>5 DEF StopCycling, MayRepeat, MustRepeat
<1> QED BY <1>1, <1>2, <1>3, <1>4, <1>5 DEF Stepping

LEMMA PlacedPersisting ==
    ASSUME Control, Persisting
    PROVE  Placed'
<1> USE RunnerAssumption DEF Control, TypeOK, Placed, Terminal, TerminalStates, Cycling,
     Undecided, Published, NModules, Decisions, Threads
<1>1. CASE WriteBundle
  BY <1>1 DEF WriteBundle
<1>2. CASE WriteReport
  BY <1>2 DEF WriteReport
<1>3. CASE RecordInIndex
  BY <1>3 DEF RecordInIndex
<1>4. CASE PersistFailed
  BY <1>4 DEF PersistFailed
<1>5. CASE PublishBundle
  BY <1>5 DEF PublishBundle, Bundles
<1>6. CASE AnnounceEnd
  BY <1>6 DEF AnnounceEnd
<1>7. CASE WriteEventLog
  BY <1>7 DEF WriteEventLog
<1>8. CASE PublishTerminalState
  BY <1>8 DEF PublishTerminalState
<1> QED BY <1>1, <1>2, <1>3, <1>4, <1>5, <1>6, <1>7, <1>8 DEF Persisting

-----------------------------------------------------------------------------
(* What a step adds to the log                                             *)

\* A step that emits nothing.
LEMMA QuietSame ==
    ASSUME TypeOK, log' = log
    PROVE  log' \in Seq(Events) /\ SameLifecycle
<1>1. log \in Seq(Events)
  BY DEF TypeOK
<1>2. SameLifecycle
  BY DEF SameLifecycle, Starts, Endings, Recorded, Kinds
<1> QED BY <1>1, <1>2

\* What a log holds after some events: where each lies, and which place may
\* matter.
LEMMA Concatenated ==
    ASSUME TypeOK, NEW events \in Seq(Events), log' = log \o events
    PROVE  /\ log' \in Seq(Events) /\ Len(events) \in Nat
           /\ Len(log') = Len(log) + Len(events)
           /\ \A i \in 1..Len(events) : log'[Len(log) + i] = events[i]
           /\ \A place \in (Len(log) + 1)..(Len(log) + Len(events) + 1) :
                 (\A i \in 1..Len(events) :
                     Len(log) + i # place => events[i].kind \notin Lifecycle) => GrowsBy(place)
<1>1. log \in Seq(Events)
  BY DEF TypeOK
<1>2. /\ log' \in Seq(Events) /\ Len(log) \in Nat /\ Len(log') \in Nat /\ Len(events) \in Nat
      /\ Len(log') = Len(log) + Len(events)
      /\ DOMAIN log = 1..Len(log) /\ DOMAIN log' = 1..Len(log')
      /\ \A i \in 1..Len(log) : log'[i] = log[i]
      /\ \A i \in 1..Len(events) : log'[Len(log) + i] = events[i]
  BY <1>1, ConcatProperties, LenProperties
<1>3. ASSUME NEW place \in (Len(log) + 1)..(Len(log) + Len(events) + 1),
             \A i \in 1..Len(events) :
                 Len(log) + i # place => events[i].kind \notin Lifecycle
      PROVE  GrowsBy(place)
  <2>1. ASSUME NEW i \in (Len(log) + 1)..Len(log'), i # place
        PROVE  log'[i].kind \notin Lifecycle
    <3>1. i - Len(log) \in 1..Len(events) /\ Len(log) + (i - Len(log)) = i
      BY <1>2
    <3>2. log'[i] = events[i - Len(log)]
      BY <1>2, <3>1
    <3> QED BY <1>3, <2>1, <3>1, <3>2
  <2> QED BY <1>2, <2>1 DEF GrowsBy
<1> QED BY <1>2, <1>3

\* A step that emits events unrelated to the lifecycle.
LEMMA QuietConcat ==
    ASSUME TypeOK, NEW events \in Seq(Events), log' = log \o events,
           \A i \in 1..Len(events) : events[i].kind \notin Lifecycle
    PROVE  log' \in Seq(Events) /\ SameLifecycle
<1> DEFINE place == Len(log) + Len(events) + 1
<1>1. log \in Seq(Events)
  BY DEF TypeOK
<1>2. Len(log) \in Nat /\ Len(events) \in Nat
  BY <1>1, LenProperties
<1>3. log' \in Seq(Events) /\ Len(log') = Len(log) + Len(events)
  BY Concatenated
<1>4. place \in (Len(log) + 1)..(Len(log) + Len(events) + 1) /\ place \notin 1..Len(log')
  BY <1>2, <1>3
<1>5. GrowsBy(place)
  BY <1>4, Concatenated
<1> HIDE DEF place
<1> QED BY <1>3, <1>4, <1>5, Quiet

\* Appending an event is appending a sequence of one.
LEMMA Appended ==
    ASSUME TypeOK, NEW event \in Events, log' = Append(log, event)
    PROVE  /\ log' = log \o <<event>> /\ <<event>> \in Seq(Events)
           /\ Len(<<event>>) = 1 /\ <<event>>[1] = event
<1>1. log \in Seq(Events)
  BY DEF TypeOK
<1> QED BY <1>1, AppendIsConcat

LEMMA PlacedBeginning ==
    ASSUME Control, Beginning
    PROVE  Placed'
BY RunnerAssumption DEF Control, TypeOK, Placed, Terminal, TerminalStates, Cycling, Undecided,
     Published, NModules, Decisions, Threads,
       Beginning, BeginPreflight, PreflightPassed, PreflightFailed

LEMMA PlacedEnding ==
    ASSUME Control, Ending
    PROVE  Placed'
BY RunnerAssumption DEF Control, TypeOK, Placed, Terminal, TerminalStates, Cycling, Undecided,
     Published, NModules, Decisions, Threads,
       Ending, DecideFinalState, PublishScore, TakeDigest, CountEvents, SealBundle

LEMMA PlacedThread ==
    ASSUME Control, Thread
    PROVE  Placed'
<1>1. NModules' = NModules /\ thread'.at # "none" /\ thread.at = "running"
  BY DEF Control, TypeOK, Threads, Thread, ReportSample, ReturnFromModule, orchestratorVars, NModules
<1>2. UNCHANGED <<pc, profile, cycle, index, ending, bundle, state>>
  BY DEF Thread, ReportSample, ReturnFromModule, orchestratorVars
<1> QED BY <1>1, <1>2 DEF Control, Placed, Terminal, TerminalStates, Cycling, Undecided, Published

\* The telemetry task leaves the loop and its thread alone, and cancels for good.
LEMMA TelemetryLeaves ==
    ASSUME Control, Telemetry
    PROVE  /\ UNCHANGED <<pc, profile, cycle, index, ending, bundle, state, thread>>
           /\ cancel'.late = cancel.late /\ (cancelled => cancelled')
<1>1. UNCHANGED telemetryFrame
  BY DEF Telemetry, Tick, TelemetryEnds, RecordStopReason, WarnOfStop,
         WatchdogCancels, WarnOfContention, EmitTelemetry
<1>2. cancel' = cancel \/ CancelBy("watchdog")
  BY DEF Telemetry, Tick, TelemetryEnds, RecordStopReason, WarnOfStop,
         WatchdogCancels, WarnOfContention, EmitTelemetry
<1>3. cancel'.late = cancel.late /\ (cancelled => cancelled')
  BY <1>2 DEF Control, TypeOK, Cancels, CancelBy, cancelled
<1> QED BY <1>1, <1>3 DEF telemetryFrame, orchestratorVars

LEMMA PlacedTelemetry ==
    ASSUME Control, Telemetry
    PROVE  Placed'
BY TelemetryLeaves DEF Control, Placed, Terminal, NModules

LEMMA PlacedOperatorCancels ==
    ASSUME Control, OperatorCancels
    PROVE  Placed'
BY RunnerAssumption DEF Control, TypeOK, Placed, Terminal, TerminalStates, Cycling, Undecided,
     Published, NModules, Decisions, Threads,
       OperatorCancels, CancelBy, orchestratorVars

LEMMA ToldBeginning ==
    ASSUME Control, Beginning
    PROVE  Told'
BY RunnerAssumption DEF Control, Told, TypeOK, cancelled, Sealed, Published, Causes,
     Decisions, Cancels,
       Telemetries, Beginning, BeginPreflight, PreflightPassed, PreflightFailed

LEMMA ToldStepping ==
    ASSUME Control, Stepping
    PROVE  Told'
<1>1. UNCHANGED <<ending, stopped>> /\ cancel'.by = cancel.by /\ telemetry'.at = telemetry.at
  BY DEF Control, TypeOK, Cancels, Telemetries,
         Stepping, NextModule, StartModule, EndOfModules, RepeatCycle, StopCycling
<1>2. pc \notin Sealed /\ pc' \notin Sealed
  BY DEF Sealed, Published,
         Stepping, NextModule, StartModule, EndOfModules, RepeatCycle, StopCycling
<1> QED BY <1>1, <1>2 DEF Control, Told, cancelled
LEMMA ToldReturning ==
    ASSUME Control, Returning
    PROVE  Told'
BY RunnerAssumption DEF Control, Told, TypeOK, cancelled, Sealed, Published, Causes,
     Decisions, Cancels,
       Telemetries,
       Returning, ModuleCompleted, ModuleFailed, ModulePanicked, ModuleCancelled, ThreadReturned

LEMMA ToldEnding ==
    ASSUME Control, Ending
    PROVE  Told'
BY RunnerAssumption DEF Control, Told, TypeOK, cancelled, Sealed, Published, Causes,
     Decisions, Cancels,
       Telemetries, Ending, DecideFinalState, PublishScore, TakeDigest, CountEvents, SealBundle

LEMMA ToldPersisting ==
    ASSUME Control, Persisting
    PROVE  Told'
BY RunnerAssumption DEF Control, Told, TypeOK, cancelled, Sealed, Published, Causes,
     Decisions, Cancels,
       Telemetries,
       Persisting, WriteBundle, WriteReport, RecordInIndex, PersistFailed, PublishBundle,
       AnnounceEnd, WriteEventLog, PublishTerminalState

LEMMA ToldThread ==
    ASSUME Control, Thread
    PROVE  Told'
BY RunnerAssumption DEF Control, Told, TypeOK, cancelled, Sealed, Published, Causes,
     Decisions, Cancels,
       Telemetries, Thread, ReportSample, ReturnFromModule, Outcomes, orchestratorVars

LEMMA ToldTelemetry ==
    ASSUME Control, Telemetry
    PROVE  Told'
<1>1. UNCHANGED <<pc, ending>>
  BY DEF Telemetry, Tick, TelemetryEnds, RecordStopReason, WarnOfStop,
         WatchdogCancels, WarnOfContention, EmitTelemetry, telemetryFrame, orchestratorVars
<1>2. CASE Tick \/ TelemetryEnds \/ WarnOfContention \/ EmitTelemetry
  <2>1. UNCHANGED <<cancel, stopped>> /\ telemetry'.at \notin {"warn", "cancel"}
    BY <1>2 DEF Control, TypeOK, Telemetries, Tick, TelemetryEnds, WarnOfContention, EmitTelemetry
  <2> QED BY <1>1, <2>1 DEF Control, Told, cancelled
<1>3. CASE RecordStopReason \/ WarnOfStop \/ WatchdogCancels
  BY <1>1, <1>3, RunnerAssumption DEF Control, Told, TypeOK, cancelled, Causes, Cancels,
       Telemetries, RecordStopReason, WarnOfStop, WatchdogCancels, CancelBy
<1> QED BY <1>2, <1>3 DEF Telemetry

LEMMA ToldOperatorCancels ==
    ASSUME Control, OperatorCancels
    PROVE  Told'
BY RunnerAssumption DEF Control, Told, TypeOK, cancelled, Sealed, Published, Causes,
     Decisions, Cancels,
       Telemetries, OperatorCancels, CancelBy, orchestratorVars

LEMMA CutBeginning ==
    ASSUME Control, Beginning
    PROVE  Cut'
BY RunnerAssumption DEF Control, Cut, Threads, Decisions, TypeOK, Placed, cancelled, Cycling,
     TerminalStates, Causes, Cancels,
       Beginning, BeginPreflight, PreflightPassed, PreflightFailed

LEMMA CutEnding ==
    ASSUME Control, Ending
    PROVE  Cut'
<1>1. UNCHANGED <<cancel, profile, cycle, thread>> /\ pc' \notin Cycling \cup {"decide"}
  BY DEF Cycling, Ending, DecideFinalState, PublishScore, TakeDigest, CountEvents, SealBundle
<1>2. CASE DecideFinalState
  <2>1. ending'.state = "completed" => ~cancelled
    BY <1>2 DEF Control, TypeOK, Decisions, DecideFinalState
  <2>2. pc = "decide"
    BY <1>2 DEF DecideFinalState
  <2> QED BY <1>1, <2>1, <2>2 DEF Control, Cut, cancelled, Cycling
<1>3. CASE PublishScore \/ TakeDigest \/ CountEvents \/ SealBundle
  <2>1. ending'.state = ending.state
    BY <1>3 DEF Control, TypeOK, Decisions, PublishScore, TakeDigest, CountEvents, SealBundle
  <2>2. pc \notin Cycling \cup {"decide"}
    BY <1>3 DEF Cycling, PublishScore, TakeDigest, CountEvents, SealBundle
  <2> QED BY <1>1, <2>1, <2>2 DEF Control, Cut, cancelled, Cycling
<1> QED BY <1>2, <1>3 DEF Ending

LEMMA CutPersisting ==
    ASSUME Control, Persisting
    PROVE  Cut'
<1>1. UNCHANGED <<cancel, profile, cycle, thread>> /\ ending'.state = ending.state
  BY DEF Control, TypeOK, Decisions, Persisting, WriteBundle, WriteReport, RecordInIndex, PersistFailed, PublishBundle,
         AnnounceEnd, WriteEventLog, PublishTerminalState
<1>2. pc \notin Cycling \cup {"decide"} /\ pc' \notin Cycling \cup {"decide"}
  BY DEF Cycling, Persisting, WriteBundle, WriteReport, RecordInIndex, PersistFailed,
         PublishBundle, AnnounceEnd, WriteEventLog, PublishTerminalState
<1> QED BY <1>1, <1>2 DEF Control, Cut, cancelled, Cycling

LEMMA CutThread ==
    ASSUME Control, Thread
    PROVE  Cut'
BY RunnerAssumption DEF Control, Cut, Threads, Decisions, TypeOK, Placed, cancelled, Cycling,
     TerminalStates, Causes, Cancels,
       Thread, ReportSample, ReturnFromModule, Outcomes, orchestratorVars

LEMMA CutTelemetry ==
    ASSUME Control, Telemetry
    PROVE  Cut'
BY TelemetryLeaves DEF Control, Cut, cancelled

LEMMA CutOperatorCancels ==
    ASSUME Control, OperatorCancels
    PROVE  Cut'
BY RunnerAssumption DEF Control, Cut, Threads, Decisions, TypeOK, Placed, cancelled, Cycling,
     TerminalStates, Causes, Cancels,
       OperatorCancels, CancelBy, orchestratorVars

\* Whether none of the events is of the lifecycle.
Unrelated(events) ==
    events \in Seq(Events) /\ \A i \in 1..Len(events) : events[i].kind \notin Lifecycle

Modules == (1..NModules) \cup {None}

\* The sequences that are emitted besides those of the lifecycle.
LEMMA UnrelatedTuples ==
    ASSUME NEW kind \in EventKinds \ Lifecycle, NEW module \in Modules,
           NEW kind2 \in EventKinds \ Lifecycle, NEW module2 \in Modules
    PROVE  /\ Event(kind, module) \in Events
           /\ Unrelated(<<Event(kind, module)>>)
           /\ Unrelated(<<Event(kind, module), Event(kind2, module2)>>)
           /\ Unrelated(<<Event(kind, module)>> \o <<Event(kind2, module2)>>)
           /\ Unrelated(<<Event(kind, module)>> \o <<>>)
           /\ Unrelated(<<>>)
<1> DEFINE e == Event(kind, module)
           f == Event(kind2, module2)
<1>1. e \in Events /\ e.kind \notin Lifecycle /\ f \in Events /\ f.kind \notin Lifecycle
  BY DEF Event, Events, Modules
<1> HIDE DEF e, f
<1>2. Unrelated(<<e>>)
  BY <1>1 DEF Unrelated
<1>3. Unrelated(<<e, f>>)
  BY <1>1 DEF Unrelated
<1>4. Unrelated(<<>>)
  BY DEF Unrelated
<1>5. ASSUME NEW first, NEW second, Unrelated(first), Unrelated(second)
      PROVE  Unrelated(first \o second)
  <2>1. first \in Seq(Events) /\ second \in Seq(Events)
    BY <1>5 DEF Unrelated
  <2>2. /\ first \o second \in Seq(Events)
        /\ Len(first) \in Nat /\ Len(second) \in Nat
        /\ Len(first \o second) = Len(first) + Len(second)
        /\ \A i \in 1..Len(first \o second) :
              (first \o second)[i] = IF i <= Len(first) THEN first[i]
                                                       ELSE second[i - Len(first)]
    BY <2>1, ConcatProperties, LenProperties
  <2> QED BY <1>5, <2>2 DEF Unrelated
<1>6. Unrelated(<<e>> \o <<f>>) /\ Unrelated(<<e>> \o <<>>)
  <2>1. Unrelated(<<f>>)
    BY <1>1 DEF Unrelated
  <2> QED BY <1>2, <1>4, <1>5, <2>1
<1> QED BY <1>1, <1>2, <1>3, <1>4, <1>6 DEF e, f

\* The steps that neither start a module nor close one.
Quietly ==
    \/ Beginning \/ Ending \/ Persisting \/ Thread \/ Telemetry \/ OperatorCancels
    \/ NextModule \/ EndOfModules \/ RepeatCycle \/ StopCycling

\* A step that emits one unrelated event.
LEMMA QuietAppend ==
    ASSUME TypeOK, NEW kind \in EventKinds \ Lifecycle, NEW module \in Modules,
           log' = Append(log, Event(kind, module))
    PROVE  log' \in Seq(Events) /\ SameLifecycle
<1> DEFINE events == <<Event(kind, module)>>
<1>1. Event(kind, module) \in Events /\ Unrelated(events)
  BY UnrelatedTuples
<1>2. log' = log \o events
  BY <1>1, Appended
<1> HIDE DEF events
<1> QED BY <1>1, <1>2, QuietConcat DEF Unrelated

\* Every other emission leaves the places of the lifecycle as they are.
LEMMA QuietStep ==
    ASSUME TypeOK, Placed, Quietly
    PROVE  log' \in Seq(Events) /\ SameLifecycle
<1> DEFINE Kept == log' \in Seq(Events) /\ SameLifecycle
<1>1. ASSUME NEW kind \in EventKinds \ Lifecycle, NEW module \in Modules,
             log' = Append(log, Event(kind, module))
      PROVE  Kept
  BY <1>1, QuietAppend
<1>2. ASSUME NEW events, Unrelated(events), log' = log \o events  PROVE Kept
  BY <1>2, QuietConcat DEF Unrelated
<1>3. ASSUME log' = log  PROVE Kept
  BY <1>3, QuietSame
<1>4. {"run.created", "run.preflight.started", "run.preflight.completed", "score.final",
       "report.generated", "run.completed", "module.sample", "module.warning",
       "module.telemetry", "stream.heartbeat"} \subseteq EventKinds \ Lifecycle
  BY DEF EventKinds, Lifecycle, OutcomeKinds
<1>5. None \in Modules /\ current \in Modules
  BY DEF Modules, TypeOK
<1> SUFFICES Kept
  OBVIOUS
<1> HIDE DEF Kept
<1>6. CASE BeginPreflight
  <2> DEFINE events == <<RunEvent("run.created"), RunEvent("run.preflight.started")>>
  <2>1. Unrelated(events)
    BY <1>4, <1>5, UnrelatedTuples DEF RunEvent
  <2>2. log' = log \o events
    BY <1>6 DEF BeginPreflight
  <2> HIDE DEF events
  <2> QED BY <1>2, <2>1, <2>2
<1>7. CASE PreflightPassed \/ PreflightFailed
  BY <1>1, <1>4, <1>5, <1>7 DEF PreflightPassed, PreflightFailed, RunEvent
<1>8. CASE PublishScore
  BY <1>1, <1>4, <1>5, <1>8 DEF PublishScore, RunEvent
<1>9. CASE RecordInIndex
  BY <1>1, <1>4, <1>5, <1>9 DEF RecordInIndex, RunEvent
<1>10. CASE AnnounceEnd
  BY <1>1, <1>4, <1>5, <1>10 DEF AnnounceEnd, RunEvent
<1>11. CASE ReportSample
  <2>1. pc = "measuring"
    BY <1>11 DEF Placed, ReportSample
  <2>2. index \in Modules
    BY <2>1, RunnerAssumption DEF Placed, TypeOK, Modules, NModules
  <2> QED BY <1>1, <1>4, <1>11, <2>2 DEF ReportSample
<1>12. CASE WarnOfStop \/ WarnOfContention
  <2>1. Unrelated(Warning)
    <3>1. Unrelated(<<>>) /\ Unrelated(<<Event("module.warning", current)>>)
      BY <1>4, <1>5, UnrelatedTuples
    <3> QED BY <3>1 DEF Warning
  <2>2. log' = log \o Warning
    BY <1>12 DEF WarnOfStop, WarnOfContention
  <2> QED BY <1>2, <2>1, <2>2
<1>13. CASE EmitTelemetry
  <2> DEFINE sample == <<Event("module.telemetry", current)>>
  <2>1. Unrelated(sample \o Heartbeat)
    <3>1. Unrelated(sample \o <<RunEvent("stream.heartbeat")>>)
      BY <1>4, <1>5, UnrelatedTuples DEF RunEvent
    <3>2. Unrelated(sample \o <<>>)
      BY <1>4, <1>5, UnrelatedTuples
    <3> HIDE DEF sample
    <3> QED BY <3>1, <3>2 DEF Heartbeat
  <2>2. log' = log \o (sample \o Heartbeat)
    BY <1>13 DEF EmitTelemetry
  <2> HIDE DEF sample
  <2> QED BY <1>2, <2>1, <2>2
<1>14. CASE log' = log
  BY <1>3, <1>14
<1>15. \/ BeginPreflight \/ PreflightPassed \/ PreflightFailed \/ PublishScore
       \/ RecordInIndex \/ AnnounceEnd \/ ReportSample \/ WarnOfStop \/ WarnOfContention
       \/ EmitTelemetry \/ log' = log
  <2>1. CASE Beginning
    BY <2>1 DEF Beginning
  <2>2. CASE Ending
    BY <2>2 DEF Ending, DecideFinalState, TakeDigest, CountEvents, SealBundle
  <2>3. CASE Persisting
    BY <2>3 DEF Persisting, WriteBundle, WriteReport, PersistFailed, PublishBundle,
         WriteEventLog, PublishTerminalState
  <2>4. CASE Thread \/ OperatorCancels
    BY <2>4 DEF Thread, ReturnFromModule, OperatorCancels
  <2>5. CASE Telemetry
    BY <2>5 DEF Telemetry, Tick, TelemetryEnds, RecordStopReason, WatchdogCancels
  <2>6. CASE NextModule \/ EndOfModules \/ RepeatCycle \/ StopCycling
    BY <2>6 DEF NextModule, EndOfModules, RepeatCycle, StopCycling
  <2> QED BY <2>1, <2>2, <2>3, <2>4, <2>5, <2>6 DEF Quietly
<1> QED
  BY <1>6, <1>7, <1>8, <1>9, <1>10, <1>11, <1>12, <1>13, <1>14, <1>15

\* What such a step keeps, and how it moves the count of cycles.
LEMMA QuietFrame ==
    ASSUME Control, Quietly
    PROVE  /\ UNCHANGED <<profile, results>>
           /\ pc' = "measuring" <=> pc = "measuring"
           /\ pc = "measuring" => index' = index
<1>1. CASE Beginning
  BY <1>1 DEF Beginning, BeginPreflight, PreflightPassed, PreflightFailed
<1>2. CASE Ending
  BY <1>2 DEF Ending, DecideFinalState, PublishScore, TakeDigest, CountEvents, SealBundle
<1>3. CASE Persisting
  BY <1>3 DEF Persisting, WriteBundle, WriteReport, RecordInIndex, PersistFailed, PublishBundle,
       AnnounceEnd, WriteEventLog, PublishTerminalState
<1>4. CASE Thread \/ OperatorCancels
  BY <1>4 DEF Thread, ReportSample, ReturnFromModule, OperatorCancels, orchestratorVars
<1>5. CASE Telemetry
  BY <1>5 DEF Telemetry, Tick, TelemetryEnds, RecordStopReason, WarnOfStop, WatchdogCancels,
       WarnOfContention, EmitTelemetry, telemetryFrame, orchestratorVars
<1>6. CASE NextModule \/ EndOfModules \/ RepeatCycle \/ StopCycling
  BY <1>6 DEF NextModule, EndOfModules, RepeatCycle, StopCycling
<1> QED BY <1>1, <1>2, <1>3, <1>4, <1>5, <1>6 DEF Quietly

\* The modules of one more cycle.
LEMMA OneMoreCycle ==
    ASSUME NEW n \in Nat, NEW done \in Nat
    PROVE  n * (done + 1) = n * done + n /\ n * done \in Nat
OBVIOUS

\* The cycle count and the index move as the modules started say.
LEMMA CountedQuietly ==
    ASSUME Control, Counted, Quietly, SameLifecycle
    PROVE  Counted'
<1>1. /\ NModules' = NModules /\ Starts' = Starts /\ NModules \in Nat
      /\ cycle \in Nat /\ index \in 1..(NModules + 1)
  BY QuietFrame, RunnerAssumption DEF SameLifecycle, NModules, Control, TypeOK
<1>2. NModules * (cycle + 1) = NModules * cycle + NModules /\ NModules * cycle \in Nat
  BY <1>1, OneMoreCycle
<1>3. CASE Beginning
  BY <1>1, <1>2, <1>3 DEF Counted, Control, Placed, TypeOK, Decisions, Beginning,
       BeginPreflight, PreflightPassed, PreflightFailed, Cycling, Undecided, TerminalStates
<1>4. CASE Ending
  BY <1>1, <1>4 DEF Counted, Control, Placed, TypeOK, Decisions, Ending, DecideFinalState,
       PublishScore, TakeDigest, CountEvents, SealBundle, Cycling, Undecided, cancelled
<1>5. CASE Persisting
  BY <1>1, <1>5 DEF Counted, Control, Placed, TypeOK, Decisions, Persisting, WriteBundle,
       WriteReport, RecordInIndex, PersistFailed, PublishBundle, AnnounceEnd, WriteEventLog,
       PublishTerminalState, Cycling, Undecided
<1>6. CASE Thread \/ OperatorCancels \/ Telemetry
  <2>1. /\ UNCHANGED <<pc, cycle, index, ending>>
        /\ cancelled => cancelled'
    <3>1. CASE Thread
      BY <3>1 DEF Thread, ReportSample, ReturnFromModule, orchestratorVars, cancelled
    <3>2. CASE OperatorCancels
      BY <3>2 DEF OperatorCancels, orchestratorVars, cancelled
    <3>3. CASE Telemetry
      BY <3>3 DEF Telemetry, Tick, TelemetryEnds, RecordStopReason, WarnOfStop, WatchdogCancels,
           WarnOfContention, EmitTelemetry, telemetryFrame, orchestratorVars, cancelled, CancelBy
    <3> QED BY <1>6, <3>1, <3>2, <3>3
  <2> QED BY <1>1, <2>1 DEF Counted
<1>7. CASE NextModule
  BY <1>1, <1>7 DEF Counted, Control, Placed, NextModule, Cycling, Undecided
<1>8. CASE EndOfModules
  BY <1>1, <1>2, <1>8 DEF Counted, Control, Placed, EndOfModules, Cycling, Undecided, cancelled
<1>9. CASE RepeatCycle
  BY <1>1, <1>9 DEF Counted, Control, Placed, RepeatCycle, MayRepeat, Cycling, Undecided,
       cancelled
<1>10. CASE StopCycling
  <2>1. /\ pc = "cycle" /\ pc' = "decide" /\ cycle' = cycle + 1
        /\ UNCHANGED <<cancel, ending>>
    BY <1>10 DEF StopCycling
  <2>2. ending.state = None
    BY <2>1 DEF Control, Placed, Undecided, Cycling
  <2>3. ~cancelled => Cardinality(Starts) = NModules * (cycle + 1)
    BY <2>1 DEF Counted
  <2>4. ending.state # "completed"
    BY <2>2, RunnerAssumption DEF TerminalStates
  <2> QED BY <1>1, <2>1, <2>3, <2>4 DEF Counted, Cycling, cancelled
<1> QED
  BY <1>3, <1>4, <1>5, <1>6, <1>7, <1>8, <1>9, <1>10 DEF Quietly

\* The last pass that may have started a module only moves on; the exception
\* is a failed preflight, before which none has.
LEMMA LastPassQuietly ==
    ASSUME Control, Counted, Quietly
    PROVE  0..LastPass \subseteq 0..LastPass' \/ Starts = {}
<1>1. cycle \in Nat
  BY RunnerAssumption DEF Control, TypeOK
<1>2. CASE PreflightFailed
  <2>1. pc = "preflight" /\ cycle = 0 /\ index = 1
    BY <1>2 DEF PreflightFailed, Control, Placed
  <2>2. Cardinality(Starts) = NModules * 0 + 1 - 1
    BY <2>1 DEF Counted, Cycling
  <2>3. NModules \in Nat /\ log \in Seq(Events)
    BY RunnerAssumption DEF Control, TypeOK, NModules
  <2>4. IsFiniteSet(Starts)
    BY <2>3, LenProperties, Places DEF Starts
  <2>5. Cardinality(Starts) = 0
    BY <2>2, <2>3
  <2> QED BY <2>4, <2>5, FS_EmptySet
<1>3. CASE ~PreflightFailed
  <2>1. LastPass \in Int /\ LastPass' \in Int /\ LastPass <= LastPass'
    <3>1. CASE Beginning
      BY <1>1, <1>3, <3>1 DEF LastPass, Cycling, Beginning, BeginPreflight, PreflightPassed
    <3>2. CASE Ending
      BY <1>1, <3>2 DEF LastPass, Cycling, Ending, DecideFinalState, PublishScore, TakeDigest,
           CountEvents, SealBundle
    <3>3. CASE Persisting
      BY <1>1, <3>3 DEF LastPass, Cycling, Persisting, WriteBundle, WriteReport, RecordInIndex,
           PersistFailed, PublishBundle, AnnounceEnd, WriteEventLog, PublishTerminalState
    <3>4. CASE Thread \/ OperatorCancels
      <4>1. UNCHANGED <<pc, cycle>>
        BY <3>4 DEF Thread, ReportSample, ReturnFromModule, OperatorCancels, orchestratorVars
      <4> QED BY <1>1, <4>1 DEF LastPass, Cycling
    <3>5. CASE Telemetry
      BY <1>1, <3>5 DEF LastPass, Telemetry, Tick, TelemetryEnds, RecordStopReason, WarnOfStop,
           WatchdogCancels, WarnOfContention, EmitTelemetry, telemetryFrame, orchestratorVars
    <3>6. CASE NextModule \/ EndOfModules \/ RepeatCycle \/ StopCycling
      BY <1>1, <3>6 DEF LastPass, Cycling, NextModule, EndOfModules, RepeatCycle, StopCycling
    <3> QED BY <3>1, <3>2, <3>3, <3>4, <3>5, <3>6 DEF Quietly
  <2> QED BY <2>1
<1> QED BY <1>2, <1>3

\* So such a step keeps what the log is known to say.
LEMMA QuietlyKeepsTheRest ==
    ASSUME Control, Counted, InOrder, Closed, Reported, Quietly, SameLifecycle
    PROVE  Counted' /\ InOrder' /\ Closed' /\ Reported'
<1>1. UNCHANGED <<profile, results>> /\ NModules' = NModules
  BY QuietFrame DEF NModules
<1>2. /\ Starts' = Starts /\ Endings' = Endings /\ Recorded' = Recorded
      /\ \A i \in Starts \cup Endings : log'[i] = log[i]
  BY DEF SameLifecycle
<1>3. Recorded \subseteq Endings
  BY DEF Recorded, Endings, Kinds, OutcomeKinds
<1>4. InOrder'
  <2> SUFFICES ASSUME NEW s \in Starts
               PROVE  \E pass \in 0..LastPass' :
                          UpTo(Starts, s) = NModules * pass + log[s].module
    BY <1>1, <1>2 DEF InOrder, UpTo
  <2> QED BY LastPassQuietly DEF InOrder
<1>5. Closed'
  BY <1>2, QuietFrame DEF Closed
<1>6. Reported'
  BY <1>1, <1>2, <1>3 DEF Reported, UpTo
<1> QED BY <1>4, <1>5, <1>6, CountedQuietly

-----------------------------------------------------------------------------
(* A module starts                                                         *)

\* The four events of an announcement: the last one is the start.
LEMMA StartPlace ==
    ASSUME Control, StartModule
    PROVE  /\ log' \in Seq(Events)
           /\ \E place \in 1..Len(log') :
                 GrowsBy(place) /\ log'[place] = Event("module.started", index)
<1> DEFINE events == <<Event("module.queued", index), Event("module.preparing", index),
                       Event("module.warmup", index), Event("module.started", index)>>
           place == Len(log) + 4
<1>1. index \in 1..NModules /\ TypeOK
  BY RunnerAssumption DEF StartModule, Control, TypeOK, Placed, NModules
<1>2. {"module.queued", "module.preparing", "module.warmup", "module.started"} \subseteq EventKinds
  BY DEF EventKinds
<1>3. /\ Event("module.queued", index) \in Events /\ Event("module.preparing", index) \in Events
      /\ Event("module.warmup", index) \in Events /\ Event("module.started", index) \in Events
  BY <1>1, <1>2 DEF Event, Events
<1>4. /\ events \in Seq(Events) /\ Len(events) = 4
      /\ events[4] = Event("module.started", index)
  <2>1. ASSUME NEW a \in Events, NEW b \in Events, NEW c \in Events, NEW d \in Events
        PROVE  <<a, b, c, d>> \in Seq(Events)
    OBVIOUS
  <2>2. events \in Seq(Events)
    BY <1>3, <2>1
  <2>3. Len(events) = 4
    OBVIOUS
  <2>4. events[4] = Event("module.started", index)
    OBVIOUS
  <2> QED BY <2>2, <2>3, <2>4
<1>5. \A i \in 1..3 : events[i].kind \notin Lifecycle
  <2>1. /\ events[1] = Event("module.queued", index)
        /\ events[2] = Event("module.preparing", index)
        /\ events[3] = Event("module.warmup", index)
    OBVIOUS
  <2> HIDE DEF events
  <2>2. \A kind \in {"module.queued", "module.preparing", "module.warmup"} :
            Event(kind, index).kind \notin Lifecycle
    BY DEF Event, Lifecycle, OutcomeKinds
  <2>3. /\ events[1].kind \notin Lifecycle /\ events[2].kind \notin Lifecycle
        /\ events[3].kind \notin Lifecycle
    BY <2>1, <2>2
  <2> QED BY <2>3
<1>6. log' = log \o events
  BY DEF StartModule
<1>7. Len(log) \in Nat
  BY <1>1, LenProperties DEF TypeOK
<1> HIDE DEF events
<1>8. /\ log' \in Seq(Events) /\ Len(log') = Len(log) + 4
      /\ log'[Len(log) + 4] = events[4]
  <2>1. 4 \in 1..Len(events)
    BY <1>4
  <2> QED BY <1>1, <1>4, <1>6, <2>1, Concatenated
<1>9. \A i \in 1..Len(events) : Len(log) + i # place => events[i].kind \notin Lifecycle
  BY <1>4, <1>5, <1>7
<1>10. GrowsBy(place)
  <2>1. place \in (Len(log) + 1)..(Len(log) + Len(events) + 1)
    BY <1>4, <1>7
  <2> HIDE DEF place
  <2> QED BY <1>1, <1>4, <1>6, <1>9, <2>1, Concatenated
<1>11. place \in 1..Len(log')
  BY <1>7, <1>8
<1> QED BY <1>4, <1>8, <1>10, <1>11

\* The new start is the last event of its kind and numbered after the others,
\* and everything before it had been closed.
LEMMA StartKeepsTheRest ==
    ASSUME Control, Counted, InOrder, Closed, Reported, StartModule
    PROVE  log' \in Seq(Events) /\ Counted' /\ InOrder' /\ Closed' /\ Reported'
<1>1. /\ pc = "announce" /\ pc' = "measuring"
      /\ UNCHANGED <<profile, cycle, index, results, ending>> /\ NModules' = NModules
  BY DEF StartModule, NModules
<1>2. /\ NModules \in Nat /\ cycle \in Nat /\ index \in Nat /\ NModules * cycle \in Nat
      /\ log \in Seq(Events)
  <2>1. NModules \in Nat /\ cycle \in Nat /\ index \in Nat /\ log \in Seq(Events)
    BY RunnerAssumption DEF Control, TypeOK, NModules
  <2> QED BY <2>1, OneMoreCycle
<1>3. PICK place \in 1..Len(log') :
          GrowsBy(place) /\ log'[place] = Event("module.started", index)
  BY StartPlace
<1>4. log'[place].kind = "module.started" /\ log'[place].module = index /\ place \in Nat
  BY <1>3 DEF Event, GrowsBy
<1>5. /\ Starts' = Starts \cup {place}
      /\ \A i \in Starts : i < place /\ log'[i] = log[i]
  <2>1. {"module.started"} \in SUBSET Lifecycle
    BY DEF Lifecycle
  <2> QED BY <1>3, <1>4, <2>1, NewPlace DEF Starts
<1>6. /\ Endings' = Endings
      /\ \A i \in Endings : i < place /\ log'[i] = log[i]
  <2>1. OutcomeKinds \in SUBSET Lifecycle /\ "module.started" \notin OutcomeKinds
    BY DEF Lifecycle, OutcomeKinds
  <2>2. ASSUME NEW kinds \in SUBSET Lifecycle, "module.started" \notin kinds
        PROVE  /\ Kinds(kinds)' = Kinds(kinds)
               /\ \A i \in Kinds(kinds) : i < place /\ log'[i] = log[i]
    <3>1. /\ Kinds(kinds)' = Kinds(kinds) \cup (IF log'[place].kind \in kinds THEN {place} ELSE {})
          /\ \A i \in Kinds(kinds) : i < place /\ log'[i] = log[i]
      BY <1>3, NewPlace
    <3>2. log'[place].kind \notin kinds
      BY <1>4, <2>2
    <3>3. Kinds(kinds) \cup {} = Kinds(kinds)
      OBVIOUS
    <3> QED BY <3>1, <3>2, <3>3
  <2> QED BY <2>1, <2>2 DEF Endings, OutcomeKinds
<1>7. Recorded' = Recorded /\ Recorded \subseteq Endings
  <2>1. {"module.completed", "module.failed"} \in SUBSET Lifecycle
    BY DEF Lifecycle, OutcomeKinds
  <2>2. Recorded' = Recorded
    BY <1>3, <1>4, <2>1, NewPlace DEF Recorded
  <2>3. Recorded \subseteq Endings
    BY DEF Recorded, Endings, Kinds, OutcomeKinds
  <2> QED BY <2>2, <2>3
<1>8. Starts \in SUBSET Nat /\ IsFiniteSet(Starts) /\ Endings \in SUBSET Nat
  BY <1>2, LenProperties, Places DEF Starts, Endings
<1>9. /\ Cardinality(Starts') = NModules * cycle + index
      /\ UpTo(Starts', place) = NModules * cycle + index
      /\ \A i \in Starts : UpTo(Starts', i) = UpTo(Starts, i)
  <2>1. Cardinality(Starts) = NModules * cycle + index - 1
    BY <1>1 DEF Counted, Cycling
  <2>2. /\ Cardinality(Starts \cup {place}) = Cardinality(Starts) + 1
        /\ UpTo(Starts \cup {place}, place) = Cardinality(Starts) + 1
        /\ \A i \in Starts : UpTo(Starts \cup {place}, i) = UpTo(Starts, i)
    BY <1>4, <1>5, <1>8, CountNewPlace
  <2>3. Cardinality(Starts) + 1 = NModules * cycle + index
    BY <1>2, <2>1
  <2> QED BY <1>5, <2>2, <2>3
<1>10. Counted'
  <2>1. ending.state # "completed"
    BY <1>1, RunnerAssumption DEF Control, Placed, Undecided, Cycling, TerminalStates
  <2> QED BY <1>1, <1>2, <1>9, <2>1 DEF Counted, Cycling
<1>11. InOrder'
  <2>1. LastPass = cycle /\ LastPass' = cycle
    BY <1>1 DEF LastPass, Cycling
  <2>2. \A s \in Starts : \E pass \in 0..cycle :
            UpTo(Starts', s) = NModules * pass + log'[s].module
    BY <1>5, <1>9, <2>1 DEF InOrder
  <2>3. cycle \in 0..cycle /\ UpTo(Starts', place) = NModules * cycle + log'[place].module
    BY <1>2, <1>4, <1>9
  <2> QED BY <1>1, <1>5, <2>1, <2>2, <2>3 DEF InOrder, UpTo
<1>12. Closed'
  <2>1. \A i \in Endings' : \E s \in Starts' :
            /\ s < i /\ log'[s].module = log'[i].module
            /\ \A k \in Starts' \cup Endings' : k <= s \/ k >= i
    <3> SUFFICES ASSUME NEW i \in Endings
                 PROVE  \E s \in Starts' :
                           /\ s < i /\ log'[s].module = log'[i].module
                           /\ \A k \in Starts' \cup Endings' : k <= s \/ k >= i
      BY <1>6
    <3>1. PICK s \in Starts : /\ s < i /\ log[s].module = log[i].module
                             /\ \A k \in Starts \cup Endings : k <= s \/ k >= i
      BY DEF Closed
    <3>2. s \in Starts' /\ log'[s].module = log'[i].module
      BY <1>5, <1>6, <3>1
    <3>3. place >= i
      BY <1>4, <1>6, <1>8
    <3>4. \A k \in Starts' \cup Endings' : k <= s \/ k >= i
      BY <1>5, <1>6, <3>1, <3>3
    <3> QED BY <3>1, <3>2, <3>4
  <2>2. \A s, t \in Starts' : s < t => \E i \in Endings' : s < i /\ i < t
    <3>1. \A s \in Starts : \E i \in Endings : s < i /\ i < place
      BY <1>1, <1>6 DEF Closed
    <3>2. \A s \in Starts : ~(place < s)
      BY <1>4, <1>5, <1>8
    <3> QED BY <1>4, <1>5, <1>6, <3>1, <3>2 DEF Closed
  <2>3. \E s \in Starts' : /\ log'[s].module = index'
                           /\ \A k \in Starts' \cup Endings' : k <= s
    BY <1>1, <1>4, <1>5, <1>6, <1>8
  <2> QED BY <1>1, <2>1, <2>2, <2>3 DEF Closed
<1>13. Reported'
  BY <1>1, <1>6, <1>7 DEF Reported, UpTo
<1> QED BY <1>10, <1>11, <1>12, <1>13, StartPlace

-----------------------------------------------------------------------------
(* A module ends                                                           *)

\* What an outcome adds to the log and to the results.
Outcome(place) ==
    /\ place \in 1..Len(log') /\ GrowsBy(place)
    /\ log'[place].module = index
    /\ \/ log'[place].kind = "module.completed" /\ results' = Append(results, Result("completed"))
       \/ log'[place].kind = "module.failed" /\ results' = Append(results, Result("failed"))
       \/ log'[place].kind = "module.failed (fatal)" /\ results' = results
       \/ log'[place].kind = "module.cancelled" /\ results' = results

\* Every way a module can end emits one outcome and leaves the result it says.
LEMMA OutcomePlace ==
    ASSUME Control, Returning
    PROVE  log' \in Seq(Events) /\ \E place : Outcome(place)
<1> DEFINE place == Len(log) + 1
<1>1. index \in 1..NModules /\ TypeOK
  BY ReturningFrame, RunnerAssumption DEF Control, TypeOK, NModules
<1>2. \A kind \in EventKinds : Event(kind, index) \in Events
  BY <1>1 DEF Event, Events
<1>3. RunEvent("score.provisional") \in Events
  BY DEF RunEvent, Event, Events, EventKinds
<1>4. OutcomeKinds \subseteq EventKinds
  BY DEF EventKinds
<1>5. Len(log) \in Nat
  BY <1>1, LenProperties DEF TypeOK
<1>6. ASSUME NEW kind \in OutcomeKinds, NEW events \in Seq(Events),
             Len(events) \in {1, 2}, events[1] = Event(kind, index),
             Len(events) = 2 => events[2].kind \notin Lifecycle,
             log' = log \o events
      PROVE  /\ log' \in Seq(Events) /\ place \in 1..Len(log') /\ GrowsBy(place)
             /\ log'[place].kind = kind /\ log'[place].module = index
  <2>1. /\ log' \in Seq(Events) /\ Len(log') = Len(log) + Len(events)
        /\ log'[Len(log) + 1] = events[1]
    BY <1>1, <1>6, Concatenated
  <2>2. \A i \in 1..Len(events) : Len(log) + i # place => events[i].kind \notin Lifecycle
    BY <1>5, <1>6
  <2>3. place \in (Len(log) + 1)..(Len(log) + Len(events) + 1) /\ place \in 1..Len(log')
    BY <1>5, <1>6, <2>1
  <2>4. log'[place].kind = kind /\ log'[place].module = index
    BY <1>6, <2>1 DEF Event
  <2> HIDE DEF place
  <2>5. GrowsBy(place)
    BY <1>1, <1>6, <2>2, <2>3, Concatenated
  <2> QED BY <2>1, <2>3, <2>4, <2>5
<1>7. ASSUME NEW kind \in OutcomeKinds, log' = Append(log, Event(kind, index))
      PROVE  /\ log' \in Seq(Events) /\ place \in 1..Len(log') /\ GrowsBy(place)
             /\ log'[place].kind = kind /\ log'[place].module = index
  <2> DEFINE events == <<Event(kind, index)>>
  <2>1. Event(kind, index) \in Events
    BY <1>2, <1>4
  <2>2. /\ log' = log \o events /\ events \in Seq(Events)
        /\ Len(events) = 1 /\ events[1] = Event(kind, index)
    BY <1>1, <1>7, <2>1, Appended
  <2> HIDE DEF events
  <2> QED BY <1>6, <2>2
<1>8. CASE ModuleCompleted
  <2> DEFINE events == <<Event("module.completed", index), RunEvent("score.provisional")>>
  <2>1. "module.completed" \in OutcomeKinds
    BY DEF OutcomeKinds
  <2>2. events \in Seq(Events)
    BY <1>2, <1>3, <1>4, <2>1
  <2>3. events[2].kind \notin Lifecycle
    BY DEF RunEvent, Event, Lifecycle, OutcomeKinds
  <2>4. Len(events) = 2 /\ events[1] = Event("module.completed", index)
    OBVIOUS
  <2>5. log' = log \o events /\ results' = Append(results, Result("completed"))
    BY <1>8 DEF ModuleCompleted
  <2> HIDE DEF events, place
  <2> QED BY <1>6, <2>1, <2>2, <2>3, <2>4, <2>5 DEF Outcome
<1>9. CASE ModuleFailed
  <2> HIDE DEF place
  <2> QED BY <1>7, <1>9 DEF ModuleFailed, Outcome, OutcomeKinds
<1>10. CASE ModulePanicked
  <2> HIDE DEF place
  <2> QED BY <1>7, <1>10 DEF ModulePanicked, Outcome, OutcomeKinds
<1>11. CASE ModuleCancelled
  <2> HIDE DEF place
  <2> QED BY <1>7, <1>11 DEF ModuleCancelled, Outcome, OutcomeKinds
<1> QED BY <1>8, <1>9, <1>10, <1>11 DEF Returning

\* The outcome closes the start that was open, and the result goes with it.
LEMMA EndKeepsTheRest ==
    ASSUME Control, Counted, InOrder, Closed, Reported, Returning
    PROVE  log' \in Seq(Events) /\ Counted' /\ InOrder' /\ Closed' /\ Reported'
<1>1. /\ pc = "measuring" /\ UNCHANGED <<profile, cycle, cancel, ending>>
      /\ NModules' = NModules
      /\ \/ pc' = "next" /\ index' = index + 1
         \/ pc' = "cycle" /\ index' = index /\ cancelled
  <2>1. TypeOK /\ Placed /\ Cut
    BY DEF Control
  <2> QED BY <2>1, ReturningFrame DEF NModules
<1>2. /\ NModules \in Nat /\ cycle \in Nat /\ index \in Nat /\ NModules * cycle \in Nat
      /\ log \in Seq(Events) /\ results \in Seq(Results)
  <2>1. /\ NModules \in Nat /\ cycle \in Nat /\ index \in Nat
        /\ log \in Seq(Events) /\ results \in Seq(Results)
    BY RunnerAssumption DEF Control, TypeOK, NModules
  <2> QED BY <2>1, OneMoreCycle
<1>3. PICK place : Outcome(place)
  BY OutcomePlace
<1>4. /\ log'[place].kind \in OutcomeKinds /\ log'[place].module = index
      /\ place \in 1..Len(log') /\ GrowsBy(place) /\ place \in Nat
  BY <1>3 DEF Outcome, OutcomeKinds, GrowsBy
<1>5. Starts' = Starts /\ \A i \in Starts : i < place /\ log'[i] = log[i]
  <2>1. {"module.started"} \in SUBSET Lifecycle /\ "module.started" \notin OutcomeKinds
    BY DEF Lifecycle, OutcomeKinds
  <2>2. log'[place].kind \notin {"module.started"}
    BY <1>4, <2>1
  <2>3. /\ Starts' = Starts \cup (IF log'[place].kind \in {"module.started"} THEN {place} ELSE {})
        /\ \A i \in Starts : i < place /\ log'[i] = log[i]
    BY <1>4, <2>1, NewPlace DEF Starts
  <2> QED BY <2>2, <2>3
<1>6. Endings' = Endings \cup {place} /\ \A i \in Endings : i < place /\ log'[i] = log[i]
  <2>1. OutcomeKinds \in SUBSET Lifecycle
    BY DEF Lifecycle
  <2>2. ASSUME NEW kinds \in SUBSET Lifecycle, log'[place].kind \in kinds
        PROVE  /\ Kinds(kinds)' = Kinds(kinds) \cup {place}
               /\ \A i \in Kinds(kinds) : i < place /\ log'[i] = log[i]
    BY <1>4, <2>2, NewPlace
  <2> QED BY <1>4, <2>1, <2>2 DEF Endings, OutcomeKinds
<1>7. /\ Starts \in SUBSET Nat /\ Endings \in SUBSET Nat
      /\ Recorded \in SUBSET Nat /\ IsFiniteSet(Recorded)
  BY <1>2, LenProperties, Places DEF Starts, Endings, Recorded
<1>8. Counted'
  <2>1. Cardinality(Starts) = NModules * cycle + index
    BY <1>1, <1>2 DEF Counted, Cycling
  <2>2. ending.state # "completed"
    BY <1>1, RunnerAssumption DEF Control, Placed, Undecided, Cycling, TerminalStates
  <2> QED BY <1>1, <1>2, <1>5, <2>1, <2>2 DEF Counted, Cycling, cancelled
<1>9. InOrder'
  <2>1. LastPass = cycle /\ LastPass' = cycle
    BY <1>1 DEF LastPass, Cycling
  <2> QED BY <1>1, <1>5, <2>1 DEF InOrder, UpTo
<1>10. Closed'
  <2>1. PICK open \in Starts : /\ log[open].module = index
                               /\ \A k \in Starts \cup Endings : k <= open
    BY <1>1 DEF Closed
  <2>2. ASSUME NEW i \in Endings'
        PROVE  \E s \in Starts' : /\ s < i /\ log'[s].module = log'[i].module
                                  /\ \A k \in Starts' \cup Endings' : k <= s \/ k >= i
    <3>1. CASE i = place
      <4>1. open < place /\ log'[open].module = log'[place].module
        BY <1>4, <1>5, <2>1
      <4>2. \A k \in Starts' \cup Endings' : k <= open \/ k >= place
        BY <1>4, <1>5, <1>6, <2>1
      <4> QED BY <1>5, <2>1, <3>1, <4>1, <4>2
    <3>2. CASE i \in Endings
      <4>1. PICK s \in Starts : /\ s < i /\ log[s].module = log[i].module
                                /\ \A k \in Starts \cup Endings : k <= s \/ k >= i
        BY <3>2 DEF Closed
      <4>2. place >= i
        BY <1>4, <1>6, <1>7, <3>2
      <4>3. \A k \in Starts' \cup Endings' : k <= s \/ k >= i
        BY <1>5, <1>6, <4>1, <4>2
      <4>4. log'[s].module = log'[i].module
        BY <1>5, <1>6, <3>2, <4>1
      <4> QED BY <1>5, <4>1, <4>3, <4>4
    <3> QED BY <1>6, <2>2, <3>1, <3>2
  <2>3. \A s, t \in Starts' : s < t => \E i \in Endings' : s < i /\ i < t
    BY <1>5, <1>6 DEF Closed
  <2>4. \A s \in Starts' : \E i \in Endings' : s < i
    BY <1>5, <1>6
  <2>5. pc' # "measuring"
    BY <1>1
  <2> QED BY <2>2, <2>3, <2>4, <2>5 DEF Closed
<1>11. Reported'
  <2>1. {"module.completed", "module.failed"} \in SUBSET Lifecycle
    BY DEF Lifecycle, OutcomeKinds
  <2>2. /\ Recorded' = Recorded \cup
              (IF log'[place].kind \in {"module.completed", "module.failed"} THEN {place} ELSE {})
        /\ \A i \in Recorded : i < place /\ log'[i] = log[i]
    BY <1>4, <2>1, NewPlace DEF Recorded
  <2>3. CASE results' = results /\ log'[place].kind \notin {"module.completed", "module.failed"}
    <3>1. Recorded' = Recorded
      BY <2>2, <2>3
    <3> QED BY <2>2, <2>3, <3>1 DEF Reported, UpTo
  <2>4. ASSUME NEW status \in {"completed", "failed"},
               results' = Append(results, Result(status)),
               log'[place].kind = (IF status = "failed" THEN "module.failed"
                                                        ELSE "module.completed")
        PROVE  Reported'
    <3>1. Recorded' = Recorded \cup {place}
      BY <2>2, <2>4
    <3>2. /\ Cardinality(Recorded') = Cardinality(Recorded) + 1
          /\ UpTo(Recorded', place) = Cardinality(Recorded) + 1
          /\ \A i \in Recorded : UpTo(Recorded', i) = UpTo(Recorded, i)
      <4>1. /\ Cardinality(Recorded \cup {place}) = Cardinality(Recorded) + 1
            /\ UpTo(Recorded \cup {place}, place) = Cardinality(Recorded) + 1
            /\ \A i \in Recorded : UpTo(Recorded \cup {place}, i) = UpTo(Recorded, i)
        BY <1>4, <1>7, <2>2, CountNewPlace
      <4> QED BY <3>1, <4>1
    <3>3. /\ Cardinality(Recorded) \in Nat
          /\ \A i \in Recorded : UpTo(Recorded, i) \in 1..Cardinality(Recorded)
      BY <1>7, CountUpTo
    <3>4. Len(results) = Cardinality(Recorded)
      BY DEF Reported
    <3>5. /\ Len(results') = Len(results) + 1 /\ results'[Len(results) + 1] = Result(status)
          /\ \A n \in 1..Len(results) : results'[n] = results[n]
      <4>1. Result(status) \in Results
        BY <1>2 DEF Result, Results
      <4> QED BY <1>2, <2>4, <4>1, AppendProperties
    <3>6. ASSUME NEW i \in Recorded
          PROVE  /\ results'[UpTo(Recorded', i)].module = log'[i].module
                 /\ (results'[UpTo(Recorded', i)].status = "failed") <=>
                        (log'[i].kind = "module.failed")
      <4>1. UpTo(Recorded', i) = UpTo(Recorded, i) /\ UpTo(Recorded, i) \in 1..Len(results)
        BY <3>2, <3>3, <3>4
      <4>2. results'[UpTo(Recorded', i)] = results[UpTo(Recorded, i)] /\ log'[i] = log[i]
        BY <2>2, <3>5, <4>1
      <4> QED BY <4>2 DEF Reported
    <3>7. /\ results'[UpTo(Recorded', place)].module = log'[place].module
          /\ (results'[UpTo(Recorded', place)].status = "failed") <=>
                 (log'[place].kind = "module.failed")
      BY <1>4, <2>4, <3>2, <3>4, <3>5 DEF Result
    <3> QED BY <3>1, <3>2, <3>4, <3>5, <3>6, <3>7 DEF Reported
  <2> QED BY <1>3, <2>3, <2>4 DEF Outcome
<1> QED BY <1>8, <1>9, <1>10, <1>11, OutcomePlace

-----------------------------------------------------------------------------
(* The invariant, and what follows from it                                 *)

\* Every step keeps what ties the variables to where the orchestrator is.
LEMMA ControlStep ==
    ASSUME Control, Next, log' \in Seq(Events)
    PROVE  Control'
<1>1. CASE Beginning
  BY <1>1, TypeBeginning, PlacedBeginning, ToldBeginning, CutBeginning DEF Control
<1>2. CASE Stepping
  BY <1>2, TypeStepping, PlacedStepping, ToldStepping, CutStepping DEF Control
<1>3. CASE Returning
  BY <1>3, TypeReturning, PlacedReturning, ToldReturning, CutReturning DEF Control
<1>4. CASE Ending
  BY <1>4, TypeEnding, PlacedEnding, ToldEnding, CutEnding DEF Control
<1>5. CASE Persisting
  BY <1>5, TypePersisting, PlacedPersisting, ToldPersisting, CutPersisting DEF Control
<1>6. CASE Thread
  BY <1>6, TypeThread, PlacedThread, ToldThread, CutThread DEF Control
<1>7. CASE Telemetry
  BY <1>7, TypeTelemetry, PlacedTelemetry, ToldTelemetry, CutTelemetry DEF Control
<1>8. CASE OperatorCancels
  BY <1>8, TypeOperator, PlacedOperatorCancels, ToldOperatorCancels,
       CutOperatorCancels DEF Control
<1> QED
  BY <1>1, <1>2, <1>3, <1>4, <1>5, <1>6, <1>7, <1>8
     DEF Next, Orchestrator, Beginning, Stepping, Returning, Ending, Persisting

\* The run that was just created.
LEMMA InvInit == Init => Inv
<1> SUFFICES ASSUME Init  PROVE Inv
  OBVIOUS
<1>1. NModules \in Nat \ {0} /\ log = <<>> /\ results = <<>>
  BY RunnerAssumption DEF Init, NModules
<1>2. Starts = {} /\ Endings = {} /\ Recorded = {}
  BY <1>1 DEF Starts, Endings, Recorded, Kinds
<1>3. TypeOK
  <2>1. cancel \in Cancels /\ thread \in Threads /\ telemetry \in Telemetries
    BY DEF Init, Cancels, Threads, Telemetries, NotRunning
  <2>2. ending \in Decisions /\ disk \in Directories
    BY DEF Init, Decisions, Directories, NothingDecided, EmptyDirectory
  <2>3. log \in Seq(Events) /\ results \in Seq(Results)
    BY <1>1
  <2>4. cycle \in 0..MaxCycles /\ index \in 1..(NModules + 1)
    BY <1>1, RunnerAssumption DEF Init
  <2> QED BY <2>1, <2>2, <2>3, <2>4 DEF Init, TypeOK
<1>4. Placed
  BY RunnerAssumption DEF Init, Placed, Terminal, TerminalStates, Cycling, Undecided, Published,
       NotRunning, NothingDecided
<1>5. Told /\ Cut
  BY RunnerAssumption DEF Init, Told, Cut, cancelled, Cycling, Sealed, Published,
       TerminalStates, Causes, NotRunning, NothingDecided
<1>6. Cardinality({}) = 0
  BY FS_EmptySet
<1>7. Counted
  <2>1. pc = "created" /\ cycle = 0 /\ index = 1 /\ ending.state = None
    BY DEF Init, NothingDecided
  <2>2. ending.state # "completed"
    BY <2>1, RunnerAssumption DEF TerminalStates
  <2>3. NModules * 0 + 1 - 1 = 0
    BY <1>1
  <2> QED BY <1>2, <1>6, <2>1, <2>2, <2>3 DEF Counted
<1>8. InOrder /\ Closed /\ Reported
  BY <1>1, <1>2, <1>6 DEF Init, InOrder, Closed, Reported
<1> QED BY <1>3, <1>4, <1>5, <1>7, <1>8 DEF Inv, Control

\* Every step, and every stutter.
LEMMA InvStep == Inv /\ [Next]_vars => Inv'
<1> SUFFICES ASSUME Inv, [Next]_vars  PROVE Inv'
  OBVIOUS
<1>1. Control /\ Counted /\ InOrder /\ Closed /\ Reported /\ TypeOK /\ Placed
  BY DEF Inv, Control
<1>2. CASE Quietly /\ Next
  BY <1>1, <1>2, QuietStep, QuietlyKeepsTheRest, ControlStep DEF Inv
<1>3. CASE StartModule
  BY <1>1, <1>3, StartKeepsTheRest, ControlStep DEF Inv, Next, Orchestrator
<1>4. CASE Returning
  BY <1>1, <1>4, EndKeepsTheRest, ControlStep DEF Inv, Next, Orchestrator, Returning
<1>5. CASE UNCHANGED vars
  <2>1. UNCHANGED <<NModules, Events, Starts, Endings, Recorded, LastPass, cancelled, Terminal>>
    BY <1>5 DEF vars, Starts, Endings, Recorded, Kinds, LastPass, Cycling, cancelled, Terminal,
         NModules, Events
  <2>2. TypeOK'
    BY <1>1, <1>5, <2>1 DEF vars, TypeOK
  <2>3. Placed' /\ Told' /\ Cut'
    BY <1>1, <1>5, <2>1 DEF vars, Control, Placed, Told, Cut
  <2>4. Counted' /\ InOrder'
    BY <1>1, <1>5, <2>1 DEF vars, Counted, InOrder
  <2>5. Closed' /\ Reported'
    BY <1>1, <1>5, <2>1 DEF vars, Closed, Reported
  <2> QED BY <2>2, <2>3, <2>4, <2>5 DEF Inv, Control
<1>6. Next => Quietly \/ StartModule \/ Returning
  BY DEF Next, Orchestrator, Quietly, Beginning, Returning, Ending, Persisting
<1> QED BY <1>2, <1>3, <1>4, <1>5, <1>6

\* The invariant holds throughout every run.
LEMMA Invariance == Spec => []Inv
BY InvInit, InvStep, PTL DEF Spec

\* Every variable has its type: the cycle count and the index stay in their
\* bounds, and the log, the results and the bundle hold what they should.
THEOREM TypeCorrect == Spec => []TypeOK
<1>1. Inv => TypeOK
  BY DEF Inv, Control
<1> QED BY <1>1, Invariance, PTL

\* Every module the stream announces as started is closed by exactly one
\* outcome before the next one starts, and the results are those the outcomes
\* announce (run_cycle's emissions and pushes).
THEOREM EveryStartAlwaysHasItsOutcome == Spec => []EveryStartHasItsOutcome
<1>1. Inv => EveryStartHasItsOutcome
  <2> SUFFICES ASSUME Inv  PROVE Paired
    BY DEF Inv, Control, EveryStartHasItsOutcome
  <2>1. ending.state # None => pc # "measuring"
    BY DEF Inv, Control, Placed, Undecided, Cycling
  <2> QED BY <2>1 DEF Inv, Closed, Paired
<1> QED BY <1>1, Invariance, PTL

\* At most one module starts after the token was set, and a run that ends as
\* completed started every module of every cycle it claims, in order.
THEOREM OnlyCancellingEverCutsShort == Spec => []OnlyCancellingCutsShort
<1>1. Inv => OnlyCancellingCutsShort
  <2> SUFFICES ASSUME Inv  PROVE OnlyCancellingCutsShort
    OBVIOUS
  <2>1. cancel.late <= 1
    BY DEF Inv, Control, Cut
  <2>2. ASSUME ending.state = "completed"
        PROVE  /\ IF profile.repeats THEN cycle >= MinCycles ELSE cycle = 1
               /\ Cardinality(Starts) = NModules * cycle
               /\ \A s \in Starts : \E pass \in 0..(cycle - 1) :
                     UpTo(Starts, s) = NModules * pass + log[s].module
    <3>1. pc \notin Cycling
      BY <2>2, RunnerAssumption DEF Inv, Control, Placed, Undecided, TerminalStates
    <3>2. LastPass = cycle - 1
      BY <3>1 DEF LastPass
    <3>3. Cardinality(Starts) = NModules * cycle
      BY <2>2 DEF Inv, Counted
    <3>4. profile.repeats => cycle >= MinCycles
      BY <2>2 DEF Inv, Control, Cut
    <3>5. ~profile.repeats => cycle = 1
      BY <2>2 DEF Inv, Control, Cut
    <3> QED BY <3>2, <3>3, <3>4, <3>5 DEF Inv, InOrder
  <2> QED BY <2>1, <2>2 DEF OnlyCancellingCutsShort
<1> QED BY <1>1, Invariance, PTL

\* A run the watchdog stopped says so in the bundle that is published: the
\* reason is recorded before the token, and read after it.
THEOREM StopReasonAlwaysReachesBundle == Spec => []StopReasonReachesBundle
<1>1. Inv => StopReasonReachesBundle
  BY DEF Inv, Control, Placed, Told, Sealed, StopReasonReachesBundle
<1> QED BY <1>1, Invariance, PTL

\* Nothing that is published or stored changes once a terminal state has been
\* sent, and the bundle tells that state (execute's last step).
THEOREM TerminalIsAlwaysFinal == Spec => TerminalIsFinal
<1>1. Inv /\ Inv' /\ [Next]_vars =>
          /\ Terminal => UNCHANGED <<state, results, bundle, disk>>
          /\ Terminal' => bundle' # None /\ bundle'.state = state'
  <2> SUFFICES ASSUME Inv, Inv', [Next]_vars
               PROVE  /\ Terminal => UNCHANGED <<state, results, bundle, disk>>
                      /\ Terminal' => bundle' # None /\ bundle'.state = state'
    OBVIOUS
  <2>1. ASSUME Terminal  PROVE UNCHANGED <<state, results, bundle, disk>>
    <3>1. pc = "done"
      BY <2>1 DEF Inv, Control, Placed
    <3>2. CASE Orchestrator
      BY <3>1, <3>2 DEF Orchestrator, BeginPreflight, PreflightPassed, PreflightFailed,
           NextModule, StartModule, EndOfModules, ModuleCompleted, ModuleFailed, ModulePanicked,
           ModuleCancelled, ThreadReturned, RepeatCycle, StopCycling, DecideFinalState,
           PublishScore, TakeDigest, CountEvents, SealBundle, WriteBundle, WriteReport,
           RecordInIndex, PersistFailed, PublishBundle, AnnounceEnd, WriteEventLog,
           PublishTerminalState
    <3>3. CASE Thread \/ OperatorCancels
      BY <3>3 DEF Thread, ReportSample, ReturnFromModule, OperatorCancels, orchestratorVars
    <3>4. CASE Telemetry
      BY <3>4 DEF Telemetry, Tick, TelemetryEnds, RecordStopReason, WarnOfStop, WatchdogCancels,
           WarnOfContention, EmitTelemetry, telemetryFrame, orchestratorVars
    <3>5. CASE UNCHANGED vars
      BY <3>5 DEF vars
    <3> QED BY <3>2, <3>3, <3>4, <3>5 DEF Next
  <2>2. ASSUME Terminal'  PROVE bundle' # None /\ bundle'.state = state'
    <3>1. (pc = "done" /\ state = ending.state)'
      BY <2>2 DEF Inv, Control, Placed
    <3>2. (bundle # None /\ bundle.state = ending.state)'
      BY <3>1 DEF Inv, Control, Placed, Published
    <3> QED BY <3>1, <3>2
  <2> QED BY <2>1, <2>2
<1>2. [][Inv /\ Inv' /\ [Next]_vars]_vars =>
          [][/\ Terminal => UNCHANGED <<state, results, bundle, disk>>
             /\ Terminal' => bundle' # None /\ bundle'.state = state']_vars
  BY <1>1, PTL
<1> QED BY <1>1, Invariance, PTL DEF Spec, TerminalIsFinal
=============================================================================
