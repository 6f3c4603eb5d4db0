---------------------------- MODULE RunRegistry -----------------------------
(***************************************************************************)
(* The runs an agent answers for: RunManager of darcbench-agent/src/       *)
(* runner.rs, which keeps runs in memory and evicts those disk can answer  *)
(* for, and the per-run and list endpoints of src/server.rs.               *)
(*                                                                         *)
(* Runs are numbered in the order they start, which is their order in the  *)
(* registry.  What happens inside a run is Runner's; here it ends in the   *)
(* four steps of finalise that decide what can be answered.  A file write  *)
(* or the index write may fail, another process may remove a finished run, *)
(* and the agent may be restarted.                                         *)
(***************************************************************************)
EXTENDS Integers, FiniteSets

CONSTANTS NRuns,
          Retained,     \* RETAINED_RUNS_IN_MEMORY
          Requests,     \* list requests
          MaxRemovals,  \* bound of the model: runs removed by other processes
          MaxRestarts   \* bound of the model

Runs == 1..NRuns

ASSUME RunRegistryAssumption ==
    /\ NRuns \in Nat
    /\ Retained \in Nat
    /\ MaxRemovals \in Nat
    /\ MaxRestarts \in Nat

VARIABLES memory,    \* RunManager.runs
          phase,     \* phase[r]: how far run r is
          bundles,   \* runs whose bundle.json is on disk
          logs,      \* runs whose events.ndjson is on disk
          rows,      \* runs with a row in the index
          unwritten, \* history: runs that ended with no bundle on disk
          listing,   \* listing[q]: list request q, its snapshot of the registry,
                     \* and history: what there was to list when it came in
          bounds     \* removals and restarts so far

registryVars == <<memory, phase, bundles, logs, rows, unwritten, listing, bounds>>

NoRequest == [at |-> "idle", live |-> {}, due |-> {}, answer |-> {}]

RegistryInit ==
    /\ memory = {}
    /\ phase = [r \in Runs |-> "none"]
    /\ bundles = {} /\ logs = {} /\ rows = {}
    /\ unwritten = {}
    /\ listing = [q \in Requests |-> NoRequest]
    /\ bounds = [removals |-> 0, restarts |-> 0]

Terminal(r) == phase[r] = "terminal"

-----------------------------------------------------------------------------
(* start                                                                   *)

\* Mutant: a finished run may go whatever became of its bundle.
IsFinished(r) == Terminal(r)

Replayable(r) == Terminal(r) /\ r \in bundles

\* Mutant: one more than is retained.
EvictedOneShort(runs) ==
    {r \in runs : Replayable(r) =>
        Cardinality({newer \in runs : newer > r /\ Replayable(newer)}) <= Retained}

\* evict_replayable: the oldest replayable runs go until Retained are left.
Evicted(runs) ==
    {r \in runs : Replayable(r) =>
        Cardinality({newer \in runs : newer > r /\ Replayable(newer)}) < Retained}

\* Under the write lock: refused while a run is in flight, else the new run is
\* pushed and old ones are evicted.
Start(r) ==
    /\ phase[r] = "none"
    /\ \A older \in 1..(r - 1) : phase[older] # "none"
    /\ \A other \in memory : Terminal(other)
    /\ memory' = Evicted(memory \cup {r})
    /\ phase' = [phase EXCEPT ![r] = "running"]
    /\ UNCHANGED <<bundles, logs, rows, unwritten, listing, bounds>>

-----------------------------------------------------------------------------
(* finalise                                                                *)

\* persist: the bundle, then the row.  Either write may fail.
Persist(r) ==
    /\ phase[r] = "running"
    /\ phase' = [phase EXCEPT ![r] = "persisted"]
    /\ \/ bundles' = bundles \cup {r} /\ rows' \in {rows, rows \cup {r}} /\ unwritten' = unwritten
       \/ unwritten' = unwritten \cup {r} /\ UNCHANGED <<bundles, rows>>
    /\ UNCHANGED <<memory, logs, listing, bounds>>

\* The bundle slot, then run.completed.
FillSlot(r) ==
    /\ phase[r] = "persisted"
    /\ phase' = [phase EXCEPT ![r] = "announced"]
    /\ UNCHANGED <<memory, bundles, logs, rows, unwritten, listing, bounds>>

WriteEventLog(r) ==
    /\ phase[r] = "announced"
    /\ phase' = [phase EXCEPT ![r] = "logged"]
    /\ logs' \in {logs, logs \cup {r}}
    /\ UNCHANGED <<memory, bundles, rows, unwritten, listing, bounds>>

PublishTerminal(r) ==
    /\ phase[r] = "logged"
    /\ phase' = [phase EXCEPT ![r] = "terminal"]
    /\ UNCHANGED <<memory, bundles, logs, rows, unwritten, listing, bounds>>

-----------------------------------------------------------------------------
(* Other processes                                                         *)

\* prune, which takes the row too, or rm -rf, which does not.
RemoveRun(r) ==
    /\ r \in bundles
    /\ phase[r] \in {"terminal", "lost"}
    /\ bounds.removals < MaxRemovals
    /\ bounds' = [bounds EXCEPT !.removals = @ + 1]
    /\ bundles' = bundles \ {r}
    /\ logs' = logs \ {r}
    /\ rows' \in {rows, rows \ {r}}
    /\ UNCHANGED <<memory, phase, unwritten, listing>>

\* A new process starts empty and reconciles the index, which may fail.
Restart ==
    /\ bounds.restarts < MaxRestarts
    /\ bounds' = [bounds EXCEPT !.restarts = @ + 1]
    /\ memory' = {}
    /\ phase' = [r \in Runs |-> IF phase[r] \in {"none", "terminal"} THEN phase[r] ELSE "lost"]
    /\ rows' \in {rows, bundles}
    /\ listing' = [q \in Requests |-> NoRequest]
    /\ UNCHANGED <<bundles, logs, unwritten>>

-----------------------------------------------------------------------------
(* The endpoints                                                           *)

SlotFilled(r) == phase[r] \in {"announced", "logged", "terminal"}

\* get_run, get_bundle (and get_report), and stream_events.
RunAnswer(r) == IF r \in memory \/ r \in rows THEN "ok" ELSE "unknown_run"

BundleAnswer(r) ==
    CASE r \in memory /\ SlotFilled(r) -> "ok"
      [] r \in memory /\ ~SlotFilled(r) -> "run_incomplete"
      [] r \notin memory /\ r \in bundles -> "ok"
      [] OTHER -> "unknown_run"

EventsAnswer(r) ==
    CASE r \in memory \/ r \in logs -> "ok"
      [] r \notin memory /\ r \notin logs /\ r \in bundles -> "event_log_unreadable"
      [] OTHER -> "unknown_run"

\* Mutant: the index is read before the registry.
ListIndexFirst(q) ==
    /\ listing[q].at = "idle"
    /\ listing' = [listing EXCEPT ![q] = [at |-> "live", live |-> rows,
                                          due |-> memory \cup rows, answer |-> {}]]
    /\ UNCHANGED <<memory, phase, bundles, logs, rows, unwritten, bounds>>
ListRegistryLast(q) ==
    /\ listing[q].at = "live"
    /\ listing' = [listing EXCEPT ![q] = [@ EXCEPT !.at = "answered",
                                                   !.answer = listing[q].live \cup memory]]
    /\ UNCHANGED <<memory, phase, bundles, logs, rows, unwritten, bounds>>
ListBackwards(q) == ListIndexFirst(q) \/ ListRegistryLast(q)

\* list_runs: the registry first, then the index for what it does not hold.
ListLive(q) ==
    /\ listing[q].at = "idle"
    /\ listing' = [listing EXCEPT ![q] = [at |-> "live", live |-> memory,
                                          due |-> memory \cup rows, answer |-> {}]]
    /\ UNCHANGED <<memory, phase, bundles, logs, rows, unwritten, bounds>>

ListIndexed(q) ==
    /\ listing[q].at = "live"
    /\ listing' = [listing EXCEPT ![q] = [@ EXCEPT !.at = "answered",
                                                   !.answer = listing[q].live \cup rows]]
    /\ UNCHANGED <<memory, phase, bundles, logs, rows, unwritten, bounds>>

Forget(q) ==
    /\ listing[q].at = "answered"
    /\ listing' = [listing EXCEPT ![q] = NoRequest]
    /\ UNCHANGED <<memory, phase, bundles, logs, rows, unwritten, bounds>>

ListRuns(q) == ListLive(q) \/ ListIndexed(q)

Finalise(r) == Persist(r) \/ FillSlot(r) \/ WriteEventLog(r) \/ PublishTerminal(r)

RegistryNext ==
    \/ \E r \in Runs : Start(r) \/ Finalise(r) \/ RemoveRun(r)
    \/ \E q \in Requests : ListRuns(q) \/ Forget(q)
    \/ Restart

RegistrySpec == RegistryInit /\ [][RegistryNext]_registryVars

-----------------------------------------------------------------------------
(* Properties                                                              *)

Phases == {"none", "running", "persisted", "announced", "logged", "terminal", "lost"}

RegistryTypeOK ==
    /\ memory \subseteq Runs
    /\ phase \in [Runs -> Phases]
    /\ bundles \subseteq Runs /\ logs \subseteq Runs /\ rows \subseteq Runs
    /\ unwritten \subseteq Runs
    /\ listing \in [Requests -> [at : {"idle", "live", "answered"}, live : SUBSET Runs,
                                 due : SUBSET Runs, answer : SUBSET Runs]]
    /\ \A r \in memory : phase[r] \notin {"none", "lost"}
    /\ Cardinality({r \in memory : ~Terminal(r)}) <= 1

\* evict_replayable holds what disk can answer for to the retained ones and
\* the run that has ended since.
MemoryIsBounded ==
    RegistryTypeOK /\ Cardinality({r \in memory : Replayable(r)}) <= Retained + 1

\* A result that could be fetched still can be, unless its directory was
\* removed or the process that held it is gone: no eviction turns a result, or
\* the detail of a failure that left no bundle, into a 404.
NoResultIsEvictedAway ==
    [][\A r \in Runs :
        BundleAnswer(r) = "ok" /\ memory' # {} /\ bundles \subseteq bundles' =>
            BundleAnswer(r)' = "ok"]_registryVars

\* list_runs reads the registry and the index at different times, and a run
\* that moves from the one to the other meanwhile is in the answer: it leaves
\* memory only for a row that is there.  Runs whose row or directory is gone,
\* or whose row was never written, are not owed.
ListMissesNoRun ==
    \A q \in Requests : listing[q].at = "answered" =>
        \A r \in listing[q].due : r \in listing[q].answer \/ r \notin rows

\* runner.rs, evict_replayable: every per-run endpoint falls back to the run
\* directory, so an evicted run is still fully answerable.
EvictedRunIsFullyAnswerable ==
    \A r \in Runs : Terminal(r) /\ r \in bundles =>
        /\ RunAnswer(r) = "ok"
        /\ BundleAnswer(r) = "ok"
        /\ EventsAnswer(r) = "ok"

\* runner.rs, evict_replayable: exactly the runs that wrote no bundle stay
\* resident beside the retained ones and the newest.
OnlyFailuresStayResident ==
    Cardinality(memory \ unwritten) <= Retained + 2
=============================================================================
