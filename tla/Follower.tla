------------------------------ MODULE Follower ------------------------------
(***************************************************************************)
(* The two observers `darcbench run` may put beside a run it executes, on  *)
(* top of RunEvents: plain() of darcbench-agent/src/follow.rs, which waits *)
(* for every event, and drive() of src/tui.rs, which drains the channel    *)
(* once a frame.  Both subscribe, fold the backlog, fold the live events   *)
(* by sequence number, and stop on their own; the command then waits for   *)
(* the run's state and exits with it.                                      *)
(*                                                                         *)
(* A follower holds the RunHandle, so the channel never closes under it.   *)
(* The keys of the dashboard only cancel the run, which is Runner's.       *)
(***************************************************************************)
EXTENDS RunEvents

CONSTANTS Orchestrator, \* the emitter that emits run.completed
          Plain,        \* followers that are plain()
          Dashboards    \* followers that are drive()

Followers == Plain \cup Dashboards

ASSUME FollowerAssumption ==
    /\ Orchestrator \in Emitters
    /\ Plain \cap Dashboards = {}

VARIABLES end,     \* sequence number of run.completed, or None
          state,   \* RunState: "running", or "blocked" if preflight will refuse the
                   \* run, and "terminal" once published
          at,      \* at[f]: where follower f is
          cursor,  \* cursor[f]: next position of `sent` its receiver reads
          shown,   \* shown[f]: what it has folded, in order; last_seq is the last
          overrun  \* overrun[f]: history, its receiver was ever overtaken

viewVars == <<at, cursor, shown, overrun>>
followVars == <<streamVars, end, state, viewVars>>

FollowInit ==
    /\ StreamInit
    /\ end = None
    /\ state \in {"running", "blocked"}
    /\ at = [f \in Followers |-> "start"]
    /\ cursor = [f \in Followers |-> 1]
    /\ shown = [f \in Followers |-> <<>>]
    /\ overrun = [f \in Followers |-> FALSE]

-----------------------------------------------------------------------------
(* The run                                                                 *)

\* run.created and preflight.started come before what preflight found.
PreflightResult == 2

\* The bound leaves room for run.completed.  The telemetry task is aborted
\* and not awaited, so it may emit after it; a refused run has none.
EmitEvent(e) ==
    /\ IF e = Orchestrator THEN end = None ELSE state # "blocked"
    /\ end = None => seq < MaxEvents - 1
    /\ Allocate(e)
    /\ UNCHANGED <<end, state, viewVars>>

\* It is never the first event, and a refused run says why before it.
EmitRunCompleted ==
    /\ end = None
    /\ seq > IF state = "blocked" THEN PreflightResult ELSE 0
    /\ Allocate(Orchestrator)
    /\ end' = seq
    /\ UNCHANGED <<state, viewVars>>

FinishEmission(e) ==
    /\ Retain(e) \/ Broadcast(e)
    /\ UNCHANGED <<end, state, viewVars>>

\* The terminal state is published last, when the event log is on disk.
Publish ==
    /\ state # "terminal"
    /\ end # None
    /\ emission[Orchestrator].at = "idle"
    /\ state' = "terminal"
    /\ UNCHANGED <<streamVars, end, viewVars>>

-----------------------------------------------------------------------------
(* What both followers do                                                  *)

LastShown(f) == IF shown[f] = <<>> THEN None ELSE Last(shown[f])

\* Mutant: a fold that does not look at the sequence number.
FoldedTwice(f, s) == shown[f] \o s

\* The fold discards what is not newer than last_seq.  It is handed one event,
\* or a stretch of the buffer that is newer as a whole: the backlog, before
\* anything was folded, or what events_since returns after last_seq.
Folded(f, s) ==
    IF s # <<>> /\ shown[f] # <<>> /\ s[1] <= LastShown(f) THEN shown[f] ELSE shown[f] \o s

SubscribeFirst(f) ==
    /\ at[f] = "start"
    /\ cursor' = [cursor EXCEPT ![f] = Len(sent) + 1]
    /\ at' = [at EXCEPT ![f] = "subscribed"]
    /\ UNCHANGED <<streamVars, end, state, shown, overrun>>

\* events_since(None) and the fold over it: the backlog.
FoldBacklog(f) ==
    /\ at[f] = "subscribed"
    /\ ~Locked
    /\ shown' = [shown EXCEPT ![f] = Folded(f, EventsSince(None))]
    /\ at' = [at EXCEPT ![f] = IF f \in Plain THEN "recv" ELSE "frame"]
    /\ UNCHANGED <<streamVars, end, state, cursor, overrun>>

\* The receiver has an event for f to fold.
Readable(f) == cursor[f] \in OldestRetained..Len(sent)

FoldEvent(f) ==
    /\ Readable(f)
    /\ shown' = [shown EXCEPT ![f] = Folded(f, <<sent[cursor[f]]>>)]
    /\ cursor' = [cursor EXCEPT ![f] = @ + 1]

\* Lagged: the receiver moves to the oldest event left.
Overtaken(f) ==
    /\ cursor[f] < OldestRetained
    /\ cursor' = [cursor EXCEPT ![f] = OldestRetained]
    /\ overrun' = [overrun EXCEPT ![f] = TRUE]

\* unwrap_or_default: nothing, if the position left the buffer.
Refold(f) ==
    /\ ~Locked
    /\ shown' = [shown EXCEPT ![f] = IF FallenOut(LastShown(f)) THEN @
                                     ELSE Folded(f, EventsSince(LastShown(f)))]

-----------------------------------------------------------------------------
(* plain                                                                   *)

\* The terminal event returns at once, any other goes to the state check.
Recv(f) ==
    /\ at[f] = "recv"
    /\ FoldEvent(f)
    /\ at' = [at EXCEPT ![f] = IF sent[cursor[f]] = end THEN "returned" ELSE "check"]
    /\ UNCHANGED <<streamVars, end, state, overrun>>

RecvLagged(f) ==
    /\ at[f] = "recv"
    /\ Overtaken(f)
    /\ at' = [at EXCEPT ![f] = "refold"]
    /\ UNCHANGED <<streamVars, end, state, shown>>

RefoldPlain(f) ==
    /\ at[f] = "refold"
    /\ f \in Plain
    /\ Refold(f)
    /\ at' = [at EXCEPT ![f] = "check"]
    /\ UNCHANGED <<streamVars, end, state, cursor, overrun>>

\* handle.state().is_terminal()
CheckState(f) ==
    /\ at[f] = "check"
    /\ at' = [at EXCEPT ![f] = IF state = "terminal" THEN "returned" ELSE "recv"]
    /\ UNCHANGED <<streamVars, end, state, cursor, shown, overrun>>

-----------------------------------------------------------------------------
(* drive                                                                   *)

Tick(f) ==
    /\ at[f] = "frame"
    /\ at' = [at EXCEPT ![f] = "drain"]
    /\ UNCHANGED <<streamVars, end, state, cursor, shown, overrun>>

TryRecv(f) ==
    /\ at[f] = "drain"
    /\ FoldEvent(f)
    /\ UNCHANGED <<streamVars, end, state, at, overrun>>

TryRecvLagged(f) ==
    /\ at[f] = "drain"
    /\ Overtaken(f)
    /\ at' = [at EXCEPT ![f] = "refold"]
    /\ UNCHANGED <<streamVars, end, state, shown>>

RefoldDashboard(f) ==
    /\ at[f] = "refold"
    /\ f \in Dashboards
    /\ Refold(f)
    /\ at' = [at EXCEPT ![f] = "drain"]
    /\ UNCHANGED <<streamVars, end, state, cursor, overrun>>

Drained(f) ==
    /\ at[f] = "drain"
    /\ cursor[f] > Len(sent)
    /\ at' = [at EXCEPT ![f] = "draw"]
    /\ UNCHANGED <<streamVars, end, state, cursor, shown, overrun>>

HasFolded(f, event) == \E i \in DOMAIN shown[f] : shown[f][i] = event

\* The view has folded run.completed, or that preflight refused the run, which it
\* calls failed some time before the run does.
ViewIsTerminal(f) == HasFolded(f, end) \/ (state = "blocked" /\ HasFolded(f, PreflightResult))

\* Mutant: only the view is asked.
DrawFromView(f) ==
    /\ at[f] = "draw"
    /\ at' = [at EXCEPT ![f] = IF ViewIsTerminal(f) THEN "returned" ELSE "frame"]
    /\ UNCHANGED <<streamVars, end, state, cursor, shown, overrun>>

\* The view's state, or the run's own where the view has missed the end.
Draw(f) ==
    /\ at[f] = "draw"
    /\ at' = [at EXCEPT ![f] = IF ViewIsTerminal(f) \/ state = "terminal"
                               THEN "returned" ELSE "frame"]
    /\ UNCHANGED <<streamVars, end, state, cursor, shown, overrun>>

\* Mutant: the backlog is taken first, and the subscription after it.
BacklogFirst(f) ==
    \/ /\ at[f] = "start"
       /\ ~Locked
       /\ shown' = [shown EXCEPT ![f] = Folded(f, EventsSince(None))]
       /\ at' = [at EXCEPT ![f] = "subscribed"]
       /\ UNCHANGED <<streamVars, end, state, cursor, overrun>>
    \/ /\ at[f] = "subscribed"
       /\ cursor' = [cursor EXCEPT ![f] = Len(sent) + 1]
       /\ at' = [at EXCEPT ![f] = IF f \in Plain THEN "recv" ELSE "frame"]
       /\ UNCHANGED <<streamVars, end, state, shown, overrun>>
    \/ Recv(f) \/ RecvLagged(f) \/ RefoldPlain(f) \/ CheckState(f)
    \/ Tick(f) \/ TryRecv(f) \/ TryRecvLagged(f) \/ RefoldDashboard(f)
    \/ Drained(f) \/ Draw(f)

Follow(f) ==
    \/ SubscribeFirst(f) \/ FoldBacklog(f)
    \/ Recv(f) \/ RecvLagged(f) \/ RefoldPlain(f) \/ CheckState(f)
    \/ Tick(f) \/ TryRecv(f) \/ TryRecvLagged(f) \/ RefoldDashboard(f)
    \/ Drained(f) \/ Draw(f)

Emission == \E e \in Emitters : EmitEvent(e) \/ FinishEmission(e)

\* The command exits once its observer has returned and the run is terminal.
Exited ==
    /\ state = "terminal"
    /\ \A f \in Followers : at[f] = "returned"
    /\ UNCHANGED followVars

FollowNext == Emission \/ EmitRunCompleted \/ Publish \/ (\E f \in Followers : Follow(f)) \/ Exited

FollowSpec == FollowInit /\ [][FollowNext]_followVars

\* A run emits finitely many events and then finishes (Runner shows that it
\* does), an emission under way completes, the terminal state is published,
\* and the runtime polls a follower that can go on.
FollowFairness ==
    /\ WF_followVars(\E e \in Emitters : FinishEmission(e))
    /\ WF_followVars(EmitRunCompleted)
    /\ WF_followVars(Publish)
    /\ \A f \in Followers : WF_followVars(Follow(f))

FairFollowSpec == FollowSpec /\ FollowFairness

-----------------------------------------------------------------------------
(* Properties                                                              *)

FollowTypeOK ==
    /\ StreamTypeOK
    /\ end \in Nat \cup {None}
    /\ state \in {"running", "blocked", "terminal"}
    /\ at \in [Followers -> {"start", "subscribed", "recv", "check", "refold",
                             "frame", "drain", "draw", "returned"}]
    /\ cursor \in [Followers -> Nat \ {0}]
    /\ shown \in [Followers -> Seq(Nat)]
    /\ overrun \in [Followers -> BOOLEAN]

Returned(f) == at[f] = "returned"

\* The backlog overlaps the live channel and a re-read after lag overlaps
\* both, and nothing is folded twice or out of order (follow.rs: the fold is
\* idempotent by sequence number).
ShownOnceInOrder ==
    FollowTypeOK /\ \A f \in Followers : Increasing(shown[f])

\* Subscribing before the backlog leaves no window (tui.rs: a gap is not
\* recoverable): between the first and the last event a follower has folded,
\* it has missed only what the replay buffer has dropped as well.
OnlyOverwrittenEventsAreMissed ==
    \A f \in Followers : \A i \in DOMAIN shown[f] :
        i > 1 /\ shown[f][i] # shown[f][i - 1] + 1 =>
            overrun[f] /\ shown[f][i] <= record[Len(record) - Len(events) + 1]

\* The dashboard asks for the run's state on every frame, so it ends with the
\* run even if it missed the end.
DashboardEndsWithTheRun ==
    \A f \in Dashboards : state = "terminal" ~> Returned(f)

\* follow.rs, plain: "Follows `handle` to completion".  It has printed the end
\* of the run when it returns.
PlainPrintsTheEnd ==
    \A f \in Plain : Returned(f) => HasFolded(f, end)

\* The same, that it returns at all.
PlainEndsWithTheRun ==
    \A f \in Plain : state = "terminal" ~> Returned(f)

\* follow.rs and tui.rs: under lag the replay buffer is the only complete
\* source, and re-reading it completes the view.
LagIsRecovered ==
    \A f \in Followers : \A i \in DOMAIN shown[f] :
        i > 1 => shown[f][i] = shown[f][i - 1] + 1
=============================================================================
