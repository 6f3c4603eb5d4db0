-------------------------- MODULE ExternalSession ---------------------------
(***************************************************************************)
(* An external load session: `web-target` serves and waits, `web-drive`    *)
(* loads it from another machine and reports (darcbench-modules/src/       *)
(* external_session.rs, loadgen.rs and web_origin.rs, SessionReport of     *)
(* darcbench-protocol/src/external.rs, agent/src/external.rs).             *)
(*                                                                         *)
(* Several generators may hold the same ticket.  Each is honest: it claims *)
(* what it counted.  What the origin counts and what a generator counts    *)
(* are kept apart by a network that loses answers and delivers requests    *)
(* after their sender has given up.                                        *)
(***************************************************************************)
EXTENDS Integers, FiniteSets, FiniteSetsExt

CONSTANTS Generators, \* the web-drive processes that hold the ticket
          Wanted,     \* what each was told to do: LoadRequest
          Offer,      \* the ticket's ceilings and the time left: SessionOffer
          Overhead,   \* SESSION_OVERHEAD_MS, kept out of the phases
          MinPhase,   \* MIN_PHASE_MS
          Slack,      \* RECONCILE_SLACK_REQUESTS (1024)
          None

(***************************************************************************)
(* SessionOffer::accept and LoadPlan: what a generator is granted          *)

Phases(w) == IF w.phases = 0 THEN 1 ELSE w.phases

\* The session's lifetime is shared by all phases.
PerPhase(w) ==
    LET budget == IF Offer.left > Overhead THEN Offer.left - Overhead ELSE 1
    IN  budget \div Phases(w)

\* A rate that is none is refused, never clamped upwards.
Refused(w) ==
    \/ 0 \in {Offer.left, Offer.rate, Offer.duration, Offer.workers}
    \/ w.rate <= 0
    \/ PerPhase(w) < MinPhase

Lesser(i, j) == IF i < j THEN i ELSE j

Granted(w) ==
    LET asked == IF w.duration = 0 THEN Offer.duration ELSE w.duration
    IN  [rate     |-> Lesser(w.rate, Offer.rate),
         duration |-> Lesser(Lesser(asked, Offer.duration), PerPhase(w)),
         workers  |-> IF w.workers = 0 THEN 1 ELSE Lesser(w.workers, Offer.workers),
         phases   |-> Phases(w)]

\* Of each shape a generator sends one warm-up request a worker, flat out, and
\* then what the schedule owes, which is never nothing.
Load == [g \in Generators |->
           LET plan == Granted(Wanted[g])
               owed == plan.rate * plan.duration
           IN  [shapes    |-> plan.phases,
                warmup    |-> plan.workers,
                scheduled |-> IF owed = 0 THEN 1 ELSE owed]]

ASSUME ExternalSessionAssumption ==
    /\ IsFiniteSet(Generators) /\ None \notin Generators
    /\ None \notin {"accepted", "rejected", "expired", "refused"}
    /\ Wanted \in [Generators -> [rate : Int, duration : Nat, workers : Nat, phases : Nat]]
    /\ Offer \in [left : Nat, rate : Nat, duration : Nat, workers : Nat]
    /\ Overhead \in Nat /\ MinPhase \in Nat \ {0}
    /\ Slack \in Nat
    /\ \A g \in Generators :
         ~Refused(Wanted[g]) => Load[g].shapes * Load[g].warmup <= Slack

VARIABLES gen,     \* each generator: where it is, the shape, the requests of
                   \* that shape it has sent, and the totals it will claim
          req,     \* the request it has open: none, sent, or answered
          late,    \* requests it gave up on that may still reach the origin
          served,  \* Origin.served: counted before the answer is written
          servedTo,\* history: the same, by generator
          backlog, \* generators connected to the control listener
          control, \* the control thread: where it is, whose request, its answer
          inbox,   \* the report the target has not taken yet
          wait,    \* the target: where it is, the report in hand, the outcome
          expired, \* the deadline has passed
          stop,    \* the flag TargetSession::drop sets, its connection with it
          joining  \* the connections Origin::drop is waiting for

genVars == <<gen, req, late>>
originVars == <<served, servedTo>>
vars == <<genVars, originVars, backlog, control, inbox, wait, expired, stop, joining>>

\* Driver::open decides before a single socket is opened.
Opened(g) == IF Refused(Wanted[g]) THEN "declined" ELSE "loading"

Init ==
    /\ gen = [g \in Generators |-> [at |-> Opened(g), shape |-> 1, sent |-> 0,
                                    ok |-> 0, failed |-> 0]]
    /\ req = [g \in Generators |-> "none"]
    /\ late = [g \in Generators |-> 0]
    /\ served = 0
    /\ servedTo = [g \in Generators |-> 0]
    /\ backlog = {}
    /\ control = [at |-> "accept", of |-> None, answer |-> None]
    /\ inbox = None
    /\ wait = [at |-> "take", report |-> None, outcome |-> None]
    /\ expired = FALSE
    /\ stop = FALSE
    /\ joining = {}

Gone == wait.at = "gone"

-----------------------------------------------------------------------------
(* The generator, one request at a time, and the origin                    *)

InWarmup(g) == gen[g].sent <= Load[g].warmup

Owed(g) == gen[g].sent < Load[g].warmup + Load[g].scheduled

Send(g) ==
    /\ gen[g].at = "loading"
    /\ req[g] = "none"
    /\ Owed(g)
    /\ gen' = [gen EXCEPT ![g].sent = @ + 1]
    /\ req' = [req EXCEPT ![g] = "sent"]
    /\ UNCHANGED <<late, originVars, backlog, control, inbox, wait, expired, stop, joining>>

\* Somebody reads what this generator sends.
Attended(g) == wait.at # "origin" \/ g \in joining

Count(g) ==
    /\ Attended(g)
    /\ served' = served + 1
    /\ servedTo' = [servedTo EXCEPT ![g] = @ + 1]

\* Mutant: the answer goes out first and is counted when the thread next runs.
ServeThenCount(g) ==
    /\ req[g] = "sent"
    /\ req' = [req EXCEPT ![g] = "answered"]
    /\ late' = [late EXCEPT ![g] = @ + 1]
    /\ UNCHANGED <<gen, originVars, backlog, control, inbox, wait, expired, stop, joining>>

Serve(g) ==
    /\ req[g] = "sent"
    /\ Count(g)
    /\ req' = [req EXCEPT ![g] = "answered"]
    /\ UNCHANGED <<gen, late, backlog, control, inbox, wait, expired, stop, joining>>

\* A warm-up request that succeeded is claimed like any other.
ReadAnswer(g) ==
    /\ req[g] = "answered"
    /\ req' = [req EXCEPT ![g] = "none"]
    /\ gen' = [gen EXCEPT ![g].ok = @ + 1]
    /\ UNCHANGED <<late, originVars, backlog, control, inbox, wait, expired, stop, joining>>

\* Refused, reset or timed out, before the origin read it or after; or on its
\* way still.  A failed warm-up request is not claimed at all.
Fail(g) ==
    /\ req[g] # "none"
    /\ req' = [req EXCEPT ![g] = "none"]
    /\ gen' = [gen EXCEPT ![g].failed = IF InWarmup(g) THEN @ ELSE @ + 1]
    /\ late' \in {late} \cup (IF req[g] = "sent" THEN {[late EXCEPT ![g] = @ + 1]} ELSE {})
    /\ UNCHANGED <<originVars, backlog, control, inbox, wait, expired, stop, joining>>

ServeLate(g) ==
    /\ late[g] > 0
    /\ Count(g)
    /\ late' = [late EXCEPT ![g] = @ - 1]
    /\ UNCHANGED <<gen, req, backlog, control, inbox, wait, expired, stop, joining>>

\* The next shape, or the report.
ShapeDone(g) ==
    /\ gen[g].at = "loading"
    /\ req[g] = "none"
    /\ ~Owed(g)
    /\ gen' = IF gen[g].shape < Load[g].shapes
              THEN [gen EXCEPT ![g].shape = @ + 1, ![g].sent = 0]
              ELSE [gen EXCEPT ![g].at = "submit"]
    /\ UNCHANGED <<req, late, originVars, backlog, control, inbox, wait, expired, stop, joining>>

\* post_report: one connection, one request, one answer.
Submit(g) ==
    /\ gen[g].at = "submit"
    /\ IF control.at = "closed"
       THEN gen' = [gen EXCEPT ![g].at = "lost"] /\ UNCHANGED backlog
       ELSE gen' = [gen EXCEPT ![g].at = "waiting"] /\ backlog' = backlog \cup {g}
    /\ UNCHANGED <<req, late, originVars, control, inbox, wait, expired, stop, joining>>

\* REPORT_TIMEOUT; what was written stays with the listener.
GiveUp(g) ==
    /\ gen[g].at = "waiting"
    /\ gen' = [gen EXCEPT ![g].at = "lost"]
    /\ UNCHANGED <<req, late, originVars, backlog, control, inbox, wait, expired, stop, joining>>

Generator(g) ==
    \/ Send(g) \/ ReadAnswer(g) \/ Fail(g) \/ ShapeDone(g)
    \/ Submit(g) \/ GiveUp(g)

Origin(g) == Serve(g) \/ ServeLate(g)

-----------------------------------------------------------------------------
(* control_loop: one connection after the other                            *)

\* The deadline is one per read, and a request ends after MAX_CONTROL_BYTES: as
\* many reads as a peer can draw one out to are one step of HandleReport, or of
\* RejectRequest.  Nothing here says how long that step takes.
Accept ==
    /\ control.at = "accept"
    /\ ~stop
    /\ \E g \in backlog :
         /\ backlog' = backlog \ {g}
         /\ control' = [at |-> "handle", of |-> g, answer |-> None]
    /\ UNCHANGED <<genVars, originVars, inbox, wait, expired, stop, joining>>

\* Leaving the loop drops the listener: those still queued go unanswered.
ListenerCloses ==
    /\ control.at = "accept"
    /\ control' = [at |-> "closed", of |-> None, answer |-> None]
    /\ gen' = [g \in Generators |->
                 IF g \in backlog /\ gen[g].at = "waiting"
                 THEN [gen[g] EXCEPT !.at = "lost"] ELSE gen[g]]
    /\ backlog' = {}
    /\ UNCHANGED <<req, late, originVars, inbox, wait, expired, stop, joining>>

\* Drop's own connection is enough to get here.
AcceptStopped == stop /\ ListenerCloses

ReportOf(g) == [of |-> g, ok |-> gen[g].ok, failed |-> gen[g].failed]

\* Under the inbox lock: 409 while a report is held, else it is kept.  A
\* request that could not be read to its end is answered and leaves nothing.
HandleReport ==
    /\ control.at = "handle"
    /\ IF inbox # None
       THEN /\ control' = [control EXCEPT !.at = "answer", !.answer = "refused"]
            /\ UNCHANGED inbox
       ELSE /\ control' = [control EXCEPT !.at = "answer", !.answer = "accepted"]
            /\ inbox' = ReportOf(control.of)
    /\ UNCHANGED <<genVars, originVars, backlog, wait, expired, stop, joining>>

RejectRequest ==
    /\ control.at = "handle"
    /\ control' = [control EXCEPT !.at = "answer", !.answer = "refused"]
    /\ UNCHANGED <<genVars, originVars, backlog, inbox, wait, expired, stop, joining>>

Answer ==
    /\ control.at = "answer"
    /\ control' = [at |-> "accept", of |-> None, answer |-> None]
    /\ gen' = IF gen[control.of].at = "waiting"
              THEN [gen EXCEPT ![control.of].at = control.answer] ELSE gen
    /\ UNCHANGED <<req, late, originVars, backlog, inbox, wait, expired, stop, joining>>

\* An accept error ends the loop like the flag does.
AcceptFails == ListenerCloses

Control == Accept \/ AcceptStopped \/ HandleReport \/ RejectRequest \/ Answer

-----------------------------------------------------------------------------
(* TargetSession::wait, web_target, and Drop                               *)

targetFrame == <<genVars, originVars, backlog, control, expired>>

TakeReport ==
    /\ wait.at = "take"
    /\ wait' = IF inbox # None THEN [wait EXCEPT !.at = "reconcile", !.report = inbox]
                               ELSE [wait EXCEPT !.at = "deadline"]
    /\ inbox' = None
    /\ UNCHANGED <<targetFrame, stop, joining>>

Claimed(report) == report.ok + report.failed

\* Mutant: no lower bound.
ReconcilesUpwards(report) == report.ok <= served

\* SessionReport::reconcile against the counter as it is now.
Reconciles(report) ==
    /\ report.ok <= served
    /\ served - Claimed(report) <= Slack

Reconcile ==
    /\ wait.at = "reconcile"
    /\ wait' = [wait EXCEPT !.at = "leave",
                            !.outcome = IF Reconciles(wait.report) THEN "accepted" ELSE "rejected"]
    /\ UNCHANGED <<targetFrame, inbox, stop, joining>>

CheckDeadline ==
    /\ wait.at = "deadline"
    /\ wait' = IF expired THEN [wait EXCEPT !.at = "leave", !.outcome = "expired"]
                          ELSE [wait EXCEPT !.at = "take"]
    /\ UNCHANGED <<targetFrame, inbox, stop, joining>>

\* Mutant: joins the control thread without having stopped it.
JoinOnly ==
    /\ wait.at = "leave"
    /\ wait' = [wait EXCEPT !.at = "join"]
    /\ UNCHANGED <<targetFrame, inbox, stop, joining>>

\* Drop: the flag, then a connection that wakes the blocking accept.
Stop ==
    /\ wait.at = "leave"
    /\ stop' = TRUE
    /\ wait' = [wait EXCEPT !.at = "join"]
    /\ UNCHANGED <<targetFrame, inbox, joining>>

Connected == {g \in Generators : gen[g].shape > 1 \/ gen[g].sent > 0}

\* The control thread is joined, then the origin is dropped: its accept loop is
\* woken, takes no more connections and joins the ones it has.
Join ==
    /\ wait.at = "join"
    /\ control.at = "closed"
    /\ wait' = [wait EXCEPT !.at = "origin"]
    /\ joining' = Connected
    /\ UNCHANGED <<targetFrame, inbox, stop>>

\* read_head looks at the flag before every read and after every poll, so a
\* connection ends between two requests whatever its peer does.
ConnectionEnds ==
    /\ \E g \in joining : joining' = joining \ {g}
    /\ UNCHANGED <<targetFrame, inbox, wait, stop>>

JoinOrigin ==
    /\ wait.at = "origin"
    /\ joining = {}
    /\ wait' = [wait EXCEPT !.at = "gone"]
    /\ UNCHANGED <<targetFrame, inbox, stop, joining>>

Target == TakeReport \/ Reconcile \/ CheckDeadline \/ Stop \/ Join \/ JoinOrigin

DeadlinePasses ==
    /\ ~expired
    /\ expired' = TRUE
    /\ UNCHANGED <<genVars, originVars, backlog, control, inbox, wait, stop, joining>>

\* The session's end is the model's: what a generator still does then touches
\* nothing of it.
Next == /\ ~Gone
        /\ \/ \E g \in Generators : Generator(g) \/ Origin(g)
           \/ Control \/ AcceptFails \/ Target \/ ConnectionEnds \/ DeadlinePasses

Spec == Init /\ [][Next]_vars

\* The target's threads run, every read and write of theirs is bounded
\* (CONTROL_DEADLINE, IDLE_POLL, WRITE_TIMEOUT), and time passes.  Nothing is
\* asked of a generator.
FairSpec ==
    /\ Spec
    /\ WF_vars(Target) /\ WF_vars(Control)
    /\ WF_vars(ConnectionEnds) /\ WF_vars(DeadlinePasses)

-----------------------------------------------------------------------------
(* Properties                                                              *)

Report == [of : Generators, ok : Nat, failed : Nat]

\* Every variable keeps its type; a generator never sends more of a shape than
\* its warm-up and its schedule hold (loadgen::run's `index >= scheduled`), and
\* one whose request the offer refused never reaches the origin.
TypeOK ==
    /\ \A g \in Generators :
         /\ gen[g].at \in {"declined", "loading", "submit", "waiting",
                           "accepted", "refused", "lost"}
         /\ gen[g].at = "declined" => gen[g].sent = 0 /\ servedTo[g] = 0
         /\ gen[g].at # "declined" =>
              /\ gen[g].shape \in 1..Load[g].shapes
              /\ gen[g].sent \in 0..(Load[g].warmup + Load[g].scheduled)
         /\ gen[g].ok \in Nat /\ gen[g].failed \in Nat
         /\ req[g] \in {"none", "sent", "answered"}
         /\ late[g] \in Nat
    /\ served \in Nat
    /\ servedTo \in [Generators -> Nat]
    /\ backlog \subseteq Generators
    /\ control.at \in {"accept", "handle", "answer", "closed"}
    /\ control.of \in Generators \cup {None}
    /\ control.answer \in {"accepted", "refused", None}
    /\ inbox \in Report \cup {None}
    /\ wait.at \in {"take", "reconcile", "deadline", "leave", "join", "origin", "gone"}
    /\ wait.report \in Report \cup {None}
    /\ wait.outcome \in {"accepted", "rejected", "expired", None}
    /\ expired \in BOOLEAN
    /\ stop \in BOOLEAN
    /\ joining \subseteq Generators

Others(g) == Generators \ {g}

\* An honest report is rejected only when somebody else was really served:
\* neither an answer the origin is still writing, nor one that was lost, nor a
\* request that arrives after its sender gave up, nor a warm-up request that
\* failed and is claimed nowhere, makes SessionReport::reconcile blame a third
\* party.  It rests on the counter moving before the answer (Origin::served)
\* and on the warm-ups of all shapes fitting RECONCILE_SLACK_REQUESTS.
RejectionMeansAnotherGenerator ==
    /\ TypeOK
    /\ wait.outcome = "rejected" => \E g \in Others(wait.report.of) : servedTo[g] > 0

\* What is accepted describes one generator: at that moment the others had
\* been served no more than the slack and the failures it declared.
AcceptedDescribesOneGenerator ==
    [][wait.outcome # "accepted" /\ wait'.outcome = "accepted" =>
         MapThenSumSet(LAMBDA g : servedTo[g], Others(wait.report.of))
           <= Slack + wait.report.failed]_vars

\* TargetSession::wait returns and the session is torn down, whatever the
\* generators do: the deadline is reached, and neither join is left waiting, on
\* a control thread blocked in accept or on a connection kept busy.
WaitEnds == <>(wait.at = "gone")
=============================================================================
