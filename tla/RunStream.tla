----------------------------- MODULE RunStream ------------------------------
(***************************************************************************)
(* The browser dashboard on the event stream (apps/web useRunStream.ts).   *)
(* A client of EventStream is either one that keeps to the protocol, or a  *)
(* page: an EventSource, which reconnects by itself with the last id it    *)
(* received and gives up for good on any answer that is not a stream, and  *)
(* the hook that pools what arrives and folds it into the view.            *)
(***************************************************************************)
EXTENDS EventStream

Seqs == INSTANCE SequencesExt

CONSTANTS MaxPending,  \* MAX_PENDING, events pooled before a flush
          MaxDrops     \* bound: connections of a page that break

ASSUME MaxPendingAssumption == MaxPending \in Nat \ {0}
ASSUME MaxDropsAssumption == MaxDrops \in Nat

VARIABLES page,    \* page[c]: the page client c is, or None
          blocked  \* preflight refuses the run

pageVars == <<vars, page, blocked>>

\* What the numbers stand for: preflight's finding is the second event; the run
\* ends with run.completed, and its telemetry task may emit once more.
Preflight == 1
Ending    == MaxEvents - 2

Connected == [source |-> "open", pending |-> <<>>, timer |-> FALSE,
              view |-> <<>>, drops |-> MaxDrops]

PageInit ==
    /\ Init
    /\ page \in [Clients -> {None, Connected}]
    /\ blocked \in BOOLEAN

-----------------------------------------------------------------------------
(* The fold                                                                *)

\* foldEvent ignores what is not newer than lastSeq.
Fold(view, n) == IF view # <<>> /\ n <= Last(view) THEN view ELSE Append(view, n)

\* `view.state` once these events are folded: completed, failed or cancelled.
Over(view) == \E i \in DOMAIN view : view[i] = Ending \/ (blocked /\ view[i] = Preflight)

Flushed(p) == [p EXCEPT !.view = Seqs!FoldLeft(Fold, @, p.pending), !.pending = <<>>, !.timer = FALSE]

\* One message: a terminal event and a full pool are folded at once.
Handled(p, n) ==
    LET pooled == [p EXCEPT !.pending = Append(@, n)]
    IN  IF n = Ending \/ Len(pooled.pending) >= MaxPending
        THEN Flushed(pooled)
        ELSE [pooled EXCEPT !.timer = TRUE]

-----------------------------------------------------------------------------
(* The page                                                                *)

Open(c) == page[c] # None /\ page[c].source = "open"

\* The first connection, and every one after a break.
Connects(c) ==
    /\ Open(c)
    /\ Subscribe(c) \/ Snapshot(c)
    /\ UNCHANGED <<page, blocked>>

\* 410: an EventSource does not retry what was answered, and the hook's onerror
\* only shows it.
IsRefused(c) ==
    /\ Open(c)
    /\ RefuseReplay(c)
    /\ page' = [page EXCEPT ![c].source = "dead"]
    /\ UNCHANGED blocked

Message(c) ==
    /\ Open(c)
    /\ Replay(c) \/ Receive(c) \/ Lag(c)
    /\ page' = IF delivered'[c] = delivered[c] THEN page
               ELSE [page EXCEPT ![c] = Handled(@, Last(delivered'[c]))]
    /\ UNCHANGED blocked

TimerFires(c) ==
    /\ page[c] # None /\ page[c].timer
    /\ page' = [page EXCEPT ![c] = Flushed(@)]
    /\ UNCHANGED <<vars, blocked>>

\* Mutant: the hook closes the source on an error.
BreaksAndCloses(c) ==
    /\ Open(c) /\ page[c].drops > 0
    /\ Disconnect(c)
    /\ page' = [page EXCEPT ![c].drops = @ - 1, ![c].source = "closed"]
    /\ UNCHANGED blocked

\* onerror leaves the source alone, and so its Last-Event-ID.
Breaks(c) ==
    /\ Open(c) /\ page[c].drops > 0
    /\ Disconnect(c)
    /\ page' = [page EXCEPT ![c].drops = @ - 1]
    /\ UNCHANGED blocked

\* The effect on view.state: disconnect() closes the source and flushes.  What
\* arrives between the fold and the effect is still pooled.
Closes(c) ==
    /\ page[c] # None /\ page[c].source # "closed" /\ Over(page[c].view)
    /\ page' = [page EXCEPT ![c] = [Flushed(@) EXCEPT !.source = "closed"]]
    /\ IF conn[c] \in {"subscribed", "streaming"} THEN Disconnect(c) ELSE UNCHANGED vars
    /\ UNCHANGED blocked

PageStep(c) ==
    Connects(c) \/ IsRefused(c) \/ Message(c) \/ TimerFires(c) \/ Breaks(c) \/ Closes(c)

PageNext ==
    \/ \E e \in Emitters : Emit(e) /\ UNCHANGED <<page, blocked>>
    \/ \E c \in Clients : \/ page[c] = None /\ ClientStep(c) /\ UNCHANGED <<page, blocked>>
                          \/ PageStep(c)

\* The handler answers, a browser reconnects, delivers and runs timers and
\* effects, and its connection breaks a bounded number of times.
PageFairness ==
    \A c \in Clients : /\ WF_pageVars(Connects(c) \/ IsRefused(c)) /\ WF_pageVars(Message(c))
                       /\ WF_pageVars(TimerFires(c)) /\ WF_pageVars(Closes(c))

PageSpec == PageInit /\ [][PageNext]_pageVars /\ Fairness /\ PageFairness

-----------------------------------------------------------------------------
(* Properties                                                              *)

PageTypeOK ==
    /\ TypeOK /\ blocked \in BOOLEAN
    /\ \A c \in Clients : page[c] # None =>
          /\ page[c].source \in {"open", "dead", "closed"}
          /\ page[c].pending \in Seq(Nat) /\ Len(page[c].pending) < MaxPending
          /\ page[c].view \in Seq(Nat)
          /\ page[c].timer \in BOOLEAN /\ page[c].drops \in 0..MaxDrops

\* What a page shows at the end: everything it received, run.completed among it.
Complete(c) ==
    page[c] # None =>
        /\ page[c].source = "closed" /\ page[c].view = delivered[c]
        /\ blocked \/ Ending \in {page[c].view[i] : i \in DOMAIN page[c].view}

Refused(c) == page[c] # None => page[c].source = "dead"

\* A page ends with the run, through breaks, overtaken receivers and a buffer
\* that forgets: unless a reconnection was refused, it comes to show everything
\* it received and lets go of the stream.  ("Closing here would throw away that
\* recovery path", "dropping it would leave the final view a few events short",
\* useRunStream.ts.)
ViewEndsWithTheRun ==
    \A c \in Clients : Ending < Len(sent) ~> Refused(c) \/ Complete(c)

\* The client state machine of REALTIME-PROTOCOL.md refetches after a 410; the
\* hook does not, and its page shows a running run for ever.
RefusedPageRecovers ==
    \A c \in Clients : (page[c] # None /\ Refused(c)) ~> ~ Refused(c)
=============================================================================
