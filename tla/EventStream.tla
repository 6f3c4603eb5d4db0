---------------------------- MODULE EventStream -----------------------------
(***************************************************************************)
(* The server-sent event stream of a run this process holds in memory:     *)
(* stream_events of darcbench-agent/src/server.rs on top of RunEvents.  A  *)
(* client connects with the last sequence number it has seen; the handler  *)
(* subscribes to the live channel, snapshots the backlog, and then sends   *)
(* the backlog followed by the live events the backlog did not hold.       *)
(*                                                                         *)
(* Subscribing and snapshotting are separate steps, so emissions fall      *)
(* between them, and the receiver is only read once the backlog has been   *)
(* written out, so a slow client can be overtaken by the channel.          *)
(***************************************************************************)
EXTENDS RunEvents

CONSTANTS Clients

VARIABLES conn,       \* conn[c]: where client c's request is in the handler
          pos,        \* pos[c]: next position of `sent` its receiver reads
          backlog,    \* backlog[c]: snapshot still to be written out
          highest,    \* highest[c]: highest_replayed
          delivered,  \* delivered[c]: history, what the client has received
          lagged      \* lagged[c]: history, its receiver was ever overtaken

clientVars == <<conn, pos, backlog, highest, delivered, lagged>>
vars == <<streamVars, clientVars>>

Init ==
    /\ StreamInit
    /\ conn = [c \in Clients |-> "idle"]
    /\ pos = [c \in Clients |-> 1]
    /\ backlog = [c \in Clients |-> <<>>]
    /\ highest = [c \in Clients |-> None]
    /\ delivered = [c \in Clients |-> <<>>]
    /\ lagged = [c \in Clients |-> FALSE]

\* What a reconnecting client puts in Last-Event-ID.
LastSeen(c) == IF delivered[c] = <<>> THEN None ELSE Last(delivered[c])

-----------------------------------------------------------------------------
(* The handler                                                             *)

Subscribe(c) ==
    /\ conn[c] = "idle"
    /\ conn' = [conn EXCEPT ![c] = "subscribed"]
    /\ pos' = [pos EXCEPT ![c] = Len(sent) + 1]
    /\ UNCHANGED <<streamVars, backlog, highest, delivered, lagged>>

\* events_since takes the read lock, so it never sees half an emission.
Snapshot(c) ==
    /\ conn[c] = "subscribed"
    /\ ~Locked
    /\ ~FallenOut(LastSeen(c))
    /\ LET replay == EventsSince(LastSeen(c)) IN
         /\ backlog' = [backlog EXCEPT ![c] = replay]
         /\ highest' = [highest EXCEPT ![c] =
                           IF replay = <<>> THEN None ELSE Last(replay)]
    /\ conn' = [conn EXCEPT ![c] = "streaming"]
    /\ UNCHANGED <<streamVars, pos, delivered, lagged>>

\* 410 replay_unavailable: the client must refetch the run.
RefuseReplay(c) ==
    /\ conn[c] = "subscribed"
    /\ ~Locked
    /\ FallenOut(LastSeen(c))
    /\ conn' = [conn EXCEPT ![c] = "gone"]
    /\ UNCHANGED <<streamVars, pos, backlog, highest, delivered, lagged>>

Replay(c) ==
    /\ conn[c] = "streaming"
    /\ backlog[c] # <<>>
    /\ delivered' = [delivered EXCEPT ![c] = Append(@, Head(backlog[c]))]
    /\ backlog' = [backlog EXCEPT ![c] = Tail(@)]
    /\ UNCHANGED <<streamVars, conn, pos, highest, lagged>>

Live(c) == conn[c] = "streaming" /\ backlog[c] = <<>>

\* Mutants: no duplicate filter, and one that lets the newest backlog event by.
NeverReplayed(c, n) == FALSE
ReplayedBefore(c, n) == highest[c] # None /\ n < highest[c]

AlreadyReplayed(c, n) == highest[c] # None /\ n <= highest[c]

\* The receiver yields the next event; one the backlog held is dropped.
Receive(c) ==
    /\ Live(c)
    /\ pos[c] \in OldestRetained..Len(sent)
    /\ delivered' = IF AlreadyReplayed(c, sent[pos[c]])
                    THEN delivered
                    ELSE [delivered EXCEPT ![c] = Append(@, sent[pos[c]])]
    /\ pos' = [pos EXCEPT ![c] = @ + 1]
    /\ UNCHANGED <<streamVars, conn, backlog, highest, lagged>>

\* Mutant: an overtaken receiver resumes after the newest event, not at the
\* oldest one left.
LagToTheEnd(c) ==
    /\ Live(c)
    /\ pos[c] < OldestRetained
    /\ pos' = [pos EXCEPT ![c] = Len(sent) + 1]
    /\ lagged' = [lagged EXCEPT ![c] = TRUE]
    /\ UNCHANGED <<streamVars, conn, backlog, highest, delivered>>

\* The channel has overwritten what the receiver was to read next: it yields
\* Lagged and moves to the oldest event left.  The filter maps that to
\* nothing and the stream goes on.
Lag(c) ==
    /\ Live(c)
    /\ pos[c] < OldestRetained
    /\ pos' = [pos EXCEPT ![c] = OldestRetained]
    /\ lagged' = [lagged EXCEPT ![c] = TRUE]
    /\ UNCHANGED <<streamVars, conn, backlog, highest, delivered>>

-----------------------------------------------------------------------------
(* The client                                                              *)

\* The connection breaks; what was not received yet is lost with it.
Disconnect(c) ==
    /\ conn[c] \in {"subscribed", "streaming"}
    /\ conn' = [conn EXCEPT ![c] = "idle"]
    /\ backlog' = [backlog EXCEPT ![c] = <<>>]
    /\ highest' = [highest EXCEPT ![c] = None]
    /\ UNCHANGED <<streamVars, pos, delivered, lagged>>

\* After a 410 the client throws its view away and starts from the beginning.
Refetch(c) ==
    /\ conn[c] = "gone"
    /\ conn' = [conn EXCEPT ![c] = "idle"]
    /\ delivered' = [delivered EXCEPT ![c] = <<>>]
    /\ lagged' = [lagged EXCEPT ![c] = FALSE]
    /\ UNCHANGED <<streamVars, pos, backlog, highest>>

-----------------------------------------------------------------------------
Emit(e) == EmitStep(e) /\ UNCHANGED clientVars

ClientStep(c) ==
    \/ Subscribe(c) \/ Snapshot(c) \/ RefuseReplay(c)
    \/ Replay(c) \/ Receive(c) \/ Lag(c)
    \/ Disconnect(c) \/ Refetch(c)

Next == \/ \E e \in Emitters : Emit(e)
        \/ \E c \in Clients : ClientStep(c)

Spec == Init /\ [][Next]_vars

\* An emitter inside emit() never blocks, and the runtime polls a stream that
\* has something to yield.  Nothing forces a client to connect or an event to
\* be emitted.
Fairness ==
    /\ \A e \in Emitters : WF_vars((Retain(e) \/ Broadcast(e)) /\ UNCHANGED clientVars)
    /\ \A c \in Clients : WF_vars(Replay(c) \/ Receive(c) \/ Lag(c))

FairSpec == Spec /\ Fairness

-----------------------------------------------------------------------------
(* Properties                                                              *)

TypeOK ==
    /\ StreamTypeOK
    /\ conn \in [Clients -> {"idle", "subscribed", "streaming", "gone"}]
    /\ pos \in [Clients -> Nat \ {0}]
    /\ backlog \in [Clients -> Seq(Nat)]
    /\ highest \in [Clients -> Nat \cup {None}]
    /\ delivered \in [Clients -> Seq(Nat)]
    /\ lagged \in [Clients -> BOOLEAN]

\* A client folds by sequence number and discards what is not newer, so an
\* event delivered late or twice is an event lost: across any number of
\* reconnects, what one client receives is strictly increasing.
DeliveredInOrder == \A c \in Clients : Increasing(delivered[c])

\* The subscribe-before-snapshot order, the duplicate filter and the refusal
\* of positions that left the buffer together leave no gap: as long as its
\* receiver was not overtaken, a client misses nothing after the first event
\* it was given, reconnects included.
NoGapUnlessLagged ==
    \A c \in Clients : ~lagged[c] => Consecutive(delivered[c])

\* REALTIME-PROTOCOL.md, Backpressure: a consumer that falls behind has its
\* stream ended, so no client is ever handed a gap it cannot detect.
NoUndetectedGap == \A c \in Clients : Consecutive(delivered[c])

\* REPLAY_BUFFER's contract: a client past the buffer is told to refetch
\* rather than handed a truncated prefix, so whatever a client is given starts
\* at event 0.
NoTruncatedPrefix ==
    \A c \in Clients : delivered[c] # <<>> => delivered[c][1] = 0

\* An open stream never stalls: everything broadcast is eventually behind what
\* the client has received, unless the connection ends first.
OpenStreamCatchesUp ==
    \A c \in Clients : \A n \in 0..(MaxEvents - 1) :
        (conn[c] = "streaming" /\ n < Len(sent))
            ~> \/ conn[c] # "streaming"
               \/ delivered[c] # <<>> /\ Last(delivered[c]) >= n

\* The stream implements the ordered log, a client's view being what it has
\* received.
Log == INSTANCE OrderedLog WITH Readers <- Clients, log <- record,
                                view <- delivered
ImplementsOrderedLog == Log!Spec
=============================================================================
