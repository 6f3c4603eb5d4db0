----------------------------- MODULE RunEvents ------------------------------
(***************************************************************************)
(* The event stream inside the agent: RunHandle::emit, events_since and    *)
(* last_seq of darcbench-agent/src/runner.rs, and the tokio broadcast      *)
(* channel they publish on.  An event is its sequence number.              *)
(*                                                                         *)
(* emit() runs under the write lock of the replay buffer, but not all of   *)
(* its effects are behind that lock: subscribe() takes none, last_seq()    *)
(* reads the atomic counter and the record has a lock of its own.  An      *)
(* emission is therefore three steps, and the lock is what an emitter that *)
(* is not idle holds.                                                      *)
(***************************************************************************)
EXTENDS Integers, Sequences

CONSTANTS Emitters,      \* the tasks and threads that emit: the orchestrator,
                         \* the module's blocking thread, the telemetry task
          ReplayBuffer,  \* REPLAY_BUFFER, also the broadcast capacity
          MaxEvents,     \* bound of the model: events one run emits
          None           \* Option::None

ASSUME ReplayBufferAssumption == ReplayBuffer \in Nat \ {0}
ASSUME MaxEventsAssumption == MaxEvents \in Nat
ASSUME NoneAssumption == None \notin Nat

VARIABLES seq,        \* AtomicU64: sequence numbers handed out
          emission,   \* emission[e]: where emitter e is inside emit(), and the
                      \* sequence number it was given
          record,     \* the append-only EventRecord
          events,     \* the bounded replay buffer, oldest first
          truncated,  \* true once the buffer has dropped an event
          sent        \* everything broadcast; the channel retains the last
                      \* ReplayBuffer of it

streamVars == <<seq, emission, record, events, truncated, sent>>

Idle == [at |-> "idle", seq |-> 0]

\* Mutant: an emission that takes no lock.
NeverLocked == FALSE

Locked == \E e \in Emitters : emission[e].at # "idle"

StreamInit ==
    /\ seq = 0
    /\ emission = [e \in Emitters |-> Idle]
    /\ record = <<>>
    /\ events = <<>>
    /\ truncated = FALSE
    /\ sent = <<>>

-----------------------------------------------------------------------------
(* emit                                                                    *)

\* Takes the write lock and allocates the sequence number under it.
Allocate(e) ==
    /\ ~Locked
    /\ seq < MaxEvents
    /\ emission' = [emission EXCEPT ![e] = [at |-> "record", seq |-> seq]]
    /\ seq' = seq + 1
    /\ UNCHANGED <<record, events, truncated, sent>>

\* The buffer after push_back, its oldest entry popped first when it is full.
Pushed(n) == IF Len(events) >= ReplayBuffer
             THEN Append(Tail(events), n)
             ELSE Append(events, n)

\* Appends to the record, then to the bounded replay buffer.
Retain(e) ==
    /\ emission[e].at = "record"
    /\ record' = Append(record, emission[e].seq)
    /\ events' = Pushed(emission[e].seq)
    /\ truncated' = (truncated \/ Len(events) >= ReplayBuffer)
    /\ emission' = [emission EXCEPT ![e].at = "send"]
    /\ UNCHANGED <<seq, sent>>

\* Broadcasts the event and releases the lock.
Broadcast(e) ==
    /\ emission[e].at = "send"
    /\ sent' = Append(sent, emission[e].seq)
    /\ emission' = [emission EXCEPT ![e] = Idle]
    /\ UNCHANGED <<seq, record, events, truncated>>

EmitStep(e) == Allocate(e) \/ Retain(e) \/ Broadcast(e)

-----------------------------------------------------------------------------
(* events_since and last_seq                                               *)

\* How many leading entries of the buffer have a sequence number <= after.
PartitionPoint(after) ==
    CHOOSE k \in 0..Len(events) :
        /\ \A i \in 1..k : events[i] <= after
        /\ \A i \in (k + 1)..Len(events) : events[i] > after

\* Mutant: off by one, a position one event short of the buffer is let through.
FallenOutByTwo(after) ==
    /\ after # None
    /\ truncated
    /\ events # <<>>
    /\ after + 2 < events[1]

\* The position a client asks to resume after has fallen out of the buffer.
FallenOut(after) ==
    /\ after # None
    /\ truncated
    /\ events # <<>>
    /\ after + 1 < events[1]

\* What events_since returns when it does not return None.
EventsSince(after) ==
    IF after = None
    THEN events
    ELSE SubSeq(events, PartitionPoint(after) + 1, Len(events))

\* last_seq(): saturating_sub, so a run with no event yet reports 0 as well.
LastSeq == IF seq = 0 THEN 0 ELSE seq - 1

\* The oldest position of `sent` a broadcast receiver can still read.
OldestRetained == IF Len(sent) > ReplayBuffer
                  THEN Len(sent) - ReplayBuffer + 1
                  ELSE 1

-----------------------------------------------------------------------------
(* Properties                                                              *)

Last(s) == s[Len(s)]

Consecutive(s) == \A i \in 1..(Len(s) - 1) : s[i + 1] = s[i] + 1

Increasing(s) == \A i, j \in DOMAIN s : i < j => s[i] < s[j]

StreamTypeOK ==
    /\ seq \in Nat
    /\ emission \in [Emitters -> [at : {"idle", "record", "send"}, seq : Nat]]
    /\ record \in Seq(Nat)
    /\ events \in Seq(Nat)
    /\ truncated \in BOOLEAN
    /\ sent \in Seq(Nat)

\* Gapless, 0-based, increasing by exactly one: the record carries event n at
\* position n + 1 whatever the interleaving of emitters, the replay buffer is
\* exactly its most recent stretch, and the channel never runs ahead of it.
\* (emit allocates, retains and broadcasts under one lock; events.rs promises
\* the numbering.)
StreamIsGapless ==
    /\ \A i \in DOMAIN record : record[i] = i - 1
    /\ \A i \in DOMAIN sent : sent[i] = i - 1
    /\ \A i \in DOMAIN events : events[i] = Len(record) - Len(events) + i - 1
    /\ Len(events) <= ReplayBuffer
    /\ truncated <=> Len(events) < Len(record)
=============================================================================
