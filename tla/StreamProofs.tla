---------------------------- MODULE StreamProofs ----------------------------
(***************************************************************************)
(* Theorems about the event stream of a run, whoever observes it and the   *)
(* registry that answers for it, for every set of emitters, clients,       *)
(* followers and list requests, every buffer size and every number of      *)
(* events and runs.                                                        *)
(*                                                                         *)
(* RunEvents.  StreamInv speaks of emit() alone: at most one emitter is    *)
(* inside it, and the counter, the record and the channel are out of step  *)
(* by exactly what that emitter has done so far.  Whoever observes the     *)
(* stream only reads it, so everything below builds on this.               *)
(*                                                                         *)
(* EventStream and RunStream.  ClientsInv says how receiver, backlog,      *)
(* filter and received events of an HTTP client are placed in the record;  *)
(* RunStream's pages are such clients, so the theorems hold of them too.   *)
(*                                                                         *)
(* Follower.  The next live event of an observer beside the run either     *)
(* continues what it has folded, or was folded already, or it has been     *)
(* overtaken, and then that event is no newer than what the replay buffer  *)
(* still holds (Continues).                                                *)
(*                                                                         *)
(* RunRegistry.  RegistryInv says where a run can be: in memory while it   *)
(* is in flight (Resident), alone in that (OneInFlight), and on disk only  *)
(* once it has been persisted (Begun); and what the bounded memory and a   *)
(* list request between its two reads owe to that (Bounded, Owed).         *)
(***************************************************************************)
EXTENDS RunStream, Follower, RunRegistry, TLAPS, SequenceTheorems, FiniteSetTheorems

-----------------------------------------------------------------------------
(* emit                                                                    *)

\* Only one emitter holds the lock.
OneEmitter ==
    \A e, f \in Emitters :
        emission[e].at # "idle" /\ emission[f].at # "idle" => e = f

\* Where counter, record and channel stand, by what the holder has done.
InStep ==
    /\ ~Locked => seq = Len(record) /\ Len(sent) = Len(record)
    /\ \A e \in Emitters :
          emission[e].at = "record" =>
              /\ emission[e].seq = Len(record)
              /\ seq = Len(record) + 1
              /\ Len(sent) = Len(record)
    /\ \A e \in Emitters :
          emission[e].at = "send" =>
              /\ emission[e].seq = Len(sent)
              /\ Len(record) = Len(sent) + 1
              /\ seq = Len(record)

\* What was recorded last is still in the buffer.
HoldsTheNewest == record # <<>> => events # <<>>

StreamInv == StreamTypeOK /\ OneEmitter /\ InStep /\ StreamIsGapless /\ HoldsTheNewest

\* The initial state of a run has an empty, consistent stream.
LEMMA StreamInvInit == StreamInit => StreamInv
  <1> SUFFICES ASSUME StreamInit PROVE StreamInv
    OBVIOUS
  <1> USE ReplayBufferAssumption DEF StreamInit
  <1>1. StreamTypeOK
    <2>1. emission \in [Emitters -> [at : {"idle", "record", "send"}, seq : Nat]]
      BY DEF Idle
    <2>2. seq \in Nat /\ record \in Seq(Nat) /\ events \in Seq(Nat) /\ sent \in Seq(Nat)
      BY EmptySeq
    <2>3. truncated \in BOOLEAN
      OBVIOUS
    <2> QED BY <2>1, <2>2, <2>3 DEF StreamTypeOK
  <1>2. OneEmitter /\ InStep
    BY DEF OneEmitter, InStep, Locked, Idle
  <1>3. StreamIsGapless /\ HoldsTheNewest
    BY DEF StreamIsGapless, HoldsTheNewest
  <1> QED BY <1>1, <1>2, <1>3 DEF StreamInv

\* What one emitter does to its own entry, it does to no other.
LEMMA AllocateStep ==
  ASSUME StreamInv, NEW e \in Emitters, Allocate(e)
  PROVE  StreamInv'
  <1> USE DEF Allocate
  <1>1. StreamTypeOK'
    BY DEF StreamInv, StreamTypeOK
  <1>2. \A f \in Emitters : emission[f].at = "idle"
    BY DEF Locked
  <1>3. OneEmitter'
    BY <1>2 DEF OneEmitter, StreamInv, StreamTypeOK
  <1>4. InStep'
    <2>1. emission'[e] = [at |-> "record", seq |-> seq]
      BY DEF StreamInv, StreamTypeOK
    <2>2. \A f \in Emitters : f # e => emission'[f].at = "idle"
      BY <1>2 DEF StreamInv, StreamTypeOK
    <2>3. seq = Len(record) /\ Len(sent) = Len(record)
      BY DEF StreamInv, InStep
    <2>4. Locked'
      BY <2>1 DEF Locked
    <2> QED BY <2>1, <2>2, <2>3, <2>4 DEF InStep
  <1>5. StreamIsGapless' /\ HoldsTheNewest'
    BY DEF StreamInv, StreamIsGapless, HoldsTheNewest
  <1> QED BY <1>1, <1>3, <1>4, <1>5 DEF StreamInv

\* The buffer after push_back: still the most recent stretch of the record.
LEMMA PushedIsRecent ==
  ASSUME NEW n \in Nat, events \in Seq(Nat), Len(events) <= ReplayBuffer,
         \A i \in DOMAIN events : events[i] = n - Len(events) + i - 1
  PROVE  /\ Pushed(n) \in Seq(Nat)
         /\ Len(Pushed(n)) = IF Len(events) >= ReplayBuffer
                             THEN Len(events) ELSE Len(events) + 1
         /\ \A i \in DOMAIN Pushed(n) :
               Pushed(n)[i] = n + 1 - Len(Pushed(n)) + i - 1
  <1> USE ReplayBufferAssumption
  <1>1. CASE Len(events) >= ReplayBuffer
    <2>1. events # <<>> /\ Pushed(n) = Append(Tail(events), n)
      BY <1>1 DEF Pushed
    <2>2. Tail(events) \in Seq(Nat) /\ Len(Tail(events)) = Len(events) - 1
      BY <2>1
    <2>3. \A i \in 1..(Len(events) - 1) : Tail(events)[i] = events[i + 1]
      BY <2>1
    <2>4. Pushed(n) \in Seq(Nat) /\ Len(Pushed(n)) = Len(events)
      BY <2>1, <2>2
    <2>5. \A i \in 1..(Len(events) - 1) : Pushed(n)[i] = events[i + 1]
      BY <2>1, <2>2, <2>3
    <2>6. Pushed(n)[Len(events)] = n
      BY <2>1, <2>2
    <2>7. ASSUME NEW i \in DOMAIN Pushed(n)
          PROVE  Pushed(n)[i] = n - Len(events) + i
      <3>1. i \in 1..Len(events)
        BY <2>4
      <3>2. CASE i = Len(events)
        BY <2>6, <3>2
      <3>3. CASE i # Len(events)
        <4>1. i \in 1..(Len(events) - 1) /\ i + 1 \in DOMAIN events
          BY <3>1, <3>3
        <4> QED BY <2>5, <4>1
      <3> QED BY <3>2, <3>3
    <2> QED BY <1>1, <2>4, <2>7
  <1>2. CASE Len(events) < ReplayBuffer
    <2>1. Pushed(n) = Append(events, n)
      BY <1>2 DEF Pushed
    <2> QED BY <1>2, <2>1
  <1> QED BY <1>1, <1>2

\* Appending to the record and pushing onto the buffer keeps the two aligned,
\* evicting the oldest entry included.
LEMMA RetainStep ==
  ASSUME StreamInv, NEW e \in Emitters, Retain(e)
  PROVE  StreamInv'
  <1> USE DEF Retain
  <1>0. StreamTypeOK /\ OneEmitter /\ InStep /\ StreamIsGapless
    BY DEF StreamInv
  <1>1. /\ emission[e].seq = Len(record)
        /\ seq = Len(record) + 1
        /\ Len(sent) = Len(record)
        /\ Len(record) \in Nat
    BY <1>0 DEF InStep, StreamTypeOK
  <1>2. /\ emission' = [emission EXCEPT ![e].at = "send"]
        /\ emission'[e].at = "send" /\ emission'[e].seq = Len(record)
        /\ \A f \in Emitters : f # e => emission'[f].at = "idle"
    BY <1>0, <1>1 DEF OneEmitter, StreamTypeOK
  <1>3. /\ events' \in Seq(Nat)
        /\ Len(events') = IF Len(events) >= ReplayBuffer
                          THEN Len(events) ELSE Len(events) + 1
        /\ \A i \in DOMAIN events' :
              events'[i] = Len(record) + 1 - Len(events') + i - 1
    <2>1. \A i \in DOMAIN events : events[i] = Len(record) - Len(events) + i - 1
      BY <1>0 DEF StreamIsGapless
    <2>2. events \in Seq(Nat) /\ Len(events) <= ReplayBuffer
      BY <1>0 DEF StreamIsGapless, StreamTypeOK
    <2> QED BY <1>1, <2>1, <2>2, PushedIsRecent
  <1>4. /\ record' \in Seq(Nat)
        /\ Len(record') = Len(record) + 1
        /\ \A i \in DOMAIN record' : record'[i] = i - 1
    BY <1>0, <1>1 DEF StreamIsGapless, StreamTypeOK
  <1>5. StreamTypeOK'
    <2>1. emission[e] \in [at : {"idle", "record", "send"}, seq : Nat]
      BY <1>0 DEF StreamTypeOK
    <2> DEFINE sending == [emission[e] EXCEPT !.at = "send"]
    <2>2. sending \in [at : {"idle", "record", "send"}, seq : Nat]
      BY <2>1
    <2>3. emission' = [emission EXCEPT ![e] = sending]
      BY DEF sending
    <2> HIDE DEF sending
    <2>4. emission' \in [Emitters -> [at : {"idle", "record", "send"}, seq : Nat]]
      BY <1>0, <2>2, <2>3 DEF StreamTypeOK
    <2>5. truncated' \in BOOLEAN
      BY <1>0 DEF StreamTypeOK
    <2> QED BY <1>0, <1>3, <1>4, <2>4, <2>5 DEF StreamTypeOK
  <1>6. OneEmitter'
    BY <1>2 DEF OneEmitter
  <1>7. InStep'
    BY <1>1, <1>2, <1>4 DEF InStep, Locked
  <1>8. StreamIsGapless'
    <2>1. Len(events') <= ReplayBuffer
      BY <1>0, <1>3, ReplayBufferAssumption DEF StreamIsGapless, StreamTypeOK
    <2>2. truncated' <=> Len(events') < Len(record')
      <3>1. CASE Len(events) >= ReplayBuffer
        <4>1. truncated'
          BY <3>1
        <4>2. Len(events) <= Len(record)
          <5>1. 1 \in DOMAIN events
            BY <1>0, <3>1, ReplayBufferAssumption DEF StreamTypeOK
          <5>2. events[1] = Len(record) - Len(events) /\ events[1] \in Nat
            BY <1>0, <5>1 DEF StreamIsGapless, StreamTypeOK
          <5> QED BY <1>0, <5>2 DEF StreamTypeOK
        <4> QED BY <1>0, <1>3, <1>4, <3>1, <4>1, <4>2
      <3>2. CASE ~(Len(events) >= ReplayBuffer)
        <4>1. truncated' <=> truncated
          BY <3>2
        <4>2. truncated <=> Len(events) < Len(record)
          BY <1>0 DEF StreamIsGapless
        <4>3. Len(events) \in Nat /\ Len(record) \in Nat
          BY <1>0 DEF StreamTypeOK
        <4>4. (Len(events) < Len(record)) <=> (Len(events') < Len(record'))
          BY <1>3, <1>4, <3>2, <4>3
        <4> QED BY <4>1, <4>2, <4>4
      <3> QED BY <3>1, <3>2
    <2>3. \A i \in DOMAIN events' : events'[i] = Len(record') - Len(events') + i - 1
      BY <1>1, <1>3, <1>4
    <2> QED BY <1>0, <1>4, <2>1, <2>2, <2>3 DEF StreamIsGapless
  <1>9. HoldsTheNewest'
    <2>1. Len(events') > 0
      BY <1>0, <1>3, ReplayBufferAssumption DEF StreamTypeOK
    <2> QED BY <1>3, <2>1 DEF HoldsTheNewest
  <1> QED BY <1>5, <1>6, <1>7, <1>8, <1>9 DEF StreamInv

\* Broadcasting the retained event brings the channel up to the record.
LEMMA BroadcastStep ==
  ASSUME StreamInv, NEW e \in Emitters, Broadcast(e)
  PROVE  StreamInv'
  <1> USE DEF Broadcast
  <1>0. StreamTypeOK /\ OneEmitter /\ InStep /\ StreamIsGapless
    BY DEF StreamInv
  <1>1. /\ emission[e].seq = Len(sent)
        /\ Len(record) = Len(sent) + 1
        /\ seq = Len(record)
        /\ Len(sent) \in Nat
    BY <1>0 DEF InStep, StreamTypeOK
  <1>2. \A f \in Emitters : emission'[f].at = "idle"
    BY <1>0 DEF OneEmitter, StreamTypeOK, Idle
  <1>3. /\ sent' \in Seq(Nat)
        /\ Len(sent') = Len(sent) + 1
        /\ \A i \in DOMAIN sent' : sent'[i] = i - 1
    <2>1. sent \in Seq(Nat) /\ emission[e].seq \in Nat /\ sent' = Append(sent, emission[e].seq)
      BY <1>0, <1>1 DEF StreamTypeOK
    <2>2. \A i \in DOMAIN sent : sent[i] = i - 1
      BY <1>0 DEF StreamIsGapless
    <2>3. /\ sent' \in Seq(Nat) /\ Len(sent') = Len(sent) + 1 /\ sent'[Len(sent) + 1] = Len(sent)
          /\ \A i \in 1..Len(sent) : sent'[i] = sent[i]
      BY <1>1, <2>1
    <2> QED BY ONLY <1>1, <2>1, <2>2, <2>3
  <1>4. StreamTypeOK'
    <2>1. emission' \in [Emitters -> [at : {"idle", "record", "send"}, seq : Nat]]
      BY <1>0 DEF StreamTypeOK, Idle
    <2> QED BY <1>0, <1>3, <2>1 DEF StreamTypeOK
  <1>5. OneEmitter' /\ InStep'
    BY <1>1, <1>2, <1>3 DEF OneEmitter, InStep, Locked
  <1>6. StreamIsGapless' /\ HoldsTheNewest'
    BY <1>0, <1>3 DEF StreamIsGapless, HoldsTheNewest, StreamInv
  <1> QED BY <1>4, <1>5, <1>6 DEF StreamInv

\* Whoever only reads the stream keeps it.
LEMMA StreamInvKept ==
  ASSUME StreamInv, UNCHANGED streamVars
  PROVE  StreamInv'
  BY DEF StreamInv, StreamTypeOK, OneEmitter, InStep, Locked, StreamIsGapless,
         HoldsTheNewest, streamVars

\* Record and channel grow, and the buffer only forgets.
LEMMA StreamMoves ==
  ASSUME StreamInv, NEW e \in Emitters, EmitStep(e)
  PROVE  /\ StreamInv'
         /\ Len(sent) <= Len(sent') /\ Len(record) <= Len(record')
         /\ Len(record) - Len(events) <= Len(record') - Len(events')
  <1>0. StreamTypeOK /\ StreamIsGapless
    BY DEF StreamInv
  <1> USE DEF StreamTypeOK
  <1>1. CASE Allocate(e)
    <2>1. record' = record /\ events' = events /\ sent' = sent
      BY <1>1 DEF Allocate
    <2>2. StreamInv'
      BY <1>1, AllocateStep
    <2> QED BY <1>0, <2>1, <2>2
  <1>2. CASE Retain(e)
    <2>1. /\ emission[e].seq \in Nat /\ events \in Seq(Nat) /\ record \in Seq(Nat)
          /\ sent \in Seq(Nat)
      BY <1>0 DEF StreamTypeOK
    <2>2. Len(events') <= Len(events) + 1
      <3>1. CASE Len(events) >= ReplayBuffer
        <4>1. events # <<>>
          BY <2>1, <3>1, ReplayBufferAssumption
        <4>2. Tail(events) \in Seq(Nat) /\ Len(Tail(events)) = Len(events) - 1
          BY <2>1, <4>1
        <4> QED BY <1>2, <2>1, <3>1, <4>2 DEF Retain, Pushed
      <3>2. CASE ~(Len(events) >= ReplayBuffer)
        BY <1>2, <2>1, <3>2 DEF Retain, Pushed
      <3> QED BY <3>1, <3>2
    <2>3. Len(record') = Len(record) + 1 /\ sent' = sent
      BY <1>2, <2>1 DEF Retain
    <2>4. StreamInv'
      BY <1>2, RetainStep
    <2>5. Len(events') \in Nat
      BY <2>4 DEF StreamInv, StreamTypeOK
    <2> QED BY <2>1, <2>2, <2>3, <2>4, <2>5
  <1>3. CASE Broadcast(e)
    <2>1. emission[e].seq \in Nat
      BY <1>0 DEF StreamTypeOK
    <2>2. record' = record /\ events' = events /\ Len(sent') = Len(sent) + 1
      BY <1>0, <1>3, <2>1 DEF Broadcast
    <2>3. StreamInv'
      BY <1>3, BroadcastStep
    <2> QED BY <1>0, <2>2, <2>3
  <1> QED BY <1>1, <1>2, <1>3 DEF EmitStep

\* The channel holds events 0, 1, ... and is never ahead of the record; the two
\* agree while nobody is emitting.
LEMMA ChannelIsPrefix ==
  ASSUME StreamInv
  PROVE  /\ Len(sent) \in Nat /\ Len(record) \in Nat /\ Len(sent) <= Len(record)
         /\ ~Locked => Len(sent) = Len(record)
         /\ \A i \in 1..Len(sent) : sent[i] = i - 1
         /\ \A i \in 1..Len(record) : record[i] = i - 1
  <1>1. /\ Len(sent) \in Nat /\ Len(record) \in Nat
        /\ \A i \in 1..Len(sent) : sent[i] = i - 1
        /\ \A i \in 1..Len(record) : record[i] = i - 1
    BY DEF StreamInv, StreamTypeOK, StreamIsGapless
  <1>2. CASE ~Locked
    BY <1>1, <1>2 DEF StreamInv, InStep
  <1>3. CASE Locked
    <2>1. PICK e \in Emitters : emission[e].at # "idle"
      BY <1>3 DEF Locked
    <2>2. emission[e].at \in {"record", "send"}
      BY <2>1 DEF StreamInv, StreamTypeOK
    <2> QED BY <1>1, <1>3, <2>2 DEF StreamInv, InStep
  <1> QED BY <1>1, <1>2, <1>3

\* The buffer is no longer than what was recorded, nor than its bound.
LEMMA BufferIsBounded ==
  ASSUME StreamInv
  PROVE  /\ Len(events) \in Nat /\ Len(events) <= ReplayBuffer
         /\ Len(events) <= Len(record)
  <1>1. /\ Len(events) \in Nat /\ Len(record) \in Nat /\ DOMAIN events = 1..Len(events)
        /\ events \in Seq(Nat) /\ Len(events) <= ReplayBuffer
        /\ \A i \in DOMAIN events : events[i] = Len(record) - Len(events) + i - 1
    BY DEF StreamInv, StreamTypeOK, StreamIsGapless
  <1>2. CASE Len(events) = 0
    BY <1>1, <1>2
  <1>3. CASE Len(events) # 0
    <2>1. 1 \in DOMAIN events
      BY <1>1, <1>3
    <2>2. events[1] = Len(record) - Len(events) /\ events[1] \in Nat
      BY <1>1, <2>1
    <2> QED BY <1>1, <2>2
  <1> QED BY <1>1, <1>2, <1>3

-----------------------------------------------------------------------------
(* What a snapshot returns                                                 *)

\* The buffer is sorted, so a cut after any position exists, and
\* PartitionPoint is one.
LEMMA PartitionPointIsACut ==
  ASSUME StreamInv, NEW after \in Nat
  PROVE  /\ PartitionPoint(after) \in 0..Len(events)
         /\ \A i \in 1..PartitionPoint(after) : events[i] <= after
         /\ \A i \in (PartitionPoint(after) + 1)..Len(events) : events[i] > after
  <1> DEFINE base == Len(record) - Len(events)
             IsCut(k) == /\ \A i \in 1..k : events[i] <= after
                         /\ \A i \in (k + 1)..Len(events) : events[i] > after
  <1>1. /\ base \in Int /\ Len(events) \in Nat
        /\ \A i \in 1..Len(events) : events[i] = base + i - 1
    BY DEF StreamInv, StreamTypeOK, StreamIsGapless
  <1>2. \E k \in 0..Len(events) : IsCut(k)
    <2> HIDE DEF base
    <2>1. CASE after < base
      <3>1. IsCut(0) /\ 0 \in 0..Len(events)
        BY <1>1, <2>1
      <3> QED BY <3>1
    <2>2. CASE after >= base + Len(events) - 1
      <3>1. IsCut(Len(events)) /\ Len(events) \in 0..Len(events)
        BY <1>1, <2>2
      <3> QED BY <3>1
    <2>3. CASE base <= after /\ after < base + Len(events) - 1
      <3> DEFINE k == after - base + 1
      <3>1. k \in 0..Len(events)
        BY <1>1, <2>3
      <3>2. IsCut(k)
        BY <1>1, <2>3
      <3> QED BY <3>1, <3>2
    <2> QED BY <1>1, <2>1, <2>2, <2>3
  <1>3. PartitionPoint(after) = CHOOSE k \in 0..Len(events) : IsCut(k)
    BY DEF PartitionPoint
  <1> HIDE DEF IsCut
  <1>4. PartitionPoint(after) \in 0..Len(events) /\ IsCut(PartitionPoint(after))
    BY <1>2, <1>3
  <1> QED BY <1>4 DEF IsCut

\* A stretch of numbers that ends just below top.
LEMMA StretchIsConsecutive ==
  ASSUME NEW s \in Seq(Nat), NEW b \in Int, NEW top \in Nat,
         b + Len(s) = top,
         \A i \in 1..Len(s) : s[i] = b + i - 1
  PROVE  /\ Consecutive(s)
         /\ \A i \in DOMAIN s : s[i] < top
         /\ s # <<>> => Last(s) = top - 1
  <1>1. Len(s) \in Nat /\ DOMAIN s = 1..Len(s)
    OBVIOUS
  <1>2. Consecutive(s)
    BY <1>1 DEF Consecutive
  <1>3. \A i \in DOMAIN s : s[i] < top
    BY <1>1
  <1>4. s # <<>> => Last(s) = top - 1
    BY <1>1 DEF Last
  <1> QED BY <1>2, <1>3, <1>4

\* A snapshot taken under the lock reaches the newest event, has no gap in it,
\* and starts right after the position asked for.
LEMMA SnapshotResumes ==
  ASSUME StreamInv, NEW after \in Nat \cup {None}, ~FallenOut(after),
         after # None => after < Len(record)
  PROVE  LET replay == EventsSince(after) IN
           /\ replay \in Seq(Nat)
           /\ Consecutive(replay)
           /\ \A i \in DOMAIN replay : replay[i] < Len(record)
           /\ \A i \in DOMAIN replay : replay[i] = Len(record) - Len(replay) + i - 1
           /\ replay # <<>> => Last(replay) = Len(record) - 1
           /\ after # None => IF replay = <<>> THEN after = Len(record) - 1
                              ELSE Head(replay) = after + 1
  <1> DEFINE base == Len(record) - Len(events)
  <1>1. /\ base \in Int /\ Len(events) \in Nat /\ Len(record) \in Nat
        /\ events \in Seq(Nat)
        /\ \A i \in 1..Len(events) : events[i] = base + i - 1
    BY DEF StreamInv, StreamTypeOK, StreamIsGapless
  <1>2. CASE after = None
    <2>1. EventsSince(after) = events
      BY <1>2 DEF EventsSince
    <2>2. base + Len(events) = Len(record)
      BY <1>1
    <2>3. \A i \in DOMAIN events : events[i] = Len(record) - Len(events) + i - 1
      BY <1>1
    <2> HIDE DEF base
    <2>4. /\ Consecutive(events)
          /\ \A i \in DOMAIN events : events[i] < Len(record)
          /\ events # <<>> => Last(events) = Len(record) - 1
      BY <1>1, <2>2, StretchIsConsecutive
    <2> QED BY <1>1, <1>2, <2>1, <2>3, <2>4
  <1>3. CASE after # None
    <2>0. after \in Nat /\ after < Len(record)
      BY <1>3
    <2> DEFINE k == PartitionPoint(after)
               replay == SubSeq(events, k + 1, Len(events))
    <2>1. /\ k \in 0..Len(events)
          /\ \A i \in 1..k : events[i] <= after
          /\ \A i \in (k + 1)..Len(events) : events[i] > after
      BY <2>0, PartitionPointIsACut
    <2>2. EventsSince(after) = replay
      BY <1>3 DEF EventsSince
    <2> HIDE DEF k
    <2>3. /\ replay \in Seq(Nat)
          /\ Len(replay) = Len(events) - k
          /\ \A i \in 1..(Len(events) - k) : replay[i] = events[k + i]
      BY <1>1, <2>1
    <2>4. \A i \in 1..(Len(events) - k) : replay[i] = base + k + i - 1
      BY <1>1, <2>1, <2>3
    <2>5. events # <<>> /\ base <= after + 1
      <3>1. truncated <=> Len(events) < Len(record)
        BY DEF StreamInv, StreamIsGapless
      <3>2. events # <<>>
        <4>1. record # <<>>
          BY <1>1, <2>0
        <4> QED BY <4>1 DEF StreamInv, HoldsTheNewest
      <3>3. events[1] = base
        BY <1>1, <3>2
      <3>4. CASE truncated
        BY <1>1, <1>3, <2>0, <3>2, <3>3, <3>4 DEF FallenOut
      <3>5. CASE ~truncated
        BY <1>1, <2>0, <3>1, <3>5
      <3> QED BY <3>2, <3>4, <3>5
    <2> HIDE DEF replay
    <2>6. replay = <<>> => after = Len(record) - 1
      <3> SUFFICES ASSUME replay = <<>> PROVE after = Len(record) - 1
        OBVIOUS
      <3>1. k = Len(events) /\ Len(events) \in 1..k
        BY <1>1, <2>1, <2>3, <2>5
      <3>2. events[Len(events)] <= after
        BY <2>1, <3>1
      <3>3. events[Len(events)] = Len(record) - 1
        BY <1>1, <3>1
      <3> QED BY <1>1, <2>0, <3>2, <3>3
    <2>7. replay # <<>> => Head(replay) = after + 1
      <3> SUFFICES ASSUME replay # <<>> PROVE Head(replay) = after + 1
        OBVIOUS
      <3>1. Head(replay) = base + k /\ k + 1 \in (k + 1)..Len(events)
        BY <1>1, <2>1, <2>3, <2>4
      <3>2. base + k > after
        BY <1>1, <2>1, <3>1
      <3>3. k = 0 \/ base + k - 1 <= after
        BY <1>1, <2>1
      <3> QED BY <1>1, <2>0, <2>1, <2>5, <3>1, <3>2, <3>3
    <2>8. /\ Consecutive(replay)
          /\ \A i \in DOMAIN replay : replay[i] < Len(record)
          /\ replay # <<>> => Last(replay) = Len(record) - 1
      <3> HIDE DEF replay
      <3>0. base + k \in Int
        BY <1>1, <2>1
      <3>1. PICK b \in Int : b = base + k
        BY ONLY <3>0
      <3>2. b + Len(replay) = Len(record) /\ Len(record) \in Nat
        BY <1>1, <2>1, <2>3, <3>1
      <3> HIDE DEF base
      <3>3. \A i \in 1..Len(replay) : replay[i] = b + i - 1
        BY <2>3, <2>4, <3>1
      <3>4. replay \in Seq(Nat)
        BY <2>3
      <3> QED BY ONLY <3>2, <3>3, <3>4, StretchIsConsecutive
    <2>9. \A i \in DOMAIN replay : replay[i] = Len(record) - Len(replay) + i - 1
      <3> HIDE DEF replay
      <3>1. DOMAIN replay = 1..(Len(events) - k)
        BY <2>3
      <3>2. Len(replay) = Len(events) - k /\ k \in Int
        BY <1>1, <2>1, <2>3
      <3>3. Len(record) - Len(replay) = base + k
        BY <1>1, <3>2
      <3> QED BY <2>4, <3>1, <3>3
    <2> QED BY <1>3, <2>2, <2>3, <2>6, <2>7, <2>8, <2>9
  <1> QED BY <1>2, <1>3
-----------------------------------------------------------------------------
(* The stream, whatever its clients do                                     *)

\* Whatever a step of the whole system does, the stream keeps its invariant:
\* the clients only read it.
LEMMA StreamInvStep ==
  ASSUME StreamInv, [Next]_vars
  PROVE  StreamInv'
  <1>1. CASE UNCHANGED streamVars
    BY <1>1, StreamInvKept
  <1>2. ASSUME NEW e \in Emitters, Emit(e)
        PROVE  StreamInv'
    BY <1>2, AllocateStep, RetainStep, BroadcastStep DEF Emit, EmitStep
  <1>3. ASSUME NEW c \in Clients, ClientStep(c)
        PROVE  UNCHANGED streamVars
    BY <1>3 DEF ClientStep, Subscribe, Snapshot, RefuseReplay, Replay, Receive,
                Lag, Disconnect, Refetch
  <1> QED BY <1>1, <1>2, <1>3 DEF Next, vars

\* The invariant of the emission holds whatever the clients do.
LEMMA StreamInvAlways == Spec => []StreamInv
  <1>1. Init => StreamInv
    BY StreamInvInit DEF Init
  <1> QED BY <1>1, StreamInvStep, PTL DEF Spec

\* Gapless, zero-based, increasing by exactly one, for any number of emitters
\* in any interleaving: emit's allocate, retain and broadcast under one lock.
THEOREM StreamIsAlwaysGapless == Spec => []StreamIsGapless
  <1>1. StreamInv => StreamIsGapless
    BY DEF StreamInv
  <1> QED BY <1>1, StreamInvAlways, PTL

-----------------------------------------------------------------------------
(* One client                                                              *)

\* The event its receiver yields next, if the channel still has it.
NextLive(c) == pos[c] - 1

ClientTypeOK(c) ==
    /\ conn[c] \in {"idle", "subscribed", "streaming", "gone"}
    /\ pos[c] \in Nat \ {0} /\ NextLive(c) <= Len(sent)
    /\ backlog[c] \in Seq(Nat)
    /\ highest[c] \in Nat \cup {None}
    /\ delivered[c] \in Seq(Nat)
    /\ \A i \in DOMAIN backlog[c] : backlog[c][i] < Len(sent)
    /\ \A i \in DOMAIN delivered[c] : delivered[c][i] < Len(sent)

\* Nothing is left of a stream that is not open.
Closed(c) == conn[c] # "streaming" => backlog[c] = <<>> /\ highest[c] = None

\* The receiver starts past everything received over earlier connections.
Resuming(c) ==
    conn[c] = "subscribed" /\ delivered[c] # <<>> => Last(delivered[c]) < NextLive(c)

\* The backlog continues what was received, and the receiver does not start
\* beyond its end.
Replaying(c) ==
    conn[c] = "streaming" /\ backlog[c] # <<>> =>
        /\ Consecutive(backlog[c])
        /\ highest[c] = Last(backlog[c])
        /\ NextLive(c) <= highest[c] + 1
        /\ delivered[c] # <<>> => Head(backlog[c]) = Last(delivered[c]) + 1

\* Once the backlog is written out, what was received last is either behind
\* the receiver or the end of the backlog, and the filter tells which.
Following(c) ==
    Live(c) =>
        /\ highest[c] # None => delivered[c] # <<>> /\ highest[c] <= Last(delivered[c])
        /\ delivered[c] # <<>> => \/ Last(delivered[c]) < NextLive(c)
                                  \/ Last(delivered[c]) = highest[c]
        /\ ~lagged[c] /\ delivered[c] # <<>> => NextLive(c) <= Last(delivered[c]) + 1

InOrder(c) ==
    /\ Increasing(delivered[c])
    /\ ~lagged[c] => Consecutive(delivered[c])

ClientInv(c) ==
    /\ ClientTypeOK(c) /\ Closed(c) /\ Resuming(c) /\ Replaying(c) /\ Following(c)
    /\ InOrder(c)

ClientsInv == StreamInv /\ TypeOK /\ \A c \in Clients : ClientInv(c)

\* Appending the next number, or a larger one, keeps a sequence in order.
LEMMA AppendInOrder ==
  ASSUME NEW s \in Seq(Nat), NEW n \in Nat, Increasing(s),
         s # <<>> => Last(s) < n
  PROVE  Increasing(Append(s, n))
  <1> SUFFICES ASSUME NEW i \in 1..(Len(s) + 1), NEW j \in 1..(Len(s) + 1), i < j
               PROVE  Append(s, n)[i] < Append(s, n)[j]
    BY DEF Increasing
  <1>1. i \in 1..Len(s) /\ Append(s, n)[i] = s[i] /\ s[i] \in Nat
    OBVIOUS
  <1>2. CASE j \in 1..Len(s)
    BY <1>1, <1>2 DEF Increasing
  <1>3. CASE j = Len(s) + 1
    <2>1. s # <<>> /\ s[Len(s)] < n /\ s[Len(s)] \in Nat
      BY <1>1 DEF Last
    <2>2. s[i] <= s[Len(s)]
      BY <1>1, <2>1 DEF Increasing
    <2> QED BY <1>1, <1>3, <2>1, <2>2
  <1> QED BY <1>2, <1>3

\* Appending the successor of the last element keeps a sequence consecutive.
LEMMA AppendConsecutive ==
  ASSUME NEW s \in Seq(Nat), NEW n \in Nat, Consecutive(s),
         s # <<>> => Last(s) + 1 = n
  PROVE  Consecutive(Append(s, n))
  <1> SUFFICES ASSUME NEW i \in 1..Len(s)
               PROVE  Append(s, n)[i + 1] = Append(s, n)[i] + 1
    BY DEF Consecutive
  <1>1. CASE i = Len(s)
    BY <1>1 DEF Last
  <1>2. CASE i # Len(s)
    <2>1. i \in 1..(Len(s) - 1)
      BY <1>2
    <2> QED BY <2>1 DEF Consecutive
  <1> QED BY <1>1, <1>2

\* Lengths and places.
LEMMA Lengths ==
  ASSUME NEW u \in Seq(Nat)
  PROVE  Len(u) \in Nat /\ DOMAIN u = 1..Len(u) /\ (u # <<>> => Len(u) > 0)
  OBVIOUS

\* The last element of an appended sequence is the one appended.
LEMMA LastOfAppend ==
  ASSUME NEW s \in Seq(Nat), NEW n \in Nat
  PROVE  /\ Append(s, n) \in Seq(Nat) /\ Append(s, n) # <<>>
         /\ Last(Append(s, n)) = n
         /\ \A i \in DOMAIN Append(s, n) : i \in DOMAIN s \/ Append(s, n)[i] = n
         /\ \A i \in DOMAIN s : Append(s, n)[i] = s[i]
  BY DEF Last

\* A client nothing happens to keeps its invariant while the channel grows.
LEMMA ClientUnchanged ==
  ASSUME NEW c \in Clients, ClientInv(c), Len(sent) \in Nat, Len(sent') \in Nat,
         Len(sent) <= Len(sent'),
         conn'[c] = conn[c], pos'[c] = pos[c], backlog'[c] = backlog[c],
         highest'[c] = highest[c], delivered'[c] = delivered[c],
         lagged'[c] = lagged[c]
  PROVE  ClientInv(c)'
  <1>1. ClientTypeOK(c)'
    BY DEF ClientInv, ClientTypeOK, NextLive
  <1>2. Closed(c)' /\ Resuming(c)'
    BY DEF ClientInv, Closed, Resuming, NextLive
  <1>3. Replaying(c)'
    BY DEF ClientInv, Replaying, NextLive
  <1>4. Following(c)'
    BY DEF ClientInv, Following, NextLive, Live
  <1>5. InOrder(c)'
    BY DEF ClientInv, InOrder
  <1> QED BY <1>1, <1>2, <1>3, <1>4, <1>5 DEF ClientInv

-----------------------------------------------------------------------------
(* What a step of client c does to c                                       *)

\* Subscribing puts the receiver just past the newest broadcast event.
LEMMA SubscribeStep ==
  ASSUME ClientsInv, NEW c \in Clients, Subscribe(c)
  PROVE  ClientInv(c)' /\ TypeOK'
  <1> USE DEF Subscribe
  <1>1. Len(sent) \in Nat
    BY ChannelIsPrefix DEF ClientsInv
  <1>2. /\ conn'[c] = "subscribed" /\ pos'[c] = Len(sent) + 1
        /\ sent' = sent
    BY DEF ClientsInv, TypeOK, streamVars
  <1>3. TypeOK'
    BY <1>1 DEF ClientsInv, TypeOK, StreamTypeOK, streamVars
  <1>4. ClientTypeOK(c)' /\ Closed(c)'
    BY <1>1, <1>2 DEF ClientsInv, ClientInv, ClientTypeOK, Closed, NextLive
  <1>5. Resuming(c)'
    BY <1>1, <1>2 DEF ClientsInv, ClientInv, ClientTypeOK, Resuming, NextLive, Last
  <1>6. Replaying(c)' /\ Following(c)' /\ InOrder(c)'
    BY <1>2 DEF ClientsInv, ClientInv, Replaying, Following, Live, InOrder
  <1> QED BY <1>3, <1>4, <1>5, <1>6 DEF ClientInv

\* The snapshot continues what the client has, and meets the receiver.
LEMMA SnapshotStep ==
  ASSUME ClientsInv, NEW c \in Clients, Snapshot(c)
  PROVE  ClientInv(c)' /\ TypeOK'
  <1> DEFINE after == LastSeen(c)
             replay == EventsSince(after)
  <1> USE DEF Snapshot
  <1>1. /\ Len(sent) \in Nat /\ Len(record) = Len(sent)
        /\ sent' = sent
    BY ChannelIsPrefix DEF ClientsInv, streamVars
  <1>2. ClientInv(c)
    BY DEF ClientsInv
  <1>3. /\ after \in Nat \cup {None}
        /\ after # None => after < Len(record)
        /\ after = None <=> delivered[c] = <<>>
        /\ after # None => after = Last(delivered[c])
    BY <1>1, <1>2, NoneAssumption DEF ClientInv, ClientTypeOK, LastSeen, Last
  <1>4. /\ replay \in Seq(Nat)
        /\ Consecutive(replay)
        /\ \A i \in DOMAIN replay : replay[i] < Len(record)
        /\ replay # <<>> => Last(replay) = Len(record) - 1
        /\ after # None => IF replay = <<>> THEN after = Len(record) - 1
                           ELSE Head(replay) = after + 1
    BY <1>3, SnapshotResumes DEF ClientsInv
  <1>5. /\ conn'[c] = "streaming" /\ pos'[c] = pos[c] /\ backlog'[c] = replay
        /\ highest'[c] = IF replay = <<>> THEN None ELSE Last(replay)
        /\ delivered'[c] = delivered[c] /\ lagged'[c] = lagged[c]
    BY DEF ClientsInv, TypeOK
  <1> HIDE DEF replay
  <1>6. replay # <<>> => Last(replay) \in Nat
    BY <1>4 DEF Last
  <1>7. TypeOK'
    <2>1. /\ conn' \in [Clients -> {"idle", "subscribed", "streaming", "gone"}]
          /\ backlog' \in [Clients -> Seq(Nat)]
      BY <1>4 DEF ClientsInv, TypeOK, replay
    <2>2. highest' \in [Clients -> Nat \cup {None}]
      BY <1>6 DEF ClientsInv, TypeOK, replay
    <2> QED BY <2>1, <2>2 DEF ClientsInv, TypeOK, StreamTypeOK, streamVars
  <1>8. ClientTypeOK(c)' /\ Closed(c)' /\ Resuming(c)'
    BY <1>1, <1>2, <1>4, <1>5, <1>6 DEF ClientInv, ClientTypeOK, Closed, Resuming, NextLive
  <1>9. Replaying(c)'
    BY <1>1, <1>2, <1>3, <1>4, <1>5, <1>6 DEF ClientInv, ClientTypeOK, Replaying, NextLive
  <1>10. Following(c)'
    BY <1>1, <1>2, <1>3, <1>4, <1>5 DEF ClientInv, ClientTypeOK, Resuming, Following,
                                        NextLive, Live
  <1>11. InOrder(c)'
    BY <1>2, <1>5 DEF ClientInv, InOrder
  <1> QED BY <1>7, <1>8, <1>9, <1>10, <1>11 DEF ClientInv

\* A refused replay delivers nothing.
LEMMA RefuseReplayStep ==
  ASSUME ClientsInv, NEW c \in Clients, RefuseReplay(c)
  PROVE  ClientInv(c)' /\ TypeOK'
  <1> USE DEF RefuseReplay
  <1>1. conn'[c] = "gone" /\ sent' = sent
    BY DEF ClientsInv, TypeOK, streamVars
  <1>2. TypeOK'
    BY DEF ClientsInv, TypeOK, StreamTypeOK, streamVars
  <1>3. ClientTypeOK(c)' /\ Closed(c)' /\ Resuming(c)'
    BY <1>1 DEF ClientsInv, ClientInv, ClientTypeOK, Closed, Resuming, NextLive
  <1>4. Replaying(c)' /\ Following(c)' /\ InOrder(c)'
    BY <1>1 DEF ClientsInv, ClientInv, Replaying, Following, Live, InOrder
  <1> QED BY <1>2, <1>3, <1>4 DEF ClientInv

\* Writing out one backlog event extends what the client has by its successor.
LEMMA ReplayStep ==
  ASSUME ClientsInv, NEW c \in Clients, Replay(c)
  PROVE  ClientInv(c)' /\ TypeOK'
  <1> DEFINE s == delivered[c]
             b == backlog[c]
             n == Head(b)
  <1> USE DEF Replay
  <1>1. ClientInv(c) /\ Len(sent) \in Nat /\ sent' = sent
    BY ChannelIsPrefix DEF ClientsInv, streamVars
  <1>2. /\ conn'[c] = "streaming" /\ conn[c] = "streaming"
        /\ pos'[c] = pos[c] /\ highest'[c] = highest[c] /\ lagged'[c] = lagged[c]
        /\ b # <<>> /\ backlog'[c] = Tail(b) /\ delivered'[c] = Append(s, n)
    BY DEF ClientsInv, TypeOK
  <1>3. /\ s \in Seq(Nat) /\ b \in Seq(Nat) /\ n \in Nat /\ n = b[1]
        /\ n < Len(sent)
    BY <1>1, <1>2 DEF ClientInv, ClientTypeOK
  <1>4. /\ Consecutive(b) /\ highest[c] = Last(b)
        /\ NextLive(c) <= highest[c] + 1
        /\ s # <<>> => n = Last(s) + 1
    BY <1>1, <1>2 DEF ClientInv, Replaying
  <1>5. /\ Tail(b) \in Seq(Nat) /\ Len(Tail(b)) = Len(b) - 1
        /\ \A i \in 1..(Len(b) - 1) : Tail(b)[i] = b[i + 1]
    BY <1>2, <1>3
  <1>6. TypeOK'
    BY <1>3, <1>5 DEF ClientsInv, TypeOK, StreamTypeOK, streamVars
  <1> HIDE DEF s, b, n
  <1>7. /\ delivered'[c] \in Seq(Nat) /\ delivered'[c] # <<>>
        /\ Last(delivered'[c]) = n
        /\ \A i \in DOMAIN delivered'[c] : delivered'[c][i] < Len(sent)
    <2>1. \A i \in DOMAIN s : s[i] < Len(sent)
      BY <1>1 DEF ClientInv, ClientTypeOK, s
    <2> DEFINE t == Append(s, n)
    <2>2. /\ t \in Seq(Nat) /\ t # <<>> /\ Last(t) = n
          /\ \A i \in DOMAIN t : i \in DOMAIN s \/ t[i] = n
          /\ \A i \in DOMAIN s : t[i] = s[i]
      <3>1. s \in Seq(Nat) /\ n \in Nat
        BY <1>3
      <3> QED BY ONLY <3>1, LastOfAppend DEF t
    <2>3. delivered'[c] = t
      BY <1>2
    <2> HIDE DEF t
    <2>4. \A i \in DOMAIN t : t[i] < Len(sent)
      BY <1>3, <2>1, <2>2
    <2> QED BY <2>2, <2>3, <2>4
  <1>8. ClientTypeOK(c)'
    <2>1. \A i \in DOMAIN b : b[i] < Len(sent)
      BY <1>1 DEF ClientInv, ClientTypeOK, b
    <2>2. \A i \in DOMAIN Tail(b) : Tail(b)[i] < Len(sent)
      <3>1. DOMAIN Tail(b) = 1..(Len(b) - 1) /\ DOMAIN b = 1..Len(b)
        BY <1>3, <1>5, Lengths
      <3>2. \A i \in 1..(Len(b) - 1) : i + 1 \in 1..Len(b)
        BY <1>3, Lengths
      <3> QED BY ONLY <1>5, <2>1, <3>1, <3>2
    <2>3. /\ pos[c] \in Nat \ {0} /\ NextLive(c) <= Len(sent)
          /\ highest[c] \in Nat \cup {None}
      BY <1>1 DEF ClientInv, ClientTypeOK
    <2>4. /\ pos'[c] \in Nat \ {0} /\ NextLive(c)' <= Len(sent)'
          /\ highest'[c] \in Nat \cup {None}
      BY <1>1, <1>2, <2>3 DEF NextLive
    <2>5. /\ backlog'[c] \in Seq(Nat)
          /\ \A i \in DOMAIN backlog'[c] : backlog'[c][i] < Len(sent)'
      BY <1>1, <1>2, <1>5, <2>2
    <2>6. /\ delivered'[c] \in Seq(Nat)
          /\ \A i \in DOMAIN delivered'[c] : delivered'[c][i] < Len(sent)'
      BY <1>1, <1>7
    <2> QED BY ONLY <1>2, <2>4, <2>5, <2>6 DEF ClientTypeOK
  <1>9. Closed(c)' /\ Resuming(c)'
    BY <1>2 DEF Closed, Resuming
  <1>10. Replaying(c)'
    <2> SUFFICES ASSUME Tail(b) # <<>>
                 PROVE  /\ Consecutive(Tail(b))
                        /\ highest[c] = Last(Tail(b))
                        /\ Head(Tail(b)) = n + 1
      BY <1>2, <1>4, <1>7 DEF Replaying, NextLive
    <2>1. Len(Tail(b)) >= 1 /\ Len(b) >= 2
      BY <1>3, <1>5
    <2>2. Consecutive(Tail(b))
      BY <1>3, <1>4, <1>5 DEF Consecutive
    <2>3. Last(Tail(b)) = Last(b)
      BY <1>3, <1>5, <2>1 DEF Last
    <2>4. Head(Tail(b)) = b[2] /\ b[2] = b[1] + 1
      BY <1>3, <1>4, <1>5, <2>1 DEF Consecutive
    <2> QED BY <1>3, <1>4, <2>2, <2>3, <2>4
  <1>11. Following(c)'
    <2>1. ASSUME Tail(b) = <<>>
          PROVE  highest[c] = n /\ NextLive(c) <= n + 1
      <3>1. Len(b) - 1 = 0
        BY <1>5, <2>1, EmptySeq
      <3>2. Len(b) = 1
        BY <1>3, <3>1
      <3> QED BY <1>3, <1>4, <3>2 DEF Last
    <2>2. Live(c)' => Tail(b) = <<>>
      BY <1>2 DEF Live
    <2>3. NextLive(c)' = NextLive(c)
      BY <1>2 DEF NextLive
    <2>4. ASSUME Live(c)'
          PROVE  /\ highest'[c] <= Last(delivered'[c])
                 /\ Last(delivered'[c]) = highest'[c]
                 /\ NextLive(c)' <= Last(delivered'[c]) + 1
      BY <1>2, <1>3, <1>7, <2>1, <2>2, <2>3, <2>4
    <2> QED BY <1>7, <2>4 DEF Following
  <1>12. InOrder(c)'
    <2>1. Increasing(s) /\ (~lagged[c] => Consecutive(s))
      BY <1>1 DEF ClientInv, InOrder, s
    <2>2. s # <<>> => Last(s) \in Nat
      BY <1>3 DEF Last
    <2>3. Increasing(Append(s, n))
      BY <1>3, <1>4, <2>1, <2>2, AppendInOrder
    <2>4. ~lagged[c] => Consecutive(Append(s, n))
      BY <1>3, <1>4, <2>1, <2>2, AppendConsecutive
    <2> QED BY <1>2, <2>3, <2>4 DEF InOrder
  <1> QED BY <1>6, <1>8, <1>9, <1>10, <1>11, <1>12 DEF ClientInv

\* A live event is the successor of the last one delivered, or a duplicate.
LEMMA ReceiveStep ==
  ASSUME ClientsInv, NEW c \in Clients, Receive(c)
  PROVE  ClientInv(c)' /\ TypeOK'
  <1> DEFINE s == delivered[c]
             n == sent[pos[c]]
  <1>1. /\ ClientInv(c) /\ ClientTypeOK(c) /\ Following(c) /\ InOrder(c)
        /\ Len(sent) \in Nat /\ sent' = sent
    BY ChannelIsPrefix DEF ClientsInv, ClientInv, Receive, streamVars
  <1>2. /\ conn'[c] = "streaming" /\ conn[c] = "streaming" /\ Live(c) /\ Live(c)'
        /\ pos'[c] = pos[c] + 1 /\ pos[c] \in 1..Len(sent)
        /\ highest'[c] = highest[c] /\ lagged'[c] = lagged[c]
        /\ backlog'[c] = <<>> /\ backlog[c] = <<>>
    BY <1>1 DEF Receive, ClientsInv, TypeOK, Live, OldestRetained, ClientTypeOK
  <1>3. /\ s \in Seq(Nat) /\ n \in Nat /\ n = NextLive(c) /\ n < Len(sent)
        /\ NextLive(c)' = n + 1
    BY <1>1, <1>2, ChannelIsPrefix DEF ClientsInv, ClientTypeOK, NextLive
  <1>0. /\ delivered' = IF AlreadyReplayed(c, n) THEN delivered
                         ELSE [delivered EXCEPT ![c] = Append(s, n)]
        /\ pos' = [pos EXCEPT ![c] = pos[c] + 1]
        /\ UNCHANGED <<streamVars, conn, backlog, highest, lagged>>
    BY DEF Receive
  <1> HIDE DEF s, n
  <1>9. delivered' \in [Clients -> Seq(Nat)] => TypeOK'
    BY <1>0, <1>2 DEF ClientsInv, TypeOK, StreamTypeOK, streamVars
  <1>4. s # <<>> => Last(s) \in Nat
    BY <1>3 DEF Last
  <1>5. CASE AlreadyReplayed(c, n)
    <2>1. delivered' = delivered
      BY <1>0, <1>5
    <2>2. TypeOK'
      BY <1>9, <2>1 DEF ClientsInv, TypeOK
    <2>3. ClientTypeOK(c)' /\ Closed(c)' /\ Resuming(c)' /\ Replaying(c)'
      BY <1>1, <1>2, <1>3, <2>1 DEF ClientTypeOK, Closed, Resuming, Replaying, NextLive
    <2>4. highest[c] \in Nat /\ n <= highest[c] /\ s # <<>> /\ highest[c] <= Last(s)
      BY <1>1, <1>2, <1>5 DEF AlreadyReplayed, ClientTypeOK, Following, s
    <2>5. Last(s) < n + 1 \/ Last(s) = highest[c]
      BY <1>1, <1>2, <1>3, <1>4, <2>4 DEF Following, s
    <2>6. n + 1 <= Last(s) + 1
      BY <1>3, <1>4, <2>4
    <2>7. Following(c)'
      <3>1. /\ delivered'[c] = s /\ s # <<>>
            /\ highest'[c] <= Last(s)
            /\ Last(s) < NextLive(c)' \/ Last(s) = highest'[c]
            /\ NextLive(c)' <= Last(s) + 1
        BY <1>2, <1>3, <2>1, <2>4, <2>5, <2>6 DEF s
      <3> QED BY <3>1 DEF Following
    <2>8. InOrder(c)'
      BY <1>1, <1>2, <2>1 DEF InOrder
    <2> QED BY <2>2, <2>3, <2>7, <2>8 DEF ClientInv
  <1>6. CASE ~AlreadyReplayed(c, n)
    <2> DEFINE t == Append(s, n)
    <2>1. delivered' = [delivered EXCEPT ![c] = t]
      BY <1>0, <1>6
    <2>2. /\ t \in Seq(Nat) /\ t # <<>> /\ Last(t) = n
          /\ \A i \in DOMAIN t : i \in DOMAIN s \/ t[i] = n
          /\ \A i \in DOMAIN s : t[i] = s[i]
      <3>1. s \in Seq(Nat) /\ n \in Nat
        BY <1>3
      <3> QED BY ONLY <3>1, LastOfAppend DEF t
    <2>3. TypeOK'
      BY <1>9, <2>1, <2>2 DEF ClientsInv, TypeOK
    <2>4. delivered'[c] = t
      BY <2>1 DEF ClientsInv, TypeOK
    <2>5. s # <<>> => Last(s) < n /\ (~lagged[c] => Last(s) + 1 = n)
      <3>1. s # <<>> => Last(s) < n \/ Last(s) = highest[c]
        BY <1>1, <1>2, <1>3 DEF Following, s
      <3>2. highest[c] = None \/ highest[c] < n
        BY <1>1, <1>3, <1>6 DEF AlreadyReplayed, ClientTypeOK
      <3>3. s # <<>> => Last(s) < n
        BY <1>4, <3>1, <3>2, NoneAssumption
      <3>4. s # <<>> /\ ~lagged[c] => n <= Last(s) + 1
        BY <1>1, <1>2, <1>3 DEF Following, s
      <3> QED BY <1>3, <1>4, <3>3, <3>4
    <2>6. Increasing(t)
      BY <1>1, <1>3, <2>5, AppendInOrder DEF InOrder, s
    <2>7. ~lagged[c] => Consecutive(t)
      BY <1>1, <1>3, <2>5, AppendConsecutive DEF InOrder, s
    <2> HIDE DEF t
    <2>8. ClientTypeOK(c)'
      <3>1. \A i \in DOMAIN t : t[i] < Len(sent)
        BY <1>1, <1>3, <2>2 DEF ClientTypeOK, s
      <3> QED BY <1>1, <1>2, <2>2, <2>4, <3>1 DEF ClientTypeOK, NextLive
    <2>9. Closed(c)' /\ Resuming(c)' /\ Replaying(c)'
      BY <1>2 DEF Closed, Resuming, Replaying
    <2>10. highest[c] # None => highest[c] <= n
      BY <1>1, <1>3, <1>6 DEF AlreadyReplayed, ClientTypeOK
    <2>11. Following(c)'
      <3>1. /\ delivered'[c] # <<>> /\ Last(delivered'[c]) = n
            /\ highest'[c] # None => highest'[c] <= n
            /\ n < NextLive(c)' /\ NextLive(c)' <= n + 1
        BY <1>2, <1>3, <2>2, <2>4, <2>10
      <3> QED BY <3>1 DEF Following
    <2>12. InOrder(c)'
      BY <1>2, <2>4, <2>6, <2>7 DEF InOrder
    <2> QED BY <2>3, <2>8, <2>9, <2>11, <2>12 DEF ClientInv
  <1> QED BY <1>5, <1>6

\* An overtaken receiver skips forward, never back, and is marked.
LEMMA LagStep ==
  ASSUME ClientsInv, NEW c \in Clients, Lag(c)
  PROVE  ClientInv(c)' /\ TypeOK'
  <1> USE DEF Lag
  <1>1. ClientInv(c) /\ Len(sent) \in Nat /\ sent' = sent
    BY ChannelIsPrefix DEF ClientsInv, streamVars
  <1>2. /\ conn'[c] = "streaming" /\ Live(c) /\ Live(c)'
        /\ pos'[c] = OldestRetained /\ pos[c] < OldestRetained
        /\ highest'[c] = highest[c] /\ lagged'[c]
        /\ backlog'[c] = <<>> /\ delivered'[c] = delivered[c]
    BY DEF ClientsInv, TypeOK, Live
  <1>3. OldestRetained \in Nat \ {0} /\ OldestRetained <= Len(sent) + 1
    BY <1>1, ReplayBufferAssumption DEF OldestRetained
  <1>4. TypeOK'
    BY <1>3 DEF ClientsInv, TypeOK, StreamTypeOK, streamVars
  <1>5. ClientTypeOK(c)'
    BY <1>1, <1>2, <1>3 DEF ClientInv, ClientTypeOK, NextLive
  <1>6. Closed(c)' /\ Resuming(c)' /\ Replaying(c)'
    BY <1>2 DEF Closed, Resuming, Replaying
  <1>7. Following(c)'
    <2>1. delivered[c] # <<>> => Last(delivered[c]) \in Nat
      BY <1>1 DEF ClientInv, ClientTypeOK, Last
    <2> QED BY <1>1, <1>2, <1>3, <2>1 DEF ClientInv, ClientTypeOK, Following, NextLive
  <1>8. InOrder(c)'
    BY <1>1, <1>2 DEF ClientInv, InOrder
  <1> QED BY <1>4, <1>5, <1>6, <1>7, <1>8 DEF ClientInv

\* A broken connection forgets the backlog and nothing else.
LEMMA DisconnectStep ==
  ASSUME ClientsInv, NEW c \in Clients, Disconnect(c)
  PROVE  ClientInv(c)' /\ TypeOK'
  <1> USE DEF Disconnect
  <1>1. /\ ClientInv(c) /\ sent' = sent
        /\ conn'[c] = "idle" /\ backlog'[c] = <<>> /\ highest'[c] = None
        /\ pos'[c] = pos[c] /\ delivered'[c] = delivered[c] /\ lagged'[c] = lagged[c]
    BY DEF ClientsInv, TypeOK, streamVars
  <1>2. TypeOK'
    BY EmptySeq DEF ClientsInv, TypeOK, StreamTypeOK, streamVars
  <1>3. ClientTypeOK(c)'
    BY <1>1, EmptySeq DEF ClientInv, ClientTypeOK, NextLive
  <1>4. Closed(c)' /\ Resuming(c)' /\ Replaying(c)' /\ Following(c)' /\ InOrder(c)'
    BY <1>1 DEF ClientInv, Closed, Resuming, Replaying, Following, Live, InOrder
  <1> QED BY <1>2, <1>3, <1>4 DEF ClientInv

\* A client that starts over has an empty, hence orderly, view.
LEMMA RefetchStep ==
  ASSUME ClientsInv, NEW c \in Clients, Refetch(c)
  PROVE  ClientInv(c)' /\ TypeOK'
  <1> USE DEF Refetch
  <1>1. /\ ClientInv(c) /\ sent' = sent
        /\ conn[c] = "gone" /\ conn'[c] = "idle"
        /\ backlog'[c] = backlog[c] /\ highest'[c] = highest[c]
        /\ pos'[c] = pos[c] /\ delivered'[c] = <<>> /\ lagged'[c] = FALSE
    BY DEF ClientsInv, TypeOK, streamVars
  <1>2. TypeOK'
    BY EmptySeq DEF ClientsInv, TypeOK, StreamTypeOK, streamVars
  <1>3. ClientTypeOK(c)'
    BY <1>1, EmptySeq DEF ClientInv, ClientTypeOK, NextLive
  <1>4. Closed(c)' /\ Resuming(c)' /\ Replaying(c)' /\ Following(c)'
    BY <1>1 DEF ClientInv, Closed, Resuming, Replaying, Following, Live
  <1>5. InOrder(c)'
    BY <1>1 DEF InOrder, Increasing, Consecutive
  <1> QED BY <1>2, <1>3, <1>4, <1>5 DEF ClientInv

-----------------------------------------------------------------------------
(* All clients                                                             *)

\* The inductive invariant holds before the first event and the first client.
LEMMA ClientsInvInit == Init => ClientsInv
  <1> SUFFICES ASSUME Init PROVE ClientsInv
    OBVIOUS
  <1>1. StreamInv /\ sent = <<>>
    BY StreamInvInit DEF Init, StreamInit
  <1>2. TypeOK
    BY <1>1, EmptySeq DEF Init, TypeOK, StreamInv
  <1>3. ASSUME NEW c \in Clients
        PROVE  ClientInv(c)
    <2>1. /\ conn[c] = "idle" /\ pos[c] = 1 /\ backlog[c] = <<>>
          /\ highest[c] = None /\ delivered[c] = <<>>
      BY DEF Init
    <2>2. ClientTypeOK(c)
      BY <1>1, <2>1, EmptySeq DEF ClientTypeOK, NextLive
    <2>3. Closed(c) /\ Resuming(c) /\ Replaying(c) /\ Following(c)
      BY <2>1 DEF Closed, Resuming, Replaying, Following, Live
    <2>4. InOrder(c)
      BY <2>1, EmptySeq DEF InOrder, Increasing, Consecutive
    <2> QED BY <2>2, <2>3, <2>4 DEF ClientInv
  <1> QED BY <1>1, <1>2, <1>3 DEF ClientsInv

\* Every step of an emitter or of a client preserves the inductive invariant.
LEMMA ClientsInvStep == ClientsInv /\ [Next]_vars => ClientsInv'
  <1> SUFFICES ASSUME ClientsInv, [Next]_vars PROVE ClientsInv'
    OBVIOUS
  <1>1. StreamInv /\ StreamInv'
    BY StreamInvStep DEF ClientsInv
  <1>2. Len(sent) \in Nat /\ Len(sent') \in Nat
    BY <1>1, ChannelIsPrefix DEF StreamInv, StreamTypeOK
  <1>3. ASSUME UNCHANGED clientVars, Len(sent) <= Len(sent')
        PROVE  TypeOK' /\ \A c \in Clients : ClientInv(c)'
    <2>1. TypeOK'
      BY <1>1, <1>3 DEF ClientsInv, TypeOK, StreamInv, clientVars
    <2>2. ASSUME NEW c \in Clients
          PROVE  ClientInv(c)'
      BY <1>2, <1>3, ClientUnchanged DEF ClientsInv, clientVars
    <2> QED BY <2>1, <2>2
  <1>4. ASSUME NEW e \in Emitters, Emit(e)
        PROVE  UNCHANGED clientVars /\ Len(sent) <= Len(sent')
    <2>1. sent' = sent \/ Len(sent') = Len(sent) + 1
      BY <1>4, <1>1 DEF Emit, EmitStep, Allocate, Retain, Broadcast,
                        StreamInv, StreamTypeOK
    <2> QED BY <1>2, <1>4, <2>1 DEF Emit
  <1>5. ASSUME NEW c \in Clients, ClientStep(c)
        PROVE  TypeOK' /\ \A d \in Clients : ClientInv(d)'
    <2>1. TypeOK' /\ ClientInv(c)'
      BY <1>5, SubscribeStep, SnapshotStep, RefuseReplayStep, ReplayStep, ReceiveStep,
         LagStep, DisconnectStep, RefetchStep DEF ClientStep
    <2>2. ASSUME NEW d \in Clients, d # c
          PROVE  ClientInv(d)'
      <3>1. /\ conn'[d] = conn[d] /\ pos'[d] = pos[d] /\ backlog'[d] = backlog[d]
            /\ highest'[d] = highest[d] /\ delivered'[d] = delivered[d]
            /\ lagged'[d] = lagged[d] /\ sent' = sent
        BY <1>5, <2>2 DEF ClientsInv, TypeOK, ClientStep, Subscribe, Snapshot, RefuseReplay,
                          Replay, Receive, Lag, Disconnect, Refetch, streamVars
      <3> QED BY <1>2, <3>1, ClientUnchanged DEF ClientsInv
    <2> QED BY <2>1, <2>2
  <1>6. CASE UNCHANGED vars
    BY <1>1, <1>2, <1>3, <1>6 DEF vars, streamVars, ClientsInv
  <1> QED BY <1>1, <1>3, <1>4, <1>5, <1>6 DEF Next, ClientsInv

\* The inductive invariant holds in every reachable state.
LEMMA InvAlways == Spec => []ClientsInv
  BY ClientsInvInit, ClientsInvStep, PTL DEF Spec

\* Every variable keeps its type: in particular every snapshot is a sequence
\* of sequence numbers, which rests on the buffer being sorted.
THEOREM ClientTypeCorrect == Spec => []TypeOK
  <1>1. ClientsInv => TypeOK
    BY DEF ClientsInv
  <1> QED BY <1>1, InvAlways, PTL

\* No client is ever given an event twice or out of order, over any number of
\* connections: subscribing before the snapshot and filtering by
\* highest_replayed leave no overlap.
THEOREM AlwaysDeliveredInOrder == Spec => []DeliveredInOrder
  <1>1. ClientsInv => DeliveredInOrder
    BY DEF ClientsInv, ClientInv, InOrder, DeliveredInOrder
  <1> QED BY <1>1, InvAlways, PTL

\* Being overtaken by the channel is the only way to miss an event: replay, the
\* 410 refusal and the join of backlog and live stream never lose one.
THEOREM GapsComeFromLagAlone == Spec => []NoGapUnlessLagged
  <1>1. ClientsInv => NoGapUnlessLagged
    BY DEF ClientsInv, ClientInv, InOrder, NoGapUnlessLagged
  <1> QED BY <1>1, InvAlways, PTL

-----------------------------------------------------------------------------
(* Refinement                                                              *)

\* What a client is shown next is an event on record, later than the last.
LEMMA ShownFromTheRecord ==
  ASSUME ClientsInv, NEW c \in Clients, NEW n \in Nat, n < Len(sent),
         delivered[c] # <<>> => Last(delivered[c]) < n,
         delivered' = [delivered EXCEPT ![c] = Append(@, n)], record' = record
  PROVE  Log!Show(c)
  <1>1. /\ Len(sent) \in Nat /\ Len(record) \in Nat /\ Len(sent) <= Len(record)
        /\ \A i \in 1..Len(record) : record[i] = i - 1
    BY ChannelIsPrefix DEF ClientsInv
  <1>2. n + 1 \in DOMAIN record /\ record[n + 1] = n
    <2>1. n + 1 \in 1..Len(record)
      BY <1>1
    <2>2. DOMAIN record = 1..Len(record)
      BY DEF ClientsInv, StreamInv, StreamTypeOK
    <2> QED BY <1>1, <2>1, <2>2
  <1>3. delivered[c] # <<>> => Last(delivered[c]) \in Nat
    BY DEF ClientsInv, ClientInv, ClientTypeOK, Last
  <1>4. /\ delivered[c] # <<>> => record[n + 1] > delivered[c][Len(delivered[c])]
        /\ delivered' = [delivered EXCEPT ![c] = Append(delivered[c], record[n + 1])]
    BY <1>2, <1>3 DEF Last
  <1> QED BY <1>2, <1>4 DEF Log!Show, Log!Last

\* Every step is a step of the ordered log, or leaves it alone.
LEMMA LogStep == ClientsInv /\ ClientsInv' /\ [Next]_vars => [Log!Next]_(Log!vars)
  <1> SUFFICES ASSUME ClientsInv, ClientsInv', [Next]_vars PROVE [Log!Next]_(Log!vars)
    OBVIOUS
  <1>1. ASSUME record' = record, delivered' = delivered
        PROVE  UNCHANGED Log!vars
    BY <1>1 DEF Log!vars
  <1>2. ASSUME NEW e \in Emitters, Emit(e)
        PROVE  Log!Extend \/ UNCHANGED Log!vars
    <2>1. CASE Retain(e)
      <3>1. emission[e].seq = Len(record)
        BY <2>1 DEF ClientsInv, StreamInv, InStep, Retain
      <3> QED BY <1>2, <2>1, <3>1 DEF Log!Extend, Emit, Retain, clientVars
    <2>2. CASE Allocate(e) \/ Broadcast(e)
      BY <1>1, <1>2, <2>2 DEF Emit, Allocate, Broadcast, clientVars
    <2> QED BY <1>2, <2>1, <2>2 DEF Emit, EmitStep
  <1>3. ASSUME NEW c \in Clients, ClientStep(c)
        PROVE  Log!Show(c) \/ Log!StartOver(c) \/ UNCHANGED Log!vars
    <2>0. /\ ClientInv(c) /\ ClientTypeOK(c) /\ Len(sent) \in Nat
          /\ delivered[c] # <<>> => Last(delivered[c]) \in Nat
      BY ChannelIsPrefix DEF ClientsInv, ClientInv, ClientTypeOK, Last
    <2>1. CASE Replay(c)
      <3>1. /\ Head(backlog[c]) \in Nat /\ Head(backlog[c]) < Len(sent)
            /\ delivered[c] # <<>> => Head(backlog[c]) = Last(delivered[c]) + 1
        BY <2>0, <2>1 DEF Replay, ClientInv, ClientTypeOK, Replaying
      <3> DEFINE n == Head(backlog[c])
      <3>2. /\ delivered' = [delivered EXCEPT ![c] = Append(@, n)]
            /\ record' = record
        BY <2>1 DEF Replay, streamVars
      <3>3. delivered[c] # <<>> => Last(delivered[c]) < n
        BY <2>0, <3>1
      <3> HIDE DEF n
      <3> QED BY <3>1, <3>2, <3>3, ShownFromTheRecord DEF n
    <2>2. CASE Receive(c)
      <3> DEFINE n == sent[pos[c]]
      <3>1. CASE AlreadyReplayed(c, n)
        BY <1>1, <2>2, <3>1 DEF Receive, streamVars
      <3>2. CASE ~AlreadyReplayed(c, n)
        <4>1. pos[c] \in 1..Len(sent)
          BY <2>0, <2>2 DEF Receive, OldestRetained, ClientTypeOK
        <4>2. n \in Nat /\ n < Len(sent) /\ n = NextLive(c)
          BY <2>0, <4>1, ChannelIsPrefix DEF ClientsInv, NextLive
        <4>3. delivered[c] # <<>> => Last(delivered[c]) < n \/ Last(delivered[c]) = highest[c]
          BY <2>2, <4>2 DEF ClientsInv, ClientInv, Following, Receive
        <4>4. highest[c] = None \/ highest[c] < n
          BY <2>0, <3>2, <4>2 DEF AlreadyReplayed, ClientTypeOK
        <4>5. delivered[c] # <<>> => Last(delivered[c]) < n
          BY <2>0, <4>3, <4>4, NoneAssumption
        <4>6. delivered' = [delivered EXCEPT ![c] = Append(@, n)] /\ record' = record
          BY <2>2, <3>2 DEF Receive, streamVars
        <4> HIDE DEF n
        <4> QED BY <4>2, <4>5, <4>6, ShownFromTheRecord
      <3> QED BY <3>1, <3>2
    <2>3. CASE Refetch(c)
      BY <2>3 DEF Refetch, Log!StartOver, streamVars
    <2>4. CASE Subscribe(c) \/ Snapshot(c) \/ RefuseReplay(c) \/ Lag(c) \/ Disconnect(c)
      BY <1>1, <2>4 DEF Subscribe, Snapshot, RefuseReplay, Lag, Disconnect, streamVars
    <2> QED BY <1>3, <2>1, <2>2, <2>3, <2>4 DEF ClientStep
  <1>4. CASE UNCHANGED vars
    BY <1>1, <1>4 DEF vars, streamVars, clientVars
  <1> QED BY <1>2, <1>3, <1>4 DEF Next, Log!Next

\* The event stream, with its buffer, its channel, its clients and their
\* reconnects, implements the ordered log.
THEOREM StreamImplementsOrderedLog == Spec => ImplementsOrderedLog
  <1>1. Init => Log!Init
    BY DEF Init, StreamInit, Log!Init
  <1> QED BY <1>1, InvAlways, LogStep, PTL DEF Spec, ImplementsOrderedLog, Log!Spec

-----------------------------------------------------------------------------
(* A page                                                                  *)

\* A page is a client like any other: whatever it does to its pool, its timer
\* and its view, the stream takes one of its own steps or none.
LEMMA PageStepIsAStreamStep == ASSUME [PageNext]_pageVars PROVE [Next]_vars
  <1>1. CASE UNCHANGED pageVars
    BY <1>1 DEF pageVars
  <1>2. ASSUME NEW e \in Emitters, Emit(e)
        PROVE  Next
    BY <1>2 DEF Next
  <1>3. ASSUME NEW c \in Clients, ClientStep(c)
        PROVE  Next
    BY <1>3 DEF Next
  <1>4. ASSUME NEW c \in Clients, PageStep(c)
        PROVE  ClientStep(c) \/ UNCHANGED vars
    <2>1. CASE Connects(c) \/ IsRefused(c) \/ Message(c) \/ Breaks(c)
      BY <2>1 DEF Connects, IsRefused, Message, Breaks, ClientStep
    <2>2. CASE TimerFires(c)
      BY <2>2 DEF TimerFires
    <2>3. CASE Closes(c)
      BY <2>3 DEF Closes, ClientStep
    <2> QED BY <1>4, <2>1, <2>2, <2>3 DEF PageStep
  <1> QED BY <1>1, <1>2, <1>3, <1>4 DEF PageNext

\* Clients that are pages, reconnecting, giving up and letting go by the hook's
\* rules, are clients of the event stream.
THEOREM PagesAreClients == PageSpec => Spec
  <1>1. PageInit => Init
    BY DEF PageInit
  <1> QED BY <1>1, PageStepIsAStreamStep, PTL DEF PageSpec, Spec

\* So what the server promises a client a page gets, whatever it does with it:
\* a gapless stream, in order, with nothing missing unless its receiver was
\* overtaken, and one record behind every view.
THEOREM PagesGetWhatClientsArePromised ==
    PageSpec => /\ [](StreamIsGapless /\ DeliveredInOrder /\ NoGapUnlessLagged)
                /\ ImplementsOrderedLog
  BY PagesAreClients, StreamIsAlwaysGapless, AlwaysDeliveredInOrder,
     GapsComeFromLagAlone, StreamImplementsOrderedLog, PTL
-----------------------------------------------------------------------------
(* Followers: the invariant                                                *)

\* The number of the oldest event the replay buffer holds.
OldestKept == Len(record) - Len(events)

\* Not past the backlog yet.
Early(stage) == stage \in {"start", "subscribed"}

\* A gap in v is where the receiver was overtaken, and reaches no further than
\* the buffer's own.
Gaps(v, overtaken) ==
    \A i \in DOMAIN v : i > 1 /\ v[i] # v[i - 1] + 1 => overtaken /\ v[i] <= OldestKept

\* The event at position p of the channel, number p - 1, is in v or next to it,
\* unless the receiver was overtaken.
Continues(p, v, overtaken) ==
    \/ v = <<>>
    \/ Last(v) >= p - 2
    \/ overtaken /\ p - 1 <= OldestKept

\* A follower at this stage, with its receiver at p and v folded.
Stands(stage, p, v, overtaken) ==
    /\ Early(stage) => v = <<>>
    /\ p <= Len(sent) + 1
    /\ Increasing(v)
    /\ \A i \in DOMAIN v : v[i] < Len(record)
    /\ Gaps(v, overtaken)
    /\ Continues(p, v, overtaken)

FollowerInv(f) == Stands(at[f], cursor[f], shown[f], overrun[f])

Stages == {"start", "subscribed", "recv", "check", "refold", "frame", "drain",
           "draw", "returned"}

FollowersTypeOK ==
    /\ at \in [Followers -> Stages]
    /\ cursor \in [Followers -> Nat \ {0}]
    /\ shown \in [Followers -> Seq(Nat)]
    /\ overrun \in [Followers -> BOOLEAN]

RunTypeOK == end \in Nat \cup {None} /\ state \in {"running", "blocked", "terminal"}

FollowInv == StreamInv /\ RunTypeOK /\ FollowersTypeOK /\ \A f \in Followers : FollowerInv(f)

-----------------------------------------------------------------------------
(* Sequences of event numbers                                              *)

\* A stretch of consecutive numbers put after a sequence it is newer than: the
\* result is in order, and no gap is new but the one between the two.
Prolongs(w, v, s, top) ==
    /\ w \in Seq(Nat) /\ w # <<>> /\ Last(w) = top - 1
    /\ Increasing(w)
    /\ \A i \in DOMAIN w : w[i] < top
    /\ \A i \in DOMAIN w : i > 1 /\ w[i] # w[i - 1] + 1 =>
          \/ i \in DOMAIN v /\ w[i] = v[i] /\ w[i - 1] = v[i - 1]
          \/ v # <<>> /\ w[i] = s[1] /\ w[i - 1] = Last(v)

LEMMA StretchAfter ==
  ASSUME NEW v \in Seq(Nat), NEW s \in Seq(Nat), NEW top \in Nat, s # <<>>,
         Increasing(v),
         \A i \in DOMAIN s : s[i] = top - Len(s) + i - 1,
         v # <<>> => Last(v) < s[1]
  PROVE  Prolongs(v \o s, v, s, top)
  <1> DEFINE w == v \o s
  <1>1. /\ Len(v) \in Nat /\ Len(s) \in Nat /\ Len(s) > 0
        /\ DOMAIN v = 1..Len(v) /\ DOMAIN s = 1..Len(s)
    BY Lengths
  <1>2. /\ w \in Seq(Nat) /\ Len(w) = Len(v) + Len(s) /\ DOMAIN w = 1..(Len(v) + Len(s))
        /\ \A i \in 1..(Len(v) + Len(s)) : w[i] = IF i <= Len(v) THEN v[i] ELSE s[i - Len(v)]
    <2>1. /\ v \o s \in Seq(Nat) /\ Len(v \o s) = Len(v) + Len(s)
          /\ \A i \in 1..(Len(v) + Len(s)) : (v \o s)[i] = IF i <= Len(v) THEN v[i] ELSE s[i - Len(v)]
      BY ONLY v \in Seq(Nat), s \in Seq(Nat), ConcatProperties
    <2> HIDE DEF w
    <2> QED BY <1>1, <2>1 DEF w
  <1> HIDE DEF w
  <1>3. \A i \in 1..Len(v) : w[i] = v[i]
    BY <1>1, <1>2
  <1>4. \A i \in (Len(v) + 1)..(Len(v) + Len(s)) : w[i] = top - Len(s) + i - Len(v) - 1
    <2> SUFFICES ASSUME NEW i \in (Len(v) + 1)..(Len(v) + Len(s))
                 PROVE  w[i] = top - Len(s) + i - Len(v) - 1
      OBVIOUS
    <2>1. w[i] = s[i - Len(v)] /\ i - Len(v) \in 1..Len(s)
      BY <1>1, <1>2
    <2> QED BY <1>1, <2>1
  <1>5. s[1] = top - Len(s) /\ s[1] \in Nat
    <2>1. 1 \in DOMAIN s
      BY <1>1
    <2>2. s[1] \in Nat
      BY ONLY s \in Seq(Nat), <2>1
    <2>3. s[1] = top - Len(s) + 1 - 1
      BY <2>1
    <2> QED BY <1>1, <2>2, <2>3
  <1>6. \A i \in 1..Len(v) : v[i] \in Nat /\ v[i] <= v[Len(v)] /\ v[Len(v)] \in Nat
    <2> SUFFICES ASSUME NEW i \in 1..Len(v)
                 PROVE  v[i] \in Nat /\ v[i] <= v[Len(v)] /\ v[Len(v)] \in Nat
      OBVIOUS
    <2>1. v[i] \in Nat /\ v[Len(v)] \in Nat /\ Len(v) \in DOMAIN v
      BY <1>1
    <2>2. i < Len(v) => v[i] < v[Len(v)]
      BY <1>1, <2>1 DEF Increasing
    <2> DEFINE n == Len(v)
    <2>3. i = Len(v) \/ i < Len(v)
      <3>1. n \in Nat /\ i \in 1..n
        BY <1>1
      <3> HIDE DEF n
      <3>2. i = n \/ i < n
        BY <3>1
      <3> QED BY <3>2 DEF n
    <2>4. CASE i = Len(v)
      <3>1. v[i] = v[Len(v)]
        BY <2>4
      <3> QED BY <2>1, <3>1
    <2>5. CASE i < Len(v)
      BY <2>1, <2>2, <2>5
    <2> QED BY <2>3, <2>4, <2>5
  <1>7. w # <<>> /\ Last(w) = top - 1
    <2>1. Len(v) + Len(s) \in (Len(v) + 1)..(Len(v) + Len(s))
      BY <1>1
    <2>2. w[Len(v) + Len(s)] = top - 1
      BY <1>1, <1>4, <2>1
    <2> QED BY <1>1, <1>2, <2>2 DEF Last
  <1>8. \A i \in 1..Len(v) : v[i] < s[1]
    BY <1>1, <1>5, <1>6 DEF Last
  <1>9. Increasing(w)
    <2> SUFFICES ASSUME NEW i \in 1..(Len(v) + Len(s)), NEW j \in 1..(Len(v) + Len(s)), i < j
                 PROVE  w[i] < w[j]
      BY <1>2 DEF Increasing
    <2>1. CASE j <= Len(v)
      <3>1. i \in DOMAIN v /\ j \in DOMAIN v
        BY <1>1, <2>1
      <3>2. v[i] < v[j]
        BY <3>1 DEF Increasing
      <3>3. w[i] = v[i] /\ w[j] = v[j]
        BY <1>1, <1>3, <3>1
      <3> QED BY <3>2, <3>3
    <2>2. CASE i <= Len(v) /\ j > Len(v)
      <3>1. w[i] = v[i] /\ v[i] < s[1] /\ v[i] \in Nat
        BY <1>1, <1>3, <1>6, <1>8, <2>2
      <3>2. w[j] = top - Len(s) + j - Len(v) - 1
        BY <1>1, <1>4, <2>2
      <3> QED BY <1>1, <1>5, <2>2, <3>1, <3>2
    <2>3. CASE i > Len(v)
      <3>1. /\ w[i] = top - Len(s) + i - Len(v) - 1
            /\ w[j] = top - Len(s) + j - Len(v) - 1
        BY <1>1, <1>4, <2>3
      <3> QED BY <1>1, <2>3, <3>1
    <2> QED BY <1>1, <2>1, <2>2, <2>3
  <1>10. \A i \in DOMAIN w : w[i] < top
    <2> SUFFICES ASSUME NEW i \in 1..(Len(v) + Len(s)) PROVE w[i] < top
      BY <1>2
    <2>1. CASE i <= Len(v)
      <3>1. w[i] = v[i] /\ v[i] < s[1] /\ v[i] \in Nat
        BY <1>1, <1>3, <1>6, <1>8, <2>1
      <3> QED BY <1>1, <1>5, <3>1
    <2>2. CASE i > Len(v)
      <3>1. w[i] = top - Len(s) + i - Len(v) - 1
        BY <1>1, <1>4, <2>2
      <3> QED BY <1>1, <2>2, <3>1
    <2> QED BY <1>1, <2>1, <2>2
  <1>11. ASSUME NEW i \in DOMAIN w, i > 1, w[i] # w[i - 1] + 1
         PROVE  \/ i \in DOMAIN v /\ w[i] = v[i] /\ w[i - 1] = v[i - 1]
                \/ v # <<>> /\ w[i] = s[1] /\ w[i - 1] = Last(v)
    <2>0. i \in 1..(Len(v) + Len(s))
      BY <1>2, <1>11
    <2>1. CASE i <= Len(v)
      <3>1. i \in 1..Len(v) /\ i - 1 \in 1..Len(v)
        BY <1>1, <1>11, <2>0, <2>1
      <3> QED BY <1>1, <1>3, <3>1
    <2>2. CASE i = Len(v) + 1
      <3>0. w[i] = top - Len(s) + i - Len(v) - 1
        BY <1>1, <1>4, <2>2
      <3>1. w[i] = s[1] /\ Len(v) > 0 /\ v # <<>>
        BY <1>1, <1>5, <1>11, <2>2, <3>0
      <3>2. w[i - 1] = Last(v)
        BY <1>1, <1>3, <2>2, <3>1 DEF Last
      <3> QED BY <3>1, <3>2
    <2>3. CASE i > Len(v) + 1
      <3>1. i \in (Len(v) + 1)..(Len(v) + Len(s)) /\ i - 1 \in (Len(v) + 1)..(Len(v) + Len(s))
        BY <1>1, <2>0, <2>3
      <3>2. /\ w[i] = top - Len(s) + i - Len(v) - 1
            /\ w[i - 1] = top - Len(s) + (i - 1) - Len(v) - 1
        BY <1>4, <3>1
      <3>3. w[i] = w[i - 1] + 1
        BY <1>1, <3>1, <3>2
      <3> QED BY <1>11, <3>3
    <2>4. i \in Nat
      BY <1>1, <1>2, <1>11
    <2> QED BY <1>1, <2>1, <2>2, <2>3, <2>4
  <1>12. Prolongs(w, v, s, top)
    BY <1>2, <1>7, <1>9, <1>10, <1>11 DEF Prolongs
  <1> QED BY <1>12 DEF w

-----------------------------------------------------------------------------
(* What a follower folds                                                   *)

\* A stretch a follower may be handed: numbers that end just below top, and if
\* newer than what it has, the next one or one that only the buffer explains.
MayFold(f, s, top) ==
    /\ s \in Seq(Nat) /\ top \in 0..Len(record)
    /\ \A i \in DOMAIN s : s[i] = top - Len(s) + i - 1
    /\ s # <<>> /\ shown[f] # <<>> =>
          \/ s[1] <= Last(shown[f]) + 1
          \/ overrun[f] /\ s[1] <= OldestKept

\* What folding it leaves: still in order and recorded, and only such gaps.
LEMMA FoldedInOrder ==
  ASSUME FollowInv, NEW f \in Followers, NEW s, NEW top, MayFold(f, s, top)
  PROVE  LET v == Folded(f, s) IN
           /\ v \in Seq(Nat) /\ Increasing(v)
           /\ \A i \in DOMAIN v : v[i] < Len(record)
           /\ \A i \in DOMAIN v : i > 1 /\ v[i] # v[i - 1] + 1 => overrun[f] /\ v[i] <= OldestKept
           /\ s = <<>> => v = shown[f]
           /\ s # <<>> /\ (Len(s) = 1 \/ shown[f] = <<>> \/ Last(shown[f]) < s[1]) =>
                 v # <<>> /\ Last(v) \in Nat /\ Last(v) >= top - 1
  <1> DEFINE u == shown[f]
  <1>1. /\ u \in Seq(Nat) /\ Increasing(u) /\ (\A i \in DOMAIN u : u[i] < Len(record))
        /\ \A i \in DOMAIN u : i > 1 /\ u[i] # u[i - 1] + 1 => overrun[f] /\ u[i] <= OldestKept
    BY DEF FollowInv, FollowersTypeOK, FollowerInv, Stands, Gaps
  <1>2. /\ s \in Seq(Nat) /\ top \in Nat /\ top <= Len(record) /\ Len(record) \in Nat
        /\ \A i \in DOMAIN s : s[i] = top - Len(s) + i - 1
        /\ s # <<>> /\ u # <<>> => \/ s[1] <= Last(u) + 1
                                   \/ overrun[f] /\ s[1] <= OldestKept
    BY DEF MayFold, FollowInv, StreamInv, StreamTypeOK
  <1>3. Folded(f, s) = IF s # <<>> /\ u # <<>> /\ s[1] <= Last(u) THEN u ELSE u \o s
    BY DEF Folded, LastShown
  <1>4. u # <<>> => Last(u) \in Nat
    BY <1>1 DEF Last
  <1>5. s # <<>> => s[1] \in Nat /\ (Len(s) = 1 => s[1] = top - 1)
    <2> SUFFICES ASSUME s # <<>> PROVE s[1] \in Nat /\ (Len(s) = 1 => s[1] = top - 1)
      OBVIOUS
    <2>1. 1 \in DOMAIN s /\ Len(s) \in Nat
      BY <1>2
    <2>2. s[1] \in Nat
      BY <1>2, <2>1
    <2>3. s[1] = top - Len(s) + 1 - 1
      BY <1>2, <2>1
    <2>4. top - Len(s) + 1 - 1 = top - Len(s)
      BY <1>2, <2>1
    <2> QED BY <2>2, <2>3, <2>4
  <1> HIDE DEF u
  <1>6. CASE s = <<>>
    <2>1. Folded(f, s) = u
      BY <1>1, <1>3, <1>6
    <2> QED BY <1>1, <1>6, <2>1 DEF u
  <1>7. CASE s # <<>> /\ u # <<>> /\ s[1] <= Last(u)
    <2>1. Folded(f, s) = u
      BY <1>3, <1>7
    <2>2. Len(s) = 1 => Last(u) >= top - 1
      BY <1>2, <1>4, <1>5, <1>7
    <2>3. ~(Last(u) < s[1])
      BY <1>4, <1>5, <1>7
    <2> QED BY <1>1, <1>4, <1>7, <2>1, <2>2, <2>3 DEF u
  <1>8. CASE s # <<>> /\ (u # <<>> => Last(u) < s[1])
    <2> DEFINE v == u \o s
    <2>1. Folded(f, s) = v
      <3>1. ~(s # <<>> /\ u # <<>> /\ s[1] <= Last(u))
        BY <1>4, <1>5, <1>8
      <3> QED BY <1>3, <3>1
    <2>2. u # <<>> /\ s[1] # Last(u) + 1 => overrun[f] /\ s[1] <= OldestKept
      BY <1>2, <1>4, <1>5, <1>8
    <2>3. /\ v \in Seq(Nat) /\ v # <<>> /\ Last(v) = top - 1 /\ Increasing(v)
          /\ \A i \in DOMAIN v : v[i] < Len(record)
          /\ \A i \in DOMAIN v : i > 1 /\ v[i] # v[i - 1] + 1 =>
                \/ i \in DOMAIN u /\ v[i] = u[i] /\ v[i - 1] = u[i - 1]
                \/ u # <<>> /\ v[i] = s[1] /\ v[i - 1] = Last(u)
      <3>1. /\ v \in Seq(Nat) /\ v # <<>> /\ Last(v) = top - 1 /\ Increasing(v)
            /\ \A i \in DOMAIN v : v[i] < top
            /\ \A i \in DOMAIN v : i > 1 /\ v[i] # v[i - 1] + 1 =>
                  \/ i \in DOMAIN u /\ v[i] = u[i] /\ v[i - 1] = u[i - 1]
                  \/ u # <<>> /\ v[i] = s[1] /\ v[i - 1] = Last(u)
        <4>1. u \in Seq(Nat) /\ s \in Seq(Nat) /\ top \in Nat /\ s # <<>> /\ Increasing(u)
          BY <1>1, <1>2, <1>8
        <4>2. \A i \in DOMAIN s : s[i] = top - Len(s) + i - 1
          BY <1>2
        <4>3. u # <<>> => Last(u) < s[1]
          BY <1>8
        <4>4. Prolongs(v, u, s, top)
          BY ONLY <4>1, <4>2, <4>3, StretchAfter
        <4> HIDE DEF v
        <4> QED BY ONLY <4>4 DEF Prolongs
      <3> HIDE DEF v
      <3>2. \A i \in DOMAIN v : v[i] < Len(record)
        BY <1>2, <3>1
      <3> QED BY <3>1, <3>2
    <2> HIDE DEF v
    <2>4. \A i \in DOMAIN v : i > 1 /\ v[i] # v[i - 1] + 1 => overrun[f] /\ v[i] <= OldestKept
      BY <1>1, <2>2, <2>3
    <2>5. Last(v) \in Nat
      BY <2>3 DEF Last
    <2> QED BY <1>2, <1>8, <2>1, <2>3, <2>4, <2>5
  <1> QED BY <1>4, <1>5, <1>6, <1>7, <1>8


-----------------------------------------------------------------------------
(* The steps of a follower                                                 *)

LEMMA FollowInvInit == FollowInit => FollowInv
  <1> SUFFICES ASSUME FollowInit PROVE FollowInv
    OBVIOUS
  <1> USE DEF FollowInit
  <1>1. StreamInv /\ RunTypeOK
    BY StreamInvInit DEF RunTypeOK
  <1>2. FollowersTypeOK
    BY EmptySeq DEF FollowersTypeOK, Stages
  <1>3. ASSUME NEW f \in Followers
        PROVE  FollowerInv(f)
    <2>1. at[f] = "start" /\ shown[f] = <<>> /\ cursor[f] = 1 /\ sent = <<>>
      BY DEF StreamInit
    <2> QED BY <2>1 DEF FollowerInv, Stands, Gaps, Continues, Increasing
  <1> QED BY <1>1, <1>2, <1>3 DEF FollowInv

\* What a follower has folded and where its receiver stands stay true while
\* others emit, fold or fall behind.
LEMMA FollowerKept ==
  ASSUME FollowInv, StreamInv', NEW f \in Followers,
         Len(sent) <= Len(sent'), Len(record) <= Len(record'), OldestKept <= OldestKept',
         Early(at'[f]) <=> Early(at[f]),
         cursor'[f] = cursor[f], shown'[f] = shown[f], overrun'[f] = overrun[f]
  PROVE  FollowerInv(f)'
  <1>1. /\ FollowerInv(f) /\ cursor[f] \in Nat /\ shown[f] \in Seq(Nat)
        /\ Len(sent) \in Nat /\ Len(record) \in Nat /\ OldestKept \in Int
        /\ Len(sent') \in Nat /\ Len(record') \in Nat /\ OldestKept' \in Int
    BY DEF FollowInv, FollowersTypeOK, StreamInv, StreamTypeOK, OldestKept
  <1>2. \A i \in DOMAIN shown[f] : shown[f][i] \in Nat
    BY <1>1
  <1>3. cursor'[f] <= Len(sent') + 1
    BY <1>1 DEF FollowerInv, Stands
  <1>4. \A i \in DOMAIN shown'[f] : shown'[f][i] < Len(record')
    BY <1>1, <1>2 DEF FollowerInv, Stands
  <1>5. Gaps(shown[f], overrun[f])'
    BY <1>1, <1>2 DEF FollowerInv, Stands, Gaps
  <1>6. Continues(cursor[f], shown[f], overrun[f])'
    <2>1. shown[f] # <<>> => Last(shown[f]) \in Nat
      BY <1>1 DEF Last
    <2>2. Continues(cursor[f], shown[f], overrun[f])
      BY <1>1 DEF FollowerInv, Stands
    <2> QED BY <1>1, <2>1, <2>2 DEF Continues
  <1> QED BY <1>1, <1>3, <1>4, <1>5, <1>6 DEF FollowerInv, Stands

\* What a step of follower f owes: it reads the stream and the run without
\* changing them, and touches no other follower.
Kept(f) ==
    /\ UNCHANGED <<streamVars, end, state>>
    /\ FollowersTypeOK'
    /\ \A g \in Followers \ {f} :
          at'[g] = at[g] /\ cursor'[g] = cursor[g] /\ shown'[g] = shown[g] /\ overrun'[g] = overrun[g]
    /\ FollowerInv(f)'

LEMMA KeptKeeps ==
  ASSUME FollowInv, NEW f \in Followers, Kept(f)
  PROVE  FollowInv'
  <1>1. StreamInv' /\ RunTypeOK' /\ FollowersTypeOK' /\ FollowerInv(f)'
    BY StreamInvKept DEF FollowInv, Kept, RunTypeOK
  <1>2. ASSUME NEW g \in Followers, g # f
        PROVE  FollowerInv(g)'
    <2>1. /\ at'[g] = at[g] /\ cursor'[g] = cursor[g] /\ shown'[g] = shown[g]
          /\ overrun'[g] = overrun[g]
      BY <1>2 DEF Kept
    <2>2. sent' = sent /\ record' = record /\ OldestKept' = OldestKept
      BY DEF Kept, streamVars, OldestKept
    <2>3. /\ Len(sent) <= Len(sent') /\ Len(record) <= Len(record')
          /\ OldestKept <= OldestKept'
      BY <2>2 DEF FollowInv, StreamInv, StreamTypeOK, OldestKept
    <2> QED BY <1>1, <2>1, <2>3, FollowerKept DEF Early
  <1> QED BY <1>1, <1>2 DEF FollowInv

\* Follower f comes to stand like this.
ComesTo(f, stage, p, v, overtaken) ==
    /\ at' = [at EXCEPT ![f] = stage]
    /\ cursor' = [cursor EXCEPT ![f] = p]
    /\ shown' = [shown EXCEPT ![f] = v]
    /\ overrun' = [overrun EXCEPT ![f] = overtaken]
    /\ UNCHANGED <<streamVars, end, state>>

LEMMA ComingKeeps ==
  ASSUME FollowInv, NEW f \in Followers, NEW stage \in Stages, NEW p \in Nat \ {0},
         NEW v \in Seq(Nat), NEW overtaken \in BOOLEAN,
         ComesTo(f, stage, p, v, overtaken), Stands(stage, p, v, overtaken)
  PROVE  Kept(f)
  <1>1. FollowersTypeOK
    BY DEF FollowInv
  <1>2. FollowersTypeOK'
    BY <1>1 DEF FollowersTypeOK, ComesTo
  <1>3. \A g \in Followers \ {f} :
          at'[g] = at[g] /\ cursor'[g] = cursor[g] /\ shown'[g] = shown[g] /\ overrun'[g] = overrun[g]
    BY <1>1 DEF FollowersTypeOK, ComesTo
  <1>4. at'[f] = stage /\ cursor'[f] = p /\ shown'[f] = v /\ overrun'[f] = overtaken
    BY <1>1 DEF FollowersTypeOK, ComesTo
  <1>5. UNCHANGED <<streamVars, end, state>>
    BY DEF ComesTo
  <1>6. sent' = sent /\ record' = record /\ events' = events
    BY <1>5 DEF streamVars
  <1>7. FollowerInv(f)'
    BY <1>4, <1>6 DEF FollowerInv, Stands, Gaps, Continues, OldestKept
  <1> QED BY <1>2, <1>3, <1>5, <1>7 DEF Kept

\* A variable a step leaves alone.
LEMMA AsBefore ==
  ASSUME FollowersTypeOK, NEW f \in Followers
  PROVE  /\ at = [at EXCEPT ![f] = at[f]] /\ cursor = [cursor EXCEPT ![f] = cursor[f]]
         /\ shown = [shown EXCEPT ![f] = shown[f]] /\ overrun = [overrun EXCEPT ![f] = overrun[f]]
         /\ at[f] \in Stages /\ cursor[f] \in Nat \ {0}
         /\ shown[f] \in Seq(Nat) /\ overrun[f] \in BOOLEAN
  BY DEF FollowersTypeOK

\* Moving on without folding anything.
LEMMA MovesOn ==
  ASSUME FollowInv, NEW f \in Followers,
         CheckState(f) \/ Tick(f) \/ Drained(f) \/ Draw(f)
  PROVE  Kept(f)
  <1>1. PICK stage \in {"recv", "frame", "drain", "draw", "returned"} :
           /\ at' = [at EXCEPT ![f] = stage]
           /\ ~Early(at[f])
           /\ UNCHANGED <<streamVars, end, state, cursor, shown, overrun>>
    <2>1. CASE CheckState(f)
      BY <2>1 DEF CheckState, Early
    <2>2. CASE Tick(f)
      BY <2>2 DEF Tick, Early
    <2>3. CASE Drained(f)
      BY <2>3 DEF Drained, Early
    <2>4. CASE Draw(f)
      BY <2>4 DEF Draw, Early
    <2> QED BY <2>1, <2>2, <2>3, <2>4
  <1>2. ComesTo(f, stage, cursor[f], shown[f], overrun[f])
    BY <1>1, AsBefore DEF ComesTo, FollowInv
  <1>3. Stands(stage, cursor[f], shown[f], overrun[f]) /\ stage \in Stages
    BY <1>1 DEF FollowInv, FollowerInv, Stands, Early, Stages
  <1> QED BY <1>2, <1>3, AsBefore, ComingKeeps DEF FollowInv

\* Subscribing: nothing is folded yet.
LEMMA SubscribeKeeps ==
  ASSUME FollowInv, NEW f \in Followers, SubscribeFirst(f)
  PROVE  Kept(f)
  <1>1. Len(sent) + 1 \in Nat \ {0}
    BY ChannelIsPrefix DEF FollowInv
  <1>2. ComesTo(f, "subscribed", Len(sent) + 1, shown[f], overrun[f])
    BY AsBefore DEF ComesTo, FollowInv, SubscribeFirst
  <1>3. shown[f] = <<>>
    BY DEF FollowInv, FollowerInv, Stands, Early, SubscribeFirst
  <1>4. Stands("subscribed", Len(sent) + 1, shown[f], overrun[f])
    BY <1>1, <1>3 DEF Stands, Continues, Gaps, Increasing
  <1> QED BY <1>1, <1>2, <1>4, AsBefore, ComingKeeps DEF FollowInv, Stages

\* The receiver has been overtaken: what is left of the channel is no newer
\* than the oldest event of the buffer, which retains as many.
LEMMA OvertakenKeeps ==
  ASSUME FollowInv, NEW f \in Followers, RecvLagged(f) \/ TryRecvLagged(f)
  PROVE  Kept(f)
  <1>1. /\ cursor[f] < OldestRetained /\ ~Early(at[f])
        /\ at' = [at EXCEPT ![f] = "refold"]
        /\ cursor' = [cursor EXCEPT ![f] = OldestRetained]
        /\ overrun' = [overrun EXCEPT ![f] = TRUE]
        /\ UNCHANGED <<streamVars, end, state, shown>>
    BY DEF RecvLagged, TryRecvLagged, Overtaken, Early
  <1>2. ComesTo(f, "refold", OldestRetained, shown[f], TRUE)
    BY <1>1, AsBefore DEF ComesTo, FollowInv
  <1>3. /\ OldestRetained \in Nat \ {0} /\ OldestRetained <= Len(sent) + 1
        /\ OldestRetained - 1 <= OldestKept
    <2>1. /\ Len(sent) \in Nat /\ Len(record) \in Nat /\ Len(sent) <= Len(record)
          /\ Len(events) \in Nat /\ Len(events) <= ReplayBuffer /\ ReplayBuffer \in Nat \ {0}
          /\ cursor[f] \in Nat \ {0}
      BY ChannelIsPrefix, BufferIsBounded, ReplayBufferAssumption, AsBefore DEF FollowInv
    <2>2. Len(sent) > ReplayBuffer
      BY <1>1, <2>1 DEF OldestRetained
    <2>3. OldestRetained = Len(sent) - ReplayBuffer + 1
      BY <2>2 DEF OldestRetained
    <2> QED BY <2>1, <2>2, <2>3 DEF OldestKept
  <1>4. Stands(at[f], cursor[f], shown[f], overrun[f])
    BY DEF FollowInv, FollowerInv
  <1>5. Stands("refold", OldestRetained, shown[f], TRUE)
    BY <1>3, <1>4 DEF Stands, Gaps, Continues, Early
  <1> QED BY <1>2, <1>3, <1>5, AsBefore, ComingKeeps DEF FollowInv, Stages


\* Folding the event the receiver is at: the next one, one folded already, or
\* one behind a gap the receiver was told of.
LEMMA FoldKeeps ==
  ASSUME FollowInv, NEW f \in Followers, Recv(f) \/ TryRecv(f)
  PROVE  Kept(f)
  <1> DEFINE p == cursor[f]
             s == <<sent[p]>>
             v == Folded(f, s)
  <1>1. PICK stage \in Stages :
           /\ ~Early(at[f]) /\ ~Early(stage) /\ Readable(f)
           /\ at' = [at EXCEPT ![f] = stage]
           /\ cursor' = [cursor EXCEPT ![f] = @ + 1]
           /\ shown' = [shown EXCEPT ![f] = v]
           /\ UNCHANGED <<streamVars, end, state, overrun>>
    <2>1. CASE Recv(f)
      BY <2>1 DEF Recv, FoldEvent, Early, Stages
    <2>2. CASE TryRecv(f)
      <3>1. at' = [at EXCEPT ![f] = "drain"]
        BY <2>2, AsBefore DEF TryRecv, FollowInv
      <3> QED BY <2>2, <3>1 DEF TryRecv, FoldEvent, Early, Stages
    <2> QED BY <2>1, <2>2
  <1>2. /\ p \in Nat \ {0} /\ p <= Len(sent) /\ Len(sent) \in Nat
        /\ Len(sent) <= Len(record) /\ Len(record) \in Nat /\ sent[p] = p - 1
    <2>1. /\ p \in Nat \ {0} /\ Len(sent) \in Nat
          /\ Len(sent) <= Len(record) /\ Len(record) \in Nat
          /\ \A i \in 1..Len(sent) : sent[i] = i - 1
      BY AsBefore, ChannelIsPrefix DEF FollowInv
    <2>2. p <= Len(sent)
      BY <1>1, <2>1, ReplayBufferAssumption DEF Readable, OldestRetained
    <2> QED BY <2>1, <2>2
  <1>3. Stands(at[f], p, shown[f], overrun[f])
    BY DEF FollowInv, FollowerInv
  <1>4. /\ s = <<p - 1>> /\ s \in Seq(Nat) /\ Len(s) = 1 /\ s # <<>>
        /\ s[1] = p - 1 /\ DOMAIN s = {1}
    <2>1. p - 1 \in Nat /\ s = <<p - 1>>
      BY <1>2
    <2> HIDE DEF s
    <2> QED BY <2>1
  <1> HIDE DEF p, s, v
  <1>5. MayFold(f, s, p)
    <2>1. p \in 0..Len(record)
      BY <1>2
    <2>2. \A i \in DOMAIN s : s[i] = p - Len(s) + i - 1
      BY <1>2, <1>4
    <2>3. shown[f] # <<>> => Last(shown[f]) \in Nat
      BY AsBefore DEF Last, FollowInv
    <2>4. shown[f] # <<>> => (s[1] <= Last(shown[f]) + 1 \/ (overrun[f] /\ s[1] <= OldestKept))
      <3>1. Continues(p, shown[f], overrun[f])
        BY <1>3 DEF Stands
      <3>2. shown[f] # <<>> => (Last(shown[f]) >= p - 2 \/ (overrun[f] /\ p - 1 <= OldestKept))
        BY <3>1 DEF Continues
      <3>3. Last(shown[f]) \in Nat /\ Last(shown[f]) >= p - 2 => p - 1 <= Last(shown[f]) + 1
        BY <1>2
      <3> QED BY <1>4, <2>3, <3>2, <3>3
    <2> QED BY <1>4, <2>1, <2>2, <2>4 DEF MayFold
  <1>6. /\ v \in Seq(Nat) /\ Increasing(v) /\ (\A i \in DOMAIN v : v[i] < Len(record))
        /\ Gaps(v, overrun[f])
        /\ Last(v) \in Nat /\ Last(v) >= p - 1
    BY <1>4, <1>5, FoldedInOrder DEF v, Gaps
  <1>7. Stands(stage, p + 1, v, overrun[f])
    <2>1. p + 1 <= Len(sent) + 1
      BY <1>2
    <2>2. Continues(p + 1, v, overrun[f])
      BY <1>2, <1>6 DEF Continues
    <2> QED BY <1>1, <1>6, <2>1, <2>2 DEF Stands
  <1>8. ComesTo(f, stage, p + 1, v, overrun[f])
    BY <1>1, AsBefore DEF ComesTo, FollowInv, p
  <1>9. p + 1 \in Nat \ {0} /\ overrun[f] \in BOOLEAN /\ stage \in Stages /\ v \in Seq(Nat)
    BY <1>2, <1>6, AsBefore DEF FollowInv
  <1> QED BY <1>7, <1>8, <1>9, ComingKeeps

\* Folding a snapshot of the buffer taken under the lock, the backlog or what
\* is newer than the last event: it reaches the newest, which the receiver is
\* not past.
LEMMA SnapshotIsFolded ==
  ASSUME FollowInv, NEW f \in Followers, ~Locked, ~FallenOut(LastShown(f)),
         NEW v, v = Folded(f, EventsSince(LastShown(f))),
         NEW stage, ~Early(stage)
  PROVE  v \in Seq(Nat) /\ Stands(stage, cursor[f], v, overrun[f])
  <1> DEFINE s == EventsSince(LastShown(f))
             u == shown[f]
  <1>1. /\ u \in Seq(Nat) /\ cursor[f] \in Nat \ {0} /\ Stands(at[f], cursor[f], u, overrun[f])
        /\ Len(sent) = Len(record) /\ Len(record) \in Nat /\ cursor[f] <= Len(record) + 1
    BY AsBefore, ChannelIsPrefix DEF FollowInv, FollowerInv, Stands
  <1>2. LastShown(f) = IF u = <<>> THEN None ELSE Last(u)
    BY DEF LastShown
  <1> HIDE DEF u
  <1>3. u # <<>> => Last(u) \in Nat /\ Last(u) < Len(record)
    BY <1>1 DEF Stands, Last
  <1>4. LastShown(f) \in Nat \cup {None} /\ (LastShown(f) # None => LastShown(f) < Len(record))
    BY <1>2, <1>3
  <1>5. /\ s \in Seq(Nat)
        /\ \A i \in DOMAIN s : s[i] = Len(record) - Len(s) + i - 1
        /\ LastShown(f) # None => IF s = <<>> THEN LastShown(f) = Len(record) - 1
                                  ELSE s[1] = LastShown(f) + 1
    <2>1. StreamInv /\ ~FallenOut(LastShown(f))
      BY DEF FollowInv
    <2>2. /\ s \in Seq(Nat)
          /\ \A i \in DOMAIN s : s[i] = Len(record) - Len(s) + i - 1
          /\ LastShown(f) # None => IF s = <<>> THEN LastShown(f) = Len(record) - 1
                                    ELSE Head(s) = LastShown(f) + 1
      BY <1>4, <2>1, SnapshotResumes
    <2> HIDE DEF s
    <2>3. s # <<>> => Head(s) = s[1]
      BY <2>2
    <2> QED BY <2>2, <2>3
  <1> HIDE DEF s
  <1>6. u # <<>> => IF s = <<>> THEN Last(u) = Len(record) - 1 ELSE s[1] = Last(u) + 1
    BY <1>2, <1>3, <1>5, NoneAssumption
  <1>7. MayFold(f, s, Len(record))
    BY <1>1, <1>3, <1>5, <1>6 DEF MayFold, u
  <1>8. /\ v \in Seq(Nat) /\ Increasing(v) /\ (\A i \in DOMAIN v : v[i] < Len(record))
        /\ Gaps(v, overrun[f])
        /\ s = <<>> => v = u
        /\ s # <<>> /\ (u = <<>> \/ Last(u) < s[1]) => Last(v) \in Nat /\ Last(v) >= Len(record) - 1
    BY <1>7, FoldedInOrder DEF Gaps, s, u
  <1>9. v = <<>> \/ Last(v) >= Len(record) - 1
    <2>1. CASE s = <<>>
      BY <1>1, <1>3, <1>6, <1>8, <2>1
    <2>2. CASE s # <<>>
      BY <1>3, <1>6, <1>8, <2>2
    <2> QED BY <2>1, <2>2
  <1>10. Continues(cursor[f], v, overrun[f])
    <2>1. v # <<>> => Last(v) \in Nat
      BY <1>8 DEF Last
    <2> QED BY <1>1, <1>9, <2>1 DEF Continues
  <1> QED BY <1>1, <1>8, <1>10 DEF Stands

\* The backlog.
LEMMA BacklogKeeps ==
  ASSUME FollowInv, NEW f \in Followers, FoldBacklog(f)
  PROVE  Kept(f)
  <1>1. PICK stage \in {"recv", "frame"} :
           /\ at' = [at EXCEPT ![f] = stage]
           /\ Early(at[f]) /\ ~Locked
           /\ shown' = [shown EXCEPT ![f] = Folded(f, EventsSince(None))]
           /\ UNCHANGED <<streamVars, end, state, cursor, overrun>>
    BY DEF FoldBacklog, Early
  <1> DEFINE v == Folded(f, EventsSince(LastShown(f)))
  <1>2. LastShown(f) = None
    BY <1>1 DEF FollowInv, FollowerInv, Stands, LastShown
  <1>3. ~FallenOut(LastShown(f))
    BY <1>2 DEF FallenOut
  <1>4. stage \in Stages /\ ~Early(stage)
    BY DEF Stages, Early
  <1>5. ComesTo(f, stage, cursor[f], v, overrun[f])
    BY <1>1, <1>2, AsBefore DEF ComesTo, FollowInv
  <1> HIDE DEF v
  <1>6. v \in Seq(Nat) /\ Stands(stage, cursor[f], v, overrun[f])
    BY <1>1, <1>3, <1>4, SnapshotIsFolded DEF v
  <1> QED BY <1>4, <1>5, <1>6, AsBefore, ComingKeeps DEF FollowInv

\* Re-reading the buffer after lag, which gives nothing where the position has
\* left it.
LEMMA RefoldKeeps ==
  ASSUME FollowInv, NEW f \in Followers, RefoldPlain(f) \/ RefoldDashboard(f)
  PROVE  Kept(f)
  <1> DEFINE v == Folded(f, EventsSince(LastShown(f)))
  <1>1. PICK stage \in {"check", "drain"} :
           /\ at' = [at EXCEPT ![f] = stage]
           /\ ~Early(at[f]) /\ ~Locked
           /\ shown' = [shown EXCEPT ![f] = IF FallenOut(LastShown(f)) THEN @ ELSE v]
           /\ UNCHANGED <<streamVars, end, state, cursor, overrun>>
    BY DEF RefoldPlain, RefoldDashboard, Refold, Early
  <1>2. stage \in Stages /\ ~Early(stage)
    BY DEF Stages, Early
  <1> HIDE DEF v
  <1>3. CASE FallenOut(LastShown(f))
    <2>1. ComesTo(f, stage, cursor[f], shown[f], overrun[f])
      BY <1>1, <1>3, AsBefore DEF ComesTo, FollowInv
    <2>2. Stands(stage, cursor[f], shown[f], overrun[f])
      BY <1>1, <1>2 DEF FollowInv, FollowerInv, Stands
    <2> QED BY <1>2, <2>1, <2>2, AsBefore, ComingKeeps DEF FollowInv
  <1>4. CASE ~FallenOut(LastShown(f))
    <2>1. ComesTo(f, stage, cursor[f], v, overrun[f])
      BY <1>1, <1>4, AsBefore DEF ComesTo, FollowInv
    <2>2. v \in Seq(Nat) /\ Stands(stage, cursor[f], v, overrun[f])
      BY <1>1, <1>2, <1>4, SnapshotIsFolded DEF v
    <2> QED BY <1>2, <2>1, <2>2, AsBefore, ComingKeeps DEF FollowInv
  <1> QED BY <1>3, <1>4

LEMMA FollowKeeps ==
  ASSUME FollowInv, NEW f \in Followers, Follow(f)
  PROVE  FollowInv'
  <1>1. CASE SubscribeFirst(f)
    BY <1>1, SubscribeKeeps, KeptKeeps
  <1>2. CASE FoldBacklog(f)
    BY <1>2, BacklogKeeps, KeptKeeps
  <1>3. CASE Recv(f) \/ TryRecv(f)
    BY <1>3, FoldKeeps, KeptKeeps
  <1>4. CASE RecvLagged(f) \/ TryRecvLagged(f)
    BY <1>4, OvertakenKeeps, KeptKeeps
  <1>5. CASE RefoldPlain(f) \/ RefoldDashboard(f)
    BY <1>5, RefoldKeeps, KeptKeeps
  <1>6. CASE CheckState(f) \/ Tick(f) \/ Drained(f) \/ Draw(f)
    BY <1>6, MovesOn, KeptKeeps
  <1> QED BY <1>1, <1>2, <1>3, <1>4, <1>5, <1>6 DEF Follow

\* An emission: the stream moves and the followers stand where they stood.
LEMMA EmissionKeeps ==
  ASSUME FollowInv, NEW e \in Emitters, EmitStep(e),
         UNCHANGED viewVars, RunTypeOK'
  PROVE  FollowInv'
  <1>1. /\ StreamInv' /\ Len(sent) <= Len(sent') /\ Len(record) <= Len(record')
        /\ OldestKept <= OldestKept'
    BY StreamMoves DEF FollowInv, OldestKept
  <1>2. at' = at /\ cursor' = cursor /\ shown' = shown /\ overrun' = overrun
    BY DEF viewVars
  <1>3. FollowersTypeOK'
    BY <1>2 DEF FollowInv, FollowersTypeOK
  <1>4. \A f \in Followers : FollowerInv(f)'
    BY <1>1, <1>2, FollowerKept DEF Early
  <1> QED BY <1>1, <1>3, <1>4 DEF FollowInv

\* Every step of the run and of its followers preserves the invariant.
LEMMA FollowInvStep == FollowInv /\ [FollowNext]_followVars => FollowInv'
  <1> SUFFICES ASSUME FollowInv, [FollowNext]_followVars PROVE FollowInv'
    OBVIOUS
  <1>1. ASSUME NEW e \in Emitters, EmitEvent(e)
        PROVE  FollowInv'
    <2>1. Allocate(e) /\ UNCHANGED <<end, state, viewVars>>
      BY <1>1 DEF EmitEvent
    <2> QED BY <2>1, EmissionKeeps DEF EmitStep, FollowInv, RunTypeOK
  <1>2. CASE EmitRunCompleted
    <2>1. Allocate(Orchestrator) /\ end' = seq /\ UNCHANGED <<state, viewVars>>
      BY <1>2 DEF EmitRunCompleted
    <2>2. RunTypeOK'
      BY <2>1 DEF FollowInv, RunTypeOK, StreamInv, StreamTypeOK
    <2> QED BY <2>1, <2>2, EmissionKeeps, FollowerAssumption DEF EmitStep
  <1>3. ASSUME NEW e \in Emitters, FinishEmission(e)
        PROVE  FollowInv'
    <2>1. (Retain(e) \/ Broadcast(e)) /\ UNCHANGED <<end, state, viewVars>>
      BY <1>3 DEF FinishEmission
    <2> QED BY <2>1, EmissionKeeps DEF EmitStep, FollowInv, RunTypeOK
  <1>4. ASSUME UNCHANGED <<streamVars, end, viewVars>>, state' \in {"running", "blocked", "terminal"}
        PROVE  FollowInv'
    <2>1. at' = at /\ cursor' = cursor /\ shown' = shown /\ overrun' = overrun
      BY <1>4 DEF viewVars
    <2>2. sent' = sent /\ record' = record /\ events' = events
      BY <1>4 DEF streamVars
    <2>3. StreamInv' /\ RunTypeOK' /\ FollowersTypeOK'
      BY <1>4, <2>1, StreamInvKept DEF FollowInv, RunTypeOK, FollowersTypeOK
    <2>4. \A f \in Followers : FollowerInv(f)'
      BY <2>1, <2>2 DEF FollowInv, FollowerInv, Stands, Gaps, Continues, OldestKept
    <2> QED BY <2>3, <2>4 DEF FollowInv
  <1>5. CASE Publish
    BY <1>4, <1>5 DEF Publish
  <1>6. ASSUME NEW f \in Followers, Follow(f)
        PROVE  FollowInv'
    BY <1>6, FollowKeeps
  <1>7. CASE Exited \/ UNCHANGED followVars
    BY <1>4, <1>7 DEF Exited, followVars, FollowInv, RunTypeOK
  <1> QED BY <1>1, <1>2, <1>3, <1>5, <1>6, <1>7 DEF FollowNext, Emission

LEMMA Invariance == FollowSpec => []FollowInv
  BY FollowInvInit, FollowInvStep, PTL DEF FollowSpec

-----------------------------------------------------------------------------
(* What followers are promised                                             *)

\* Every variable of the run and of its followers keeps its type.
THEOREM FollowTypeCorrect == FollowSpec => []FollowTypeOK
  <1>1. FollowInv => FollowTypeOK
    BY DEF FollowInv, StreamInv, RunTypeOK, FollowersTypeOK, Stages, FollowTypeOK
  <1> QED BY <1>1, Invariance, PTL

\* However the backlog, the live events and a re-read after lag overlap, and
\* however many tasks emit meanwhile, no follower folds an event twice or out
\* of order (follow.rs: the fold is idempotent by sequence number).
THEOREM AlwaysShownOnceInOrder == FollowSpec => []ShownOnceInOrder
  <1>1. FollowInv => ShownOnceInOrder
    BY DEF FollowInv, StreamInv, RunTypeOK, FollowersTypeOK, Stages, FollowTypeOK,
           ShownOnceInOrder, FollowerInv, Stands
  <1> QED BY <1>1, Invariance, PTL

\* A follower that subscribes before it takes the backlog misses an event only
\* where its receiver was overtaken, and only what the replay buffer has
\* dropped too (follow.rs, plain; tui.rs, drive).
THEOREM OnlyOverwrittenEventsAreEverMissed == FollowSpec => []OnlyOverwrittenEventsAreMissed
  <1>1. ASSUME FollowInv, NEW f \in Followers, NEW i \in DOMAIN shown[f],
               i > 1, shown[f][i] # shown[f][i - 1] + 1
        PROVE  overrun[f] /\ shown[f][i] <= record[Len(record) - Len(events) + 1]
    <2>1. overrun[f] /\ shown[f][i] <= OldestKept
      BY <1>1 DEF FollowInv, FollowerInv, Stands, Gaps
    <2>2. shown[f][i] \in Nat /\ shown[f][i] < Len(record)
      BY <1>1, AsBefore DEF FollowInv, FollowerInv, Stands
    <2>3. /\ Len(record) \in Nat /\ Len(events) \in Nat /\ Len(events) <= Len(record)
          /\ record \in Seq(Nat) /\ \A n \in 1..Len(record) : record[n] = n - 1
      BY <1>1, ChannelIsPrefix, BufferIsBounded DEF FollowInv, StreamInv, StreamTypeOK
    <2>4. Len(events) > 0
      <3>1. record # <<>>
        BY <2>2, <2>3
      <3>2. events # <<>> /\ events \in Seq(Nat)
        BY <1>1, <3>1 DEF FollowInv, StreamInv, HoldsTheNewest, StreamTypeOK
      <3> QED BY <3>2
    <2>5. record[Len(record) - Len(events) + 1] = OldestKept
      BY <2>3, <2>4 DEF OldestKept
    <2> QED BY <2>1, <2>5
  <1>2. FollowInv => OnlyOverwrittenEventsAreMissed
    BY <1>1 DEF OnlyOverwrittenEventsAreMissed
  <1> QED BY <1>2, Invariance, PTL

-----------------------------------------------------------------------------
(* The runs an agent answers for                                           *)

InFlight(r) == phase[r] \in {"running", "persisted", "announced", "logged"}

\* The replayable runs still in memory.
Remembered == {r \in memory : Replayable(r)}

Typed ==
    /\ memory \subseteq Runs
    /\ phase \in [Runs -> Phases]
    /\ bundles \subseteq Runs /\ logs \subseteq Runs /\ rows \subseteq Runs
    /\ unwritten \subseteq Runs
    /\ listing \in [Requests -> [at : {"idle", "live", "answered"}, live : SUBSET Runs,
                                 due : SUBSET Runs, answer : SUBSET Runs]]
    /\ \A r \in memory : phase[r] \notin {"none", "lost"}

\* A run is in memory from its start to its end.
Resident == \A r \in Runs : InFlight(r) => r \in memory

\* One run at a time.
OneInFlight == \A r, s \in Runs : InFlight(r) /\ InFlight(s) => r = s

\* Nothing of a run is on disk before it has been persisted.
Persisted(r) == phase[r] \notin {"none", "running"}

Begun == \A r \in bundles \cup rows : Persisted(r)

\* Room for one more is made when a run starts, and used when it ends.
Bounded ==
    /\ Cardinality(Remembered) <= Retained + 1
    /\ (\E r \in Runs : InFlight(r)) => Cardinality(Remembered) <= Retained

\* A run that a request has not seen in the registry has its index row behind
\* it: it is there to be read, or it will not come back.
Owed ==
    \A q \in Requests :
        /\ listing[q].at = "live" =>
            \A r \in listing[q].due : r \in listing[q].live \/ Persisted(r)
        /\ listing[q].at = "answered" =>
            \A r \in listing[q].due : r \in listing[q].answer \/ (r \notin rows /\ Persisted(r))

RegistryInv == Typed /\ Resident /\ OneInFlight /\ Begun /\ Bounded /\ Owed

-----------------------------------------------------------------------------
(* Sets of runs                                                            *)

LEMMA LeastOfASet ==
    ASSUME NEW S \in SUBSET Nat, S # {}
    PROVE  \E least \in S : \A n \in S : least <= n
<1> DEFINE less == OpToRel(<, Nat)
<1>1. IsWellFoundedOn(less, Nat)
  BY NatLessThanWellFounded
<1>2. PICK least \in S : \A n \in S : ~(<<n, least>> \in less)
  <2> HIDE DEF less
  <2> QED BY <1>1, WFMin
<1>3. \A n \in S : ~(n < least)
  BY <1>2, Zenon DEF OpToRel
<1> HIDE DEF less
<1> QED BY <1>3

LEMMA RunsAreFinite == IsFiniteSet(Runs) /\ Runs \subseteq Nat
BY FS_Interval, RunRegistryAssumption DEF Runs

\* A set whose members are all equal.
LEMMA AtMostOne ==
    ASSUME NEW S, \A x, y \in S : x = y
    PROVE  Cardinality(S) <= 1
<1>1. CASE S = {}
  BY <1>1, FS_EmptySet
<1>2. CASE S # {}
  <2>1. PICK x \in S : TRUE
    BY <1>2
  <2>2. S = {x}
    BY <2>1
  <2> QED BY <2>2, FS_Singleton
<1> QED BY <1>1, <1>2

\* evict_replayable leaves at most the retained ones: all but the oldest of
\* those that stay are newer than it.
LEMMA EvictedKeepsTheRetained ==
    ASSUME NEW runs \in SUBSET Runs
    PROVE  Cardinality({r \in Evicted(runs) : Replayable(r)}) <= Retained
<1> DEFINE kept == {r \in Evicted(runs) : Replayable(r)}
<1>1. kept \subseteq runs /\ runs \subseteq Nat /\ kept \subseteq Nat
  BY RunsAreFinite DEF Evicted
<1>2. IsFiniteSet(runs) /\ IsFiniteSet(kept)
  BY <1>1, RunsAreFinite, FS_Subset
<1>3. CASE kept = {}
  BY <1>3, FS_EmptySet, RunRegistryAssumption
<1>4. CASE kept # {}
  <2>1. PICK oldest \in kept : \A r \in kept : oldest <= r
    <3> HIDE DEF kept
    <3> QED BY <1>1, <1>4, LeastOfASet
  <2> DEFINE newer == {r \in runs : r > oldest /\ Replayable(r)}
  <2>2. Cardinality(newer) < Retained
    BY <2>1 DEF Evicted
  <2>3. IsFiniteSet(newer) /\ kept \ {oldest} \subseteq newer
    <3>1. IsFiniteSet(newer)
      BY <1>2, FS_Subset
    <3>2. ASSUME NEW r \in kept, r # oldest  PROVE r \in newer
      BY <1>1, <2>1, <3>2
    <3> QED BY <3>1, <3>2
  <2>4. Cardinality(kept \ {oldest}) <= Cardinality(newer)
    <3> HIDE DEF kept, newer
    <3> QED BY <2>3, FS_Subset
  <2>5. Cardinality(kept \ {oldest}) = Cardinality(kept) - 1
    <3> HIDE DEF kept
    <3> QED BY <1>2, <2>1, FS_RemoveElement
  <2>6. Cardinality(newer) \in Nat /\ Cardinality(kept) \in Nat
    <3> HIDE DEF kept, newer
    <3> QED BY <1>2, <2>3, FS_CardinalityType
  <2>7. Cardinality(kept) <= Retained
    <3> HIDE DEF kept, newer
    <3> QED BY <2>2, <2>4, <2>5, <2>6, RunRegistryAssumption
  <2> QED BY <2>7
<1> QED BY <1>3, <1>4

\* A set of replayable runs in memory is no larger than one it is part of.
LEMMA FewerKept ==
    ASSUME Typed, NEW S \in SUBSET Remembered
    PROVE  /\ IsFiniteSet(S) /\ Cardinality(S) \in Nat
           /\ Cardinality(S) <= Cardinality(Remembered)
           /\ Cardinality(Remembered) \in Nat
<1>1. Remembered \subseteq Runs
  BY DEF Remembered, Typed
<1>2. IsFiniteSet(Remembered)
  BY <1>1, RunsAreFinite, FS_Subset
<1>3. IsFiniteSet(S) /\ Cardinality(S) <= Cardinality(Remembered)
  BY <1>2, FS_Subset
<1>4. Cardinality(S) \in Nat /\ Cardinality(Remembered) \in Nat
  BY <1>2, <1>3, FS_CardinalityType
<1> QED BY <1>3, <1>4

\* Bounded survives a step that ends no run and adds nothing to Remembered.
LEMMA BoundedIfKeptShrinks ==
    ASSUME Typed, Bounded, Remembered' \subseteq Remembered,
           (\E r \in Runs : InFlight(r))' => \E r \in Runs : InFlight(r)
    PROVE  Bounded'
<1>1. /\ Cardinality(Remembered') \in Nat /\ Cardinality(Remembered) \in Nat
      /\ Cardinality(Remembered') <= Cardinality(Remembered)
  BY FewerKept
<1> QED BY <1>1, RunRegistryAssumption DEF Bounded

-----------------------------------------------------------------------------
(* The steps                                                               *)

LEMMA InitInv == RegistryInit => RegistryInv
<1> SUFFICES ASSUME RegistryInit PROVE RegistryInv
  OBVIOUS
<1>1. Typed
  BY DEF RegistryInit, Typed, NoRequest, Phases
<1>2. Resident /\ OneInFlight /\ Begun
  BY DEF RegistryInit, Resident, OneInFlight, Begun, InFlight
<1>3. Bounded
  <2>1. Remembered = {}
    BY DEF RegistryInit, Remembered
  <2>2. \A r \in Runs : ~InFlight(r)
    BY DEF RegistryInit, InFlight
  <2> QED BY <2>1, <2>2, FS_EmptySet, RunRegistryAssumption DEF Bounded
<1>4. Owed
  BY DEF RegistryInit, Owed, NoRequest
<1> QED BY <1>1, <1>2, <1>3, <1>4 DEF RegistryInv

\* The new run is in memory, and alone in flight; room is made for it.
LEMMA StartInv ==
    ASSUME RegistryInv, NEW r \in Runs, Start(r)
    PROVE  RegistryInv'
<1> DEFINE runs == memory \cup {r}
<1>1. /\ memory' = Evicted(runs) /\ runs \in SUBSET Runs
      /\ phase[r] = "none" /\ phase' = [phase EXCEPT ![r] = "running"]
      /\ \A other \in memory : Terminal(other)
      /\ UNCHANGED <<bundles, logs, rows, unwritten, listing>>
  BY DEF Start, RegistryInv, Typed
<1>2. phase' \in [Runs -> Phases] /\ phase'[r] = "running"
      /\ \A other \in Runs : other # r => phase'[other] = phase[other]
  BY <1>1 DEF RegistryInv, Typed, Phases
<1>3. memory' \subseteq runs /\ r \in memory'
  BY <1>1 DEF Evicted, Replayable, Terminal
<1>4. \A other \in Runs : other # r => ~InFlight(other) /\ ~InFlight(other)'
  BY <1>1, <1>2 DEF RegistryInv, Resident, InFlight, Terminal
<1>5. Typed'
  <2>1. \A other \in memory' : phase'[other] \notin {"none", "lost"}
    BY <1>1, <1>2, <1>3 DEF RegistryInv, Typed
  <2> QED BY <2>1, <1>1, <1>2, <1>3 DEF RegistryInv, Typed
<1>6. Resident' /\ OneInFlight'
  BY <1>3, <1>4 DEF Resident, OneInFlight
<1>7. Begun'
  BY <1>1, <1>2 DEF RegistryInv, Typed, Begun, Persisted
<1>8. Bounded'
  <2> DEFINE left == {other \in Evicted(runs) : Replayable(other)}
  <2>1. Cardinality(left) <= Retained
    BY <1>1, EvictedKeepsTheRetained
  <2>2. Remembered' = left
    BY <1>1, <1>2, <1>3 DEF Remembered, Replayable, Terminal
  <2>3. IsFiniteSet(left)
    BY <1>1, <1>3, RunsAreFinite, FS_Subset
  <2>4. Cardinality(Remembered') \in Nat /\ Cardinality(Remembered') <= Retained
    <3> HIDE DEF left
    <3> QED BY <2>1, <2>2, <2>3, FS_CardinalityType
  <2> QED BY <2>4, RunRegistryAssumption DEF Bounded
<1>9. Owed'
  <2>1. \A other \in Runs : Persisted(other) => Persisted(other)'
    BY <1>1, <1>2 DEF Persisted
  <2>2. \A q \in Requests : listing[q].due \subseteq Runs
    BY DEF RegistryInv, Typed
  <2> QED BY <1>1, <2>1, <2>2 DEF RegistryInv, Owed
<1> QED BY <1>5, <1>6, <1>7, <1>8, <1>9 DEF RegistryInv

\* finalise: the four steps change the phase of the run in flight, which stays
\* in flight until the last.
LEMMA FinaliseStep ==
    ASSUME RegistryInv, NEW r \in Runs, Finalise(r)
    PROVE  /\ InFlight(r) /\ r \in memory
           /\ memory' = memory /\ listing' = listing
           /\ phase' \in [Runs -> Phases] /\ Persisted(r)'
           /\ \A other \in Runs : other # r => phase'[other] = phase[other]
           /\ (InFlight(r)' /\ ~Terminal(r)') \/ (Terminal(r)' /\ PublishTerminal(r))
           /\ \A other \in Runs : Persisted(other) => Persisted(other)'
<1>1. phase \in [Runs -> Phases]
  BY DEF RegistryInv, Typed
<1>2. InFlight(r) /\ memory' = memory /\ listing' = listing
  BY DEF Finalise, Persist, FillSlot, WriteEventLog, PublishTerminal, InFlight
<1>3. \/ phase' = [phase EXCEPT ![r] = "persisted"]
      \/ phase' = [phase EXCEPT ![r] = "announced"]
      \/ phase' = [phase EXCEPT ![r] = "logged"]
      \/ phase' = [phase EXCEPT ![r] = "terminal"] /\ PublishTerminal(r)
  BY DEF Finalise, Persist, FillSlot, WriteEventLog, PublishTerminal
<1>4. r \in memory
  BY <1>2 DEF RegistryInv, Resident
<1>5. /\ phase' \in [Runs -> Phases]
      /\ \A other \in Runs : other # r => phase'[other] = phase[other]
  BY <1>1, <1>3 DEF Phases
<1>6. /\ Persisted(r)'
      /\ (InFlight(r)' /\ ~Terminal(r)') \/ (Terminal(r)' /\ PublishTerminal(r))
  BY <1>1, <1>3 DEF Persisted, InFlight, Terminal
<1>7. \A other \in Runs : Persisted(other) => Persisted(other)'
  BY <1>5, <1>6 DEF Persisted
<1> QED BY <1>2, <1>4, <1>5, <1>6, <1>7

\* Persisting may put the run on disk, and in the index; the end of the run
\* makes it replayable.
LEMMA FinaliseInv ==
    ASSUME RegistryInv, NEW r \in Runs, Finalise(r)
    PROVE  RegistryInv'
<1>1. /\ InFlight(r) /\ r \in memory
      /\ memory' = memory /\ listing' = listing
      /\ phase' \in [Runs -> Phases] /\ Persisted(r)'
      /\ \A other \in Runs : other # r => phase'[other] = phase[other]
      /\ (InFlight(r)' /\ ~Terminal(r)') \/ (Terminal(r)' /\ PublishTerminal(r))
      /\ \A other \in Runs : Persisted(other) => Persisted(other)'
  BY FinaliseStep
<1>2. /\ bundles \subseteq bundles' /\ bundles' \subseteq bundles \cup {r}
      /\ rows \subseteq rows' /\ rows' \subseteq rows \cup {r}
      /\ (r \in rows' => Persisted(r)')
      /\ rows' # rows => phase[r] = "running"
  BY <1>1 DEF Finalise, Persist, FillSlot, WriteEventLog, PublishTerminal
<1>3. Typed'
  <2>1. bundles' \subseteq Runs /\ rows' \subseteq Runs
    BY <1>2 DEF RegistryInv, Typed
  <2>2. logs' \subseteq Runs /\ unwritten' \subseteq Runs
    BY DEF Finalise, Persist, FillSlot, WriteEventLog, PublishTerminal, RegistryInv, Typed
  <2>3. \A other \in memory' : phase'[other] \notin {"none", "lost"}
    BY <1>1 DEF RegistryInv, Typed, InFlight, Terminal
  <2> QED BY <1>1, <2>1, <2>2, <2>3 DEF RegistryInv, Typed
<1>4. Resident' /\ OneInFlight'
  BY <1>1 DEF RegistryInv, Resident, OneInFlight, InFlight
<1>5. Begun'
  BY <1>1, <1>2 DEF RegistryInv, Typed, Begun
<1>6. Bounded'
  <2>1. \A other \in Runs : InFlight(other) => other = r
    BY <1>1 DEF RegistryInv, OneInFlight
  <2>2. Cardinality(Remembered) <= Retained
    BY <1>1 DEF RegistryInv, Bounded
  <2>3. \A other \in Runs : other # r => (Replayable(other)' <=> Replayable(other))
    BY <1>1, <1>2 DEF Replayable, Terminal
  <2>4. ~Replayable(r)
    BY <1>1 DEF Replayable, Terminal, InFlight
  <2>5. IsFiniteSet(Remembered) /\ Cardinality(Remembered) \in Nat
    BY FewerKept DEF RegistryInv
  <2>6. CASE InFlight(r)' /\ ~Terminal(r)'
    <3>1. Remembered' \subseteq Remembered
      BY <1>1, <2>3, <2>6 DEF Remembered, Replayable, RegistryInv, Typed
    <3> QED BY <3>1, <1>1, BoundedIfKeptShrinks DEF RegistryInv
  <2>7. CASE Terminal(r)'
    <3>1. Remembered' = Remembered \/ Remembered' = Remembered \cup {r}
      BY <1>1, <2>3, <2>4 DEF Remembered, RegistryInv, Typed
    <3>2. Cardinality(Remembered') <= Retained + 1
      <4>1. Cardinality(Remembered \cup {r}) =
                IF r \in Remembered THEN Cardinality(Remembered) ELSE Cardinality(Remembered) + 1
        BY <2>5, FS_AddElement
      <4>2. IsFiniteSet(Remembered \cup {r})
        BY <2>5, FS_AddElement
      <4>3. Cardinality(Remembered \cup {r}) \in Nat
        BY <4>2, FS_CardinalityType
      <4> QED BY <2>2, <2>5, <3>1, <4>1, <4>3, RunRegistryAssumption
    <3>3. \A other \in Runs : ~InFlight(other)'
      BY <1>1, <2>1, <2>7 DEF InFlight, Terminal
    <3> QED BY <3>2, <3>3 DEF Bounded
  <2> QED BY <1>1, <2>6, <2>7
<1>7. Owed'
  <2>1. \A q \in Requests : listing[q].due \subseteq Runs
    BY DEF RegistryInv, Typed
  <2>2. \A other \in Runs : Persisted(other) /\ other \notin rows => other \notin rows'
    BY <1>2 DEF Persisted
  <2> QED BY <1>1, <2>1, <2>2 DEF RegistryInv, Owed
<1> QED BY <1>3, <1>4, <1>5, <1>6, <1>7 DEF RegistryInv

LEMMA RemoveRunInv ==
    ASSUME RegistryInv, NEW r \in Runs, RemoveRun(r)
    PROVE  RegistryInv'
<1>1. /\ bundles' \subseteq bundles /\ logs' \subseteq logs /\ rows' \subseteq rows
      /\ UNCHANGED <<memory, phase, unwritten, listing>>
  BY DEF RemoveRun
<1>2. Typed'
  BY <1>1 DEF RegistryInv, Typed
<1>3. Resident' /\ OneInFlight' /\ Begun'
  BY <1>1 DEF RegistryInv, Resident, OneInFlight, Begun, InFlight, Persisted
<1>4. Bounded'
  <2>1. Remembered' \subseteq Remembered
    BY <1>1 DEF Remembered, Replayable, Terminal
  <2>2. (\E other \in Runs : InFlight(other))' => \E other \in Runs : InFlight(other)
    BY <1>1 DEF InFlight
  <2> QED BY <2>1, <2>2, BoundedIfKeptShrinks DEF RegistryInv
<1>5. Owed'
  BY <1>1 DEF RegistryInv, Owed, Persisted
<1> QED BY <1>2, <1>3, <1>4, <1>5 DEF RegistryInv

\* Nothing is in memory or in flight, and every request is gone.
LEMMA RestartInv ==
    ASSUME RegistryInv, Restart
    PROVE  RegistryInv'
<1>1. /\ memory' = {} /\ rows' \subseteq rows \cup bundles
      /\ phase' = [r \in Runs |-> IF phase[r] \in {"none", "terminal"} THEN phase[r] ELSE "lost"]
      /\ listing' = [q \in Requests |-> NoRequest]
      /\ UNCHANGED <<bundles, logs, unwritten>>
  BY DEF Restart
<1>2. \A r \in Runs : /\ phase'[r] \in {"none", "terminal", "lost"}
                      /\ phase'[r] = "none" => phase[r] = "none"
  BY <1>1 DEF RegistryInv, Typed
<1>3. Typed'
  <2>1. phase' \in [Runs -> Phases]
    BY <1>1 DEF RegistryInv, Typed, Phases
  <2> QED BY <1>1, <2>1 DEF RegistryInv, Typed, NoRequest
<1>4. Resident' /\ OneInFlight'
  BY <1>2 DEF Resident, OneInFlight, InFlight
<1>5. Begun'
  BY <1>1, <1>2 DEF RegistryInv, Typed, Begun, Persisted
<1>6. Bounded'
  <2>1. Remembered' = {}
    BY <1>1 DEF Remembered
  <2> QED BY <2>1, FS_EmptySet, RunRegistryAssumption DEF Bounded
<1>7. Owed'
  BY <1>1 DEF Owed, NoRequest
<1> QED BY <1>3, <1>4, <1>5, <1>6, <1>7 DEF RegistryInv

\* A request changes only what it remembers, and what it is owed is what the
\* registry holds or the index has a row for.
LEMMA RequestInv ==
    ASSUME RegistryInv, NEW q \in Requests, ListRuns(q) \/ Forget(q)
    PROVE  RegistryInv'
<1>1. UNCHANGED <<memory, phase, bundles, logs, rows, unwritten>>
  BY DEF ListRuns, ListLive, ListIndexed, Forget
<1>2. /\ DOMAIN listing' = Requests
      /\ \A s \in Requests : s # q => listing'[s] = listing[s]
      /\ \/ listing'[q] = [at |-> "live", live |-> memory,
                           due |-> memory \cup rows, answer |-> {}]
         \/ /\ listing[q].at = "live"
            /\ listing'[q] = [at |-> "answered", live |-> listing[q].live,
                              due |-> listing[q].due, answer |-> listing[q].live \cup rows]
         \/ listing'[q] = NoRequest
  BY DEF ListRuns, ListLive, ListIndexed, Forget, RegistryInv, Typed
<1>3. Typed'
  <2>1. listing[q].live \subseteq Runs /\ listing[q].due \subseteq Runs
        /\ memory \subseteq Runs /\ rows \subseteq Runs
    BY DEF RegistryInv, Typed
  <2>2. listing'[q] \in [at : {"idle", "live", "answered"}, live : SUBSET Runs,
                         due : SUBSET Runs, answer : SUBSET Runs]
    BY <1>2, <2>1 DEF NoRequest
  <2>3. listing' = [s \in Requests |-> listing'[s]]
    BY <1>2 DEF ListRuns, ListLive, ListIndexed, Forget, RegistryInv, Typed
  <2> QED BY <1>1, <1>2, <2>2, <2>3 DEF RegistryInv, Typed
<1>4. Resident' /\ OneInFlight' /\ Begun'
  BY <1>1 DEF RegistryInv, Resident, OneInFlight, Begun, InFlight, Persisted
<1>5. Bounded'
  BY <1>1 DEF RegistryInv, Bounded, Remembered, Replayable, Terminal, InFlight
<1>6. Owed'
  <2>1. \A s \in Requests : s # q => listing'[s] = listing[s]
    BY <1>2
  <2>2. listing'[q].at = "live" =>
            \A r \in listing'[q].due : r \in listing'[q].live \/ Persisted(r)
    BY <1>2 DEF RegistryInv, Typed, Begun, NoRequest
  <2>3. listing'[q].at = "answered" =>
            \A r \in listing'[q].due :
                r \in listing'[q].answer \/ (r \notin rows /\ Persisted(r))
    BY <1>2 DEF RegistryInv, Typed, Owed, NoRequest
  <2>4. \A r : Persisted(r)' <=> Persisted(r)
    BY <1>1 DEF Persisted
  <2> QED BY <1>1, <2>1, <2>2, <2>3, <2>4 DEF RegistryInv, Owed
<1> QED BY <1>3, <1>4, <1>5, <1>6 DEF RegistryInv

LEMMA Stutter ==
    ASSUME RegistryInv, UNCHANGED registryVars
    PROVE  RegistryInv'
BY DEF RegistryInv, registryVars, Typed, Resident, OneInFlight, Begun, Bounded, Owed, InFlight,
       Remembered, Replayable, Terminal, Persisted

-----------------------------------------------------------------------------
(* The theorems                                                            *)

LEMMA NextInv == RegistryInv /\ [RegistryNext]_registryVars => RegistryInv'
<1> SUFFICES ASSUME RegistryInv, [RegistryNext]_registryVars PROVE RegistryInv'
  OBVIOUS
<1>1. ASSUME NEW r \in Runs, Start(r) PROVE RegistryInv'
  BY <1>1, StartInv
<1>2. ASSUME NEW r \in Runs, Finalise(r) PROVE RegistryInv'
  BY <1>2, FinaliseInv
<1>3. ASSUME NEW r \in Runs, RemoveRun(r) PROVE RegistryInv'
  BY <1>3, RemoveRunInv
<1>4. ASSUME NEW q \in Requests, ListRuns(q) \/ Forget(q) PROVE RegistryInv'
  BY <1>4, RequestInv
<1>5. CASE Restart
  BY <1>5, RestartInv
<1>6. CASE UNCHANGED registryVars
  BY <1>6, Stutter
<1> QED BY <1>1, <1>2, <1>3, <1>4, <1>5, <1>6 DEF RegistryNext

LEMMA RegistryInvIsInvariant == RegistrySpec => []RegistryInv
BY InitInv, NextInv, PTL DEF RegistrySpec

\* Everything stays in its type, and at most one run in memory is unfinished,
\* which is what refuses a second start.
LEMMA RegistryInvImpliesTypeOK == RegistryInv => RegistryTypeOK
<1> SUFFICES ASSUME RegistryInv PROVE RegistryTypeOK
  OBVIOUS
<1>1. \A r, s \in {r \in memory : ~Terminal(r)} : r = s
  BY DEF RegistryInv, Typed, OneInFlight, InFlight, Terminal, Phases
<1>2. Cardinality({r \in memory : ~Terminal(r)}) <= 1
  BY <1>1, AtMostOne
<1> QED BY <1>2 DEF RegistryInv, Typed, RegistryTypeOK

\* The registry is well-formed: what it holds is runs that have started and
\* are not lost, at most one of them unfinished.
THEOREM RegistryTypeCorrect == RegistrySpec => []RegistryTypeOK
BY RegistryInvIsInvariant, RegistryInvImpliesTypeOK, PTL

\* evict_replayable bounds the runs kept in memory that disk could answer
\* for, however many are started: the retained ones and the one that has
\* ended since.
THEOREM MemoryIsAlwaysBounded == RegistrySpec => []MemoryIsBounded
<1>1. RegistryInv => MemoryIsBounded
  BY RegistryInvImpliesTypeOK DEF RegistryInv, Bounded, Remembered, MemoryIsBounded
<1> QED BY <1>1, RegistryInvIsInvariant, PTL

\* list_runs, with any number of requests at once between their two reads,
\* leaves no run out that it owes an entry for.
THEOREM ListNeverMissesARun == RegistrySpec => []ListMissesNoRun
<1>1. RegistryInv => ListMissesNoRun
  BY DEF RegistryInv, Owed, ListMissesNoRun
<1> QED BY <1>1, RegistryInvIsInvariant, PTL

\* No start and no other step turns a result that can be fetched into a 404
\* without its directory being removed or the process ending.
THEOREM ResultsAreNeverEvictedAway == RegistrySpec => NoResultIsEvictedAway
<1> DEFINE StaysAnswered ==
      \A r \in Runs :
          BundleAnswer(r) = "ok" /\ memory' # {} /\ bundles \subseteq bundles' =>
              BundleAnswer(r)' = "ok"
<1>1. ASSUME RegistryInv, [RegistryNext]_registryVars PROVE StaysAnswered
  <2> SUFFICES ASSUME NEW r \in Runs, BundleAnswer(r) = "ok",
                      memory' # {}, bundles \subseteq bundles'
               PROVE  BundleAnswer(r)' = "ok"
    OBVIOUS
  <2> USE <1>1
  <2>1. \/ r \in memory /\ SlotFilled(r)
        \/ r \notin memory /\ r \in bundles
    BY DEF BundleAnswer
  <2> DEFINE Fetchable == \/ r \in memory' /\ SlotFilled(r)'
                          \/ r \notin memory' /\ r \in bundles'
  <2>2. SUFFICES Fetchable
    BY <2>2 DEF BundleAnswer
  <2>3. ASSUME NEW s \in Runs, Start(s) PROVE Fetchable
    <3>1. phase[s] = "none" /\ s # r
      BY <2>1, <2>3 DEF Start, SlotFilled, RegistryInv, Begun, Persisted
    <3>2. memory' \subseteq memory \cup {s} /\ bundles' = bundles
      BY <2>3 DEF Start, Evicted
    <3>3. r \in memory /\ r \notin memory' => r \in bundles
      BY <2>3 DEF Start, Evicted, Replayable
    <3>4. SlotFilled(r)' <=> SlotFilled(r)
      BY <2>3, <3>1 DEF Start, SlotFilled, RegistryInv, Typed
    <3> QED BY <2>1, <3>1, <3>2, <3>3, <3>4
  <2>4. ASSUME NEW s \in Runs, Finalise(s) PROVE Fetchable
    <3>1. /\ memory' = memory /\ s \in memory
          /\ \A other \in Runs : other # s => phase'[other] = phase[other]
      BY <2>4, FinaliseStep
    <3>2. SlotFilled(s) => SlotFilled(s)'
      BY <2>4 DEF Finalise, Persist, FillSlot, WriteEventLog, PublishTerminal, SlotFilled,
                  RegistryInv, Typed
    <3> QED BY <2>1, <3>1, <3>2 DEF SlotFilled
  <2>5. ASSUME NEW s \in Runs, RemoveRun(s) PROVE Fetchable
    BY <2>5 DEF RemoveRun
  <2>6. ASSUME NEW q \in Requests, ListRuns(q) \/ Forget(q) PROVE Fetchable
    BY <2>1, <2>6 DEF ListRuns, ListLive, ListIndexed, Forget, SlotFilled
  <2>7. CASE Restart
    BY <2>7 DEF Restart
  <2>8. CASE UNCHANGED registryVars
    BY <2>1, <2>8 DEF registryVars, SlotFilled
  <2> QED BY <2>3, <2>4, <2>5, <2>6, <2>7, <2>8 DEF RegistryNext
<1> QED BY <1>1, RegistryInvIsInvariant, PTL DEF RegistrySpec, NoResultIsEvictedAway

=============================================================================
