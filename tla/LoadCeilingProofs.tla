------------------------- MODULE LoadCeilingProofs --------------------------
(***************************************************************************)
(* Theorems about the load ceiling, for every number of modules, every set *)
(* of hosts and all thresholds.                                            *)
(*                                                                         *)
(* The counters are kept one sample at a time; the properties read whole   *)
(* stretches off the history.  The lemmas about Stretch say what one more  *)
(* sample does to a stretch, and with them the invariant is carried        *)
(* through the task of the sampler (Counting, Bounded, Warming, Stopping)  *)
(* and, across every interleaving with it, the module loop (Charged).      *)
(***************************************************************************)
EXTENDS LoadCeiling, FiniteSetTheorems, SequenceTheorems, TLAPS

-----------------------------------------------------------------------------
(* The invariant                                                           *)

Judged == Loads \cup {"suspended"}

\* What the histories record.
HistoriesOK == trail \in Seq(Judged) /\ heat \in Seq(BOOLEAN)

\* While the watchdog watches, its counters are the current stretches, the
\* warning stands exactly while one is long enough, and was given for each.
Counting ==
    sampler.at # "off" =>
        /\ heavy = Stretch(trail, {"heavy"})
        /\ contended = Stretch(trail, Contended)
        /\ reported <=> contended >= WarnSamples
        /\ announced = SustainedStretches(trail)

\* No counter has reached its limit, and none has outrun the samples.
Bounded ==
    sampler.at # "off" =>
        /\ hot < ThermalSamples
        /\ heavy < AbortSamples
        /\ contended <= sampler.ticks
        /\ sampler.at # "waiting" => contended < sampler.ticks

\* The last samples were hot, as many of them as the counter says.
Warming ==
    /\ Len(heat) <= ThermalSamples
    /\ sampler.at # "off" =>
          /\ hot <= Len(heat)
          /\ \A i \in (Len(heat) - hot + 1)..Len(heat) : heat[i]

\* A verdict ends the task that gave it.
Stopping == stopped # None => sampler.at = "off"

\* Contention sustained while the current module was measured stays noted until
\* the module's result takes it, or the module leaves none.
Charged ==
    /\ pc \in {"begin", "suspend", "run", "resume", "take", "unwind"} => module \in Modules
    /\ \A m \in sustained : m <= module
    /\ pc # "done" => \A m \in Modules : m >= module => status[m] = "pending"
    /\ module \in sustained /\ pc # "done" =>
          /\ pc \in {"run", "resume", "take", "unwind"}
          /\ contention
    /\ \A m \in sustained : status[m] \in {"pending", "degraded", "cancelled"}

Inv ==
    /\ TypeOK
    /\ HistoriesOK
    /\ Counting
    /\ Bounded
    /\ Warming
    /\ Stopping
    /\ StopsAreEarned
    /\ Charged

-----------------------------------------------------------------------------
(* One more sample                                                         *)

\* The places a stretch that ends at `last` may begin.
Stretching(samples, last, kinds) ==
    {k \in 1..last : \A i \in k..last : samples[i] \in kinds}

\* A stretch is no longer than what it ends at.
LEMMA StretchIsBounded ==
    ASSUME NEW samples, NEW last \in Nat, NEW kinds
    PROVE  /\ IsFiniteSet(Stretching(samples, last, kinds))
           /\ StretchEndingAt(samples, last, kinds) = Cardinality(Stretching(samples, last, kinds))
           /\ StretchEndingAt(samples, last, kinds) \in 0..last
  <1>1. IsFiniteSet(1..last) /\ Cardinality(1..last) = last
    BY FS_Interval
  <1>2. Stretching(samples, last, kinds) \subseteq 1..last
    BY DEF Stretching
  <1>3. /\ IsFiniteSet(Stretching(samples, last, kinds))
        /\ Cardinality(Stretching(samples, last, kinds)) <= last
    BY <1>1, <1>2, FS_Subset
  <1>4. Cardinality(Stretching(samples, last, kinds)) \in Nat
    BY <1>3, FS_CardinalityType
  <1> QED BY <1>3, <1>4 DEF StretchEndingAt, Stretching

\* A stretch that has ended is not touched by a later sample.
LEMMA StretchIsKept ==
    ASSUME NEW S, NEW samples \in Seq(S), NEW x \in S, NEW kinds,
           NEW last \in 0..Len(samples)
    PROVE  StretchEndingAt(Append(samples, x), last, kinds) = StretchEndingAt(samples, last, kinds)
  <1>1. \A i \in 1..last : Append(samples, x)[i] = samples[i]
    BY AppendProperties
  <1>2. Stretching(Append(samples, x), last, kinds) = Stretching(samples, last, kinds)
    BY <1>1 DEF Stretching
  <1> QED BY <1>2 DEF StretchEndingAt, Stretching

\* One more sample lengthens the stretch by one, or ends it.
LEMMA StretchGrows ==
    ASSUME NEW S, NEW samples \in Seq(S), NEW x \in S, NEW kinds
    PROVE  Stretch(Append(samples, x), kinds)
               = IF x \in kinds THEN Stretch(samples, kinds) + 1 ELSE 0
  <1> DEFINE n == Len(samples)
             now == Append(samples, x)
  <1>1. /\ n \in Nat /\ Len(now) = n + 1 /\ now[n + 1] = x
        /\ \A i \in 1..n : now[i] = samples[i]
    BY AppendProperties, LenProperties
  <1> HIDE DEF n, now
  <1>2. CASE x \in kinds
    <2>1. Stretching(now, n + 1, kinds) = Stretching(samples, n, kinds) \cup {n + 1}
      <3>1. ASSUME NEW k \in Stretching(now, n + 1, kinds), k # n + 1
            PROVE  k \in Stretching(samples, n, kinds)
        BY <1>1, <3>1 DEF Stretching
      <3>2. ASSUME NEW k \in Stretching(samples, n, kinds)
            PROVE  k \in Stretching(now, n + 1, kinds)
        <4>1. ASSUME NEW i \in k..(n + 1) PROVE now[i] \in kinds
          BY <1>1, <1>2, <3>2 DEF Stretching
        <4> QED BY <1>1, <4>1 DEF Stretching
      <3>3. n + 1 \in Stretching(now, n + 1, kinds)
        BY <1>1, <1>2 DEF Stretching
      <3> QED BY <3>1, <3>2, <3>3
    <2>2. n + 1 \notin Stretching(samples, n, kinds)
      BY <1>1 DEF Stretching
    <2>3. Cardinality(Stretching(now, n + 1, kinds)) = Cardinality(Stretching(samples, n, kinds)) + 1
      BY <1>1, <2>1, <2>2, StretchIsBounded, FS_AddElement
    <2> QED BY <1>1, <1>2, <2>3, StretchIsBounded DEF Stretch, n, now
  <1>3. CASE x \notin kinds
    <2>1. Stretching(now, n + 1, kinds) = {}
      BY <1>1, <1>3 DEF Stretching
    <2> QED BY <1>1, <1>3, <2>1, StretchIsBounded, FS_EmptySet DEF Stretch, n, now
  <1> QED BY <1>2, <1>3

\* One more sample completes a stretch exactly if it is the one that makes it
\* long enough.
LEMMA SustainedStretchesGrow ==
    ASSUME NEW S, NEW samples \in Seq(S), NEW x \in S
    PROVE  /\ SustainedStretches(samples) \in Nat
           /\ SustainedStretches(Append(samples, x))
                  = IF Stretch(Append(samples, x), Contended) = WarnSamples
                    THEN SustainedStretches(samples) + 1
                    ELSE SustainedStretches(samples)
  <1> DEFINE n == Len(samples)
             now == Append(samples, x)
             Long(s, m) == {i \in 1..m : StretchEndingAt(s, i, Contended) = WarnSamples}
  <1>1. n \in Nat /\ Len(now) = n + 1
    BY AppendProperties, LenProperties
  <1>2. \A i \in 1..n : StretchEndingAt(now, i, Contended) = StretchEndingAt(samples, i, Contended)
    BY StretchIsKept
  <1>3. IsFiniteSet(Long(samples, n)) /\ Cardinality(Long(samples, n)) \in Nat
    <2>1. Long(samples, n) \subseteq 1..n /\ IsFiniteSet(1..n)
      BY <1>1, FS_Interval
    <2> QED BY <2>1, FS_Subset, FS_CardinalityType
  <1>4. CASE Stretch(now, Contended) = WarnSamples
    <2>1. StretchEndingAt(now, n + 1, Contended) = WarnSamples
      BY <1>1, <1>4 DEF Stretch
    <2> HIDE DEF n, now
    <2>2. /\ Long(now, n + 1) = Long(samples, n) \cup {n + 1}
          /\ n + 1 \notin Long(samples, n)
      <3>1. 1..(n + 1) = (1..n) \cup {n + 1} /\ n + 1 \notin 1..n
        BY <1>1
      <3> QED BY <1>2, <2>1, <3>1
    <2>3. Cardinality(Long(now, n + 1)) = Cardinality(Long(samples, n)) + 1
      <3> HIDE DEF Long
      <3> QED BY <1>3, <2>2, FS_AddElement
    <2> QED BY <1>1, <1>3, <1>4, <2>3 DEF SustainedStretches, n, now
  <1>5. CASE Stretch(now, Contended) # WarnSamples
    <2>1. StretchEndingAt(now, n + 1, Contended) # WarnSamples
      BY <1>1, <1>5 DEF Stretch
    <2> HIDE DEF n, now
    <2>2. Long(now, n + 1) = Long(samples, n)
      BY <1>1, <1>2, <2>1
    <2> QED BY <1>1, <1>3, <1>5, <2>2 DEF SustainedStretches, n, now
  <1> QED BY <1>4, <1>5

\* No sample, no stretch.
LEMMA NoStretch ==
    /\ \A kinds : Stretch(<<>>, kinds) = 0
    /\ SustainedStretches(<<>>) = 0
  <1>1. Len(<<>>) = 0
    BY EmptySeq
  <1>2. ASSUME NEW kinds PROVE Stretch(<<>>, kinds) = 0
    BY <1>1, StretchIsBounded DEF Stretch
  <1>3. {i \in 1..Len(<<>>) : StretchEndingAt(<<>>, i, Contended) = WarnSamples} = {}
    BY <1>1
  <1> QED BY <1>2, <1>3, FS_EmptySet DEF SustainedStretches

-----------------------------------------------------------------------------
(* The module loop                                                         *)

\* The loop writes nothing the sampler's part of the invariant speaks of.
LEMMA LoopLeavesTheWatchdogAlone ==
    ASSUME Inv, UNCHANGED loopFrame
    PROVE  HistoriesOK' /\ Counting' /\ Bounded' /\ Warming' /\ Stopping' /\ StopsAreEarned'
  BY DEF Inv, loopFrame, watchdogVars, histories, HistoriesOK, Counting, Bounded, Warming,
         Stopping, StopsAreEarned

\* Contention noted while a module was measured is taken by that module.
LEMMA LoopStep ==
    ASSUME Inv, ModuleLoop
    PROVE  Inv'
  <1> USE LoadCeilingAssumption
  <1>1. /\ UNCHANGED loopFrame
        /\ UNCHANGED <<host, sampler, hot, contended, heavy, reported, stopped, overdue,
                       announced, sustained>>
    BY DEF ModuleLoop, BeginModule, DiscardContention, SetSuspension, ModuleReturns, Resume,
           TakeContention, ModuleCancelled, LoopEnds, loopFrame, watchdogVars, histories
  <1>2. /\ module \in 1..(NModules + 1) /\ suspended \in BOOLEAN /\ wasSuspended \in BOOLEAN
        /\ contention \in BOOLEAN /\ Charged /\ sustained \subseteq Modules
        /\ status \in [Modules -> {"pending", "clean", "degraded", "cancelled"}]
    BY DEF Inv, TypeOK
  <1>3. ASSUME /\ pc' \in {"gap", "begin", "suspend", "run", "resume", "take", "unwind", "done"}
               /\ module' \in 1..(NModules + 1) /\ suspended' \in BOOLEAN
               /\ wasSuspended' \in BOOLEAN /\ contention' \in BOOLEAN
               /\ status' \in [Modules -> {"pending", "clean", "degraded", "cancelled"}]
               /\ Charged'
        PROVE  Inv'
    <2>1. TypeOK'
      BY <1>1, <1>3 DEF Inv, TypeOK
    <2> QED BY <1>1, <1>3, <2>1, LoopLeavesTheWatchdogAlone DEF Inv
  <1>4. CASE BeginModule
    <2>1. Charged'
      BY <1>1, <1>2, <1>4 DEF BeginModule, Charged, Modules
    <2> QED BY <1>2, <1>3, <1>4, <2>1 DEF BeginModule
  <1>5. CASE DiscardContention
    <2>1. Charged'
      BY <1>1, <1>2, <1>5 DEF DiscardContention, Charged
    <2> QED BY <1>2, <1>3, <1>5, <2>1 DEF DiscardContention
  <1>6. CASE SetSuspension
    <2>1. Charged'
      BY <1>1, <1>2, <1>6 DEF SetSuspension, Charged
    <2>2. suspended' \in BOOLEAN /\ wasSuspended' \in BOOLEAN
      BY <1>6 DEF SetSuspension
    <2> QED BY <1>2, <1>3, <1>6, <2>1, <2>2 DEF SetSuspension
  <1>7. CASE ModuleReturns
    <2>1. Charged'
      BY <1>1, <1>2, <1>7 DEF ModuleReturns, Charged
    <2> QED BY <1>2, <1>3, <1>7, <2>1 DEF ModuleReturns
  <1>8. CASE Resume
    <2>1. Charged'
      BY <1>1, <1>2, <1>8 DEF Resume, Charged
    <2> QED BY <1>2, <1>3, <1>8, <2>1 DEF Resume
  <1>9. CASE TakeContention
    <2>1. module \in Modules /\ module' = module + 1 /\ pc' = "gap" /\ contention' = FALSE
      BY <1>2, <1>9 DEF TakeContention, Charged
    <2>2. /\ status'[module] = IF contention THEN "degraded" ELSE "clean"
          /\ \A m \in Modules : m # module => status'[m] = status[m]
          /\ status' \in [Modules -> {"pending", "clean", "degraded", "cancelled"}]
      BY <1>2, <1>9, <2>1 DEF TakeContention
    <2>3. module \in sustained => contention
      BY <1>2, <1>9 DEF TakeContention, Charged
    <2>4. Charged'
      <3>1. \A m \in sustained : m \in Nat /\ m <= module /\ m \in Modules
        BY <1>2 DEF Charged, Modules
      <3>2. module \in Nat /\ \A m \in sustained' : m <= module' /\ m # module'
        BY <1>1, <1>2, <2>1, <3>1
      <3>3. \A m \in sustained' : status'[m] \in {"pending", "degraded", "cancelled"}
        BY <1>1, <1>2, <2>2, <2>3, <3>1 DEF Charged
      <3>4. \A m \in Modules : m >= module' => status'[m] = "pending"
        <4>1. \A m \in Modules : m \in Nat /\ (m >= module + 1 => m >= module /\ m # module)
          BY <3>2 DEF Modules
        <4> QED BY <1>2, <1>9, <2>1, <2>2, <4>1 DEF Charged, TakeContention
      <3> QED BY <2>1, <3>2, <3>3, <3>4 DEF Charged
    <2>5. module' \in 1..(NModules + 1)
      BY <2>1 DEF Modules
    <2>6. suspended' = suspended /\ wasSuspended' = wasSuspended
      BY <1>9 DEF TakeContention
    <2> QED BY <1>2, <1>3, <2>1, <2>2, <2>4, <2>5, <2>6
  <1>10. CASE ModuleCancelled
    <2>1. module \in Modules
      BY <1>2, <1>10 DEF ModuleCancelled, Charged
    <2>2. /\ status' = [status EXCEPT ![module] = "cancelled"] /\ pc' = "done"
          /\ module' = module /\ contention' = FALSE /\ suspended' = FALSE
          /\ wasSuspended' = wasSuspended
      BY <1>10 DEF ModuleCancelled
    <2>3. Charged'
      BY <1>1, <1>2, <2>1, <2>2 DEF Charged
    <2> QED BY <1>2, <1>3, <2>2, <2>3
  <1>11. CASE LoopEnds
    <2>1. Charged'
      BY <1>1, <1>2, <1>11 DEF LoopEnds, Charged
    <2> QED BY <1>2, <1>3, <1>11, <2>1 DEF LoopEnds
  <1> QED BY <1>4, <1>5, <1>6, <1>7, <1>8, <1>9, <1>10, <1>11 DEF ModuleLoop

-----------------------------------------------------------------------------
(* The sampler                                                             *)

\* next is h and x, without the oldest of h if that makes more than n.
Follows(next, h, x, n) ==
    /\ next \in Seq(BOOLEAN)
    /\ Len(next) = IF Len(h) < n THEN Len(h) + 1 ELSE n
    /\ next[Len(next)] = x
    /\ \A i \in 1..(Len(next) - 1) : next[i] = h[i + Len(h) + 1 - Len(next)]

\* The last n + 1 samples but the oldest, once there are more than n.
LEMMA LastOfAppend ==
    ASSUME NEW h \in Seq(BOOLEAN), NEW x \in BOOLEAN, NEW n \in Nat \ {0}, Len(h) <= n
    PROVE  Follows(LastOf(Append(h, x), n), h, x, n)
  <1> DEFINE all == Append(h, x)
  <1>1. /\ all \in Seq(BOOLEAN) /\ Len(all) = Len(h) + 1 /\ Len(h) \in Nat
        /\ all[Len(h) + 1] = x /\ \A i \in 1..Len(h) : all[i] = h[i]
    BY AppendProperties, LenProperties
  <1> HIDE DEF all
  <1>2. CASE Len(h) < n
    <2>1. LastOf(all, n) = all
      BY <1>1, <1>2 DEF LastOf
    <2> QED BY <1>1, <1>2, <2>1 DEF all, Follows
  <1>3. CASE Len(h) = n
    <2>1. LastOf(all, n) = SubSeq(all, 2, n + 1)
      BY <1>1, <1>3 DEF LastOf
    <2>2. /\ SubSeq(all, 2, n + 1) \in Seq(BOOLEAN)
          /\ Len(SubSeq(all, 2, n + 1)) = n
          /\ \A i \in 1..n : SubSeq(all, 2, n + 1)[i] = all[i + 1]
      BY <1>1, <1>3, SubSeqProperties
    <2>3. \A i \in 1..(n - 1) : SubSeq(all, 2, n + 1)[i] = h[i + 1]
      BY <1>1, <1>3, <2>2
    <2>4. SubSeq(all, 2, n + 1)[n] = x
      BY <1>1, <1>3, <2>2
    <2> QED BY <1>3, <2>1, <2>2, <2>3, <2>4 DEF all, Follows
  <1> QED BY <1>2, <1>3, <1>1

\* The sampler notes contention and who was measured, and nothing else of what
\* the loop keeps.
LEMMA WatchdogLeavesTheLoopAlone ==
    ASSUME Inv, UNCHANGED <<loopVars, contention, sustained>>
    PROVE  Charged'
  BY DEF Inv, loopVars, Charged

\* The ceilings that come before the load: the deadline, and the temperature
\* that fires when the last ThermalSamples samples were hot.
LEMMA SampleStep ==
    ASSUME Inv, NEW load \in Loads, NEW isHot \in BOOLEAN, Sample(load, isHot)
    PROVE  Inv'
  <1> USE LoadCeilingAssumption
  <1> DEFINE hotNow == IF isHot THEN hot + 1 ELSE 0
             next == LastOf(Append(heat, isHot), ThermalSamples)
  <1>1. /\ sampler.at = "waiting" /\ sampler.ticks < MaxTicks /\ stopped = None
        /\ sampler.ticks \in 0..MaxTicks /\ hot \in 0..ThermalSamples /\ hot < ThermalSamples
        /\ contended <= sampler.ticks /\ contended \in 0..MaxTicks
        /\ heat \in Seq(BOOLEAN) /\ Len(heat) <= ThermalSamples /\ Len(heat) \in Nat
        /\ overdue \in BOOLEAN
    BY LenProperties DEF Sample, Inv, TypeOK, HistoriesOK, Bounded, Warming, Stopping
  <1>2. /\ heat' = next /\ overdue' = overdue
        /\ UNCHANGED <<loopVars, contention, sustained>>
        /\ UNCHANGED <<pc, module, suspended, wasSuspended, status, host, contended, heavy,
                       reported, trail, announced>>
        /\ sampler' = [at |-> sampler'.at, load |-> load, ticks |-> sampler.ticks + 1]
        /\ \/ /\ overdue
              /\ hot' = hot /\ stopped' = "ceiling" /\ sampler'.at = "off"
           \/ /\ hotNow >= ThermalSamples
              /\ hot' = hotNow /\ stopped' = "heat" /\ sampler'.at = "off"
           \/ /\ hotNow < ThermalSamples
              /\ hot' = hotNow /\ stopped' = None /\ sampler'.at = "judging"
    <2>1. hotNow \in Nat
      BY <1>1
    <2> QED BY <1>1, <2>1 DEF Sample, TooHot, loopVars
  <1>3. /\ next \in Seq(BOOLEAN) /\ Len(next) \in Nat
        /\ Len(next) = IF Len(heat) < ThermalSamples THEN Len(heat) + 1 ELSE ThermalSamples
        /\ next[Len(next)] = isHot
        /\ \A i \in 1..(Len(next) - 1) : next[i] = heat[i + Len(heat) + 1 - Len(next)]
    <2>1. next = LastOf(Append(heat, isHot), ThermalSamples)
      OBVIOUS
    <2> HIDE DEF next
    <2>2. /\ next \in Seq(BOOLEAN)
          /\ Len(next) = IF Len(heat) < ThermalSamples THEN Len(heat) + 1 ELSE ThermalSamples
          /\ next[Len(next)] = isHot
          /\ \A i \in 1..(Len(next) - 1) : next[i] = heat[i + Len(heat) + 1 - Len(next)]
      <3>1. heat \in Seq(BOOLEAN) /\ Len(heat) <= ThermalSamples
            /\ ThermalSamples \in Nat \ {0} /\ isHot \in BOOLEAN
        BY <1>1
      <3>2. Follows(LastOf(Append(heat, isHot), ThermalSamples), heat, isHot, ThermalSamples)
        BY <3>1, LastOfAppend
      <3>3. Follows(next, heat, isHot, ThermalSamples)
        BY <2>1, <3>2, Zenon
      <3> QED BY <3>3 DEF Follows
    <2>3. Len(next) \in Nat
      BY <2>2, LenProperties
    <2> QED BY <2>2, <2>3, Zenon
  <1> HIDE DEF next
  <1>4. sampler.at # "off" /\ hot <= Len(heat)
        /\ \A i \in (Len(heat) - hot + 1)..Len(heat) : heat[i]
    BY <1>1 DEF Inv, Warming
  <1>5. /\ hotNow \in 0..Len(next)
        /\ \A i \in (Len(next) - hotNow + 1)..Len(next) : next[i]
    <2>1. CASE ~isHot
      BY <1>3, <2>1
    <2>2. CASE isHot
      <3>1. hotNow \in 0..Len(next)
        BY <1>1, <1>3, <1>4, <2>2
      <3>2. ASSUME NEW i \in (Len(next) - hotNow + 1)..Len(next) PROVE next[i]
        <4>1. CASE i = Len(next)
          BY <1>3, <2>2, <4>1
        <4>2. CASE i # Len(next)
          <5>1. i \in 1..(Len(next) - 1)
            BY <1>3, <3>1, <3>2, <4>2
          <5>2. i + Len(heat) + 1 - Len(next) \in (Len(heat) - hot + 1)..Len(heat)
            <6>1. hotNow = hot + 1 /\ hot \in Nat /\ Len(heat) \in Nat /\ Len(next) \in Nat
              BY <1>1, <1>3, <2>2
            <6> HIDE DEF hotNow
            <6> QED BY <3>2, <5>1, <6>1
          <5> QED BY <1>3, <1>4, <5>1, <5>2
        <4> QED BY <4>1, <4>2
      <3> QED BY <3>1, <3>2
    <2> QED BY <2>1, <2>2
  <1> HIDE DEF hotNow
  <1>6. hotNow \in 0..ThermalSamples
    BY <1>1 DEF hotNow
  <1>7. TypeOK'
    <2>1. sampler' \in [at : {"waiting", "judging", "counting", "off"}, load : Loads,
                        ticks : 0..MaxTicks]
      BY <1>1, <1>2
    <2>2. hot' \in 0..ThermalSamples /\ stopped' \in {None, "ceiling", "heat", "load"}
      BY <1>1, <1>2, <1>6
    <2> QED BY <1>1, <1>2, <2>1, <2>2 DEF Inv, TypeOK
  <1>8. HistoriesOK' /\ Warming' /\ Stopping'
    <2>1. HistoriesOK'
      BY <1>2, <1>3 DEF Inv, HistoriesOK
    <2>2. Len(next) <= ThermalSamples
      BY <1>1, <1>3
    <2>3. Warming'
      BY <1>2, <1>3, <1>5, <2>2 DEF Warming
    <2>4. Stopping'
      BY <1>2 DEF Stopping
    <2> QED BY <2>1, <2>3, <2>4
  <1>9. Counting'
    BY <1>1, <1>2 DEF Inv, Counting
  <1>10. Bounded'
    <2>1. sampler'.ticks = sampler.ticks + 1
      BY <1>2
    <2>2. sampler'.at # "off" => hot' < ThermalSamples
      BY <1>2
    <2> QED BY <1>1, <1>2, <2>1, <2>2 DEF Inv, Bounded
  <1>11. StopsAreEarned'
    <2>1. CASE stopped' = "heat"
      <3>1. hotNow >= ThermalSamples
        BY <1>2, <2>1
      <3>2. Len(next) = ThermalSamples /\ hotNow = ThermalSamples
        BY <1>1, <1>3, <1>5, <1>6, <3>1
      <3>3. \A i \in 1..Len(next) : next[i]
        BY <1>3, <1>5, <3>2
      <3>4. DOMAIN next = 1..Len(next)
        BY <1>3, LenProperties
      <3> QED BY <1>2, <2>1, <3>2, <3>3, <3>4 DEF StopsAreEarned
    <2>2. CASE stopped' # "heat"
      BY <1>2, <2>2 DEF StopsAreEarned
    <2> QED BY <2>1, <2>2
  <1> QED BY <1>2, <1>7, <1>8, <1>9, <1>10, <1>11, WatchdogLeavesTheLoopAlone DEF Inv

\* The steps of the sampler that judge no load: the deadline passes, the ceiling
\* does not apply, the flag is read, a read failed.
LEMMA QuietStep ==
    ASSUME Inv, CeilingPasses \/ NotEnforced \/ NotSuspended \/ HoldCounters
    PROVE  Inv'
  <1> USE LoadCeilingAssumption
  <1>1. /\ UNCHANGED <<loopVars, contention, host, watchdogVars, stopped, histories>>
        /\ UNCHANGED <<pc, module, suspended, wasSuspended, status, hot, contended, heavy,
                       reported, trail, heat, announced, sustained>>
    BY DEF CeilingPasses, NotEnforced, NotSuspended, HoldCounters, loopVars, watchdogVars,
           histories
  <1>2. /\ sampler \in [at : {"waiting", "judging", "counting", "off"}, load : Loads,
                        ticks : 0..MaxTicks]
        /\ overdue \in BOOLEAN
    BY DEF Inv, TypeOK
  <1>3. \/ sampler' = sampler /\ overdue' = TRUE
        \/ /\ sampler.at # "off" /\ overdue' = overdue
           /\ \/ sampler.at # "waiting" /\ sampler' = [sampler EXCEPT !.at = "counting"]
              \/ sampler' = [sampler EXCEPT !.at = "waiting"]
    BY DEF CeilingPasses, NotEnforced, NotSuspended, HoldCounters
  <1>4. /\ sampler' \in [at : {"waiting", "judging", "counting", "off"}, load : Loads,
                         ticks : 0..MaxTicks]
        /\ sampler'.ticks = sampler.ticks
        /\ sampler.at = "off" <=> sampler'.at = "off"
        /\ sampler'.at # "waiting" /\ sampler'.at # "off" => sampler.at # "waiting"
    BY <1>2, <1>3
  <1>5. TypeOK'
    <2>1. overdue' \in BOOLEAN
      BY <1>2, <1>3
    <2> QED BY <1>1, <1>4, <2>1 DEF Inv, TypeOK
  <1>6. HistoriesOK' /\ Counting' /\ Bounded' /\ Warming' /\ Stopping'
    BY <1>1, <1>4 DEF Inv, HistoriesOK, Counting, Bounded, Warming, Stopping
  <1>7. StopsAreEarned'
    <2>1. overdue => overdue'
      BY <1>2, <1>3
    <2> QED BY <1>1, <2>1 DEF Inv, StopsAreEarned
  <1> QED BY <1>1, <1>5, <1>6, <1>7, WatchdogLeavesTheLoopAlone DEF Inv

\* What one more sample makes of counters, warning and announcements, as long as
\* they are kept the way CountLoad and Suspended keep them.
LEMMA CountingContinues ==
    ASSUME Inv, sampler.at # "off", NEW x \in Judged, trail' = Append(trail, x),
           heavy' = IF x = "heavy" THEN heavy + 1 ELSE 0,
           contended' = IF x \in Contended THEN contended + 1 ELSE 0,
           reported' <=> contended' >= WarnSamples,
           announced' = IF contended' >= WarnSamples /\ ~reported
                        THEN announced + 1 ELSE announced
    PROVE  HistoriesOK' => Counting'
  <1> USE LoadCeilingAssumption
  <1>1. /\ trail \in Seq(Judged) /\ heavy = Stretch(trail, {"heavy"})
        /\ contended = Stretch(trail, Contended) /\ (reported <=> contended >= WarnSamples)
        /\ announced = SustainedStretches(trail)
        /\ contended \in Nat /\ reported \in BOOLEAN
    BY DEF Inv, TypeOK, HistoriesOK, Counting
  <1>2. heavy' = Stretch(trail', {"heavy"})
    BY <1>1, StretchGrows
  <1>3. contended' = Stretch(trail', Contended)
    BY <1>1, StretchGrows
  <1>4. SustainedStretches(trail') = IF contended' = WarnSamples THEN announced + 1 ELSE announced
    BY <1>1, <1>3, SustainedStretchesGrow
  <1>5. contended' = WarnSamples <=> contended' >= WarnSamples /\ ~reported
    BY <1>1
  <1> QED BY <1>2, <1>3, <1>4, <1>5 DEF Counting

\* Suspended: the counters restart.
LEMMA SuspendedStep ==
    ASSUME Inv, Suspended
    PROVE  Inv'
  <1> USE LoadCeilingAssumption
  <1>1. /\ UNCHANGED <<loopVars, contention, sustained>>
        /\ UNCHANGED <<pc, module, suspended, wasSuspended, status, host, hot, stopped, overdue,
                       heat, announced>>
        /\ contended' = 0 /\ heavy' = 0 /\ reported' = FALSE
        /\ trail' = Append(trail, "suspended")
        /\ sampler.at = "judging" /\ sampler' = [sampler EXCEPT !.at = "waiting"]
    BY DEF Suspended, loopVars
  <1>2. /\ sampler' \in [at : {"waiting", "judging", "counting", "off"}, load : Loads,
                         ticks : 0..MaxTicks]
        /\ sampler'.ticks = sampler.ticks /\ sampler'.at = "waiting"
        /\ sampler.ticks \in Nat
    <2>1. sampler \in [at : {"waiting", "judging", "counting", "off"}, load : Loads,
                       ticks : 0..MaxTicks]
      BY DEF Inv, TypeOK
    <2> QED BY <1>1, <2>1
  <1>3. TypeOK'
    <2>1. reported' \in BOOLEAN
      BY <1>1
    <2>2. contended' \in 0..MaxTicks /\ heavy' \in 0..AbortSamples
      BY <1>1
    <2> QED BY <1>1, <1>2, <2>1, <2>2 DEF Inv, TypeOK
  <1>4. HistoriesOK'
    <2>1. trail \in Seq(Judged) /\ heat \in Seq(BOOLEAN) /\ "suspended" \in Judged
      BY DEF Inv, HistoriesOK, Judged
    <2> QED BY <1>1, <2>1, AppendProperties DEF HistoriesOK
  <1>5. Counting'
    <2>1. "suspended" \in Judged /\ "suspended" \notin Contended
      BY DEF Judged, Contended
    <2>2. reported' <=> contended' >= WarnSamples
      BY <1>1
    <2>3. announced' = IF contended' >= WarnSamples /\ ~reported
                       THEN announced + 1 ELSE announced
      BY <1>1
    <2> QED BY <1>1, <1>4, <2>1, <2>2, <2>3, CountingContinues
  <1>6. Bounded' /\ Warming' /\ Stopping' /\ StopsAreEarned'
    <2>1. stopped = None
      BY <1>1 DEF Inv, Stopping
    <2> QED BY <1>1, <1>2, <2>1 DEF Inv, Bounded, Warming, Stopping, StopsAreEarned
  <1> QED BY <1>1, <1>3, <1>4, <1>5, <1>6, WatchdogLeavesTheLoopAlone DEF Inv

\* AbortOnLoad: the stretch it stops the run for is in the history.
LEMMA AbortOnLoadStep ==
    ASSUME Inv, AbortOnLoad
    PROVE  Inv'
  <1> USE LoadCeilingAssumption
  <1>1. /\ UNCHANGED <<loopVars, contention, sustained>>
        /\ UNCHANGED <<pc, module, suspended, wasSuspended, status, host, hot, contended,
                       reported, overdue, heat, announced>>
        /\ sampler.at = "counting" /\ sampler' = [sampler EXCEPT !.at = "off"]
        /\ heavy' = HeavyNow /\ HeavyNow >= AbortSamples /\ stopped' = "load"
        /\ trail' = Append(trail, sampler.load)
    BY DEF AbortOnLoad, loopVars
  <1>2. /\ sampler \in [at : {"waiting", "judging", "counting", "off"}, load : Loads,
                        ticks : 0..MaxTicks]
        /\ heavy = Stretch(trail, {"heavy"}) /\ heavy < AbortSamples /\ heavy \in Nat
        /\ trail \in Seq(Judged) /\ sampler.load \in Judged
    BY <1>1 DEF Inv, TypeOK, Counting, Bounded, HistoriesOK, Judged
  <1>3. /\ sampler' \in [at : {"waiting", "judging", "counting", "off"}, load : Loads,
                         ticks : 0..MaxTicks]
        /\ sampler'.at = "off"
    BY <1>1, <1>2
  <1>4. heavy' \in 0..AbortSamples
    BY <1>1, <1>2 DEF HeavyNow
  <1>5. TypeOK'
    BY <1>1, <1>3, <1>4 DEF Inv, TypeOK
  <1>6. HistoriesOK'
    BY <1>1, <1>2, AppendProperties DEF Inv, HistoriesOK
  <1>7. Stretch(trail', {"heavy"}) = HeavyNow
    BY <1>1, <1>2, StretchGrows DEF HeavyNow
  <1>8. Counting' /\ Bounded' /\ Warming' /\ Stopping' /\ StopsAreEarned'
    BY <1>1, <1>3, <1>7 DEF Inv, Counting, Bounded, Warming, Stopping, StopsAreEarned
  <1> QED BY <1>1, <1>5, <1>6, <1>8, WatchdogLeavesTheLoopAlone DEF Inv

\* CountLoad: a module enters `sustained` on a sample that notes the contention.
LEMMA CountLoadStep ==
    ASSUME Inv, CountLoad
    PROVE  Inv'
  <1> USE LoadCeilingAssumption
  <1>1. /\ UNCHANGED <<loopVars, host, hot, stopped, overdue, heat>>
        /\ UNCHANGED <<pc, module, suspended, wasSuspended, status>>
        /\ sampler.at = "counting" /\ sampler' = [sampler EXCEPT !.at = "waiting"]
        /\ heavy' = HeavyNow /\ HeavyNow < AbortSamples /\ contended' = ContendedNow
        /\ trail' = Append(trail, sampler.load)
        /\ sustained' = IF pc = "run" /\ Stretch(trail', Contended) >= WarnSamples
                        THEN sustained \cup {module} ELSE sustained
    BY DEF CountLoad, loopVars
  <1>2. /\ sampler \in [at : {"waiting", "judging", "counting", "off"}, load : Loads,
                        ticks : 0..MaxTicks]
        /\ heavy \in Nat /\ contended \in Nat /\ contended < sampler.ticks
        /\ reported \in BOOLEAN /\ announced \in Nat /\ contention \in BOOLEAN
        /\ trail \in Seq(Judged) /\ sampler.load \in Judged
        /\ contended = Stretch(trail, Contended)
        /\ reported <=> contended >= WarnSamples
        /\ sustained \subseteq Modules /\ stopped = None
    BY <1>1 DEF Inv, TypeOK, Counting, Bounded, HistoriesOK, Judged, Stopping
  <1>3. /\ sampler' \in [at : {"waiting", "judging", "counting", "off"}, load : Loads,
                         ticks : 0..MaxTicks]
        /\ sampler'.at = "waiting" /\ sampler'.ticks = sampler.ticks
    BY <1>1, <1>2
  <1>4. /\ ContendedNow \in Nat /\ ContendedNow <= sampler.ticks
        /\ HeavyNow \in 0..AbortSamples
    <2>1. ContendedNow \in Nat /\ ContendedNow <= sampler.ticks
      <3>1. sampler.ticks \in Nat
        BY <1>2
      <3> QED BY <1>2, <3>1 DEF ContendedNow
    <2>2. HeavyNow \in Nat
      BY <1>2 DEF HeavyNow
    <2> QED BY <1>1, <2>1, <2>2
  <1>5. /\ reported' \in BOOLEAN /\ contention' \in BOOLEAN
        /\ reported' <=> ContendedNow >= WarnSamples
        /\ announced' = IF ContendedNow >= WarnSamples /\ ~reported
                        THEN announced + 1 ELSE announced
        /\ contention \/ ContendedNow >= WarnSamples => contention'
    <2>1. CASE ContendedNow >= WarnSamples
      BY <2>1 DEF CountLoad
    <2>2. CASE ~(ContendedNow >= WarnSamples)
      <3>1. ReportedNow = FALSE
        <4>1. ContendedNow = 0 \/ ~reported
          BY <1>2, <2>2 DEF ContendedNow
        <4> QED BY <4>1 DEF ReportedNow
      <3>2. reported' = FALSE /\ contention' = contention /\ announced' = announced
        BY <2>2, <3>1 DEF CountLoad
      <3> QED BY <1>2, <2>2, <3>2
    <2> QED BY <2>1, <2>2
  <1>6. Stretch(trail', Contended) = ContendedNow
    BY <1>1, <1>2, StretchGrows DEF ContendedNow
  <1>7. TypeOK'
    <2>1. sustained' \subseteq Modules
      <3>1. pc = "run" => module \in Modules
        BY DEF Inv, Charged
      <3> QED BY <1>1, <1>2, <3>1
    <2>2. reported' \in BOOLEAN /\ announced' \in Nat /\ contention' \in BOOLEAN
      BY <1>2, <1>5
    <2>3. contended' \in 0..MaxTicks /\ heavy' \in 0..AbortSamples
      BY <1>1, <1>2, <1>4
    <2> QED BY <1>1, <1>3, <2>1, <2>2, <2>3 DEF Inv, TypeOK
  <1>8. HistoriesOK'
    BY <1>1, <1>2, AppendProperties DEF Inv, HistoriesOK
  <1>9. Counting'
    BY <1>1, <1>2, <1>5, <1>8, CountingContinues DEF HeavyNow, ContendedNow
  <1>10. Bounded' /\ Warming' /\ Stopping' /\ StopsAreEarned'
    BY <1>1, <1>2, <1>3, <1>4 DEF Inv, Bounded, Warming, Stopping, StopsAreEarned
  <1>11. Charged'
    <2>1. CASE sustained' = sustained
      BY <1>1, <1>5, <2>1 DEF Inv, Charged
    <2>2. CASE /\ sustained' = sustained \cup {module}
               /\ pc = "run" /\ ContendedNow >= WarnSamples
      <3>1. contention'
        BY <1>5, <2>2
      <3>2. /\ Charged /\ module \in Modules /\ status[module] = "pending"
            /\ module <= module
        BY <2>2 DEF Inv, Charged, Modules
      <3> QED BY <1>1, <2>2, <3>1, <3>2 DEF Charged
    <2> QED BY <1>1, <1>6, <2>1, <2>2
  <1> QED BY <1>7, <1>8, <1>9, <1>10, <1>11 DEF Inv

-----------------------------------------------------------------------------
(* The theorems                                                            *)

LEMMA InvInit == Init => Inv
  <1> SUFFICES ASSUME Init PROVE Inv
    OBVIOUS
  <1> USE LoadCeilingAssumption DEF Init
  <1>1. TypeOK
    <2>1. sampler \in [at : {"waiting", "judging", "counting", "off"}, load : Loads,
                      ticks : 0..MaxTicks]
      BY DEF Loads
    <2>2. hot \in 0..ThermalSamples /\ contended \in 0..MaxTicks /\ heavy \in 0..AbortSamples
      OBVIOUS
    <2>3. status \in [Modules -> {"pending", "clean", "degraded", "cancelled"}]
      OBVIOUS
    <2>4. module \in 1..(NModules + 1) /\ announced \in Nat /\ sustained \subseteq Modules
      OBVIOUS
    <2>5. /\ suspended \in BOOLEAN /\ wasSuspended \in BOOLEAN /\ contention \in BOOLEAN
          /\ reported \in BOOLEAN /\ overdue \in BOOLEAN
      OBVIOUS
    <2>6. host \in Hosts /\ stopped = None /\ pc = "gap"
      OBVIOUS
    <2> HIDE DEF Init
    <2> QED BY <2>1, <2>2, <2>3, <2>4, <2>5, <2>6 DEF TypeOK
  <1>2. HistoriesOK /\ Len(heat) = 0 /\ Len(trail) = 0
    BY EmptySeq DEF HistoriesOK
  <1>3. Counting /\ Bounded /\ Warming /\ Stopping
    <2>1. Counting
      BY NoStretch DEF Counting
    <2>2. Bounded /\ Warming /\ Stopping
      BY <1>2 DEF Bounded, Warming, Stopping
    <2> QED BY <2>1, <2>2
  <1>4. StopsAreEarned /\ Charged
    BY DEF StopsAreEarned, Charged
  <1> QED BY <1>1, <1>2, <1>3, <1>4 DEF Inv

LEMMA InvStep == Inv /\ [Next]_vars => Inv'
  <1>1. ASSUME Inv, Watchdog PROVE Inv'
    BY <1>1, SampleStep, QuietStep, SuspendedStep, AbortOnLoadStep, CountLoadStep DEF Watchdog
  <1>2. ASSUME Inv, UNCHANGED vars PROVE Inv'
    <2>1. UNCHANGED loopFrame /\ Charged'
      BY <1>2 DEF Inv, Charged, vars, loopVars, loopFrame, histories
    <2>2. TypeOK'
      BY <1>2 DEF Inv, TypeOK, vars, loopVars, watchdogVars, histories
    <2> QED BY <1>2, <2>1, <2>2, LoopLeavesTheWatchdogAlone DEF Inv
  <1> QED BY <1>1, <1>2, LoopStep DEF Next

LEMMA InvAlways == Spec => []Inv
  BY InvInit, InvStep, PTL DEF Spec

\* Every counter of the watchdog stays within its limit.
THEOREM TypeCorrect == Spec => []TypeOK
  <1>1. Inv => TypeOK
    BY DEF Inv
  <1> QED BY <1>1, InvAlways, PTL

\* Whatever the order the loop and the sampler are scheduled in, the counters
\* are the lengths of the current stretches (check_external_load).
THEOREM CountersAreAlwaysConsecutive == Spec => []CountersAreConsecutive
  <1>1. Inv => CountersAreConsecutive
    BY DEF Inv, Counting, CountersAreConsecutive
  <1> QED BY <1>1, InvAlways, PTL

\* The watchdog stops a run on the evidence its thresholds name, and on no less.
THEOREM StopsAreAlwaysEarned == Spec => []StopsAreEarned
  <1>1. Inv => StopsAreEarned
    BY DEF Inv
  <1> QED BY <1>1, InvAlways, PTL

\* One warning for each stretch that grew long enough.
THEOREM AlwaysAnnouncedOncePerStretch == Spec => []AnnouncedOncePerStretch
  <1>1. Inv => AnnouncedOncePerStretch
    BY DEF Inv, Counting, AnnouncedOncePerStretch
  <1> QED BY <1>1, InvAlways, PTL

\* No module that was measured under sustained contention comes out clean.
THEOREM SustainedLoadAlwaysDegrades == Spec => []SustainedLoadDegrades
  <1>1. Inv => SustainedLoadDegrades
    BY DEF Inv, Charged, SustainedLoadDegrades
  <1> QED BY <1>1, InvAlways, PTL
=============================================================================
