--------------------------- MODULE AssessmentProofs ---------------------------
(***************************************************************************)
(* Theorems about a run from its request to its verdicts, for every set of *)
(* requests and hosts, every sample of the units that is walked, any       *)
(* number of repetitions and cycles, and whatever fails.                   *)
(*                                                                         *)
(* The argument goes up in four steps.  Of each table a lemma says that    *)
(* its ends account for what they leave out (Explained) and where its rows *)
(* look at the cancel flag (Looking); EveryTable sums them up.  WorkOK is  *)
(* the invariant of one module walking such a table: what it will have to  *)
(* say of what is absent (Mentions), and that the progress it shows is     *)
(* covered by the repeated units behind it (Shows).  RunInv says that each *)
(* module a run has been through left a result (Covering), that the        *)
(* results are such a module's (Recorded), and that a cancelled module has *)
(* begun no more pieces of work than it has rows behind it (Blind).        *)
(* Certified says what a bundle can be once it is signed: as the agent     *)
(* signed it, touched in one field, or of another schema.                  *)
(*                                                                         *)
(* Two theorems need arithmetic of their own.  Of the cycles scored,       *)
(* CompleteAreWhole says which they are and WindowsAreApart that retention *)
(* never compares a cycle with itself.  What preflight adds up over the    *)
(* places of a plan is no less than what its modules write                 *)
(* (SumOverPlaces): the folds of the model are shown to be sums that exist *)
(* (SumsExist) and may take any element first (AnyFirst), by size.         *)
(***************************************************************************)
EXTENDS Assessment, FiniteSetTheorems, SequenceTheorems, WellFoundedInduction, TLAPS

-----------------------------------------------------------------------------
(* The tables                                                              *)

\* Whatever is absent and never mentioned is known to be, and what is mentioned
\* is absent and degrades the module.
Explained(x) ==
    /\ x.absent \ x.told \subseteq Unspoken /\ x.told \subseteq x.absent
    /\ x.told # {} => "ValidationFailed" \in x.codes

\* A row of a table; `others` are metrics of later rows an end may take along.
Row(u, others) ==
    /\ u.op \in {"command", "reps"} /\ u.poll \in BOOLEAN /\ u.probe \in BOOLEAN
    /\ u.op = "reps" => u.poll
    /\ \A x \in u.odd \union u.early : Explained(x) /\ x.absent \subseteq u.keys \union others

Table(t, others) ==
    /\ t \in Seq(Range(t))
    /\ \A u \in Range(t) : Row(u, others)

\* Past the fourth row a module looks at the flag wherever it begins something.
Looking(t) == \A i \in DOMAIN t : ~ t[i].poll => i \in 1..4
Polled(t)  == \A u \in Range(t) : u.poll

LEMMA Joined ==
    ASSUME NEW others, NEW s, Table(s, others), NEW t, Table(t, others)
    PROVE  /\ Table(s \o t, others) /\ Range(s \o t) = Range(s) \union Range(t)
           /\ Len(s \o t) = Len(s) + Len(t)
<1> DEFINE S == Range(s) \union Range(t)
<1>1. s \in Seq(S) /\ t \in Seq(S)
  <2>1. s \in Seq(Range(s)) /\ t \in Seq(Range(t))
    BY DEF Table
  <2>2. /\ Len(s) \in Nat /\ s \in [1..Len(s) -> S]
        /\ Len(t) \in Nat /\ t \in [1..Len(t) -> S]
    BY <2>1 DEF Range
  <2> QED BY <2>1, <2>2, SeqDef
<1>2. /\ s \o t \in Seq(S) /\ Len(s \o t) = Len(s) + Len(t)
      /\ \A i \in 1..Len(s) : (s \o t)[i] = s[i]
      /\ \A i \in 1..Len(t) : (s \o t)[Len(s) + i] = t[i]
      /\ \A i \in 1..Len(s) + Len(t) : i \in 1..Len(s) \/ (i - Len(s) \in 1..Len(t))
  BY <1>1
<1>3. Range(s \o t) = S
  <2>1. DOMAIN (s \o t) = 1..Len(s) + Len(t) /\ DOMAIN s = 1..Len(s) /\ DOMAIN t = 1..Len(t)
        /\ Len(s) \in Nat /\ Len(t) \in Nat
    BY <1>1, <1>2
  <2>2. ASSUME NEW x \in S PROVE x \in Range(s \o t)
    <3>1. CASE x \in Range(s)
      <4>1. PICK i \in 1..Len(s) : x = s[i]
        BY <2>1, <3>1 DEF Range
      <4> QED BY <1>2, <2>1, <4>1 DEF Range
    <3>2. CASE x \in Range(t)
      <4>1. PICK i \in 1..Len(t) : x = t[i]
        BY <2>1, <3>2 DEF Range
      <4>2. Len(s) + i \in 1..Len(s) + Len(t)
        BY <2>1
      <4> QED BY <1>2, <2>1, <4>1, <4>2 DEF Range
    <3> QED BY <2>2, <3>1, <3>2
  <2>3. \A i \in DOMAIN (s \o t) : (s \o t)[i] \in S
    BY <1>2, <2>1
  <2> QED BY <2>2, <2>3 DEF Range
<1> QED BY <1>2, <1>3 DEF Table

\* A table is known by its rows.
LEMMA OfRows ==
    ASSUME NEW others, NEW n \in Nat, NEW t, t = [i \in 1..n |-> t[i]],
           \A i \in 1..n : Row(t[i], others)
    PROVE  Table(t, others)
<1>1. DOMAIN t = 1..n /\ \A i \in 1..n : t[i] \in Range(t)
  BY DEF Range
<1>2. t \in Seq(Range(t))
  <2>1. t \in [1..n -> Range(t)]
    BY <1>1
  <2> QED BY <2>1
<1>3. \A u \in Range(t) : Row(u, others)
  BY <1>1 DEF Range
<1> QED BY <1>2, <1>3 DEF Table

LEMMA ShortLooks ==
    ASSUME NEW others, NEW n \in {1, 2, 3, 4}, NEW t, t = [i \in 1..n |-> t[i]],
           \A i \in 1..n : Row(t[i], others)
    PROVE  Table(t, others) /\ Looking(t)
<1>1. DOMAIN t = 1..n /\ n \in Nat
  OBVIOUS
<1>2. Looking(t)
  BY <1>1 DEF Looking
<1> QED BY <1>1, <1>2, OfRows

LEMMA PolledLooks ==
    ASSUME NEW n \in Nat, NEW t, t = [i \in 1..n |-> t[i]], \A i \in 1..n : t[i].poll
    PROVE  Polled(t) /\ Looking(t)
<1>1. DOMAIN t = 1..n
  OBVIOUS
<1> QED BY <1>1 DEF Looking, Polled, Range

\* The ends.
LEMMA EveryEnd ==
    /\ Explained(Published) /\ Published.absent = {}
    /\ Explained(Fails) /\ Fails.absent = {}
    /\ Explained(TooShort) /\ TooShort.absent = {}
    /\ \A code : Explained(Flagged(code)) /\ Flagged(code).absent = {}
    /\ \A keys : Explained(Withheld(keys)) /\ Withheld(keys).absent = keys
    /\ \A keys : /\ keys \subseteq Unspoken => Explained(Silently(keys))
                 /\ Silently(keys).absent = keys
<1>1. Explained(Published) /\ Published.absent = {}
  BY DEF Explained, Published, End
<1>2. Explained(Fails) /\ Fails.absent = {}
  BY DEF Explained, Fails, End
<1>3. ASSUME NEW code PROVE Explained(Flagged(code)) /\ Flagged(code).absent = {}
  BY DEF Explained, Flagged, End
<1>4. ASSUME NEW keys PROVE Explained(Withheld(keys)) /\ Withheld(keys).absent = keys
  BY DEF Explained, Withheld, End
<1>5. ASSUME NEW keys
      PROVE  /\ keys \subseteq Unspoken => Explained(Silently(keys))
             /\ Silently(keys).absent = keys
  BY DEF Explained, Silently, End
<1>6. Explained(TooShort) /\ TooShort.absent = {}
  BY <1>3 DEF TooShort
<1> QED BY <1>1, <1>2, <1>3, <1>4, <1>5, <1>6

LEMMA Gates ==
    ASSUME NEW others
    PROVE  /\ Row(Gate, others) /\ Row(PolledGate, others)
           /\ \A code : Row(Condition(code), others)
<1>1. Row(Gate, others)
  BY EveryEnd DEF Gate, Command, Row
<1>2. Row(PolledGate, others)
  BY EveryEnd DEF PolledGate, Command, Row
<1>3. ASSUME NEW code PROVE Row(Condition(code), others)
  BY EveryEnd DEF Condition, Command, Row
<1> QED BY <1>1, <1>2, <1>3

LEMMA LooksAfter ==
    ASSUME NEW others, NEW s, Table(s, others), NEW t, Table(t, others), Looking(s), Polled(t)
    PROVE  Looking(s \o t)
<1>1. s \in Seq(Range(s)) /\ t \in Seq(Range(t))
  BY DEF Table
<1>2. Table(s \o t, others) /\ Len(s \o t) = Len(s) + Len(t)
  BY Joined
<1>3. ASSUME NEW i \in DOMAIN (s \o t), ~ (s \o t)[i].poll PROVE i \in 1..4
  <2>1. /\ DOMAIN (s \o t) = 1..Len(s) + Len(t) /\ DOMAIN t = 1..Len(t)
        /\ DOMAIN s = 1..Len(s) /\ Len(s) \in Nat /\ Len(t) \in Nat
    BY <1>1, <1>2 DEF Table
  <2>2. CASE i > Len(s)
    <3>1. i - Len(s) \in 1..Len(t) /\ (s \o t)[i] = t[i - Len(s)]
      BY <1>1, <2>1, <2>2
    <3> QED BY <1>3, <2>1, <3>1 DEF Range, Polled
  <2>3. CASE i <= Len(s)
    <3>1. i \in DOMAIN s /\ (s \o t)[i] = s[i]
      BY <1>1, <2>1, <2>3
    <3> QED BY <1>3, <3>1 DEF Looking
  <2> QED BY <2>1, <2>2, <2>3
<1> QED BY <1>3 DEF Looking

\* A table that always looks, appended.
LEMMA Lengthened ==
    ASSUME NEW others, NEW s, Table(s, others), Looking(s), NEW t, Table(t, others), Polled(t)
    PROVE  Table(s \o t, others) /\ Looking(s \o t)
BY Joined, LooksAfter

LEMMA CpuTable == Table(CpuUnits, {}) /\ Looking(CpuUnits)
<1>1. ASSUME NEW key PROVE Row(Kernel(key), {}) /\ Kernel(key).poll
  BY EveryEnd DEF Kernel, Reps, Row
<1>2. CpuUnits = [i \in 1..10 |-> Kernel(CpuMetrics[i])]
  BY DEF CpuUnits, Each, CpuMetrics
<1>3. /\ CpuUnits = [i \in 1..10 |-> CpuUnits[i]]
      /\ \A i \in 1..10 : Row(CpuUnits[i], {}) /\ CpuUnits[i].poll
  BY <1>1, <1>2
<1> QED BY <1>3, OfRows, PolledLooks

LEMMA MemoryTable == Table(MemoryUnits, {}) /\ Looking(MemoryUnits)
<1> DEFINE walks == Each(MemoryMetrics, Walk)
           open  == <<CacheSizeAssumed, WorkingSetTooSmall>>
<1>1. ASSUME NEW key PROVE Row(Walk(key), {}) /\ Walk(key).poll
  BY EveryEnd DEF Walk, Kernel, Reps, Row
<1>2. walks = [i \in 1..13 |-> Walk(MemoryMetrics[i])]
  BY DEF Each, MemoryMetrics
<1>3. walks = [i \in 1..13 |-> walks[i]] /\ \A i \in 1..13 : Row(walks[i], {}) /\ walks[i].poll
  BY <1>1, <1>2
<1>4. open = [i \in 1..2 |-> open[i]] /\ \A i \in 1..2 : Row(open[i], {})
  BY Gates DEF CacheSizeAssumed, WorkingSetTooSmall
<1>5. MemoryUnits = open \o walks
  BY DEF MemoryUnits
<1> HIDE DEF walks, open
<1>6. Table(walks, {}) /\ Polled(walks)
  BY <1>3, OfRows, PolledLooks
<1>7. Table(open, {}) /\ Looking(open)
  BY <1>4, ShortLooks
<1> QED BY <1>5, <1>6, <1>7, Lengthened

LEMMA StorageTable == Table(StorageUnits, {}) /\ Looking(StorageUnits)
<1> DEFINE open == <<PlanFits, CreateFixture, PageCacheOnly>>
           More(t) == Table(t, {}) /\ Polled(t)
<1>1. ASSUME NEW key, NEW tail, NEW writes \in BOOLEAN
      PROVE  More(Io(key, tail, writes))
  <2>1. Row(Settle(key), {}) /\ Settle(key).poll
    BY EveryEnd DEF Settle, Command, Row
  <2>2. Row(Operations(key, tail, writes), {}) /\ Operations(key, tail, writes).poll
    BY EveryEnd DEF Operations, Reps, Row, SlowsDown, ThinTail
  <2>3. /\ Io(key, tail, writes) = [i \in 1..2 |-> Io(key, tail, writes)[i]]
        /\ \A i \in 1..2 : Row(Io(key, tail, writes)[i], {}) /\ Io(key, tail, writes)[i].poll
    BY <2>1, <2>2 DEF Io
  <2> QED BY <2>3, OfRows, PolledLooks
<1>2. open = [i \in 1..3 |-> open[i]] /\ \A i \in 1..3 : Row(open[i], {})
  BY Gates DEF PlanFits, CreateFixture, PageCacheOnly
<1>3. Table(open, {}) /\ Looking(open)
  <2> HIDE DEF open
  <2> QED BY <1>2, ShortLooks
<1> DEFINE a == Io("sequential_read.qd1", {}, FALSE)
           b == Io("sequential_write.qd1", {}, TRUE)
           c == Io("random_read_4k.qd1", {"latency_read_4k.p99"}, FALSE)
           d == Io("random_read_4k.qd16", {}, FALSE)
           e == Io("random_write_4k.qd1", {"latency_write_4k.p99"}, TRUE)
           f == Io("random_write_4k.qd16", {}, TRUE)
           g == Io("random_mixed_4k.qd16", {}, TRUE)
           h == Io("latency_fsync.mean", {}, TRUE)
<1>4. StorageUnits = open \o a \o b \o c \o d \o e \o f \o g \o h
  BY DEF StorageUnits
<1>5. More(a) /\ More(b) /\ More(c) /\ More(d) /\ More(e) /\ More(f) /\ More(g) /\ More(h)
  BY <1>1
<1> HIDE DEF open, a, b, c, d, e, f, g, h
<1>6. Table(open \o a \o b \o c, {}) /\ Looking(open \o a \o b \o c)
  BY <1>3, <1>5, Lengthened
<1>7. /\ Table(open \o a \o b \o c \o d \o e \o f, {})
      /\ Looking(open \o a \o b \o c \o d \o e \o f)
  BY <1>5, <1>6, Lengthened
<1> QED BY <1>4, <1>5, <1>7, Lengthened

LEMMA NetworkTable ==
    Table(NetworkUnits, {"download.multi"}) /\ Looking(NetworkUnits)
<1> DEFINE rest == {"download.multi"}
<1>1. Row(ChooseEndpoint, rest)
  BY Gates DEF ChooseEndpoint
<1>2. Row(PathPhases, rest)
  <2>1. \A k \in PathLatency \ {"tcp_connect.mean"} : {k} \subseteq Unspoken
    BY DEF Unspoken
  <2> DEFINE missed == {PhaseMissed(k) : k \in PathLatency \ {"tcp_connect.mean"}}
  <2>2. ASSUME NEW x \in missed PROVE Explained(x) /\ x.absent \subseteq PathLatency
    <3>1. PICK k \in PathLatency \ {"tcp_connect.mean"} : x = Silently({k})
      BY DEF PhaseMissed
    <3> QED BY <2>1, <3>1, EveryEnd
  <2>3. /\ PathPhases.odd = missed \union {TooShort} /\ PathPhases.early = {}
        /\ PathPhases.keys = PathLatency /\ PathPhases.op = "reps"
        /\ PathPhases.poll = TRUE /\ PathPhases.probe = FALSE
    BY DEF PathPhases, Reps
  <2> HIDE DEF missed
  <2> QED BY <2>2, <2>3, EveryEnd DEF Row
<1>3. ASSUME NEW key, NEW more, more \subseteq rest
      PROVE  Row(Download(key, more), rest)
  <2>1. Explained(BudgetSpent(key, more)) /\ BudgetSpent(key, more).absent = {key} \union more
    BY DEF BudgetSpent, Withheld, End, Explained
  <2> QED BY <1>3, <2>1, EveryEnd DEF Download, Reps, Row
<1>4. /\ NetworkUnits = [i \in 1..4 |-> NetworkUnits[i]]
      /\ \A i \in 1..4 : Row(NetworkUnits[i], rest)
  BY <1>1, <1>2, <1>3 DEF NetworkUnits
<1> QED BY <1>4, ShortLooks

LEMMA WebTable ==
    /\ Table(WebUnits, LatencyKeys) /\ Looking(WebUnits)
    /\ SmallLatency[2] \in Range(WebUnits)
<1> DEFINE open   == <<OriginStarts>>
           shapes == Each(ShapeKeys, Shape)
<1>1. Row(OriginStarts, LatencyKeys)
  BY Gates DEF OriginStarts
<1>2. ASSUME NEW key PROVE Row(Shape(key), LatencyKeys) /\ Shape(key).poll
  <2>1. Explained(NoCapacity) /\ NoCapacity.absent = {"requests.small_keepalive"} \union LatencyKeys
    BY DEF NoCapacity, Withheld, End, Explained
  <2> QED BY <2>1, EveryEnd DEF Shape, Reps, Row
<1>3. /\ open = [i \in 1..1 |-> open[i]]
      /\ \A i \in 1..1 : Row(open[i], LatencyKeys)
  BY <1>1
<1>4. shapes = [i \in 1..5 |-> Shape(ShapeKeys[i])]
  BY DEF Each, ShapeKeys
<1>5. /\ shapes = [i \in 1..5 |-> shapes[i]]
      /\ \A i \in 1..5 : Row(shapes[i], LatencyKeys) /\ shapes[i].poll
  BY <1>2, <1>4
<1>6. /\ SmallLatency = [i \in 1..2 |-> SmallLatency[i]]
      /\ \A i \in 1..2 : Row(SmallLatency[i], LatencyKeys) /\ SmallLatency[i].poll
  <2> DEFINE settle  == Command("latency.small_mean", {}, TRUE, {})
             offered == Reps("latency.small_mean", LatencyKeys, FALSE, {}, "withheld",
                             {Flagged("GeneratorSaturated")})
  <2>1. Row(settle, LatencyKeys) /\ settle.poll
    BY DEF Command, Row
  <2>2. Row(offered, LatencyKeys) /\ offered.poll
    BY EveryEnd DEF Reps, Row
  <2>3. SmallLatency = <<settle, offered>>
    BY DEF SmallLatency
  <2> HIDE DEF settle, offered
  <2> QED BY <2>1, <2>2, <2>3
<1>7. WebUnits = open \o shapes \o SmallLatency
  BY DEF WebUnits
<1> HIDE DEF open, shapes
<1>8. Table(open, LatencyKeys) /\ Looking(open)
  BY <1>3, ShortLooks
<1>9. Table(shapes, LatencyKeys) /\ Polled(shapes)
  BY <1>5, OfRows, PolledLooks
<1>10. Table(SmallLatency, LatencyKeys) /\ Polled(SmallLatency)
  BY <1>6, OfRows, PolledLooks
<1>11. Table(open \o shapes, LatencyKeys) /\ Looking(open \o shapes)
  BY <1>8, <1>9, Lengthened
<1>12. SmallLatency[2] \in Range(WebUnits)
  <2>1. SmallLatency[2] \in Range(SmallLatency)
    BY <1>6 DEF Range
  <2> QED BY <1>7, <1>10, <1>11, <2>1, Joined
<1> QED BY <1>7, <1>10, <1>11, <1>12, Lengthened

LEMMA InterpreterTables ==
    /\ Table(PhpUnits, {}) /\ Looking(PhpUnits)
    /\ Table(NodeUnits, {}) /\ Looking(NodeUnits)
<1> DEFINE start   == <<Startup("startup.cold")>>
           php     == Each(PhpWorkloads, Script)
           node    == Each(NodeWorkloads, Script)
<1>1. /\ Interpreter = [i \in 1..4 |-> Interpreter[i]]
      /\ \A i \in 1..4 : Row(Interpreter[i], {})
  BY Gates DEF Interpreter, FindInterpreter, WriteScript, Describe, UnusualBuild
<1>2. ASSUME NEW key PROVE Row(Script(key), {}) /\ Script(key).poll
  BY EveryEnd DEF Script, Reps, Row
<1>3. Row(Startup("startup.cold"), {}) /\ Startup("startup.cold").poll
  BY EveryEnd DEF Startup, Reps, Row
<1>4. /\ php = [i \in 1..6 |-> Script(PhpWorkloads[i])]
      /\ node = [i \in 1..6 |-> Script(NodeWorkloads[i])]
  BY DEF Each, PhpWorkloads, NodeWorkloads
<1>5. /\ php = [i \in 1..6 |-> php[i]] /\ \A i \in 1..6 : Row(php[i], {}) /\ php[i].poll
      /\ node = [i \in 1..6 |-> node[i]] /\ \A i \in 1..6 : Row(node[i], {}) /\ node[i].poll
  BY <1>2, <1>4
<1>6. start = [i \in 1..1 |-> start[i]] /\ \A i \in 1..1 : Row(start[i], {}) /\ start[i].poll
  BY <1>3
<1>7. PhpUnits = Interpreter \o php \o start /\ NodeUnits = Interpreter \o node \o start
  BY DEF PhpUnits, NodeUnits
<1> HIDE DEF start, php, node
<1>8. Table(Interpreter, {}) /\ Looking(Interpreter)
  BY <1>1, ShortLooks
<1>9. Table(php, {}) /\ Polled(php) /\ Table(node, {}) /\ Polled(node)
  BY <1>5, OfRows, PolledLooks
<1>10. Table(start, {}) /\ Polled(start)
  BY <1>6, OfRows, PolledLooks
<1> QED BY <1>7, <1>8, <1>9, <1>10, Lengthened

LEMMA OltpTable == Table(OltpUnits, {})
<1>1. ASSUME NEW key PROVE Row(Throughput(key), {})
  BY EveryEnd DEF Throughput, NotCredible, Command, Row
<1>2. ASSUME NEW mean, NEW p95 \in Unspoken PROVE Row(OltpLatency(mean, p95), {})
  BY EveryEnd DEF OltpLatency, NotCredible, NoDeviation, Command, Row
<1>3. Row(ServerServes, {}) /\ Row(BuildDataset, {})
  BY Gates DEF ServerServes, BuildDataset
<1>4. "read.latency_estimated_p95" \in Unspoken /\ "write.latency_estimated_p95" \in Unspoken
  BY DEF Unspoken
<1>5. /\ OltpUnits = [i \in 1..6 |-> OltpUnits[i]]
      /\ \A i \in 1..6 : Row(OltpUnits[i], {})
  BY <1>1, <1>2, <1>3, <1>4 DEF OltpUnits
<1> QED BY <1>5, OfRows

LEMMA CacheTable == Table(CacheUnits, {})
<1> DEFINE open   == <<ServerServes>>
           shapes == Each(CacheShapes, CacheShape)
           last   == <<RoundTrip>>
<1>1. open = [i \in 1..1 |-> open[i]] /\ \A i \in 1..1 : Row(open[i], {})
  BY Gates DEF ServerServes
<1>2. ASSUME NEW key PROVE Row(CacheShape(key), {})
  BY EveryEnd DEF CacheShape, NoRow, Command, Row
<1>3. shapes = [i \in 1..4 |-> CacheShape(CacheShapes[i])]
  BY DEF Each, CacheShapes
<1>4. shapes = [i \in 1..4 |-> shapes[i]] /\ \A i \in 1..4 : Row(shapes[i], {})
  BY <1>2, <1>3
<1>5. last = [i \in 1..1 |-> last[i]] /\ \A i \in 1..1 : Row(last[i], {})
  <2>1. Row(RoundTrip, {})
    BY EveryEnd DEF RoundTrip, Command, Row
  <2> QED BY <2>1
<1>6. CacheUnits = open \o shapes \o last
  BY DEF CacheUnits
<1> HIDE DEF open, shapes, last
<1>7. Table(open, {}) /\ Table(shapes, {}) /\ Table(last, {})
  BY <1>1, <1>4, <1>5, ShortLooks
<1> QED BY <1>6, <1>7, Joined

LEMMA DeploymentTable == Table(DeploymentUnits, Images)
<1>1. Row(Gate, Images) /\ Row(WriteContext, Images)
  BY Gates DEF WriteContext
<1>2. Row(BuildTwice, Images)
  <2> DEFINE lost == End(Builds \union Images, Builds, {"ValidationFailed"}, {"image.save"}, FALSE)
  <2>1. Explained(lost) /\ lost.absent = Builds \union Images
    BY DEF End, Explained, Images, Unspoken
  <2>2. {"cache.speedup"} \subseteq Unspoken /\ {"cache.speedup"} \subseteq Builds
    BY DEF Unspoken, Builds
  <2>3. /\ BuildTwice.odd = {Withheld(Builds), Withheld({"cache.speedup"}),
                             Silently({"cache.speedup"}), lost}
        /\ BuildTwice.early = {} /\ BuildTwice.keys = Builds /\ BuildTwice.op = "command"
        /\ BuildTwice.poll = FALSE /\ BuildTwice.probe = FALSE
    BY DEF BuildTwice, Command
  <2> HIDE DEF lost
  <2>4. \A x \in BuildTwice.odd : Explained(x) /\ x.absent \subseteq Builds \union Images
    BY <2>1, <2>2, <2>3, EveryEnd
  <2> QED BY <2>3, <2>4 DEF Row
<1>3. Row(SaveAndLoad, Images)
  <2>1. Images \subseteq Unspoken /\ {"image.load"} \subseteq Images
    BY DEF Unspoken, Images
  <2> QED BY <2>1, EveryEnd DEF SaveAndLoad, Command, Row
<1>4. Row(Startups, Images)
  BY EveryEnd DEF Startups, TooFewStarted, Command, Row
<1>5. /\ DeploymentUnits = [i \in 1..5 |-> DeploymentUnits[i]]
      /\ \A i \in 1..5 : Row(DeploymentUnits[i], Images)
  BY <1>1, <1>2, <1>3, <1>4 DEF DeploymentUnits
<1> QED BY <1>5, OfRows

LEMMA WordpressTable == Table(WordpressUnits, {}) /\ Looking(WordpressUnits)
<1>1. Row(StackComesUp, {}) /\ Row(InstallSite, {}) /\ Row(ImportFixture, {})
  BY Gates DEF StackComesUp, InstallSite, ImportFixture
<1>2. Row(ColdRequest, {})
  BY EveryEnd DEF ColdRequest, NotTheFixture, Command, Row
<1>3. Row(WarmUp, {}) /\ WarmUp.poll
  BY EveryEnd DEF WarmUp, Command, Row
<1>4. ASSUME NEW key PROVE Row(Page(key), {}) /\ Page(key).poll
  BY EveryEnd DEF Page, Distribution, Command, Row
<1>5. Row(Dashboard, {}) /\ Dashboard.poll
  BY <1>4 DEF Dashboard
<1>6. Row(Capacity, {}) /\ Capacity.poll
  BY EveryEnd DEF Capacity, Command, Row
<1>7. /\ WordpressUnits = [i \in 1..9 |-> WordpressUnits[i]]
      /\ \A i \in 1..9 : Row(WordpressUnits[i], {})
      /\ \A i \in 1..9 : i \notin 1..4 => WordpressUnits[i].poll
  BY <1>1, <1>2, <1>3, <1>4, <1>5, <1>6 DEF WordpressUnits
<1> QED BY <1>7, OfRows DEF Looking

\* Rows may take along what any row of the table publishes.
LEMMA Widened ==
    ASSUME NEW others, NEW more, others \subseteq more, NEW t, Table(t, others)
    PROVE  Table(t, more)
BY DEF Table, Row

LEMMA OwnMetrics ==
    ASSUME NEW m, NEW u \in Range(Units(m))
    PROVE  u.keys \subseteq Metrics(m)
BY DEF Metrics

\* What the provers need to know of the tables.
LEMMA EveryTable ==
    ASSUME NEW m \in ModuleIds
    PROVE  /\ Table(Units(m), Metrics(m))
           /\ m \notin NeverLook => Looking(Units(m))
<1>1. m \in {"cpu", "memory", "storage", "network", "web", "php", "node", "oltp", "cache",
             "wordpress", "deployment"}
  BY DEF ModuleIds, Builtin
<1>2. CASE m = "network"
  <2>1. Units(m) = NetworkUnits
    BY <1>2 DEF Units, AllUnits
  <2>2. Download("download.multi", {}) \in Range(NetworkUnits)
    <3>1. NetworkUnits[4] = Download("download.multi", {}) /\ 4 \in DOMAIN NetworkUnits
      BY DEF NetworkUnits
    <3> QED BY <3>1 DEF Range
  <2>3. {"download.multi"} \subseteq Metrics(m)
    BY <2>1, <2>2, OwnMetrics DEF Download, Reps
  <2> QED BY <2>1, <2>3, NetworkTable, Widened
<1>3. CASE m = "web"
  <2>1. Units(m) = WebUnits
    BY <1>3 DEF Units, AllUnits
  <2>2. SmallLatency[2] \in Range(WebUnits)
    BY WebTable
  <2>3. LatencyKeys \subseteq Metrics(m)
    BY <2>1, <2>2, OwnMetrics DEF SmallLatency, Reps
  <2> QED BY <2>1, <2>3, WebTable, Widened
<1>4. CASE m = "deployment"
  <2>1. Units(m) = DeploymentUnits
    BY <1>4 DEF Units, AllUnits
  <2>2. SaveAndLoad \in Range(DeploymentUnits)
    <3>1. DeploymentUnits[4] = SaveAndLoad /\ 4 \in DOMAIN DeploymentUnits
      BY DEF DeploymentUnits
    <3> QED BY <3>1 DEF Range
  <2>3. Images \subseteq Metrics(m)
    BY <2>1, <2>2, OwnMetrics DEF SaveAndLoad, Command
  <2> QED BY <1>4, <2>1, <2>3, DeploymentTable, Widened DEF NeverLook
<1>5. CASE m \in {"cpu", "memory", "storage", "php", "node", "wordpress"}
  <2>1. Table(Units(m), {}) /\ Looking(Units(m))
    <3>1. CASE m = "cpu"
      BY <3>1, CpuTable DEF Units, AllUnits
    <3>2. CASE m = "memory"
      BY <3>2, MemoryTable DEF Units, AllUnits
    <3>3. CASE m = "storage"
      BY <3>3, StorageTable DEF Units, AllUnits
    <3>4. CASE m = "php"
      BY <3>4, InterpreterTables DEF Units, AllUnits
    <3>5. CASE m = "node"
      BY <3>5, InterpreterTables DEF Units, AllUnits
    <3>6. CASE m = "wordpress"
      BY <3>6, WordpressTable DEF Units, AllUnits
    <3> QED BY <1>5, <3>1, <3>2, <3>3, <3>4, <3>5, <3>6
  <2> QED BY <2>1, Widened
<1>6. CASE m \in {"oltp", "cache"}
  <2>1. Table(Units(m), {})
    <3>1. CASE m = "oltp"
      BY <3>1, OltpTable DEF Units, AllUnits
    <3>2. CASE m = "cache"
      BY <3>2, CacheTable DEF Units, AllUnits
    <3> QED BY <1>6, <3>1, <3>2
  <2> QED BY <1>6, <2>1, Widened DEF NeverLook
<1> QED BY <1>1, <1>2, <1>3, <1>4, <1>5, <1>6

-----------------------------------------------------------------------------
(* A module at work                                                        *)

IsWork(w) ==
    w = [mod |-> w.mod, cycle |-> w.cycle, at |-> w.at, stage |-> w.stage, reps |-> w.reps,
         bad |-> w.bad, completed |-> w.completed, shown |-> w.shown, absent |-> w.absent,
         told |-> w.told, wide |-> w.wide, codes |-> w.codes, dropped |-> w.dropped]

\* Its place, and what of the unit there is under way.
Place(w) ==
    /\ w.at \in 1..Len(Units(w.mod)) + 1
    /\ w.at = Len(Units(w.mod)) + 1 => w.stage = "over"
    /\ w.at # Len(Units(w.mod)) + 1 =>
         /\ w.at \in Sampled(w.mod)
         /\ w.stage \in IF Units(w.mod)[w.at].op = "command" THEN {"call"}
                        ELSE {"calibrate", "reps"}
    /\ w.reps \in 0..Total /\ (w.stage # "reps" => w.reps = 0)

\* What it will have to say of what is absent.
Mentions(w) ==
    /\ w.absent \subseteq Metrics(w.mod) /\ w.told \subseteq Metrics(w.mod)
    /\ w.absent \ w.told \subseteq Unspoken
    /\ w.told # {} => "ValidationFailed" \in w.codes

\* The units of a module that repeat something, and how many are behind it.
Repeating(m)  == {i \in Sampled(m) : Units(m)[i].op = "reps"}
Behind(m, at) == {i \in Repeating(m) : i < at}

Shows(w) ==
    /\ w.completed \in 0..Cardinality(Behind(w.mod, w.at))
    /\ w.shown \in Nat /\ w.shown <= w.completed * Total + w.reps

WorkOK(w) == IsWork(w) /\ w.mod \in ModuleIds /\ Place(w) /\ Mentions(w) /\ Shows(w)

LEMMA TotalIsANumber == Total \in Nat \ {0}
BY MeasurementAssumption DEF Total

LEMMA TablesAreTables ==
    ASSUME NEW m \in ModuleIds
    PROVE  /\ Len(Units(m)) \in Nat /\ DOMAIN Units(m) = 1..Len(Units(m))
           /\ \A i \in 1..Len(Units(m)) : /\ Row(Units(m)[i], Metrics(m))
                                          /\ Units(m)[i].keys \subseteq Metrics(m)
           /\ Sampled(m) \subseteq 1..Len(Units(m))
<1>1. Units(m) \in Seq(Range(Units(m))) /\ \A u \in Range(Units(m)) : Row(u, Metrics(m))
  BY EveryTable DEF Table
<1>2. Len(Units(m)) \in Nat /\ DOMAIN Units(m) = 1..Len(Units(m))
  BY <1>1
<1>3. ASSUME NEW i \in 1..Len(Units(m))
      PROVE  Row(Units(m)[i], Metrics(m)) /\ Units(m)[i].keys \subseteq Metrics(m)
  <2>1. Units(m)[i] \in Range(Units(m))
    BY <1>2 DEF Range
  <2> QED BY <1>1, <2>1, OwnMetrics
<1> QED BY <1>2, <1>3 DEF Sampled

LEMMA LeastOfASet ==
    ASSUME NEW S \in SUBSET Nat, S # {}
    PROVE  \E least \in S : \A n \in S : least <= n
<1> DEFINE less == OpToRel(<, Nat)
<1>1. IsWellFoundedOn(less, Nat)
  BY NatLessThanWellFounded
<1>2. PICK least \in S : \A n \in S : ~(<<n, least>> \in less)
  <2> HIDE DEF less
  <2> QED BY <1>1, WFMin
<1>3. \A n \in S : ~(n < least)
  BY <1>2, Zenon DEF OpToRel
<1> HIDE DEF less
<1> QED BY <1>3

LEMMA BehindIsFinite ==
    ASSUME NEW m \in ModuleIds, NEW at \in Nat
    PROVE  /\ IsFiniteSet(Repeating(m)) /\ IsFiniteSet(Behind(m, at))
           /\ Cardinality(Behind(m, at)) \in Nat
           /\ Cardinality(Repeating(m)) \in Nat
           /\ Cardinality(Behind(m, at)) <= Cardinality(Repeating(m))
<1>1. Repeating(m) \subseteq 1..Len(Units(m)) /\ Len(Units(m)) \in Nat
  BY TablesAreTables DEF Repeating
<1>2. IsFiniteSet(Repeating(m))
  <2>1. IsFiniteSet(1..Len(Units(m)))
    BY <1>1, FS_Interval
  <2> QED BY <1>1, <2>1, FS_Subset
<1> QED BY <1>2, FS_Subset, FS_CardinalityType DEF Behind

\* The next unit lies ahead.
LEMMA NextIsAhead ==
    ASSUME NEW w, w.mod \in ModuleIds, w.at \in 0..Len(Units(w.mod))
    PROVE  /\ NextUnit(w) \in w.at + 1..Len(Units(w.mod)) + 1
           /\ NextUnit(w) # Len(Units(w.mod)) + 1 => NextUnit(w) \in Sampled(w.mod)
<1> DEFINE later == {i \in Sampled(w.mod) : i > w.at /\ Units(w.mod)[i].of \notin w.dropped}
<1>1. NextUnit(w) = IF later = {} THEN Len(Units(w.mod)) + 1
                    ELSE CHOOSE i \in later : \A j \in later : i <= j
  BY DEF NextUnit
<1>2. Len(Units(w.mod)) \in Nat /\ Sampled(w.mod) \subseteq 1..Len(Units(w.mod))
  BY TablesAreTables
<1>3. later \in SUBSET Nat /\ \A i \in later : i \in Sampled(w.mod) /\ i > w.at
  BY <1>2
<1>4. later # {} => \E i \in later : \A j \in later : i <= j
  BY <1>3, LeastOfASet
<1>5. later # {} => NextUnit(w) \in later
  BY <1>1, <1>4
<1>6. later = {} => NextUnit(w) = Len(Units(w.mod)) + 1
  BY <1>1
<1> HIDE DEF later
<1>7. CASE later = {}
  BY <1>2, <1>6, <1>7
<1>8. CASE later # {}
  <2>1. NextUnit(w) \in Sampled(w.mod) /\ NextUnit(w) > w.at
    BY <1>3, <1>5, <1>8
  <2>2. NextUnit(w) \in 1..Len(Units(w.mod))
    BY <1>2, <2>1
  <2> QED BY <1>2, <2>1, <2>2
<1> QED BY <1>7, <1>8

\* A module that moves on stands before a unit, or is over.
LEMMA StandsBefore ==
    ASSUME NEW w, IsWork(w), w.mod \in ModuleIds, w.at \in 0..Len(Units(w.mod)),
           Mentions(w), w.shown \in Nat, w.completed \in Nat,
           w.completed <= Cardinality(Behind(w.mod, NextUnit(w))),
           w.shown <= w.completed * Total
    PROVE  LET after == Before(w, NextUnit(w))
           IN  /\ WorkOK(after) /\ after.mod = w.mod /\ after.cycle = w.cycle
               /\ after.at = NextUnit(w) /\ after.shown = w.shown
               /\ after.absent = w.absent
<1> DEFINE n     == NextUnit(w)
           stage == IF n > Len(Units(w.mod)) THEN "over" ELSE Stage(Units(w.mod)[n])
           after == Before(w, n)
<1>1. /\ n \in w.at + 1..Len(Units(w.mod)) + 1 /\ Len(Units(w.mod)) \in Nat
      /\ n # Len(Units(w.mod)) + 1 => n \in Sampled(w.mod)
  BY NextIsAhead, TablesAreTables
<1>2. /\ IsWork(after) /\ after.mod = w.mod /\ after.cycle = w.cycle /\ after.at = n
      /\ after.shown = w.shown /\ after.absent = w.absent /\ after.told = w.told
      /\ after.codes = w.codes /\ after.completed = w.completed /\ after.reps = 0
      /\ after.stage = stage
  <2> HIDE DEF n
  <2>1. after = [mod |-> w.mod, cycle |-> w.cycle, at |-> n, stage |-> stage, reps |-> 0,
                 bad |-> 0, completed |-> w.completed, shown |-> w.shown, absent |-> w.absent,
                 told |-> w.told, wide |-> w.wide, codes |-> w.codes, dropped |-> w.dropped]
    <3>1. after = [w EXCEPT !.at = n, !.reps = 0, !.bad = 0, !.stage = stage]
      BY DEF Before
    <3> HIDE DEF after, stage
    <3> QED BY <3>1 DEF IsWork
  <2> HIDE DEF after, stage
  <2> QED BY <2>1 DEF IsWork
<1> HIDE DEF n, stage, after
<1>3. Place(after)
  <2>1. n # Len(Units(w.mod)) + 1 => n \in 1..Len(Units(w.mod))
    BY <1>1
  <2>2. n # Len(Units(w.mod)) + 1 =>
          stage \in IF Units(w.mod)[n].op = "command" THEN {"call"} ELSE {"calibrate", "reps"}
    BY <1>1, <2>1, TablesAreTables DEF stage, Stage, Row
  <2>3. n = Len(Units(w.mod)) + 1 => stage = "over"
    BY <1>1 DEF stage
  <2>4. 0 \in 0..Total
    BY TotalIsANumber
  <2> QED BY <1>1, <1>2, <2>2, <2>3, <2>4 DEF Place
<1>4. Mentions(after)
  BY <1>2 DEF Mentions
<1>5. Shows(after)
  <2>1. Cardinality(Behind(w.mod, n)) \in Nat
    <3>1. n \in Nat
      BY <1>1
    <3> QED BY <3>1, BehindIsFinite
  <2>2. w.completed * Total + 0 = w.completed * Total
    BY TotalIsANumber
  <2> QED BY <1>2, <2>1, <2>2 DEF Shows, n
<1> QED BY <1>2, <1>3, <1>4, <1>5 DEF WorkOK, after, n

LEMMA EnteredIsOK ==
    ASSUME NEW m \in ModuleIds, NEW cycle
    PROVE  /\ WorkOK(Entered(m, cycle)) /\ Entered(m, cycle).mod = m
           /\ Entered(m, cycle).cycle = cycle /\ Entered(m, cycle).at \in Nat \ {0}
           /\ Entered(m, cycle).absent = {}
<1> DEFINE w == [mod |-> m, cycle |-> cycle, at |-> 0, stage |-> "over", reps |-> 0, bad |-> 0,
                 completed |-> 0, shown |-> 0, absent |-> {}, told |-> {}, wide |-> {},
                 codes |-> {}, dropped |-> {}]
<1>1. /\ IsWork(w) /\ w.mod = m /\ w.cycle = cycle /\ w.at = 0 /\ w.shown = 0 /\ w.completed = 0
      /\ w.absent = {} /\ w.told = {}
  BY DEF IsWork
<1>2. Entered(m, cycle) = Before(w, NextUnit(w))
  BY DEF Entered
<1> HIDE DEF w
<1>3. Mentions(w)
  BY <1>1 DEF Mentions
<1>4. Len(Units(m)) \in Nat /\ NextUnit(w) \in 1..Len(Units(m)) + 1
  BY <1>1, TablesAreTables, NextIsAhead
<1>5. Cardinality(Behind(m, NextUnit(w))) \in Nat
  BY <1>4, BehindIsFinite
<1>6. 0 * Total = 0
  BY TotalIsANumber
<1> QED BY <1>1, <1>2, <1>3, <1>4, <1>5, <1>6, StandsBefore

\* One more repeated unit is behind a module that leaves it.
LEMMA OneMoreBehind ==
    ASSUME NEW m \in ModuleIds, NEW at \in Repeating(m), NEW next \in Nat, next > at
    PROVE  Cardinality(Behind(m, at)) + 1 <= Cardinality(Behind(m, next))
<1>1. at \in Nat
  BY TablesAreTables DEF Repeating
<1>2. IsFiniteSet(Behind(m, at)) /\ IsFiniteSet(Behind(m, next))
  BY <1>1, BehindIsFinite
<1>3. Cardinality(Behind(m, at) \union {at}) = Cardinality(Behind(m, at)) + 1
  <2>1. at \notin Behind(m, at)
    BY <1>1 DEF Behind
  <2> QED BY <1>2, <2>1, FS_AddElement
<1>4. Behind(m, at) \union {at} \subseteq Behind(m, next)
  <2>1. Repeating(m) \subseteq Nat
    BY TablesAreTables DEF Repeating
  <2> QED BY <1>1, <2>1 DEF Behind
<1>5. Cardinality(Behind(m, at) \union {at}) <= Cardinality(Behind(m, next))
  BY <1>2, <1>4, FS_Subset
<1> QED BY <1>3, <1>5

LEMMA NoFewerBehind ==
    ASSUME NEW m \in ModuleIds, NEW at \in Nat, NEW next \in Nat, next >= at
    PROVE  Cardinality(Behind(m, at)) <= Cardinality(Behind(m, next))
<1>1. IsFiniteSet(Behind(m, next))
  BY BehindIsFinite
<1>2. Behind(m, at) \subseteq Behind(m, next)
  <2>1. Repeating(m) \subseteq Nat
    BY TablesAreTables DEF Repeating
  <2> QED BY <2>1 DEF Behind
<1> QED BY <1>1, <1>2, FS_Subset

\* Standing at a unit.
AtUnit(w) == w.at # Len(Units(w.mod)) + 1

LEMMA UnitUnderWay ==
    ASSUME NEW w, WorkOK(w), w.stage # "over"
    PROVE  /\ AtUnit(w) /\ w.at \in 1..Len(Units(w.mod)) /\ w.at \in Sampled(w.mod)
           /\ Row(Units(w.mod)[w.at], Metrics(w.mod))
           /\ Units(w.mod)[w.at].keys \subseteq Metrics(w.mod)
           /\ w.stage = "call" => Units(w.mod)[w.at].op = "command"
           /\ w.stage # "call" => w.at \in Repeating(w.mod)
           /\ w.stage \in {"call", "calibrate", "reps"}
<1>1. AtUnit(w) /\ w.at \in 1..Len(Units(w.mod)) /\ w.at \in Sampled(w.mod)
  BY TablesAreTables DEF WorkOK, Place, AtUnit
<1>2. /\ Row(Units(w.mod)[w.at], Metrics(w.mod))
      /\ Units(w.mod)[w.at].keys \subseteq Metrics(w.mod)
  BY <1>1, TablesAreTables DEF WorkOK
<1> QED BY <1>1, <1>2 DEF WorkOK, Place, Row, AtUnit, Repeating

LEMMA ConcludedIsOK ==
    ASSUME NEW w, WorkOK(w), w.stage # "over", w.stage = "reps" => w.reps = Total,
           NEW end, Explained(end), end.absent \subseteq Metrics(w.mod), NEW wide
    PROVE  LET after == Concluded(w, end, wide)
           IN  /\ WorkOK(after) /\ after.mod = w.mod /\ after.cycle = w.cycle
               /\ after.at > w.at /\ after.at \in Nat /\ after.shown = w.shown
<1> DEFINE codes == w.codes \union end.codes \union
              {"HighVariance" : v \in {v \in wide : HighVariance(w.mod, v[1], v[2])}}
           past == [w EXCEPT !.absent = @ \union end.absent, !.told = @ \union end.told,
                             !.dropped = @ \union end.drops, !.wide = @ \union wide,
                             !.completed = Completes(w), !.codes = codes]
<1>1. Concluded(w, end, wide) = Before(past, NextUnit(past))
  BY DEF Concluded, WorkOK, IsWork
<1>2. w.codes \subseteq codes /\ end.codes \subseteq codes
  OBVIOUS
<1> HIDE DEF codes
<1>3. past = [mod |-> w.mod, cycle |-> w.cycle, at |-> w.at, stage |-> w.stage,
              reps |-> w.reps, bad |-> w.bad, completed |-> Completes(w), shown |-> w.shown,
              absent |-> w.absent \union end.absent, told |-> w.told \union end.told,
              wide |-> w.wide \union wide, codes |-> codes, dropped |-> w.dropped \union end.drops]
  <2>1. IsWork(w)
    BY DEF WorkOK
  <2> DEFINE a == w.absent \union end.absent
             t == w.told \union end.told
             d == w.dropped \union end.drops
             v == w.wide \union wide
             n == Completes(w)
             half == [w EXCEPT !.absent = a, !.told = t, !.dropped = d]
  <2>2. past = [half EXCEPT !.wide = v, !.completed = n, !.codes = codes]
    OBVIOUS
  <2> HIDE DEF a, t, d, v, n, half, past
  <2>3. half = [mod |-> w.mod, cycle |-> w.cycle, at |-> w.at, stage |-> w.stage,
                reps |-> w.reps, bad |-> w.bad, completed |-> w.completed, shown |-> w.shown,
                absent |-> a, told |-> t, wide |-> w.wide, codes |-> w.codes, dropped |-> d]
    <3>1. half = [[[w EXCEPT !.absent = a] EXCEPT !.told = t] EXCEPT !.dropped = d]
      BY DEF half
    <3>2. w = [mod |-> w.mod, cycle |-> w.cycle, at |-> w.at, stage |-> w.stage,
               reps |-> w.reps, bad |-> w.bad, completed |-> w.completed, shown |-> w.shown,
               absent |-> w.absent, told |-> w.told, wide |-> w.wide, codes |-> w.codes,
               dropped |-> w.dropped]
      BY <2>1 DEF IsWork
    <3> QED BY <3>1, <3>2
  <2>4. past = [mod |-> w.mod, cycle |-> w.cycle, at |-> w.at, stage |-> w.stage,
                reps |-> w.reps, bad |-> w.bad, completed |-> n, shown |-> w.shown,
                absent |-> a, told |-> t, wide |-> v, codes |-> codes, dropped |-> d]
    BY <2>2, <2>3
  <2> QED BY <2>4 DEF a, t, d, v, n
<1> HIDE DEF past
<1>4. /\ IsWork(past) /\ past.mod = w.mod /\ past.cycle = w.cycle /\ past.at = w.at
      /\ past.shown = w.shown /\ past.completed = Completes(w)
      /\ past.absent = w.absent \union end.absent /\ past.told = w.told \union end.told
      /\ past.codes = codes
  BY <1>3 DEF IsWork
<1>5. w.mod \in ModuleIds /\ w.at \in 1..Len(Units(w.mod)) /\ Len(Units(w.mod)) \in Nat
  BY UnitUnderWay, TablesAreTables DEF WorkOK
<1>6. Mentions(past)
  BY <1>2, <1>4 DEF WorkOK, Mentions, Explained
<1>7. /\ NextUnit(past) \in w.at + 1..Len(Units(w.mod)) + 1
      /\ NextUnit(past) \in Nat /\ NextUnit(past) > w.at
  <2>1. past.mod \in ModuleIds /\ past.at \in 0..Len(Units(past.mod))
    BY <1>4, <1>5
  <2>2. NextUnit(past) \in w.at + 1..Len(Units(w.mod)) + 1
    BY <1>4, <2>1, NextIsAhead
  <2> QED BY <1>5, <2>2
<1>8. /\ Completes(w) \in Nat /\ w.shown \in Nat
      /\ Completes(w) <= Cardinality(Behind(w.mod, NextUnit(past)))
      /\ w.shown <= Completes(w) * Total
  <2>1. /\ Cardinality(Behind(w.mod, w.at)) \in Nat /\ w.completed \in Nat
        /\ Cardinality(Behind(w.mod, NextUnit(past))) \in Nat
        /\ w.completed <= Cardinality(Behind(w.mod, w.at))
        /\ w.shown \in Nat /\ w.shown <= w.completed * Total + w.reps
    <3>1. /\ Cardinality(Behind(w.mod, w.at)) \in Nat
          /\ Cardinality(Behind(w.mod, NextUnit(past))) \in Nat
      <4>1. w.at \in Nat
        BY <1>5
      <4> QED BY <1>5, <1>7, <4>1, BehindIsFinite
    <3> QED BY <3>1 DEF WorkOK, Shows
  <2>2. CASE w.stage = "reps"
    <3>1. w.at \in Repeating(w.mod)
      BY <2>2, UnitUnderWay
    <3>2. Cardinality(Behind(w.mod, w.at)) + 1 <= Cardinality(Behind(w.mod, NextUnit(past)))
      BY <1>5, <1>7, <3>1, OneMoreBehind
    <3>3. Completes(w) = w.completed + 1 /\ w.reps = Total
      BY <2>2 DEF Completes
    <3>4. (w.completed + 1) * Total = w.completed * Total + Total
      BY <2>1, TotalIsANumber
    <3> QED BY <2>1, <3>2, <3>3, <3>4
  <2>3. CASE w.stage # "reps"
    <3>1. Completes(w) = w.completed /\ w.reps = 0
      BY <2>3 DEF Completes, WorkOK, Place
    <3>2. Cardinality(Behind(w.mod, w.at)) <= Cardinality(Behind(w.mod, NextUnit(past)))
      BY <1>5, <1>7, NoFewerBehind
    <3>3. w.completed * Total + 0 = w.completed * Total
      BY <2>1, TotalIsANumber
    <3> QED BY <2>1, <3>1, <3>2, <3>3
  <2> QED BY <2>2, <2>3
<1>9. past.mod \in ModuleIds /\ past.at \in 0..Len(Units(past.mod))
  BY <1>4, <1>5
<1> QED BY <1>1, <1>4, <1>6, <1>7, <1>8, <1>9, StandsBefore

-----------------------------------------------------------------------------
(* What a step of a module may be                                          *)

\* A result says what is missing, and is degraded for it.
ResultFine(r) ==
    /\ r.mod \in ModuleIds /\ r.status \in {"Completed", "Degraded", "Failed"}
    /\ r.told \subseteq Metrics(r.mod) /\ r.absent \subseteq Metrics(r.mod)
    /\ UsableResult(r) => /\ r.absent \ r.told \subseteq Unspoken
                          /\ r.told # {} => r.status = "Degraded"

\* It goes on; it is over and leaves a result; it saw the flag and leaves none.
WentOn ==
    /\ WorkOK(work') /\ work'.mod = work.mod /\ work'.cycle = work.cycle
    /\ work'.shown >= work.shown /\ results' = results
LeftResult ==
    /\ work' = Idle
    /\ \E r : /\ ResultFine(r) /\ r.mod = work.mod /\ r.cycle = work.cycle
              /\ results' = Append(results, r)
LeftNothing == work' = Idle /\ cancelled /\ results' = results

LEMMA WorkIsNotIdle ==
    ASSUME NEW w, WorkOK(w)
    PROVE  w # Idle /\ w.stage \in {"over", "call", "calibrate", "reps"}
<1>1. w.stage \in {"over", "call", "calibrate", "reps"}
  BY UnitUnderWay
<1> QED BY <1>1 DEF Idle

LEMMA ShownIsBounded ==
    ASSUME NEW w, WorkOK(w)
    PROVE  w.shown <= Total * Cardinality(Repeating(w.mod))
<1>1. /\ w.mod \in ModuleIds /\ w.at \in Nat /\ w.reps \in 0..Total
      /\ w.completed \in 0..Cardinality(Behind(w.mod, w.at))
      /\ w.shown \in Nat /\ w.shown <= w.completed * Total + w.reps
  BY TablesAreTables DEF WorkOK, Place, Shows
<1>2. /\ Cardinality(Behind(w.mod, w.at)) \in Nat /\ Cardinality(Repeating(w.mod)) \in Nat
      /\ Cardinality(Behind(w.mod, w.at)) <= Cardinality(Repeating(w.mod))
  BY <1>1, BehindIsFinite
<1> DEFINE n == Cardinality(Repeating(w.mod))
<1>3. \A c \in 0..n : c * Total <= Total * n
  <2> HIDE DEF n
  <2>1. n \in Nat
    BY <1>2 DEF n
  <2> TAKE c \in 0..n
  <2>2. PICK d \in Nat : n = c + d
    <3>1. n - c \in Nat /\ n = c + (n - c)
      BY <2>1
    <3> QED BY <3>1
  <2>3. Total * n = c * Total + d * Total /\ d * Total \in Nat /\ c * Total \in Nat
    BY <2>2, TotalIsANumber
  <2> QED BY <2>3
<1>4. CASE w.stage = "reps"
  <2>1. w.at \in Repeating(w.mod)
    BY <1>4, UnitUnderWay
  <2>2. w.completed + 1 <= n
    <3>1. w.at + 1 \in Nat
      BY <1>1
    <3>2. /\ Cardinality(Behind(w.mod, w.at)) + 1 <= Cardinality(Behind(w.mod, w.at + 1))
          /\ Cardinality(Behind(w.mod, w.at + 1)) <= n
          /\ Cardinality(Behind(w.mod, w.at + 1)) \in Nat
      BY <1>1, <2>1, <3>1, OneMoreBehind, BehindIsFinite
    <3> QED BY <1>1, <1>2, <3>2
  <2>3. (w.completed + 1) * Total <= Total * n
    BY <1>1, <1>2, <1>3, <2>2
  <2>4. (w.completed + 1) * Total = w.completed * Total + Total
    BY <1>1, TotalIsANumber
  <2>5. w.completed * Total \in Nat /\ Total * n \in Nat
    BY <1>1, <1>2, TotalIsANumber
  <2> HIDE DEF n
  <2>6. w.shown <= Total * n
    BY <1>1, <2>3, <2>4, <2>5, TotalIsANumber
  <2> QED BY <2>6 DEF n
<1>5. CASE w.stage # "reps"
  <2>1. w.reps = 0
    BY <1>5 DEF WorkOK, Place
  <2>2. w.completed * Total <= Total * n
    BY <1>1, <1>2, <1>3
  <2>3. w.completed * Total \in Nat /\ Total * n \in Nat
    BY <1>1, <1>2, TotalIsANumber
  <2> HIDE DEF n
  <2>4. w.shown <= Total * n
    BY <1>1, <2>1, <2>2, <2>3
  <2> QED BY <2>4 DEF n
<1> QED BY <1>4, <1>5

\* A unit concluded, as its table allows.
LEMMA ConcludeStep ==
    ASSUME WorkOK(work), work.stage # "over", work.stage = "reps" => work.reps = Total,
           NEW end, Explained(end), end.absent \subseteq Metrics(work.mod), NEW wide,
           Conclude(end, wide)
    PROVE  /\ WentOn \/ LeftResult
           /\ work' # Idle => work'.at > work.at
<1>1. CASE ~ end.fails
  <2>1. work' = Concluded(work, end, wide) /\ results' = results
    BY <1>1 DEF Conclude
  <2>2. /\ WorkOK(work') /\ work'.mod = work.mod /\ work'.cycle = work.cycle
        /\ work'.at > work.at /\ work'.shown = work.shown
    BY <2>1, ConcludedIsOK
  <2>3. work.shown \in Nat
    BY DEF WorkOK, Shows
  <2> QED BY <2>1, <2>2, <2>3 DEF WentOn
<1>2. CASE end.fails
  <2>1. work.mod \in ModuleIds
    BY DEF WorkOK
  <2>2. PICK contention :
           /\ work' = Idle
           /\ results' = Append(results,
                  Result("Failed", Entered(work.mod, work.cycle), contention))
    BY <1>2 DEF Conclude
  <2> DEFINE fresh == Entered(work.mod, work.cycle)
             r     == Result("Failed", fresh, contention)
  <2>3. /\ fresh.mod = work.mod /\ fresh.cycle = work.cycle /\ fresh.absent = {}
        /\ WorkOK(fresh)
    BY <2>1, EnteredIsOK
  <2>4. fresh.told \subseteq Metrics(work.mod)
    BY <2>3 DEF WorkOK, Mentions
  <2> HIDE DEF fresh
  <2>5. /\ r.mod = work.mod /\ r.cycle = work.cycle /\ r.status = "Failed"
        /\ r.absent = {} /\ r.told = fresh.told
    BY <2>3 DEF Result
  <2>6. results' = Append(results, r)
    BY <2>2 DEF fresh
  <2> HIDE DEF r
  <2>7. ResultFine(r)
    BY <2>1, <2>4, <2>5 DEF ResultFine, UsableResult
  <2> QED BY <2>2, <2>5, <2>6, <2>7 DEF LeftResult
<1> QED BY <1>1, <1>2

LEMMA EndUnitStep ==
    ASSUME WorkOK(work), work.stage # "over", work.stage = "reps" => work.reps = Total,
           NEW usual \in {Published, Fails, Withheld(Unit.keys), TooShort}, EndUnit(usual)
    PROVE  /\ WentOn \/ LeftResult
           /\ work' # Idle => work'.at > work.at
<1>1. /\ Row(Unit, Metrics(work.mod)) /\ Unit.keys \subseteq Metrics(work.mod)
  BY UnitUnderWay DEF Unit
<1>2. PICK end \in {usual} \union Unit.odd : \E wide : Conclude(end, wide)
  BY DEF EndUnit
<1>3. Explained(end) /\ end.absent \subseteq Metrics(work.mod)
  BY <1>1, EveryEnd DEF Row
<1> QED BY <1>2, <1>3, ConcludeStep

LEMMA MeasureStep ==
    ASSUME work # Idle, WorkOK(work), Measure
    PROVE  WentOn \/ LeftResult \/ LeftNothing
<1>1. work.stage \in {"over", "call", "calibrate", "reps"}
  BY WorkIsNotIdle
<1>2. CASE Call
  <2>1. work.stage = "call" /\ EndUnit(Published)
    BY <1>2 DEF Call
  <2> QED BY <2>1, EndUnitStep
<1>3. CASE Calibrate
  <2>1. work.stage = "calibrate"
    BY <1>3 DEF Calibrate
  <2>2. CASE work' = [work EXCEPT !.stage = "reps"] /\ results' = results
    <3>1. IsWork(work)
      BY DEF WorkOK
    <3>2. /\ IsWork(work') /\ work'.mod = work.mod /\ work'.cycle = work.cycle
          /\ work'.at = work.at /\ work'.stage = "reps" /\ work'.reps = work.reps
          /\ work'.completed = work.completed /\ work'.shown = work.shown
          /\ work'.absent = work.absent /\ work'.told = work.told /\ work'.codes = work.codes
      BY <2>2, <3>1 DEF IsWork
    <3>3. Place(work')
      BY <2>1, <3>2, UnitUnderWay DEF WorkOK, Place, Repeating, AtUnit
    <3>4. Mentions(work') /\ Shows(work')
      BY <3>2 DEF WorkOK, Mentions, Shows
    <3>5. work.shown \in Nat
      BY DEF WorkOK, Shows
    <3> QED BY <2>2, <3>2, <3>3, <3>4, <3>5 DEF WentOn, WorkOK
  <2>3. CASE \E end \in Unit.early : Conclude(end, {})
    <3>1. PICK end \in Unit.early : Conclude(end, {})
      BY <2>3
    <3>2. Row(Unit, Metrics(work.mod)) /\ Unit.keys \subseteq Metrics(work.mod)
      BY <2>1, UnitUnderWay DEF Unit
    <3>3. Explained(end) /\ end.absent \subseteq Metrics(work.mod)
      BY <3>2 DEF Row
    <3> QED BY <2>1, <3>1, <3>3, ConcludeStep
  <2> QED BY <1>3, <2>2, <2>3 DEF Calibrate
<1>4. CASE Repeat
  <2>1. work.stage = "reps" /\ work.reps < Total /\ results' = results
    BY <1>4 DEF Repeat
  <2>2. PICK bad : work' = [work EXCEPT !.reps = work.reps + 1,
                                       !.shown = work.completed * Total + work.reps + 1,
                                       !.bad = bad]
    <3>1. PICK failed \in BOOLEAN : work' = [work EXCEPT
              !.reps = @ + 1,
              !.shown = work.completed * Total + work.reps + 1,
              !.bad = IF failed /\ (work.reps >= Warmups \/ Unit.bad = "fails")
                      THEN @ + 1 ELSE @]
      BY <1>4 DEF Repeat
    <3> QED BY <3>1
  <2>3. IsWork(work)
    BY DEF WorkOK
  <2>4. /\ IsWork(work') /\ work'.mod = work.mod /\ work'.cycle = work.cycle
        /\ work'.at = work.at /\ work'.stage = work.stage /\ work'.reps = work.reps + 1
        /\ work'.completed = work.completed
        /\ work'.shown = work.completed * Total + work.reps + 1
        /\ work'.absent = work.absent /\ work'.told = work.told /\ work'.codes = work.codes
    BY <2>2, <2>3 DEF IsWork
  <2>5. /\ work.reps \in 0..Total /\ work.completed \in Nat /\ work.mod \in ModuleIds
        /\ work.completed \in 0..Cardinality(Behind(work.mod, work.at))
        /\ work.shown \in Nat /\ work.shown <= work.completed * Total + work.reps
    BY DEF WorkOK, Place, Shows
  <2>6. work.completed * Total \in Nat
    BY <2>5, TotalIsANumber
  <2>7. Place(work')
    <3>1. work.reps + 1 \in 0..Total
      BY <2>1, <2>5, TotalIsANumber
    <3> QED BY <2>1, <2>4, <3>1 DEF WorkOK, Place
  <2>8. Mentions(work')
    BY <2>4 DEF WorkOK, Mentions
  <2>9. Shows(work')
    BY <2>1, <2>4, <2>5, <2>6, TotalIsANumber DEF Shows
  <2>10. work'.shown >= work.shown
    BY <2>4, <2>5, <2>6, TotalIsANumber
  <2>11. WorkOK(work')
    BY <2>4, <2>5, <2>7, <2>8, <2>9 DEF WorkOK
  <2> QED BY <2>1, <2>4, <2>10, <2>11 DEF WentOn
<1>5. CASE CloseUnit
  <2>1. work.stage = "reps" /\ work.reps = Total /\ EndUnit(Usual(Unit, work))
    BY <1>5 DEF CloseUnit
  <2>2. Usual(Unit, work) \in {Published, Fails, Withheld(Unit.keys), TooShort}
    BY DEF Usual
  <2> HIDE DEF Usual
  <2> QED BY <2>1, <2>2, EndUnitStep
<1>6. CASE GiveUp
  BY <1>6 DEF GiveUp, LeftNothing
<1>7. CASE Return
  <2>1. PICK contention :
           results' = Append(results,
               Result(StatusOf(work.codes \union contention), work, contention))
    BY <1>7 DEF Return
  <2> DEFINE r == Result(StatusOf(work.codes \union contention), work, contention)
  <2>2. /\ r.mod = work.mod /\ r.cycle = work.cycle /\ r.absent = work.absent
        /\ r.told = work.told /\ r.status = StatusOf(work.codes \union contention)
    BY DEF Result
  <2>3. results' = Append(results, r)
    BY <2>1
  <2> HIDE DEF r
  <2>4. r.status \in {"Completed", "Degraded"}
    BY <2>2 DEF StatusOf
  <2>5. work.told # {} => r.status = "Degraded"
    BY <2>2 DEF WorkOK, Mentions, StatusOf, Degrading
  <2>6. ResultFine(r)
    BY <2>2, <2>4, <2>5 DEF ResultFine, WorkOK, Mentions
  <2> QED BY <1>7, <2>2, <2>3, <2>6 DEF LeftResult, Return
<1> QED BY <1>2, <1>3, <1>4, <1>5, <1>6, <1>7 DEF Measure

-----------------------------------------------------------------------------
(* What a cancelled module has begun                                       *)

\* Once cancelled, a module has begun no more pieces of work than it has left
\* rows behind that do not look.
Blind ==
    /\ since \in Nat /\ (~ cancelled => since = 0)
    /\ work # Idle /\ work.mod \notin NeverLook =>
         since <= LongestBlindStretch /\ since < work.at

LEMMA BlindStep ==
    ASSUME work # Idle, WorkOK(work), Blind, Measure
    PROVE  Blind'
<1>1. /\ since \in Nat /\ (~ cancelled => since = 0)
      /\ work.mod \notin NeverLook => since <= 4 /\ since < work.at
      /\ work.mod \in ModuleIds /\ work.at \in Nat \ {0} /\ cancelled' = cancelled
  <2>1. cancelled' = cancelled
    BY DEF Measure, Call, Calibrate, Repeat, CloseUnit, GiveUp, Return
  <2>2. work.mod \in ModuleIds /\ work.at \in Nat \ {0}
    BY TablesAreTables DEF WorkOK, Place
  <2> QED BY <2>1, <2>2 DEF Blind, LongestBlindStretch
<1>2. work' # Idle => WorkOK(work') /\ work'.mod = work.mod /\ work'.at \in Nat \ {0}
  <2>1. work' # Idle => WorkOK(work') /\ work'.mod = work.mod
    BY MeasureStep DEF WentOn, LeftResult, LeftNothing
  <2>2. WorkOK(work') => work'.at \in Nat \ {0}
    BY TablesAreTables DEF WorkOK, Place
  <2> QED BY <2>1, <2>2
<1>3. CASE since' = 0
  BY <1>1, <1>2, <1>3 DEF Blind, LongestBlindStretch
<1>4. CASE since' # 0
  <2>1. ~ GiveUp /\ ~ Return
    BY <1>4 DEF GiveUp, Return
  <2>2. CASE CloseUnit
    <3>1. work.stage = "reps" /\ work.reps = Total /\ EndUnit(Usual(Unit, work)) /\ since' = since
      BY <2>2 DEF CloseUnit
    <3>2. Usual(Unit, work) \in {Published, Fails, Withheld(Unit.keys), TooShort}
      BY DEF Usual
    <3> HIDE DEF Usual
    <3>3. work' # Idle => work'.at > work.at
      BY <3>1, <3>2, EndUnitStep
    <3> QED BY <1>1, <1>2, <3>1, <3>3 DEF Blind, LongestBlindStretch
  <2>3. CASE Call \/ Calibrate \/ Repeat
    <3>1. cancelled /\ ~ Unit.poll /\ since' = since + 1
      BY <1>4, <2>3 DEF Call, Calibrate, Repeat, GoesOn, Looks
    <3>2. /\ work.at \in 1..Len(Units(work.mod))
          /\ work.stage # "call" => Unit.poll
      BY <2>3, UnitUnderWay DEF Row, Repeating, Unit, Call, Calibrate, Repeat, Running
    <3>3. Call
      BY <2>3, <3>1, <3>2 DEF Calibrate, Repeat
    <3>4. work.stage = "call" /\ EndUnit(Published)
      BY <3>3 DEF Call
    <3>5. work' # Idle => work'.at > work.at
      BY <3>4, EndUnitStep
    <3>6. work.mod \notin NeverLook => work.at \in 1..4
      BY <1>1, <3>1, <3>2, EveryTable, TablesAreTables DEF Looking, Unit
    <3> QED BY <1>1, <1>2, <3>1, <3>5, <3>6 DEF Blind, LongestBlindStretch
  <2> QED BY <2>1, <2>2, <2>3 DEF Measure
<1> QED BY <1>3, <1>4

\* Faults are counted down and never below none.
LEMMA Spent ==
    ASSUME faults \in Nat, NEW n \in Nat, Costs(n)
    PROVE  faults' \in Nat
BY DEF Costs

LEMMA FaultsStep ==
    ASSUME faults \in Nat, Measure
    PROVE  faults' \in Nat
<1>1. ASSUME NEW usual, EndUnit(usual) PROVE faults' \in Nat
  <2>1. PICK end : \E wide :
           Costs((IF end = usual THEN 0 ELSE 1) + (IF wide = {} THEN 0 ELSE 1))
    BY <1>1 DEF EndUnit
  <2>2. PICK wide : Costs((IF end = usual THEN 0 ELSE 1) + (IF wide = {} THEN 0 ELSE 1))
    BY <2>1
  <2> QED BY <2>2, Spent
<1>2. CASE Call
  BY <1>1, <1>2 DEF Call
<1>3. CASE Calibrate
  BY <1>3, Spent DEF Calibrate
<1>4. CASE Repeat
  <2>1. PICK failed \in BOOLEAN : Costs(IF failed THEN 1 ELSE 0)
    BY <1>4 DEF Repeat
  <2> QED BY <2>1, Spent
<1>5. CASE CloseUnit
  BY <1>1, <1>5 DEF CloseUnit
<1>6. CASE GiveUp
  BY <1>6 DEF GiveUp
<1>7. CASE Return
  <2>1. PICK contention \in {{}, {"ExternalLoad"}} : Costs(Cardinality(contention))
    BY <1>7 DEF Return, Contention
  <2>2. Cardinality(contention) \in Nat
    <3>1. IsFiniteSet(contention)
      <4>1. CASE contention = {}
        BY <4>1, FS_EmptySet
      <4>2. CASE contention = {"ExternalLoad"}
        BY <4>2, FS_Singleton
      <4> QED BY <2>1, <4>1, <4>2
    <3> QED BY <3>1, FS_CardinalityType
  <2> QED BY <2>1, <2>2, Spent
<1> QED BY <1>2, <1>3, <1>4, <1>5, <1>6, <1>7 DEF Measure

-----------------------------------------------------------------------------
(* The run                                                                 *)

IsRun(r) ==
    r = [profile |-> r.profile, plan |-> r.plan, repeats |-> r.repeats, asked |-> r.asked,
         host |-> r.host, force |-> r.force, phase |-> r.phase, next |-> r.next,
         cycle |-> r.cycle, state |-> r.state]

\* What was asked for: a named profile is run as it is.
Asked ==
    /\ IsRun(run)
    /\ run.asked \in Requests /\ run.host \in Hosts /\ run.force \in BOOLEAN
    /\ run.profile \in Profiles /\ Plan \in Seq(ModuleIds)
    /\ run.profile # "custom" =>
         /\ AsAsked(run.asked) /\ run.profile = run.asked.profile
         /\ Plan = ModulesForProfile[run.asked.profile]

\* Where it is.
Unsealed == {"preflight", "measuring", "finalising"}

Walked ==
    /\ run.phase \in Unsealed \union {"sealed", "judged"}
    /\ run.state \in {"Preflight", "Running", "Completed", "Cancelled", "Failed"}
    /\ run.next \in 1..Len(Plan) + 1 /\ run.cycle \in Nat
    /\ run.phase = "preflight" => run.next = 1 /\ run.cycle = 0 /\ run.state = "Preflight"
    /\ Measuring => run.state = "Running"
    /\ cancelled \in BOOLEAN /\ faults \in Nat

AtWork ==
    work # Idle =>
      /\ Measuring /\ WorkOK(work) /\ run.next # 1
      /\ work.mod = Plan[run.next - 1] /\ work.cycle = run.cycle

Recorded ==
    /\ results \in Seq(Range(results))
    /\ \A i \in DOMAIN results :
         /\ ResultFine(results[i])
         /\ results[i].mod \in Range(Plan) /\ results[i].cycle \in 0..run.cycle

\* A module has a result in a cycle.
Has(rs, m, c) == \E i \in DOMAIN rs : rs[i].mod = m /\ rs[i].cycle = c

\* Unless the run was cancelled every module it has been through left a result.
Covering ==
    /\ Measuring /\ ~ cancelled =>
         /\ \A c \in 0..run.cycle - 1, j \in 1..Len(Plan) : Has(results, Plan[j], c)
         /\ \A j \in 1..run.next - 1 :
              Has(results, Plan[j], run.cycle) \/ (work # Idle /\ j = run.next - 1)
    /\ run.state = "Completed" =>
         \A c \in 0..run.cycle, j \in 1..Len(Plan) : Has(results, Plan[j], c)

RunInv == Asked /\ Walked /\ AtWork /\ Recorded /\ Covering /\ Blind

-----------------------------------------------------------------------------
(* The request                                                             *)

LEMMA ProfilesAreLists ==
    ASSUME NEW p \in Profiles
    PROVE  ModulesForProfile[p] \in Seq(ModuleIds)
<1>1. p \in {"web", "read_only", "quick", "endurance", "standard", "custom", "deep"}
  BY DEF Profiles, ModulesForProfile
<1>2. ModuleIds = {"cpu", "memory", "storage", "network", "web", "php", "node", "oltp", "cache",
                   "wordpress", "deployment"}
  BY DEF ModuleIds, Builtin
<1>3. /\ <<"cpu", "memory", "storage">> \in Seq(ModuleIds)
      /\ <<"network", "web">> \in Seq(ModuleIds)
      /\ <<"web", "php", "node">> \in Seq(ModuleIds) /\ <<"cpu", "memory">> \in Seq(ModuleIds)
      /\ <<"php", "node", "oltp", "cache", "wordpress", "deployment">> \in Seq(ModuleIds)
  BY <1>2
<1>4. Core \in Seq(ModuleIds) /\ Standard \in Seq(ModuleIds)
  BY <1>3 DEF Core, Standard
<1>5. Standard \o <<"php", "node", "oltp", "cache", "wordpress", "deployment">> \in Seq(ModuleIds)
  BY <1>3, <1>4
<1>6. /\ ModulesForProfile["web"] = <<"web", "php", "node">>
      /\ ModulesForProfile["read_only"] = <<"cpu", "memory">>
      /\ ModulesForProfile["quick"] = Core /\ ModulesForProfile["endurance"] = Core
      /\ ModulesForProfile["standard"] = Standard /\ ModulesForProfile["custom"] = Standard
      /\ ModulesForProfile["deep"] =
           Standard \o <<"php", "node", "oltp", "cache", "wordpress", "deployment">>
  BY DEF ModulesForProfile
<1> QED BY <1>1, <1>3, <1>4, <1>5, <1>6

LEMMA StartedIsOK ==
    ASSUME NEW q \in Requests, ~ Refused(q)
    PROVE  /\ Started(q).profile \in Profiles /\ Started(q).plan \in Seq(ModuleIds)
           /\ Started(q).profile # "custom" =>
                /\ AsAsked(q) /\ Started(q).profile = q.profile
                /\ Started(q).plan = ModulesForProfile[q.profile]
<1>1. q.profile \in Profiles /\ q.modules \subseteq Seq(STRING)
  BY AssessmentAssumption
<1>2. "custom" \in Profiles
  BY DEF Profiles, ModulesForProfile
<1>3. CASE q.modules = {}
  <2>1. Started(q).plan = ModulesForProfile[q.profile]
    BY <1>3 DEF Started
  <2>2. Started(q).profile = IF AsAsked(q) THEN q.profile ELSE "custom"
    BY DEF Started
  <2> QED BY <1>1, <1>2, <2>1, <2>2, ProfilesAreLists
<1>4. CASE q.modules # {}
  <2> DEFINE list == CHOOSE l \in q.modules : TRUE
  <2>1. list \in q.modules
    BY <1>4
  <2>2. Started(q).plan = list /\ Started(q).profile = "custom"
    BY <1>4 DEF Started, AsAsked
  <2> HIDE DEF list
  <2>3. list \in Seq(STRING) /\ Range(list) \subseteq ModuleIds
    BY <1>1, <2>1 DEF Refused
  <2>4. list \in Seq(ModuleIds)
    <3>1. Len(list) \in Nat /\ DOMAIN list = 1..Len(list) /\ list \in [1..Len(list) -> STRING]
      BY <2>3
    <3>2. list \in [1..Len(list) -> ModuleIds]
      BY <2>3, <3>1 DEF Range
    <3> QED BY <3>1, <3>2
  <2> QED BY <1>2, <2>2, <2>4
<1> QED BY <1>3, <1>4

LEMMA RunInit == Init => RunInv
<1> SUFFICES ASSUME Init PROVE RunInv
  OBVIOUS
<1>1. PICK q \in Requests, host \in Hosts, force \in BOOLEAN :
         /\ ~ Refused(q)
         /\ run = [profile |-> Started(q).profile, plan |-> Started(q).plan,
                   repeats |-> Started(q).repeats, asked |-> q, host |-> host, force |-> force,
                   phase |-> "preflight", next |-> 1, cycle |-> 0, state |-> "Preflight"]
  BY DEF Init
<1>2. /\ IsRun(run) /\ run.asked = q /\ run.host = host /\ run.force = force
      /\ run.profile = Started(q).profile /\ Plan = Started(q).plan
      /\ run.phase = "preflight" /\ run.next = 1 /\ run.cycle = 0 /\ run.state = "Preflight"
  BY <1>1 DEF IsRun, Plan
<1>3. /\ work = Idle /\ results = <<>> /\ cancelled = FALSE /\ since = 0
      /\ faults = MaxFaults[<<run.asked, run.host>>]
  BY DEF Init
<1>4. Asked
  BY <1>1, <1>2, StartedIsOK DEF Asked
<1>5. Walked
  <2>1. faults \in Nat
    BY <1>2, <1>3, AssessmentAssumption
  <2>2. Len(Plan) \in Nat
    BY <1>4 DEF Asked
  <2>3. 1 \in 1..Len(Plan) + 1 /\ 0 \in Nat
    BY <2>2
  <2>5. cancelled \in BOOLEAN
    BY <1>3
  <2>4. run.phase \in Unsealed /\ ~ Measuring
    BY <1>2 DEF Unsealed, Measuring
  <2> QED BY <1>2, <2>1, <2>3, <2>4, <2>5 DEF Walked
<1>6. Recorded
  <2>1. results \in Seq(Range(results)) /\ DOMAIN results = {}
    BY <1>3 DEF Range
  <2> QED BY <2>1 DEF Recorded
<1>7. AtWork /\ Covering /\ Blind
  BY <1>2, <1>3 DEF AtWork, Covering, Blind, Measuring
<1> QED BY <1>4, <1>5, <1>6, <1>7 DEF RunInv

-----------------------------------------------------------------------------
(* The steps of the run                                                    *)

\* A step that leaves the request and the results alone.
LEMMA SameResults ==
    ASSUME Asked, Recorded, IsRun(run'), run'.asked = run.asked, run'.host = run.host,
           run'.force = run.force, run'.profile = run.profile, run'.plan = run.plan,
           results' = results, run.cycle \in Nat, run'.cycle \in Nat, run'.cycle >= run.cycle
    PROVE  Asked' /\ Recorded'
<1>1. Asked'
  BY DEF Asked, Plan
<1>2. Recorded'
  <2>1. ASSUME NEW i \in DOMAIN results
        PROVE  /\ ResultFine(results[i]) /\ results[i].mod \in Range(Plan')
               /\ results[i].cycle \in 0..run'.cycle
    <3>1. results[i].cycle \in 0..run.cycle
      BY DEF Recorded
    <3> QED BY <3>1 DEF Recorded, Plan
  <2> QED BY <2>1 DEF Recorded
<1> QED BY <1>1, <1>2

\* The rest of the run is not started, or over.
LEMMA PhaseStep ==
    ASSUME RunInv, Admit \/ Refuse \/ FinishModules \/ AnotherCycle
    PROVE  RunInv'
<1>1. /\ IsRun(run) /\ run.phase \in {"preflight", "measuring"} /\ run.cycle \in Nat
      /\ work' = work /\ results' = results /\ cancelled' = cancelled /\ since' = since
      /\ faults' = faults /\ Len(Plan) \in Nat /\ run.next \in 1..Len(Plan) + 1
  BY DEF RunInv, Asked, Walked, Admit, Refuse, FinishModules, AnotherCycle, CycleOver, Measuring
<1>2. CASE Admit \/ Refuse
  <2>1. /\ IsRun(run') /\ run'.asked = run.asked /\ run'.host = run.host
        /\ run'.force = run.force /\ run'.profile = run.profile /\ run'.plan = run.plan
        /\ run'.next = run.next /\ run'.cycle = run.cycle
        /\ \/ run'.phase = "measuring" /\ run'.state = "Running"
           \/ run'.phase = "finalising" /\ run'.state = "Failed"
    BY <1>1, <1>2 DEF Admit, Refuse, IsRun
  <2>2. run.phase = "preflight" /\ run.next = 1 /\ run.cycle = 0 /\ work = Idle
    BY <1>2 DEF Admit, Refuse, RunInv, Walked, AtWork, Measuring
  <2>3. Asked' /\ Recorded'
    BY <1>1, <2>1, SameResults DEF RunInv
  <2>4. Plan' = Plan
    BY <2>1 DEF Plan
  <2>5. Walked'
    BY <1>1, <2>1, <2>4 DEF RunInv, Walked, Measuring, Unsealed
  <2>6. AtWork' /\ Covering' /\ Blind'
    BY <1>1, <2>1, <2>2, <2>4 DEF RunInv, AtWork, Covering, Blind, Measuring
  <2> QED BY <2>3, <2>5, <2>6 DEF RunInv
<1>3. CASE FinishModules
  <2>1. /\ IsRun(run') /\ run'.asked = run.asked /\ run'.host = run.host
        /\ run'.force = run.force /\ run'.profile = run.profile /\ run'.plan = run.plan
        /\ run'.next = run.next /\ run'.cycle = run.cycle /\ run'.phase = "finalising"
        /\ run'.state = IF cancelled THEN "Cancelled" ELSE "Completed"
    BY <1>1, <1>3 DEF FinishModules, IsRun
  <2>2. work = Idle /\ Measuring /\ (cancelled \/ run.next > Len(Plan))
    BY <1>3 DEF FinishModules, CycleOver
  <2>3. Asked' /\ Recorded'
    BY <1>1, <2>1, SameResults DEF RunInv
  <2>4. Plan' = Plan
    BY <2>1 DEF Plan
  <2>5. Walked'
    BY <1>1, <2>1, <2>4 DEF RunInv, Walked, Measuring, Unsealed
  <2>6. AtWork' /\ Blind'
    BY <1>1, <2>2 DEF RunInv, AtWork, Blind
  <2>7. Covering'
    <3>1. CASE cancelled
      BY <2>1, <3>1 DEF Covering, Measuring
    <3>2. CASE ~ cancelled
      <4>1. run.next = Len(Plan) + 1
        BY <1>1, <2>2, <3>2
      <4>2. ASSUME NEW c \in 0..run.cycle, NEW j \in 1..Len(Plan) PROVE Has(results, Plan[j], c)
        <5>1. CASE c = run.cycle
          <6>1. j \in 1..run.next - 1
            BY <1>1, <4>1
          <6> QED BY <2>2, <3>2, <5>1, <6>1 DEF RunInv, Covering
        <5>2. CASE c # run.cycle
          <6>1. c \in 0..run.cycle - 1
            BY <1>1, <5>2
          <6> QED BY <2>2, <3>2, <6>1 DEF RunInv, Covering
        <5> QED BY <5>1, <5>2
      <4> QED BY <1>1, <2>1, <2>4, <4>2 DEF Covering, Measuring
    <3> QED BY <3>1, <3>2
  <2> QED BY <2>3, <2>5, <2>6, <2>7 DEF RunInv
<1>4. CASE AnotherCycle
  <2>1. /\ IsRun(run') /\ run'.asked = run.asked /\ run'.host = run.host
        /\ run'.force = run.force /\ run'.profile = run.profile /\ run'.plan = run.plan
        /\ run'.next = 1 /\ run'.cycle = run.cycle + 1 /\ run'.phase = run.phase
        /\ run'.state = run.state
    BY <1>1, <1>4 DEF AnotherCycle, IsRun
  <2>2. work = Idle /\ Measuring /\ ~ cancelled /\ run.next = Len(Plan) + 1
        /\ run.state = "Running"
    BY <1>1, <1>4 DEF AnotherCycle, CycleOver, RunInv, Walked
  <2>3. Asked' /\ Recorded'
    BY <1>1, <2>1, SameResults DEF RunInv
  <2>4. Plan' = Plan
    BY <2>1 DEF Plan
  <2>5. Walked'
    <3>1. 1 \in 1..Len(Plan) + 1 /\ run.cycle + 1 \in Nat
      BY <1>1
    <3> QED BY <1>1, <2>1, <2>2, <2>4, <3>1 DEF RunInv, Walked, Measuring
  <2>6. AtWork' /\ Blind'
    BY <1>1, <2>2 DEF RunInv, AtWork, Blind
  <2>7. Covering'
    <3>1. ASSUME NEW c \in 0..run.cycle, NEW j \in 1..Len(Plan) PROVE Has(results, Plan[j], c)
      <4>1. CASE c = run.cycle
        <5>1. j \in 1..run.next - 1
          BY <1>1, <2>2
        <5> QED BY <2>2, <4>1, <5>1 DEF RunInv, Covering
      <4>2. CASE c # run.cycle
        <5>1. c \in 0..run.cycle - 1
          BY <1>1, <4>2
        <5> QED BY <2>2, <5>1 DEF RunInv, Covering
      <4> QED BY <4>1, <4>2
    <3>2. run'.cycle - 1 = run.cycle /\ run'.next - 1 = 0 /\ run'.state # "Completed"
      BY <1>1, <2>1, <2>2
    <3>3. 1..run'.next - 1 = {}
      BY <3>2
    <3> QED BY <1>1, <2>4, <3>1, <3>2, <3>3 DEF Covering
  <2> QED BY <2>3, <2>5, <2>6, <2>7 DEF RunInv
<1> QED BY <1>2, <1>3, <1>4

LEMMA BeginStep ==
    ASSUME RunInv, BeginModule
    PROVE  RunInv'
<1>1. /\ IsRun(run) /\ Measuring /\ run.cycle \in Nat /\ work = Idle /\ ~ cancelled
      /\ work' = Entered(Plan[run.next], run.cycle) /\ run' = [run EXCEPT !.next = run.next + 1]
      /\ results' = results /\ cancelled' = cancelled /\ since' = since /\ faults' = faults
      /\ Len(Plan) \in Nat /\ run.next \in 1..Len(Plan)
  BY DEF RunInv, Asked, Walked, BeginModule
<1>2. Plan[run.next] \in ModuleIds
  BY <1>1 DEF RunInv, Asked
<1>3. /\ WorkOK(work') /\ work'.mod = Plan[run.next] /\ work'.cycle = run.cycle
      /\ work'.at \in Nat \ {0}
  BY <1>1, <1>2, EnteredIsOK
<1>4. /\ IsRun(run') /\ run'.asked = run.asked /\ run'.host = run.host
      /\ run'.force = run.force /\ run'.profile = run.profile /\ run'.plan = run.plan
      /\ run'.next = run.next + 1 /\ run'.cycle = run.cycle /\ run'.phase = run.phase
      /\ run'.state = run.state
  BY <1>1 DEF IsRun
<1>5. Plan' = Plan
  BY <1>4 DEF Plan
<1>6. Asked' /\ Recorded'
  BY <1>1, <1>4, SameResults DEF RunInv
<1>7. run'.next \in 1..Len(Plan) + 1 /\ run'.next # 1 /\ run'.next - 1 = run.next
  BY <1>1, <1>4
<1>8. Walked'
  BY <1>1, <1>4, <1>5, <1>7 DEF RunInv, Walked, Measuring
<1>9. AtWork'
  BY <1>1, <1>3, <1>4, <1>5, <1>7 DEF AtWork, Measuring
<1>10. Blind'
  <2>1. since = 0
    BY <1>1 DEF RunInv, Blind
  <2> QED BY <1>1, <1>3, <2>1 DEF Blind, LongestBlindStretch
<1>11. Covering'
  <2>1. work' # Idle
    BY <1>3, WorkIsNotIdle
  <2>2. ASSUME NEW j \in 1..run'.next - 1
        PROVE  Has(results, Plan[j], run.cycle) \/ j = run'.next - 1
    <3>1. CASE j = run.next
      BY <1>7, <3>1
    <3>2. CASE j # run.next
      <4>1. j \in 1..run.next - 1
        BY <1>1, <1>7, <3>2
      <4> QED BY <1>1, <4>1 DEF RunInv, Covering
    <3> QED BY <3>1, <3>2
  <2>3. \A c \in 0..run.cycle - 1, j \in 1..Len(Plan) : Has(results, Plan[j], c)
    BY <1>1 DEF RunInv, Covering
  <2>4. run.state # "Completed"
    BY <1>1 DEF RunInv, Walked
  <2> QED BY <1>1, <1>4, <1>5, <2>1, <2>2, <2>3, <2>4 DEF Covering
<1> QED BY <1>6, <1>8, <1>9, <1>10, <1>11 DEF RunInv

\* One more result leaves those there are.
LEMMA Appended ==
    ASSUME NEW s, s \in Seq(Range(s)), NEW r
    PROVE  LET t == Append(s, r)
           IN  /\ t \in Seq(Range(t)) /\ DOMAIN t = 1..Len(s) + 1 /\ Len(s) \in Nat
               /\ DOMAIN s = 1..Len(s)
               /\ \A i \in 1..Len(s) : t[i] = s[i]
               /\ t[Len(s) + 1] = r
<1> DEFINE S == Range(s) \union {r}
           t == Append(s, r)
<1>1. Len(s) \in Nat /\ DOMAIN s = 1..Len(s) /\ s \in [1..Len(s) -> Range(s)]
  OBVIOUS
<1>2. s \in [1..Len(s) -> S]
  BY <1>1
<1>3. s \in Seq(S) /\ r \in S
  BY <1>1, <1>2
<1>4. /\ t \in Seq(S) /\ Len(t) = Len(s) + 1 /\ DOMAIN t = 1..Len(s) + 1
      /\ \A i \in 1..Len(s) : t[i] = s[i]
      /\ t[Len(s) + 1] = r
  BY <1>1, <1>3
<1> HIDE DEF t
<1>5. t \in Seq(Range(t))
  <2>1. t = [i \in 1..Len(t) |-> t[i]] /\ Len(t) \in Nat /\ DOMAIN t = 1..Len(t)
    BY <1>1, <1>4
  <2>2. t \in [1..Len(t) -> Range(t)]
    BY <2>1 DEF Range
  <2> QED BY <2>1, <2>2
<1> QED BY <1>1, <1>4, <1>5 DEF t

LEMMA InModuleStep ==
    ASSUME RunInv, InModule
    PROVE  RunInv'
<1>1. /\ Measuring /\ Measure /\ run' = run /\ IsRun(run) /\ run.cycle \in Nat
      /\ Len(Plan) \in Nat /\ run.next \in 1..Len(Plan) + 1 /\ faults \in Nat
      /\ run.state = "Running"
  BY DEF InModule, RunInv, Asked, Walked
<1>2. work # Idle
  BY <1>1 DEF Measure, Call, Calibrate, Repeat, CloseUnit, GiveUp, Return, Running
<1>3. /\ WorkOK(work) /\ run.next # 1 /\ work.mod = Plan[run.next - 1]
      /\ work.cycle = run.cycle
  BY <1>2 DEF RunInv, AtWork
<1>4. cancelled' = cancelled
  BY <1>1 DEF Measure, Call, Calibrate, Repeat, CloseUnit, GiveUp, Return
<1>5. WentOn \/ LeftResult \/ LeftNothing
  BY <1>1, <1>2, <1>3, MeasureStep
<1>6. Blind' /\ faults' \in Nat
  BY <1>1, <1>2, <1>3, BlindStep, FaultsStep DEF RunInv
<1>7. Plan' = Plan /\ Asked' /\ Walked' /\ (Measuring <=> Measuring')
  BY <1>1, <1>4, <1>6 DEF RunInv, Asked, Walked, Plan, Measuring
<1>8. AtWork'
  BY <1>1, <1>3, <1>5, <1>7 DEF AtWork, WentOn, LeftResult, LeftNothing
<1>9. work.mod \in Range(Plan) /\ run.next - 1 \in 1..Len(Plan)
  <2>1. run.next - 1 \in 1..Len(Plan) /\ DOMAIN Plan = 1..Len(Plan)
    BY <1>1, <1>3 DEF RunInv, Asked
  <2> QED BY <1>3, <2>1 DEF Range
<1>10. ASSUME results' = results, cancelled \/ work' # Idle PROVE RunInv'
  <2>1. Recorded'
    BY <1>1, <1>7, <1>10 DEF RunInv, Recorded
  <2>2. Covering'
    BY <1>1, <1>2, <1>4, <1>7, <1>10 DEF RunInv, Covering, Measuring
  <2> QED BY <1>6, <1>7, <1>8, <2>1, <2>2 DEF RunInv
<1>11. CASE WentOn
  <2>1. work' # Idle
    BY <1>11, WorkIsNotIdle DEF WentOn
  <2> QED BY <1>10, <1>11, <2>1 DEF WentOn
<1>12. CASE LeftNothing
  BY <1>10, <1>12 DEF LeftNothing
<1>13. CASE LeftResult
  <2>1. PICK r : /\ ResultFine(r) /\ r.mod = work.mod /\ r.cycle = work.cycle
                 /\ results' = Append(results, r)
    BY <1>13 DEF LeftResult
  <2>2. results \in Seq(Range(results))
    BY DEF RunInv, Recorded
  <2>3. /\ results' \in Seq(Range(results')) /\ DOMAIN results' = 1..Len(results) + 1
        /\ Len(results) \in Nat /\ DOMAIN results = 1..Len(results)
        /\ \A i \in 1..Len(results) : results'[i] = results[i]
        /\ results'[Len(results) + 1] = r
    BY <2>1, <2>2, Appended
  <2>4. Recorded'
    <3>1. ASSUME NEW i \in DOMAIN results'
          PROVE  /\ ResultFine(results'[i]) /\ results'[i].mod \in Range(Plan)
                 /\ results'[i].cycle \in 0..run.cycle
      <4>1. CASE i = Len(results) + 1
        BY <1>1, <1>3, <1>9, <2>1, <2>3, <4>1
      <4>2. CASE i \in 1..Len(results)
        BY <2>3, <4>2 DEF RunInv, Recorded
      <4> QED BY <2>3, <4>1, <4>2
    <3> QED BY <1>1, <1>7, <2>3, <3>1 DEF Recorded
  <2>5. ASSUME NEW m, NEW c, Has(results, m, c) PROVE Has(results', m, c)
    <3>1. PICK i \in 1..Len(results) : results[i].mod = m /\ results[i].cycle = c
      BY <2>3, <2>5 DEF Has
    <3>2. i \in DOMAIN results' /\ results'[i] = results[i]
      BY <2>3
    <3> QED BY <3>1, <3>2 DEF Has
  <2>6. Has(results', work.mod, run.cycle)
    <3>1. Len(results) + 1 \in DOMAIN results'
      BY <2>3
    <3> QED BY <1>3, <2>1, <2>3, <3>1 DEF Has
  <2>7. Covering'
    <3>1. ASSUME ~ cancelled, NEW j \in 1..run.next - 1 PROVE Has(results', Plan[j], run.cycle)
      <4>1. CASE j = run.next - 1
        BY <1>3, <2>6, <4>1
      <4>2. CASE j # run.next - 1
        BY <1>1, <2>5, <3>1, <4>2 DEF RunInv, Covering
      <4> QED BY <4>1, <4>2
    <3>2. ASSUME ~ cancelled, NEW c \in 0..run.cycle - 1, NEW j \in 1..Len(Plan)
          PROVE  Has(results', Plan[j], c)
      BY <1>1, <2>5, <3>2 DEF RunInv, Covering
    <3> QED BY <1>1, <1>4, <1>7, <3>1, <3>2 DEF Covering
  <2> QED BY <1>6, <1>7, <1>8, <2>4, <2>7 DEF RunInv
<1> QED BY <1>5, <1>11, <1>12, <1>13

LEMMA CancelStep ==
    ASSUME RunInv, Cancel
    PROVE  RunInv'
<1>1. /\ Measuring /\ ~ cancelled /\ cancelled' = TRUE /\ work' = work /\ results' = results
      /\ since' = since /\ run' = run /\ Plan' = Plan /\ faults' \in Nat
      /\ run.state = "Running"
  BY Spent DEF Cancel, RunInv, Walked, Plan
<1>2. Asked' /\ Walked' /\ AtWork' /\ Recorded'
  BY <1>1 DEF RunInv, Asked, Walked, AtWork, Recorded, Measuring
<1>3. Covering' /\ Blind'
  BY <1>1 DEF RunInv, Covering, Blind
<1> QED BY <1>2, <1>3 DEF RunInv

\* From the seal on nothing is measured.
LEMMA SealedStep ==
    ASSUME RunInv, Finalise \/ Misstate \/ Age \/ Judge
    PROVE  RunInv'
<1>1. /\ IsRun(run) /\ work' = work /\ results' = results /\ cancelled' = cancelled
      /\ since' = since /\ ~ Measuring /\ run.phase # "preflight" /\ work = Idle
  BY DEF RunInv, Asked, AtWork, Finalise, Misstate, Age, Judge, Measuring
<1>2. /\ IsRun(run') /\ run'.asked = run.asked /\ run'.host = run.host
      /\ run'.force = run.force /\ run'.profile = run.profile /\ run'.plan = run.plan
      /\ run'.next = run.next /\ run'.cycle = run.cycle /\ run'.state = run.state
      /\ run'.phase \in {"sealed", "judged"}
  BY <1>1 DEF Finalise, Misstate, Age, Judge, IsRun
<1>3. faults' \in Nat
  <2>1. faults \in Nat
    BY DEF RunInv, Walked
  <2>2. CASE Finalise
    <3>1. PICK build \in {"release", "debug"}, whole \in BOOLEAN, clock \in BOOLEAN,
               signed \in BOOLEAN :
             Costs((IF build = "release" THEN 0 ELSE 1)
                   + Cardinality({i \in 1..3 : ~ <<whole, clock, signed>>[i]}))
      BY <2>2 DEF Finalise
    <3> DEFINE bad == {i \in 1..3 : ~ <<whole, clock, signed>>[i]}
    <3>2. Cardinality(bad) \in Nat
      <4>1. IsFiniteSet(1..3)
        <5>1. 1 \in Int /\ 3 \in Int
          OBVIOUS
        <5> QED BY <5>1, FS_Interval
      <4>2. bad \subseteq 1..3
        OBVIOUS
      <4> HIDE DEF bad
      <4> QED BY <4>1, <4>2, FS_Subset, FS_CardinalityType
    <3> HIDE DEF bad
    <3>3. (IF build = "release" THEN 0 ELSE 1) + Cardinality(bad) \in Nat
      BY <3>2
    <3> QED BY <2>1, <3>1, <3>3, Spent DEF bad
  <2>3. CASE Misstate \/ Age
    BY <2>1, <2>3, Spent DEF Misstate, Age
  <2>4. CASE Judge
    BY <2>1, <2>4 DEF Judge
  <2> QED BY <2>2, <2>3, <2>4
<1>4. Plan' = Plan /\ ~ Measuring'
  BY <1>2 DEF Plan, Measuring
<1>5. run.cycle \in Nat
  BY DEF RunInv, Walked
<1>6. Asked' /\ Recorded'
  BY <1>1, <1>2, <1>5, SameResults DEF RunInv
<1>7. Walked'
  BY <1>1, <1>2, <1>3, <1>4 DEF RunInv, Walked
<1>8. AtWork' /\ Blind'
  BY <1>1 DEF RunInv, AtWork, Blind
<1>9. Covering'
  BY <1>1, <1>2, <1>4 DEF RunInv, Covering
<1> QED BY <1>6, <1>7, <1>8, <1>9 DEF RunInv

LEMMA RunNext == RunInv /\ [Next]_vars => RunInv'
<1> SUFFICES ASSUME RunInv, [Next]_vars PROVE RunInv'
  OBVIOUS
<1>1. CASE Admit \/ Refuse \/ FinishModules \/ AnotherCycle
  BY <1>1, PhaseStep
<1>2. CASE BeginModule
  BY <1>2, BeginStep
<1>3. CASE InModule
  BY <1>3, InModuleStep
<1>4. CASE Cancel
  BY <1>4, CancelStep
<1>5. CASE Finalise \/ Misstate \/ Age \/ Judge
  BY <1>5, SealedStep
<1>6. CASE UNCHANGED vars
  BY <1>6 DEF vars, RunInv, Asked, Walked, AtWork, Recorded, Covering, Blind, Plan, Measuring
<1> QED BY <1>1, <1>2, <1>3, <1>4, <1>5, <1>6 DEF Next

-----------------------------------------------------------------------------
(* What a verdict reads of a bundle                                        *)

IsCard(card) ==
    card = [model |-> card.model, profile |-> card.profile, total |-> card.total,
            standard |-> card.standard, categories |-> card.categories,
            composites |-> card.composites, variation |-> card.variation,
            flags |-> card.flags, missing |-> card.missing,
            unreferenced |-> card.unreferenced, sustained |-> card.sustained]

IsBundle(b) ==
    b = [state |-> b.state, profile |-> b.profile, build |-> b.build, schema |-> b.schema,
         whole |-> b.whole, clock |-> b.clock, intact |-> b.intact, results |-> b.results,
         card |-> b.card, verdict |-> b.verdict, altered |-> b.altered]

\* The card the results of a bundle call for.
Due(b) == ScoreRun(CurrentModel, b.profile, b.results)

\* As it was signed; with another card than it calls for; in an older schema.
Genuine(b) ==
    /\ b.altered = {} /\ b.schema = Schema /\ b.card = Due(b)
    /\ b.verdict = ValidateBundle(b, FALSE)

Misstated(b) ==
    \E f \in CardFields :
        /\ b.altered = {f} /\ b.card[f] # Due(b)[f]
        /\ b.card.model = IF f = "model" THEN "another" ELSE CurrentModel

Aged(b) == b.altered = {"schema"} /\ b.schema # Schema

\* What it says of the run it is about.
Copied(b) == b.state = run.state /\ b.profile = run.profile /\ b.results = results

Certified ==
    /\ IsRun(run)
    /\ run.phase \in {"sealed", "judged"} =>
         /\ IsBundle(bundle) /\ IsCard(bundle.card) /\ Copied(bundle)
         /\ Genuine(bundle) \/ Misstated(bundle) \/ Aged(bundle)
    /\ run.phase \in Unsealed \union {"sealed", "judged"}
    /\ run.phase \in Unsealed => bundle = NoBundle
    /\ run.phase = "judged" => judged = ValidateBundle(bundle, TRUE)
    /\ run.phase # "judged" => judged = NoBundle

LEMMA CardOfARun ==
    ASSUME NEW model, NEW profile, NEW rs
    PROVE  IsCard(ScoreRun(model, profile, rs)) /\ ScoreRun(model, profile, rs).model = model
BY DEF ScoreRun, IsCard

\* The agent's verdict does not read the signature, nor itself.
LEMMA VerdictReads ==
    ASSUME NEW b, NEW c, b.state = c.state, b.profile = c.profile, b.build = c.build,
           b.schema = c.schema, b.whole = c.whole, b.clock = c.clock,
           b.results = c.results, b.card = c.card
    PROVE  ValidateBundle(b, FALSE) = ValidateBundle(c, FALSE)
<1>1. /\ CompletionReasons(b) = CompletionReasons(c) /\ VersionReasons(b) = VersionReasons(c)
      /\ RecordReasons(b) = RecordReasons(c)
  BY DEF CompletionReasons, VersionReasons, RecordReasons
<1>2. Fatal(b, FALSE) <=> Fatal(c, FALSE)
  BY DEF Fatal
<1>3. Authoritative(b, FALSE) = Authoritative(c, FALSE)
  BY DEF Authoritative
<1> QED BY <1>1, <1>2, <1>3 DEF ValidateBundle

\* A bundle nobody touched gets the same verdict again.
LEMMA UntouchedIsConfirmed ==
    ASSUME NEW b, Genuine(b), b.intact
    PROVE  /\ ValidateBundle(b, TRUE).reasons = ValidateBundle(b, FALSE).reasons
           /\ ValidateBundle(b, TRUE).state =
                 IF ValidateBundle(b, FALSE).state = "Local" THEN "Validated"
                 ELSE ValidateBundle(b, FALSE).state
<1>1. b.card.model = CurrentModel /\ b.card = ScoreRun(b.card.model, b.profile, b.results)
  BY CardOfARun DEF Genuine, Due
<1>2. b.card.model \in KnownModels
  BY <1>1 DEF KnownModels
<1>3. ServerReasons(b) = {}
  BY <1>1, <1>2 DEF ServerReasons, SignatureHolds, ScoresMatch
<1>4. Authoritative(b, TRUE) = b.card /\ Authoritative(b, FALSE) = b.card
  BY <1>1 DEF Authoritative
<1>5. Fatal(b, TRUE) <=> Fatal(b, FALSE)
  BY <1>2, <1>3 DEF Fatal, SignatureHolds
<1> DEFINE R == CompletionReasons(b) \union VersionReasons(b) \union RecordReasons(b)
                \union OutcomeReasons(b.results) \union VarianceReasons(b.results)
                \union MissingReasons(b.card)
           Standing(best) == IF Fatal(b, FALSE) THEN "Invalid"
                             ELSE IF ~ IsStandard(b.profile) THEN "Custom"
                             ELSE IF b.card.missing # {} \/ \E r \in R : IsPartialReason(r)
                                  THEN "Partial"
                             ELSE best
<1>6. /\ ValidateBundle(b, FALSE).reasons = R
      /\ ValidateBundle(b, FALSE).state = Standing("Local")
  BY <1>4 DEF ValidateBundle
<1>7. /\ ValidateBundle(b, TRUE).reasons = R
      /\ ValidateBundle(b, TRUE).state = Standing("Validated")
  BY <1>3, <1>4, <1>5 DEF ValidateBundle
<1>8. \/ Standing("Local") = "Local" /\ Standing("Validated") = "Validated"
      \/ Standing("Local") # "Local" /\ Standing("Validated") = Standing("Local")
  OBVIOUS
<1> HIDE DEF R, Standing
<1> QED BY <1>6, <1>7, <1>8

\* One that was touched, or is not what was signed, is rejected.
LEMMA TouchedIsRejected ==
    ASSUME NEW b, Genuine(b) \/ Misstated(b) \/ Aged(b), b.altered # {} \/ ~ b.intact
    PROVE  ValidateBundle(b, TRUE).state = "Invalid"
<1>1. Fatal(b, TRUE)
  <2>1. CASE ~ b.intact
    BY <2>1 DEF Fatal, SignatureHolds
  <2>2. CASE Aged(b)
    BY <2>2 DEF Fatal, Aged
  <2>3. CASE Misstated(b)
    <3>1. PICK f \in CardFields :
             /\ b.card[f] # Due(b)[f]
             /\ b.card.model = IF f = "model" THEN "another" ELSE CurrentModel
      BY <2>3 DEF Misstated
    <3>2. CASE f = "model"
      BY <3>1, <3>2 DEF Fatal, KnownModels, CurrentModel
    <3>3. CASE f # "model"
      <4>1. ~ ScoresMatch(ScoreRun(b.card.model, b.profile, b.results), b.card)
        BY <3>1, <3>3 DEF ScoresMatch, Due
      <4>2. Reason("ScoreRecomputationMismatch", "") \in ServerReasons(b)
        BY <3>1, <3>3, <4>1 DEF ServerReasons, KnownModels
      <4> QED BY <4>2 DEF Fatal
    <3> QED BY <3>2, <3>3
  <2>4. CASE Genuine(b)
    BY <2>1, <2>4 DEF Genuine
  <2> QED BY <2>2, <2>3, <2>4
<1> QED BY <1>1 DEF ValidateBundle

-----------------------------------------------------------------------------
(* From the seal to the judgement                                          *)

LEMMA CertifiedInit == Init => Certified
<1>1. ASSUME Init
      PROVE  /\ IsRun(run) /\ run.phase = "preflight"
             /\ bundle = NoBundle /\ judged = NoBundle
  BY <1>1 DEF Init, IsRun
<1> QED BY <1>1 DEF Certified, Unsealed

\* Until the run is finalised there is nothing to certify.
LEMMA UnsealedStep ==
    ASSUME Certified, run.phase \in Unsealed, IsRun(run'), run'.phase \in Unsealed,
           bundle' = bundle, judged' = judged
    PROVE  Certified'
BY DEF Certified, Unsealed

LEMMA MeasuringKeepsCertified ==
    ASSUME Certified,
           \/ Admit \/ Refuse \/ BeginModule \/ InModule \/ Cancel \/ AnotherCycle \/ FinishModules
    PROVE  Certified'
<1>1. IsRun(run)
  BY DEF Certified
<1>2. /\ run.phase \in {"preflight", "measuring"} /\ bundle' = bundle /\ judged' = judged
      /\ IsRun(run') /\ run'.phase \in {"measuring", "finalising"}
  <2>1. CASE Admit
    BY <1>1, <2>1 DEF Admit, IsRun
  <2>2. CASE Refuse
    BY <1>1, <2>2 DEF Refuse, IsRun
  <2>3. CASE BeginModule
    BY <1>1, <2>3 DEF BeginModule, Measuring, IsRun
  <2>4. CASE InModule
    BY <1>1, <2>4 DEF InModule, Measuring, IsRun
  <2>5. CASE Cancel
    BY <1>1, <2>5 DEF Cancel, Measuring, IsRun
  <2>6. CASE AnotherCycle
    BY <1>1, <2>6 DEF AnotherCycle, CycleOver, Measuring, IsRun
  <2>7. CASE FinishModules
    BY <1>1, <2>7 DEF FinishModules, CycleOver, Measuring, IsRun
  <2> QED BY <2>1, <2>2, <2>3, <2>4, <2>5, <2>6, <2>7
<1> QED BY <1>2, UnsealedStep DEF Unsealed

LEMMA SealedIsGenuine ==
    ASSUME Certified, Finalise
    PROVE  Certified'
<1>1. PICK build, whole, clock, signed : bundle' = Sealed(build, whole, clock, signed)
  BY DEF Finalise
<1> DEFINE b == [state |-> run.state, profile |-> run.profile, build |-> build, schema |-> Schema,
                 whole |-> whole, clock |-> clock, intact |-> signed, results |-> results,
                 card |-> ScoreRun(CurrentModel, run.profile, results),
                 verdict |-> NoBundle, altered |-> {}]
<1>2. bundle' = [b EXCEPT !.verdict = ValidateBundle(b, FALSE)]
  BY <1>1 DEF Sealed
<1>3. /\ bundle' = [state |-> b.state, profile |-> b.profile, build |-> b.build,
                    schema |-> b.schema, whole |-> b.whole, clock |-> b.clock, intact |-> b.intact,
                    results |-> b.results, card |-> b.card,
                    verdict |-> ValidateBundle(b, FALSE), altered |-> {}]
      /\ b.schema = Schema /\ b.card = ScoreRun(CurrentModel, b.profile, b.results)
  BY <1>2
<1> HIDE DEF b
<1>4. ValidateBundle(bundle', FALSE) = ValidateBundle(b, FALSE)
  BY <1>3, VerdictReads
<1>5. Genuine(bundle') /\ IsBundle(bundle') /\ IsCard(bundle'.card)
  <2>1. IsBundle(bundle')
    BY <1>3 DEF IsBundle
  <2>2. bundle'.card = ScoreRun(CurrentModel, bundle'.profile, bundle'.results)
    BY <1>3
  <2>3. IsCard(bundle'.card)
    BY <2>2, CardOfARun
  <2> QED BY <1>3, <1>4, <2>1, <2>2, <2>3 DEF Genuine, Due
<1>6. /\ IsRun(run') /\ run'.phase = "sealed"
      /\ run'.state = run.state /\ run'.profile = run.profile /\ results' = results
      /\ judged' = judged /\ run.phase = "finalising"
  BY DEF Finalise, Certified, IsRun
<1>7. Copied(bundle)'
  <2>1. /\ bundle'.state = run.state /\ bundle'.profile = run.profile
        /\ bundle'.results = results
    BY <1>3 DEF b
  <2> QED BY <1>6, <2>1 DEF Copied
<1> QED BY <1>5, <1>6, <1>7 DEF Certified, Unsealed

\* A card that was touched is not the card the results call for.
LEMMA MisstatedIsMisstated ==
    ASSUME Certified, Misstate
    PROVE  Certified'
<1>1. /\ run.phase = "sealed" /\ bundle.altered = {} /\ IsRun(run) /\ run' = run
      /\ IsBundle(bundle) /\ IsCard(bundle.card) /\ Copied(bundle) /\ results' = results
      /\ judged' = judged /\ judged = NoBundle
  BY DEF Misstate, Certified
<1>2. PICK f \in CardFields, signed \in BOOLEAN :
         /\ Otherwise(bundle.card, f) # bundle.card[f]
         /\ bundle' = [bundle EXCEPT !.card[f] = Otherwise(bundle.card, f),
                                     !.intact = @ /\ signed, !.altered = {f}]
  BY DEF Misstate
<1>3. Genuine(bundle)
  BY <1>1 DEF Certified, Misstated, Aged
<1>4. f \in DOMAIN bundle.card
  BY <1>1, <1>2 DEF IsCard, CardFields, ContextFields, TotalFields, StabilityFields, ListFields,
                    AbsenceFields
<1> DEFINE card == [bundle.card EXCEPT ![f] = Otherwise(bundle.card, f)]
<1>5. /\ IsBundle(bundle') /\ bundle'.altered = {f} /\ bundle'.card = card
      /\ bundle'.state = bundle.state /\ bundle'.profile = bundle.profile
      /\ bundle'.results = bundle.results
  BY <1>1, <1>2 DEF IsBundle
<1>6. IsCard(card)
  BY <1>1, <1>4 DEF IsCard
<1>7. card[f] # Due(bundle)[f]
  BY <1>2, <1>3, <1>4 DEF Genuine
<1>8. card.model = IF f = "model" THEN "another" ELSE CurrentModel
  <2>1. bundle.card.model = CurrentModel
    BY <1>3, CardOfARun DEF Genuine, Due
  <2>2. "model" \in DOMAIN bundle.card
    BY <1>1 DEF IsCard
  <2> QED BY <2>1, <2>2 DEF Otherwise
<1> HIDE DEF card
<1>9. Misstated(bundle') /\ Copied(bundle)'
  <2>1. Due(bundle') = Due(bundle)
    BY <1>5 DEF Due
  <2> QED BY <1>1, <1>2, <1>5, <1>7, <1>8, <2>1 DEF Misstated, Copied
<1> QED BY <1>1, <1>5, <1>6, <1>9 DEF Certified, Unsealed

LEMMA AgedIsAged ==
    ASSUME Certified, Age
    PROVE  Certified'
<1>1. /\ run.phase = "sealed" /\ bundle.altered = {} /\ IsRun(run) /\ run' = run
      /\ IsBundle(bundle) /\ IsCard(bundle.card) /\ Copied(bundle) /\ results' = results
      /\ judged' = judged /\ judged = NoBundle
      /\ bundle' = [bundle EXCEPT !.schema = "older", !.altered = {"schema"}]
  BY DEF Age, Certified
<1>2. /\ IsBundle(bundle') /\ bundle'.card = bundle.card /\ Aged(bundle')
      /\ bundle'.state = bundle.state /\ bundle'.profile = bundle.profile
      /\ bundle'.results = bundle.results
  BY <1>1 DEF IsBundle, Aged, Schema
<1>3. Copied(bundle)'
  BY <1>1, <1>2 DEF Copied
<1> QED BY <1>1, <1>2, <1>3 DEF Certified, Unsealed

LEMMA JudgedAsItIs ==
    ASSUME Certified, Judge
    PROVE  Certified'
<1>1. /\ run.phase = "sealed" /\ bundle' = bundle /\ judged' = ValidateBundle(bundle, TRUE)
      /\ IsRun(run') /\ run'.phase = "judged" /\ run'.state = run.state
      /\ run'.profile = run.profile /\ results' = results
  BY DEF Judge, Certified, IsRun
<1> QED BY <1>1 DEF Certified, Copied, Unsealed

LEMMA CertifiedNext == Certified /\ [Next]_vars => Certified'
<1> SUFFICES ASSUME Certified, [Next]_vars PROVE Certified'
  OBVIOUS
<1>1. CASE \/ Admit \/ Refuse \/ BeginModule \/ InModule \/ Cancel \/ AnotherCycle
           \/ FinishModules
  BY <1>1, MeasuringKeepsCertified
<1>2. CASE Finalise
  BY <1>2, SealedIsGenuine
<1>3. CASE Misstate
  BY <1>3, MisstatedIsMisstated
<1>4. CASE Age
  BY <1>4, AgedIsAged
<1>5. CASE Judge
  BY <1>5, JudgedAsItIs
<1>6. CASE UNCHANGED vars
  BY <1>6 DEF vars, Certified, Copied
<1> QED BY <1>1, <1>2, <1>3, <1>4, <1>5, <1>6 DEF Next

-----------------------------------------------------------------------------
(* Whole cycles                                                            *)

\* A bounded set of numbers has a first and a last one.
LEMMA Extremes ==
    ASSUME NEW n \in Nat, NEW S \in SUBSET (0..n), S # {}
    PROVE  /\ Max(S) \in S /\ \A c \in S : c <= Max(S)
           /\ \E c \in S : \A d \in S : c <= d
<1> DEFINE M == {n - c : c \in S}
<1>1. M \in SUBSET Nat /\ M # {}
  <2>1. \A c \in S : n - c \in Nat
    OBVIOUS
  <2>2. PICK c \in S : TRUE
    OBVIOUS
  <2>3. n - c \in M
    OBVIOUS
  <2> QED BY <2>1, <2>3
<1>2. PICK least \in M : \A k \in M : least <= k
  <2> HIDE DEF M
  <2> QED BY <1>1, LeastOfASet
<1>3. PICK top \in S : least = n - top
  BY <1>2
<1>4. \A c \in S : top >= c
  <2> TAKE c \in S
  <2>1. n - top <= n - c
    BY <1>2, <1>3
  <2> QED BY <2>1
<1>5. Max(S) \in S /\ \A c \in S : Max(S) >= c
  BY <1>4 DEF Max
<1>6. \E c \in S : \A d \in S : c <= d
  BY LeastOfASet
<1> QED BY <1>5, <1>6

LEMMA SizeOfUnion ==
    ASSUME NEW S, IsFiniteSet(S), NEW T, IsFiniteSet(T)
    PROVE  /\ IsFiniteSet(S \union T) /\ Cardinality(S \union T) \in Nat
           /\ Cardinality(S \union T) <= Cardinality(S) + Cardinality(T)
<1>1. /\ IsFiniteSet(S \union T)
      /\ Cardinality(S \union T) = Cardinality(S) + Cardinality(T) - Cardinality(S \intersect T)
  BY FS_Union
<1>2. IsFiniteSet(S \intersect T)
  BY FS_Intersection
<1>3. /\ Cardinality(S \intersect T) \in Nat /\ Cardinality(S \union T) \in Nat
      /\ Cardinality(S) \in Nat /\ Cardinality(T) \in Nat
  BY <1>1, <1>2, FS_CardinalityType
<1> QED BY <1>1, <1>3

\* The first and the last n cycles of at least 2 * n have none in common, and
\* every one of the former is the earlier.
LEMMA WindowsAreApart ==
    ASSUME NEW n \in Nat, NEW S \in SUBSET (0..n), NEW w \in Nat, 2 * w <= Cardinality(S),
           NEW c \in Least(S, w), NEW d \in Greatest(S, w)
    PROVE  c < d
<1> DEFINE below == {x \in S : x < c}
           above == {x \in S : x > d}
<1>1. IsFiniteSet(S)
  <2>1. IsFiniteSet(0..n)
    BY FS_Interval
  <2> QED BY <2>1, FS_Subset
<1>2. /\ IsFiniteSet(below) /\ IsFiniteSet(above) /\ IsFiniteSet({c})
      /\ Cardinality({c}) = 1
  BY <1>1, FS_Subset, FS_Singleton
<1>3. Cardinality(below) < w /\ Cardinality(above) < w
  BY DEF Least, Greatest
<1>4. SUFFICES ASSUME ~ (c < d) PROVE FALSE
  OBVIOUS
<1>5. S \subseteq (below \union above) \union {c}
  <2>1. c \in 0..n /\ d \in 0..n
    BY DEF Least, Greatest
  <2> QED BY <1>4, <2>1
<1> HIDE DEF below, above
<1>6. /\ IsFiniteSet(below \union above)
      /\ Cardinality(below \union above) <= Cardinality(below) + Cardinality(above)
      /\ Cardinality(below \union above) \in Nat
  BY <1>2, SizeOfUnion
<1>7. /\ IsFiniteSet((below \union above) \union {c})
      /\ Cardinality((below \union above) \union {c}) <= Cardinality(below \union above) + 1
      /\ Cardinality((below \union above) \union {c}) \in Nat
  BY <1>2, <1>6, SizeOfUnion
<1>8. Cardinality(S) <= Cardinality((below \union above) \union {c}) /\ Cardinality(S) \in Nat
  BY <1>5, <1>7, <1>1, FS_Subset, FS_CardinalityType
<1>9. Cardinality(below) \in Nat /\ Cardinality(above) \in Nat
  BY <1>2, FS_CardinalityType
<1> QED BY <1>3, <1>6, <1>7, <1>8, <1>9

\* Neither window is empty.
LEMMA WindowsHaveACycle ==
    ASSUME NEW n \in Nat, NEW S \in SUBSET (0..n), NEW w \in Nat, w # 0, S # {}
    PROVE  /\ \E c \in S : c \in Least(S, w)
           /\ Max(S) \in Greatest(S, w)
<1>1. \A d \in S : d \in Nat
  OBVIOUS
<1>2. PICK first \in S : \A d \in S : first <= d
  BY Extremes
<1>3. {d \in S : d < first} = {}
  <2>1. ASSUME NEW d \in S PROVE ~ (d < first)
    <3>1. d \in Nat /\ first \in Nat /\ first <= d
      BY <1>1, <1>2
    <3> QED BY <3>1
  <2> QED BY <2>1, Zenon
<1> DEFINE last == Max(S)
<1>4. last \in S /\ \A d \in S : d <= last
  BY Extremes
<1> HIDE DEF last
<1>5. {d \in S : d > last} = {}
  <2>1. ASSUME NEW d \in S PROVE ~ (d > last)
    <3>1. d \in Nat /\ last \in Nat /\ d <= last
      BY <1>1, <1>4
    <3> QED BY <3>1
  <2> QED BY <2>1, Zenon
<1>6. Cardinality({}) = 0
  BY FS_EmptySet
<1>7. first \in Least(S, w)
  BY <1>3, <1>6 DEF Least
<1>8. last \in Greatest(S, w)
  BY <1>4, <1>5, <1>6 DEF Greatest
<1> QED BY <1>7, <1>8 DEF last

\* A third of the cycles, and at least one.
LEMMA ThirdOfThem ==
    ASSUME NEW n \in Nat, n >= 2
    PROVE  /\ Max({1, n \div 3}) \in Nat /\ Max({1, n \div 3}) # 0
           /\ 2 * Max({1, n \div 3}) <= n
<1>1. n \div 3 \in Nat /\ 2 * (n \div 3) <= n
  OBVIOUS
<1>2. {1, n \div 3} \in SUBSET (0..n)
  BY <1>1
<1>3. Max({1, n \div 3}) \in {1, n \div 3} /\ 1 <= Max({1, n \div 3})
  BY <1>2, Extremes
<1> QED BY <1>1, <1>3

\* A cycle that ran every module of the plan is complete, and no other is.
LEMMA CompleteAreWhole ==
    ASSUME NEW n \in Nat, NEW rs, NEW M, M # {},
           \A i \in DOMAIN rs : rs[i].mod \in M /\ rs[i].cycle \in 0..n,
           NEW whole \in 0..n, M \subseteq ModulesIn(rs, whole)
    PROVE  CompleteCycles(rs) = {c \in 0..n : M \subseteq ModulesIn(rs, c)}
<1>1. \A c : ModulesIn(rs, c) \subseteq Expected(rs)
  BY DEF ModulesIn, Expected
<1>2. Expected(rs) = M
  <2>1. Expected(rs) \subseteq M
    BY DEF Expected, Working
  <2> QED BY <1>1, <2>1
<1>3. ASSUME NEW c \in CompleteCycles(rs) PROVE c \in 0..n /\ M \subseteq ModulesIn(rs, c)
  <2>1. c \in {rs[i].cycle : i \in Working(rs)} /\ ModulesIn(rs, c) = Expected(rs)
    BY DEF CompleteCycles
  <2>2. PICK i \in Working(rs) : c = rs[i].cycle
    BY <2>1
  <2>3. i \in DOMAIN rs
    BY DEF Working
  <2> QED BY <1>2, <2>1, <2>2, <2>3
<1>4. ASSUME NEW c \in 0..n, M \subseteq ModulesIn(rs, c) PROVE c \in CompleteCycles(rs)
  <2>1. ModulesIn(rs, c) = Expected(rs)
    BY <1>1, <1>2, <1>4
  <2>2. PICK m \in M : m \in ModulesIn(rs, c)
    BY <1>4
  <2>3. c \in {rs[i].cycle : i \in Working(rs)}
    BY <2>2 DEF ModulesIn
  <2> QED BY <2>1, <2>3 DEF CompleteCycles
<1> QED BY <1>3, <1>4

LEMMA MeasuredInOne ==
    ASSUME NEW rs, NEW cycles, NEW mk
    PROVE  (mk \in MeasuredIn(rs, cycles)) <=> (\E c \in cycles : mk \in MeasuredIn(rs, {c}))
BY DEF MeasuredIn

\* What retention compares was measured in two whole cycles, and what was measured
\* in all of them is compared.
LEMMA RetentionCompares ==
    ASSUME NEW n \in Nat, NEW rs, CompleteCycles(rs) \in SUBSET (0..n)
    PROVE  LET full == CompleteCycles(rs)
           IN  /\ \A s \in Analyse(rs) : s.scored = Max(full)
               /\ \A s \in Analyse(rs) : \A mk \in s.metrics : \E c, d \in full :
                     c < d /\ mk \in MeasuredIn(rs, {c}) /\ mk \in MeasuredIn(rs, {d})
               /\ \A mk : /\ full # {} /\ full # {Max(full)}
                          /\ \A c \in full : mk \in MeasuredIn(rs, {c})
                          => \E s \in Analyse(rs) : mk \in s.metrics
<1> DEFINE full    == CompleteCycles(rs)
           count   == Cardinality(full)
           window  == Max({1, count \div 3})
           opening == Least(full, window)
           closing == Greatest(full, window)
           both    == MeasuredIn(rs, opening) \intersect MeasuredIn(rs, closing)
<1>1. Analyse(rs) = IF count < 2 \/ both = {} THEN {}
                    ELSE {[cycles |-> count, scored |-> Max(full), metrics |-> both]}
  BY DEF Analyse, MinCyclesForRetention
<1>2. IsFiniteSet(full) /\ count \in Nat
  <2>1. IsFiniteSet(0..n)
    BY FS_Interval
  <2> QED BY <2>1, FS_Subset, FS_CardinalityType
<1>3. opening \subseteq full /\ closing \subseteq full
  BY DEF Least, Greatest
<1>4. count >= 2 => window \in Nat /\ window # 0 /\ 2 * window <= count
  BY <1>2, ThirdOfThem
<1>5. full # {} /\ full # {Max(full)} => count >= 2
  <2> SUFFICES ASSUME full # {}, full # {Max(full)} PROVE count >= 2
    OBVIOUS
  <2>1. Max(full) \in full
    BY Extremes
  <2> DEFINE rest == full \ {Max(full)}
  <2>2. rest # {}
    BY <2>1
  <2>3. IsFiniteSet(rest) /\ Cardinality(rest) = count - 1
    BY <1>2, <2>1, FS_RemoveElement
  <2> HIDE DEF rest
  <2>4. Cardinality(rest) \in Nat /\ Cardinality(rest) # 0
    BY <2>2, <2>3, FS_EmptySet, FS_CardinalityType
  <2> QED BY <1>2, <2>3, <2>4
<1> HIDE DEF count, window, opening, closing, both
<1>6. ASSUME NEW s \in Analyse(rs)
      PROVE  count >= 2 /\ s.scored = Max(full) /\ s.metrics = both
  BY <1>1, <1>2, <1>6
<1>7. ASSUME NEW s \in Analyse(rs), NEW mk \in s.metrics
      PROVE  \E c, d \in full : c < d /\ mk \in MeasuredIn(rs, {c}) /\ mk \in MeasuredIn(rs, {d})
  <2>1. mk \in MeasuredIn(rs, opening) /\ mk \in MeasuredIn(rs, closing)
    BY <1>6 DEF both
  <2>2. PICK c \in opening : mk \in MeasuredIn(rs, {c})
    BY <2>1, MeasuredInOne
  <2>3. PICK d \in closing : mk \in MeasuredIn(rs, {d})
    BY <2>1, MeasuredInOne
  <2>4. c < d
    <3>1. window \in Nat /\ 2 * window <= Cardinality(full)
      BY <1>4, <1>6 DEF count
    <3> HIDE DEF full
    <3>2. c \in Least(full, window) /\ d \in Greatest(full, window)
      BY DEF opening, closing
    <3> QED BY <3>1, <3>2, WindowsAreApart DEF full
  <2> QED BY <1>3, <2>2, <2>3, <2>4
<1>8. ASSUME NEW mk, full # {}, full # {Max(full)}, \A c \in full : mk \in MeasuredIn(rs, {c})
      PROVE  \E s \in Analyse(rs) : mk \in s.metrics
  <2>1. count >= 2 /\ window \in Nat /\ window # 0
    BY <1>4, <1>5, <1>8
  <2>2. /\ \E c \in full : c \in opening
        /\ Max(full) \in closing
    BY <1>8, <2>1, WindowsHaveACycle DEF opening, closing
  <2>3. mk \in MeasuredIn(rs, opening) /\ mk \in MeasuredIn(rs, closing)
    BY <1>3, <1>8, <2>2, MeasuredInOne
  <2>4. mk \in both
    BY <2>3 DEF both
  <2>5. Analyse(rs) = {[cycles |-> count, scored |-> Max(full), metrics |-> both]}
    BY <1>1, <1>2, <2>1, <2>4
  <2> QED BY <2>4, <2>5
<1> QED BY <1>6, <1>7, <1>8

-----------------------------------------------------------------------------
(* Sums over a finite set                                                  *)

\* The element a sum takes next.
First(s) == CHOOSE x \in s : TRUE

LEMMA OneLess ==
    ASSUME NEW S, IsFiniteSet(S), NEW s \in SUBSET S
    PROVE  /\ IsFiniteSet(s) /\ Cardinality(s) \in Nat
           /\ Cardinality(s) <= Cardinality(S)
           /\ Cardinality(s) = 0 <=> s = {}
           /\ s # {} => /\ First(s) \in s /\ s \ {First(s)} \in SUBSET S
                        /\ Cardinality(s \ {First(s)}) = Cardinality(s) - 1
<1>1. IsFiniteSet(s) /\ Cardinality(s) <= Cardinality(S)
  BY FS_Subset
<1>2. Cardinality(s) \in Nat /\ (Cardinality(s) = 0 <=> s = {})
  BY <1>1, FS_CardinalityType, FS_EmptySet
<1>3. s # {} => First(s) \in s
  BY DEF First
<1>4. s # {} => Cardinality(s \ {First(s)}) = Cardinality(s) - 1
  BY <1>1, <1>3, FS_RemoveElement
<1> QED BY <1>1, <1>2, <1>3, <1>4

\* Finitely many numbers.
Summable(f, S) == IsFiniteSet(S) /\ \A x \in S : f[x] \in Nat

\* A function that sums up the subsets of S.
SumsUp(it, f, S) ==
    it = [s \in SUBSET S |-> IF s = {} THEN 0 ELSE f[First(s)] + it[s \ {First(s)}]]

LEMMA SumsExist ==
    ASSUME NEW S, NEW f, Summable(f, S)
    PROVE  \E it : SumsUp(it, f, S)
<1> USE DEF Summable
<1> DEFINE Value(it, s) == IF s = {} THEN 0 ELSE f[First(s)] + it[s \ {First(s)}]
           Upto(n) == \E it \in [SUBSET S -> Nat] :
                         \A s \in SUBSET S : Cardinality(s) <= n => it[s] = Value(it, s)
           N == {n \in Nat : ~Upto(n)}
<1>1. Upto(0)
  <2> DEFINE none == [s \in SUBSET S |-> 0]
  <2>1. none \in [SUBSET S -> Nat]
    OBVIOUS
  <2>2. ASSUME NEW s \in SUBSET S, Cardinality(s) <= 0 PROVE none[s] = Value(none, s)
    <3>1. Cardinality(s) \in Nat /\ (Cardinality(s) = 0 => s = {})
      BY OneLess
    <3>2. s = {}
      BY <2>2, <3>1
    <3> QED BY <3>2
  <2> HIDE DEF none
  <2> QED BY <2>1, <2>2
<1>2. ASSUME NEW m \in Nat, Upto(m) PROVE Upto(m + 1)
  <2>1. PICK it \in [SUBSET S -> Nat] :
           \A s \in SUBSET S : Cardinality(s) <= m => it[s] = Value(it, s)
    BY <1>2
  <2> DEFINE more == [s \in SUBSET S |-> IF Cardinality(s) <= m THEN it[s] ELSE Value(it, s)]
  <2>2. ASSUME NEW s \in SUBSET S PROVE Value(it, s) \in Nat
    <3>1. CASE s = {}
      BY <3>1
    <3>2. CASE s # {}
      <4>1. First(s) \in S /\ s \ {First(s)} \in SUBSET S
        BY <3>2, OneLess
      <4>2. f[First(s)] \in Nat /\ it[s \ {First(s)}] \in Nat
        BY <4>1
      <4> QED BY <3>2, <4>2
    <3> QED BY <3>1, <3>2
  <2>3. more \in [SUBSET S -> Nat]
    <3> HIDE DEF Value
    <3> QED BY <2>2
  <2>4. \A s \in SUBSET S : more[s] = Value(it, s)
    BY <2>1
  <2>5. ASSUME NEW s \in SUBSET S, Cardinality(s) <= m + 1 PROVE Value(more, s) = Value(it, s)
    <3>1. CASE s = {}
      BY <3>1
    <3>2. CASE s # {}
      <4>1. s \ {First(s)} \in SUBSET S /\ Cardinality(s \ {First(s)}) <= m
        BY <2>5, <3>2, OneLess
      <4>2. more[s \ {First(s)}] = it[s \ {First(s)}]
        BY <4>1
      <4> HIDE DEF more
      <4> QED BY <4>2
    <3> QED BY <3>1, <3>2
  <2> HIDE DEF more
  <2>6. \A s \in SUBSET S : Cardinality(s) <= m + 1 => more[s] = Value(more, s)
    BY <2>4, <2>5
  <2> QED BY <2>3, <2>6
<1> HIDE DEF Upto
<1>3. N = {}
  <2>1. SUFFICES ASSUME N # {} PROVE FALSE
    OBVIOUS
  <2>2. PICK least \in N : \A n \in N : least <= n
    <3>1. N \in SUBSET Nat
      OBVIOUS
    <3> HIDE DEF N
    <3> QED BY <2>1, <3>1, LeastOfASet
  <2>3. least \in Nat /\ least # 0 /\ ~Upto(least)
    BY <1>1
  <2>4. least - 1 \in Nat /\ least - 1 + 1 = least
    BY <2>3
  <2>5. Upto(least - 1)
    BY <2>2, <2>4
  <2> QED BY <1>2, <2>3, <2>4, <2>5
<1>4. Upto(Cardinality(S))
  BY <1>3, OneLess
<1>5. PICK it \in [SUBSET S -> Nat] :
         \A s \in SUBSET S : Cardinality(s) <= Cardinality(S) => it[s] = Value(it, s)
  BY <1>4 DEF Upto
<1>6. \A s \in SUBSET S : it[s] = Value(it, s)
  BY <1>5, OneLess
<1>7. it = [s \in SUBSET S |-> Value(it, s)]
  BY <1>6
<1> QED BY <1>7 DEF SumsUp


\* What holds of a set whenever it does of all its proper subsets holds of all.
LEMMA BySize ==
    ASSUME NEW S, IsFiniteSet(S), NEW P,
           \A s \in SUBSET S : (\A r \in SUBSET s : r # s => r \in P) => s \in P
    PROVE  SUBSET S \subseteq P
<1> DEFINE N == {n \in Nat : \E s \in SUBSET S : Cardinality(s) = n /\ s \notin P}
<1>1. SUFFICES ASSUME NEW t \in SUBSET S, t \notin P PROVE FALSE
  OBVIOUS
<1>2. Cardinality(t) \in N
  BY <1>1, OneLess
<1>3. PICK least \in N : \A n \in N : least <= n
  <2>1. N \in SUBSET Nat /\ N # {}
    BY <1>2
  <2> HIDE DEF N
  <2> QED BY <2>1, LeastOfASet
<1>4. PICK s \in SUBSET S : Cardinality(s) = least /\ s \notin P
  BY <1>3
<1>5. PICK r \in SUBSET s : r # s /\ r \notin P
  BY <1>4
<1>6. /\ r \in SUBSET S /\ Cardinality(r) \in Nat /\ Cardinality(r) <= least
      /\ Cardinality(r) # least /\ least \in Nat
  <2>1. IsFiniteSet(s)
    BY <1>4, OneLess
  <2> QED BY <1>4, <1>5, <2>1, OneLess, FS_Subset
<1>7. Cardinality(r) \in N
  BY <1>5, <1>6
<1> QED BY <1>3, <1>6, <1>7

\* A sum of numbers is one, whichever element is taken first.
IsSum(it, f, S) ==
    /\ it[{}] = 0
    /\ \A s \in SUBSET S : it[s] \in Nat
    /\ \A s \in SUBSET S : \A h \in s : it[s] = f[h] + it[s \ {h}]

LEMMA AnyFirst ==
    ASSUME NEW S, NEW f, Summable(f, S), NEW it, SumsUp(it, f, S)
    PROVE  IsSum(it, f, S)
<1> DEFINE P == {s \in SUBSET S : /\ it[s] \in Nat
                                  /\ \A h \in s : it[s] = f[h] + it[s \ {h}]}
<1> USE DEF Summable
<1>1. it[{}] = 0 /\ \A s \in SUBSET S : s # {} => it[s] = f[First(s)] + it[s \ {First(s)}]
  BY DEF SumsUp
<1>2. ASSUME NEW s \in SUBSET S, \A r \in SUBSET s : r # s => r \in P
      PROVE  s \in P
  <2>1. CASE s = {}
    BY <1>1, <2>1
  <2>2. CASE s # {}
    <3> DEFINE x == First(s)
    <3>1. x \in s /\ it[s] = f[x] + it[s \ {x}]
      BY <1>1, <2>2, OneLess
    <3> HIDE DEF x
    <3>2. \A h \in s : s \ {h} \in SUBSET s /\ s \ {h} # s
      OBVIOUS
    <3>3. \A h \in s : s \ {h} \in P
      BY <1>2, <3>2
    <3>4. \A h \in s : f[h] \in Nat /\ it[s \ {h}] \in Nat
      BY <3>3
    <3>5. ASSUME NEW h \in s PROVE it[s] = f[h] + it[s \ {h}]
      <4>1. CASE h = x
        BY <3>1, <4>1
      <4>2. CASE h # x
        <5>1. h \in s \ {x} /\ x \in s \ {h}
          BY <3>1, <4>2
        <5> DEFINE rest == (s \ {x}) \ {h}
        <5>2. it[s \ {x}] = f[h] + it[rest]
          BY <3>1, <3>3, <5>1
        <5>3. it[s \ {h}] = f[x] + it[rest]
          <6>1. rest = (s \ {h}) \ {x}
            OBVIOUS
          <6>2. it[s \ {h}] = f[x] + it[(s \ {h}) \ {x}]
            BY <3>3, <5>1
          <6> QED BY <6>1, <6>2
        <5>4. it[rest] \in Nat /\ f[x] \in Nat /\ f[h] \in Nat
          <6>1. rest \in SUBSET s /\ rest # s
            BY <3>1
          <6> QED BY <1>2, <3>1, <3>4, <6>1
        <5> HIDE DEF rest
        <5> QED BY <3>1, <5>2, <5>3, <5>4
      <4> QED BY <4>1, <4>2
    <3>6. it[s] \in Nat
      BY <3>1, <3>4
    <3> QED BY <3>5, <3>6
  <2> QED BY <2>1, <2>2
<1>3. SUBSET S \subseteq P
  <2> HIDE DEF P
  <2> QED BY <1>2, BySize
<1> QED BY <1>1, <1>3 DEF IsSum

\* What f gives for a place is what g gives for what stands there.
Fits(p, S, f, T, g) == \A i \in S : p[i] \in T => f[i] = g[p[i]]

\* A sum over places is no less than the sum over what stands at them.
LEMMA SumOverPlaces ==
    ASSUME NEW S, NEW f, Summable(f, S), NEW it, SumsUp(it, f, S),
           NEW T, NEW g, Summable(g, T), NEW jt, SumsUp(jt, g, T),
           NEW p, Fits(p, S, f, T, g)
    PROVE  \A s \in SUBSET S : \A t \in SUBSET T :
              (\A m \in t : \E i \in s : p[i] = m) => jt[t] <= it[s]
<1> DEFINE Places(s, t) == \A m \in t : \E i \in s : p[i] = m
           P == {s \in SUBSET S : \A t \in SUBSET T : Places(s, t) => jt[t] <= it[s]}
<1>1. /\ it[{}] = 0 /\ \A s \in SUBSET S : it[s] \in Nat
      /\ \A s \in SUBSET S : \A h \in s : it[s] = f[h] + it[s \ {h}]
      /\ \A h \in S : f[h] \in Nat
  <2>1. IsSum(it, f, S)
    BY AnyFirst
  <2> QED BY <2>1 DEF IsSum, Summable
<1>2. /\ jt[{}] = 0 /\ \A s \in SUBSET T : jt[s] \in Nat
      /\ \A s \in SUBSET T : \A h \in s : jt[s] = g[h] + jt[s \ {h}]
  <2>1. IsSum(jt, g, T)
    BY AnyFirst
  <2> QED BY <2>1 DEF IsSum
<1>3. ASSUME NEW s \in SUBSET S, \A r \in SUBSET s : r # s => r \in P,
             NEW t \in SUBSET T, Places(s, t)
      PROVE  jt[t] <= it[s]
  <2>1. CASE s = {}
    <3>1. t = {}
      BY <1>3, <2>1
    <3> QED BY <1>1, <1>2, <2>1, <3>1
  <2>2. CASE s # {}
    <3>1. PICK i \in s : TRUE
      BY <2>2
    <3> DEFINE r == s \ {i}
    <3>2. r \in SUBSET S /\ r \in P
      BY <1>3
    <3>3. it[s] = f[i] + it[r] /\ f[i] \in Nat /\ it[r] \in Nat
      BY <1>1
    <3>4. CASE p[i] \in t
      <4> DEFINE u == t \ {p[i]}
      <4>1. u \in SUBSET T /\ Places(r, u)
        BY <1>3
      <4>2. jt[u] <= it[r]
        BY <3>2, <4>1
      <4>3. jt[t] = g[p[i]] + jt[u] /\ f[i] = g[p[i]] /\ jt[u] \in Nat
        BY <1>2, <3>4 DEF Fits
      <4> HIDE DEF u, r
      <4> QED BY <3>3, <4>2, <4>3
    <3>5. CASE p[i] \notin t
      <4>1. Places(r, t)
        BY <1>3, <3>5
      <4>2. jt[t] <= it[r] /\ jt[t] \in Nat
        BY <1>2, <3>2, <4>1
      <4> HIDE DEF r
      <4> QED BY <3>3, <4>2
    <3> QED BY <3>4, <3>5
  <2> QED BY <2>1, <2>2
<1>4. \A s \in SUBSET S : (\A r \in SUBSET s : r # s => r \in P) => s \in P
  BY <1>3
<1>5. SUBSET S \subseteq P
  <2>1. IsFiniteSet(S)
    BY DEF Summable
  <2> HIDE DEF P
  <2> QED BY <1>4, <2>1, BySize
<1> QED BY <1>5

-----------------------------------------------------------------------------
(* Room on the host                                                        *)

WritesOf == [m \in ModuleIds |-> Builtin[m].writes]

LEMMA WritesAreNumbers ==
    /\ \A m \in ModuleIds : WritesOf[m] \in Nat
    /\ WritesOf["storage"] = 2048 /\ "storage" \in ModuleIds
    /\ \A m \in ModuleIds : Builtin[m].safety \in 0..4
BY DEF WritesOf, ModuleIds, Builtin, Manifest, CpuMixed, MemoryBandwidth, StorageMixed,
       NetworkTransfer, WebStatic, PhpRuntime, NodeRuntime, DatabaseOltp, DatabaseCache,
       WordpressSite, DeploymentBuild, Observational, ComputeIntensive,
       WritesTemporaryFiles, UsesNetwork, ProvisionsServices

\* What a plan writes, and what some of its modules do, as sums.
LEMMA WritesIsASum ==
    ASSUME NEW plan \in Seq(ModuleIds)
    PROVE  LET f == [i \in DOMAIN plan |-> WritesOf[plan[i]]]
           IN  \E it : SumsUp(it, f, DOMAIN plan) /\ Writes(plan) = it[DOMAIN plan]
<1> DEFINE S == DOMAIN plan
           f == [i \in S |-> WritesOf[plan[i]]]
           Sums(it) == it = [s \in SUBSET S |-> IF s = {} THEN 0
                             ELSE Builtin[plan[CHOOSE x \in s : TRUE]].writes
                                  + it[s \ {CHOOSE x \in s : TRUE}]]
<1>1. S = 1..Len(plan) /\ Len(plan) \in Nat /\ \A i \in S : plan[i] \in ModuleIds
  OBVIOUS
<1>2. IsFiniteSet(S)
  BY <1>1, FS_Interval
<1>3. \A i \in S : f[i] \in Nat /\ f[i] = Builtin[plan[i]].writes
  BY <1>1, WritesAreNumbers DEF WritesOf
<1>4. ASSUME NEW it PROVE Sums(it) <=> SumsUp(it, f, S)
  <2>1. ASSUME NEW s \in SUBSET S, s # {}
        PROVE  f[First(s)] = Builtin[plan[CHOOSE x \in s : TRUE]].writes
    BY <1>3, <2>1 DEF First
  <2> HIDE DEF f, S
  <2>2. [s \in SUBSET S |-> IF s = {} THEN 0
                             ELSE Builtin[plan[CHOOSE x \in s : TRUE]].writes
                                  + it[s \ {CHOOSE x \in s : TRUE}]]
        = [s \in SUBSET S |-> IF s = {} THEN 0 ELSE f[First(s)] + it[s \ {First(s)}]]
    BY <2>1 DEF First
  <2> QED BY <2>2 DEF SumsUp
<1> DEFINE sum == CHOOSE it : Sums(it)
<1>5. SumsUp(sum, f, S)
  <2>1. \E it : SumsUp(it, f, S)
    <3> HIDE DEF f, S
    <3> QED BY <1>2, <1>3, SumsExist DEF Summable
  <2>2. \E it : Sums(it)
    <3> HIDE DEF Sums
    <3> QED BY <1>4, <2>1
  <2>3. Sums(sum)
    <3> HIDE DEF Sums
    <3> QED BY <2>2
  <2> HIDE DEF sum, Sums
  <2> QED BY <1>4, <2>3
<1>6. Writes(plan) = sum[S]
  BY DEF Writes, MapThenSumSet, MapThenFoldSet
<1> HIDE DEF sum
<1> QED BY <1>5, <1>6

LEMMA OthersIsASum ==
    ASSUME NEW T \in SUBSET ModuleIds, IsFiniteSet(T)
    PROVE  \E it : /\ SumsUp(it, WritesOf, T)
                  /\ MapThenSumSet(LAMBDA m : Builtin[m].writes, T) = it[T]
<1> DEFINE Sums(it) == it = [s \in SUBSET T |-> IF s = {} THEN 0
                             ELSE Builtin[CHOOSE x \in s : TRUE].writes
                                  + it[s \ {CHOOSE x \in s : TRUE}]]
<1>1. ASSUME NEW it PROVE Sums(it) <=> SumsUp(it, WritesOf, T)
  <2>1. ASSUME NEW s \in SUBSET T, s # {}
        PROVE  WritesOf[First(s)] = Builtin[CHOOSE x \in s : TRUE].writes
    BY <2>1 DEF First, WritesOf
  <2>2. [s \in SUBSET T |-> IF s = {} THEN 0
                             ELSE Builtin[CHOOSE x \in s : TRUE].writes
                                  + it[s \ {CHOOSE x \in s : TRUE}]]
        = [s \in SUBSET T |-> IF s = {} THEN 0 ELSE WritesOf[First(s)] + it[s \ {First(s)}]]
    BY <2>1 DEF First
  <2> QED BY <2>2 DEF SumsUp
<1> DEFINE sum == CHOOSE it : Sums(it)
<1>2. SumsUp(sum, WritesOf, T)
  <2>1. \E it : SumsUp(it, WritesOf, T)
    BY WritesAreNumbers, SumsExist DEF Summable
  <2>2. \E it : Sums(it)
    <3> HIDE DEF Sums
    <3> QED BY <1>1, <2>1
  <2>3. Sums(sum)
    <3> HIDE DEF Sums
    <3> QED BY <2>2
  <2> HIDE DEF sum, Sums
  <2> QED BY <1>1, <2>3
<1>3. MapThenSumSet(LAMBDA m : Builtin[m].writes, T) = sum[T]
  BY DEF MapThenSumSet, MapThenFoldSet
<1> HIDE DEF sum
<1> QED BY <1>2, <1>3

\* A plan writes as much as its modules do, counted once, and storage.mixed in it
\* no less than its fixture.
LEMMA PlanCoversItsModules ==
    ASSUME NEW plan \in Seq(ModuleIds), NEW free \in Int
    PROVE  LET others  == Range(plan) \ {"storage"}
               fixture == IF "storage" \in Range(plan) THEN FixtureFor(free) ELSE 0
               rest    == MapThenSumSet(LAMBDA m : Builtin[m].writes, others)
           IN  /\ Writes(plan) \in Nat /\ rest \in Nat /\ fixture \in Nat
               /\ fixture + rest <= Writes(plan)
<1> DEFINE S       == DOMAIN plan
           f       == [i \in S |-> WritesOf[plan[i]]]
           others  == Range(plan) \ {"storage"}
           fixture == IF "storage" \in Range(plan) THEN FixtureFor(free) ELSE 0
           rest    == MapThenSumSet(LAMBDA m : Builtin[m].writes, others)
<1>1. /\ S = 1..Len(plan) /\ Len(plan) \in Nat /\ IsFiniteSet(S)
      /\ \A i \in S : plan[i] \in ModuleIds
      /\ Range(plan) = {plan[i] : i \in S}
  <2>1. S = 1..Len(plan) /\ Len(plan) \in Nat /\ \A i \in S : plan[i] \in ModuleIds
    OBVIOUS
  <2> QED BY <2>1, FS_Interval DEF Range
<1>2. \A i \in S : f[i] \in Nat /\ f[i] = WritesOf[plan[i]]
  BY <1>1, WritesAreNumbers
<1>3. others \in SUBSET ModuleIds /\ IsFiniteSet(others)
  <2>1. IsFiniteSet(Range(plan))
    <3> DEFINE place == [i \in S |-> plan[i]]
    <3>1. place \in Surjection(S, Range(plan))
      BY <1>1 DEF Surjection
    <3> HIDE DEF place
    <3> QED BY <1>1, <3>1, FS_Surjection
  <2> QED BY <1>1, <2>1, FS_Difference
<1>4. PICK it : SumsUp(it, f, S) /\ Writes(plan) = it[S]
  BY WritesIsASum
<1>5. PICK jt : SumsUp(jt, WritesOf, others) /\ rest = jt[others]
  BY <1>3, OthersIsASum
<1> HIDE DEF f, S, others, rest
<1>6. Summable(f, S) /\ Summable(WritesOf, others)
  <2>1. \A m \in others : WritesOf[m] \in Nat
    BY <1>3, WritesAreNumbers
  <2> QED BY <1>1, <1>2, <1>3, <2>1 DEF Summable
<1>7. /\ \A s \in SUBSET S : it[s] \in Nat
      /\ \A s \in SUBSET S : \A h \in s : it[s] = f[h] + it[s \ {h}]
  <2>1. IsSum(it, f, S)
    BY <1>4, <1>6, AnyFirst
  <2> QED BY <2>1 DEF IsSum
<1>8. jt[others] \in Nat
  <2>1. IsSum(jt, WritesOf, others)
    BY <1>5, <1>6, AnyFirst
  <2> QED BY <2>1 DEF IsSum
<1>9. ASSUME NEW s \in SUBSET S, \A m \in others : \E i \in s : plan[i] = m
      PROVE  jt[others] <= it[s]
  <2>1. Fits(plan, S, f, others, WritesOf)
    BY <1>2 DEF Fits
  <2>2. \A r \in SUBSET S : \A t \in SUBSET others :
           (\A m \in t : \E i \in r : plan[i] = m) => jt[t] <= it[r]
    BY <1>4, <1>5, <1>6, <2>1, SumOverPlaces
  <2> QED BY <1>9, <2>2
<1>10. CASE "storage" \notin Range(plan)
  <2>1. jt[others] <= it[S]
    BY <1>1, <1>9 DEF others
  <2>2. fixture = 0 /\ it[S] \in Nat
    BY <1>7, <1>10
  <2> QED BY <1>4, <1>5, <1>8, <2>1, <2>2 DEF rest, others
<1>11. CASE "storage" \in Range(plan)
  <2>1. PICK h \in S : plan[h] = "storage"
    BY <1>1, <1>11
  <2>2. it[S] = 2048 + it[S \ {h}] /\ it[S \ {h}] \in Nat
    <3>1. f[h] = 2048
      BY <1>2, <2>1, WritesAreNumbers
    <3>2. S \in SUBSET S /\ S \ {h} \in SUBSET S
      OBVIOUS
    <3>3. it[S] = f[h] + it[S \ {h}]
      BY <1>7, <2>1, <3>2
    <3>4. it[S \ {h}] \in Nat
      BY <1>7, <3>2
    <3> QED BY <3>1, <3>3, <3>4
  <2>3. jt[others] <= it[S \ {h}]
    <3>1. \A m \in others : \E i \in S \ {h} : plan[i] = m
      BY <1>1, <2>1 DEF others
    <3> QED BY <1>9, <3>1
  <2>4. FixtureFor(free) \in Nat /\ FixtureFor(free) <= 2048
    BY DEF FixtureFor
  <2>5. fixture = FixtureFor(free)
    BY <1>11
  <2> HIDE DEF fixture
  <2>6. /\ it[S] \in Nat /\ jt[others] \in Nat /\ fixture \in Nat
        /\ fixture + jt[others] <= it[S]
    BY <1>8, <2>2, <2>3, <2>4, <2>5
  <2> QED BY <1>4, <1>5, <2>6 DEF rest, others, fixture
<1> QED BY <1>10, <1>11

\* A plan whose modules may only observe is known by its strictest class.
LEMMA SafetyIsAClass ==
    ASSUME NEW plan \in Seq(ModuleIds)
    PROVE  MaxSafety(plan) \in 0..4
<1> DEFINE S == {Observational} \union {Builtin[m].safety : m \in Range(plan)}
<1>1. Range(plan) \subseteq ModuleIds
  BY DEF Range
<1>2. S \in SUBSET (0..4) /\ S # {}
  BY <1>1, WritesAreNumbers DEF Observational
<1>3. MaxSafety(plan) = Max(S)
  BY DEF MaxSafety
<1> HIDE DEF S
<1>4. Max(S) \in S
  BY <1>2, Extremes
<1> QED BY <1>2, <1>3, <1>4

-----------------------------------------------------------------------------
(* The theorems                                                            *)

Inv == RunInv /\ Certified

\* Both invariants together.
LEMMA InvHolds == Spec => []Inv
<1>1. Init => Inv
  BY RunInit, CertifiedInit DEF Inv
<1>2. Inv /\ [Next]_vars => Inv'
  BY RunNext, CertifiedNext DEF Inv
<1> QED BY <1>1, <1>2, PTL DEF Spec

\* There is a bundle from the seal on, and a judgement once it has been judged.
LEMMA SealedIsSomething ==
    ASSUME Inv
    PROVE  /\ (bundle = NoBundle) <=> (run.phase \in Unsealed)
           /\ (judged = NoBundle) <=> (run.phase # "judged")
<1>1. run.phase \in {"sealed", "judged"} => bundle # NoBundle
  <2>1. ASSUME run.phase \in {"sealed", "judged"} PROVE bundle.state # "none"
    <3>1. bundle.state = run.state
      BY <2>1 DEF Inv, Certified, Copied
    <3>2. run.state \in {"Preflight", "Running", "Completed", "Cancelled", "Failed"}
      BY DEF Inv, RunInv, Walked
    <3> QED BY <3>1, <3>2
  <2>2. NoBundle.state = "none"
    BY DEF NoBundle
  <2> QED BY <2>1, <2>2
<1>2. run.phase = "judged" => judged # NoBundle
  <2>1. ASSUME NEW b PROVE ValidateBundle(b, TRUE) # NoBundle
    <3>1. ValidateBundle(b, TRUE).state # "none"
      BY DEF ValidateBundle
    <3>2. NoBundle.state = "none"
      BY DEF NoBundle
    <3> QED BY <3>1, <3>2
  <2> QED BY <2>1 DEF Inv, Certified
<1> QED BY <1>1, <1>2 DEF Inv, Certified, Unsealed

LEMMA TypesHold ==
    ASSUME Inv
    PROVE  TypeOK
<1>1. /\ run.asked \in Requests /\ run.profile \in Profiles
      /\ run.host \in Hosts /\ run.force \in BOOLEAN
  BY DEF Inv, RunInv, Asked
<1>2. /\ run.phase \in {"preflight", "measuring", "finalising", "sealed", "judged"}
      /\ run.state \in {"Preflight", "Running", "Completed", "Cancelled", "Failed"}
      /\ run.next \in 1..Len(Plan) + 1 /\ run.cycle \in Nat
      /\ cancelled \in BOOLEAN /\ faults \in Nat
  BY DEF Inv, RunInv, Walked, Unsealed
<1>3. ASSUME work # Idle
      PROVE  /\ Measuring /\ work.mod \in Range(Plan)
             /\ work.at \in 1..Len(Units(work.mod)) + 1
             /\ work.stage \in {"call", "calibrate", "reps", "over"}
             /\ work.reps \in 0..Total /\ work.shown \in Nat
  <2>1. Measuring /\ WorkOK(work) /\ run.next # 1 /\ work.mod = Plan[run.next - 1]
    BY <1>3 DEF Inv, RunInv, AtWork
  <2>2. run.next - 1 \in DOMAIN Plan
    <3>1. DOMAIN Plan = 1..Len(Plan) /\ Len(Plan) \in Nat
      BY DEF Inv, RunInv, Asked
    <3> QED BY <1>2, <2>1, <3>1
  <2>3. work.mod \in Range(Plan)
    BY <2>1, <2>2 DEF Range
  <2> QED BY <2>1, <2>3, WorkIsNotIdle DEF WorkOK, Place, Shows
<1>4. \A i \in DOMAIN results : ResultOK(results[i])
  BY DEF Inv, RunInv, Recorded, ResultFine, ResultOK
<1>5. since \in Nat
  BY DEF Inv, RunInv, Blind
<1> QED BY <1>1, <1>2, <1>3, <1>4, <1>5, SealedIsSomething DEF TypeOK, Unsealed

\* The run of every module (core/module.rs): one that returns has a warning for
\* every metric of its manifest it did not publish, the known few aside, and is
\* degraded for it.
THEOREM AbsentIsAlwaysExplained == Spec => []AbsentIsExplained
<1>1. Inv => AbsentIsExplained
  <2> SUFFICES ASSUME Inv, NEW i \in DOMAIN results, UsableResult(results[i])
               PROVE  /\ results[i].absent \ results[i].told \subseteq Unspoken
                      /\ results[i].told # {} => results[i].status = "Degraded"
    BY TypesHold DEF AbsentIsExplained
  <2> QED BY DEF Inv, RunInv, Recorded, ResultFine
<1> QED BY <1>1, InvHolds, PTL

\* ModuleReporter::is_cancelled (core/module.rs): a module that looks at the flag
\* at all has begun at most four pieces of work since it was set, whichever loop
\* of its it is in.
THEOREM CancelIsAlwaysSeen == Spec => []CancelIsSeen
<1>1. Inv => CancelIsSeen
  BY DEF Inv, RunInv, Blind, CancelIsSeen
<1> QED BY <1>1, InvHolds, PTL

\* ModuleReporter::sample (core/module.rs): the progress a module shows in
\* a cycle only grows, up to the repetitions of all its units.
THEOREM ProgressNeverFalls == Spec => ProgressNeverFallsBack
<1>1. ASSUME NEW m PROVE Repeating(m) = {i \in Sampled(m) : Units(m)[i].op = "reps"}
  BY DEF Repeating
<1>2. ASSUME Inv, [Next]_vars, work # Idle, work' # Idle,
             work'.mod = work.mod, work'.cycle = work.cycle
      PROVE  /\ work'.shown >= work.shown
             /\ work'.shown <= Total * Cardinality(Repeating(work.mod))
  <2>1. WorkOK(work) /\ work.shown \in Nat
    BY <1>2 DEF Inv, RunInv, AtWork, WorkOK, Shows
  <2>2. CASE InModule
    <3>1. WentOn
      BY <1>2, <2>1, <2>2, MeasureStep DEF InModule, LeftResult, LeftNothing
    <3>2. WorkOK(work') /\ work'.shown >= work.shown
      BY <3>1 DEF WentOn
    <3>3. work'.shown <= Total * Cardinality(Repeating(work'.mod))
      BY <3>2, ShownIsBounded
    <3> QED BY <1>2, <3>2, <3>3
  <2>3. CASE work' = work
    <3>1. work.shown <= Total * Cardinality(Repeating(work.mod))
      BY <2>1, ShownIsBounded
    <3> QED BY <2>1, <2>3, <3>1
  <2>4. ~ InModule => work' = work
    BY <1>2 DEF Next, vars, Admit, Refuse, BeginModule, Cancel, AnotherCycle, FinishModules,
                Finalise, Misstate, Age, Judge
  <2> QED BY <2>2, <2>3, <2>4
<1>3. Inv /\ [Next]_vars =>
        [work # Idle /\ work' # Idle /\ work'.mod = work.mod /\ work'.cycle = work.cycle =>
           /\ work'.shown >= work.shown
           /\ work'.shown <= Total * Cardinality(
                {i \in Sampled(work.mod) : Units(work.mod)[i].op = "reps"})]_vars
  BY <1>1, <1>2
<1> QED BY <1>3, InvHolds, PTL DEF ProgressNeverFallsBack, Spec

-----------------------------------------------------------------------------
(* What is Validated                                                       *)

LEMMA ValidatedMeans ==
    ASSUME NEW b, Genuine(b), ValidateBundle(b, TRUE).state = "Validated"
    PROVE  /\ b.state = "Completed" /\ b.clock /\ b.whole /\ b.build = "release"
           /\ IsStandard(b.profile) /\ Due(b).missing = {}
           /\ \A r \in OutcomeReasons(b.results) \union VarianceReasons(b.results) :
                 ~ IsPartialReason(r)
<1>1. b.card.model = CurrentModel /\ b.card = Due(b) /\ b.card.model \in KnownModels
  BY CardOfARun DEF Genuine, Due, KnownModels
<1>2. Authoritative(b, TRUE) = b.card
  BY <1>1 DEF Authoritative, Due
<1> DEFINE R == CompletionReasons(b) \union VersionReasons(b) \union RecordReasons(b)
                \union OutcomeReasons(b.results) \union VarianceReasons(b.results)
                \union MissingReasons(b.card) \union ServerReasons(b)
<1>3. ValidateBundle(b, TRUE).state =
        IF Fatal(b, TRUE) THEN "Invalid"
        ELSE IF ~ IsStandard(b.profile) THEN "Custom"
        ELSE IF b.card.missing # {} \/ \E r \in R : IsPartialReason(r) THEN "Partial"
        ELSE "Validated"
  BY <1>2 DEF ValidateBundle
<1> HIDE DEF R
<1>4. /\ ~ Fatal(b, TRUE) /\ IsStandard(b.profile) /\ b.card.missing = {}
      /\ \A r \in R : ~ IsPartialReason(r)
  BY <1>3
<1>5. b.state = "Completed" /\ b.clock
  BY <1>4 DEF Fatal
<1>6. b.build = "release"
  <2>1. b.build # "release" => Reason("IncompatibleBenchmarkVersion", "build") \in R
    BY DEF VersionReasons, R
  <2>2. IsPartialReason(Reason("IncompatibleBenchmarkVersion", "build"))
    BY DEF Reason, IsPartialReason
  <2> QED BY <1>4, <2>1, <2>2
<1>7. b.whole
  <2>1. ~ b.whole => Reason("MissingMetadata", "") \in R
    BY DEF RecordReasons, R
  <2>2. IsPartialReason(Reason("MissingMetadata", ""))
    BY DEF Reason, IsPartialReason
  <2> QED BY <1>4, <2>1, <2>2
<1>8. OutcomeReasons(b.results) \union VarianceReasons(b.results) \subseteq R
  BY DEF R
<1> QED BY <1>1, <1>4, <1>5, <1>6, <1>7, <1>8

\* A result that raises no such reason was measured cleanly.
LEMMA CleanResult ==
    ASSUME NEW rs, \A r \in OutcomeReasons(rs) \union VarianceReasons(rs) : ~ IsPartialReason(r),
           NEW i \in DOMAIN rs, ResultFine(rs[i])
    PROVE  /\ rs[i].status = "Completed" /\ rs[i].absent \subseteq Unspoken
           /\ \A w \in rs[i].wide : IsUnstable(w[2], MaxAcceptableCv) =>
                 w[1] \in {"tcp_connect.jitter", "latency_read_4k.p99", "latency_write_4k.p99"}
<1>1. rs[i].status # "Degraded"
  <2>1. IsPartialReason(DegradationReason(rs[i]))
    BY DEF DegradationReason, IsPartialReason, Reason
  <2>2. rs[i].status = "Degraded" => DegradationReason(rs[i]) \in OutcomeReasons(rs)
    BY DEF OutcomeReasons
  <2> QED BY <2>1, <2>2
<1>2. rs[i].status # "Failed"
  <2>1. IsPartialReason(Reason("ModuleFailed", rs[i].mod))
    BY DEF IsPartialReason, Reason
  <2>2. rs[i].status = "Failed" => Reason("ModuleFailed", rs[i].mod) \in OutcomeReasons(rs)
    BY DEF OutcomeReasons
  <2> QED BY <2>1, <2>2
<1>3. rs[i].status = "Completed" /\ rs[i].absent \subseteq Unspoken
  BY <1>1, <1>2 DEF ResultFine, UsableResult
<1>4. ~ TooVaried(rs[i])
  <2>1. IsPartialReason(Reason("ExcessiveVariance", rs[i].mod))
    BY DEF IsPartialReason, Reason
  <2>2. TooVaried(rs[i]) => Reason("ExcessiveVariance", rs[i].mod) \in VarianceReasons(rs)
    BY DEF VarianceReasons
  <2> QED BY <2>1, <2>2
<1>5. \A w \in rs[i].wide : IsUnstable(w[2], MaxAcceptableCv) =>
        w[1] \in {"tcp_connect.jitter", "latency_read_4k.p99", "latency_write_4k.p99"}
  BY <1>4 DEF TooVaried, EvidenceOfInstability, MeasuresDispersion, TailQuantile
<1> QED BY <1>3, <1>5

\* validate_bundle (validate.rs): Validated, the one state that ranks, says that
\* the run was whole and measured cleanly.
THEOREM ValidatedIsAlwaysEarned == Spec => []ValidatedIsEarned
<1>1. Inv => ValidatedIsEarned
  <2> SUFFICES ASSUME Inv, judged # NoBundle, judged.state = "Validated"
               PROVE  /\ run.state = "Completed" /\ bundle.build = "release"
                      /\ bundle.whole /\ bundle.clock
                      /\ AsAsked(run.asked) /\ IsStandard(run.asked.profile)
                      /\ Plan = ModulesForProfile[run.asked.profile]
                      /\ \A m \in Range(Plan), c \in 0..run.cycle : Has(results, m, c)
                      /\ \A i \in DOMAIN results :
                           /\ results[i].status = "Completed"
                           /\ results[i].absent \subseteq Unspoken
                           /\ \A w \in results[i].wide : IsUnstable(w[2], MaxAcceptableCv) =>
                                 w[1] \in {"tcp_connect.jitter", "latency_read_4k.p99",
                                           "latency_write_4k.p99"}
                      /\ Required \subseteq {CategoryOf[m] : m \in Range(Plan)}
    BY DEF ValidatedIsEarned, Has
  <2>1. run.phase = "judged" /\ judged = ValidateBundle(bundle, TRUE) /\ Copied(bundle)
    BY SealedIsSomething DEF Inv, Certified
  <2>2. Genuine(bundle)
    <3>1. Genuine(bundle) \/ Misstated(bundle) \/ Aged(bundle)
      BY <2>1 DEF Inv, Certified
    <3>2. bundle.altered = {}
      BY <2>1, <3>1, TouchedIsRejected
    <3> QED BY <3>1, <3>2 DEF Misstated, Aged
  <2>3. /\ bundle.state = "Completed" /\ bundle.clock /\ bundle.whole /\ bundle.build = "release"
        /\ IsStandard(bundle.profile) /\ Due(bundle).missing = {}
        /\ \A r \in OutcomeReasons(results) \union VarianceReasons(results) : ~ IsPartialReason(r)
    BY <2>1, <2>2, ValidatedMeans DEF Copied
  <2>4. /\ run.profile # "custom" /\ IsStandard(run.profile) /\ run.state = "Completed"
    BY <2>1, <2>3 DEF Copied, IsStandard
  <2>5. /\ AsAsked(run.asked) /\ run.profile = run.asked.profile
        /\ Plan = ModulesForProfile[run.asked.profile]
    BY <2>4 DEF Inv, RunInv, Asked
  <2>6. ASSUME NEW m \in Range(Plan), NEW c \in 0..run.cycle PROVE Has(results, m, c)
    <3>1. DOMAIN Plan = 1..Len(Plan)
      BY DEF Inv, RunInv, Asked
    <3>2. PICK j \in 1..Len(Plan) : m = Plan[j]
      BY <3>1 DEF Range
    <3> QED BY <2>4, <3>2 DEF Inv, RunInv, Covering
  <2>7. \A i \in DOMAIN results : ResultFine(results[i]) /\ results[i].mod \in Range(Plan)
    BY DEF Inv, RunInv, Recorded
  <2>8. Required \subseteq {CategoryOf[m] : m \in Range(Plan)}
    <3> DEFINE scored == Scored(CurrentModel, results)
    <3>1. Due(bundle).missing = Required \ CategoriesOf(scored)
      BY <2>1 DEF Due, ScoreRun, Copied
    <3>2. ASSUME NEW mk \in scored PROVE mk[1] \in Range(Plan)
      <4>1. mk \in MeasuredIn(results, {ScoringCycle(results)})
        BY DEF Scored
      <4>2. PICK i \in DOMAIN results : mk \in {results[i].mod} \X Present(results[i])
        BY <4>1 DEF MeasuredIn, Working
      <4> QED BY <2>7, <4>2
    <3> HIDE DEF scored
    <3>3. CategoriesOf(scored) \subseteq {CategoryOf[m] : m \in Range(Plan)}
      BY <3>2 DEF CategoriesOf
    <3> QED BY <2>3, <3>1, <3>3
  <2> QED BY <2>3, <2>4, <2>5, <2>6, <2>7, <2>8, CleanResult
<1> QED BY <1>1, InvHolds, PTL

\* score_run (scoring/model.rs, sustained.rs): the card is that of one whole cycle,
\* and retention compares such cycles.
THEOREM AlwaysScoredWholeCycle == Spec => []ScoredWholeCycle
<1>1. Inv => ScoredWholeCycle
  <2> DEFINE full     == {c \in 0..run.cycle : Range(Plan) \subseteq ModulesIn(results, c)}
             In(c)    == MeasuredIn(results, {c})
             pairs    == {p \in full \X full : p[1] < p[2]}
             compared == UNION {s.metrics : s \in bundle.card.sustained}
  <2> SUFFICES ASSUME Inv, bundle # NoBundle, full # {}, bundle.altered = {}
               PROVE  /\ bundle.card.total =
                           {mk \in In(Max(full)) : Anchored(CurrentModel, mk[1], mk[2])}
                      /\ \A s \in bundle.card.sustained : s.scored = Max(full)
                      /\ compared \subseteq UNION {In(p[1]) \intersect In(p[2]) : p \in pairs}
                      /\ pairs # {} => \A mk \in In(Max(full)) \ compared :
                            \E c \in full : mk \notin In(c)
    BY DEF ScoredWholeCycle
  <2>1. /\ bundle.card.total = Scored(CurrentModel, results)
        /\ bundle.card.sustained = Analyse(results)
    <3>1. run.phase \in {"sealed", "judged"}
      BY SealedIsSomething DEF Inv, Certified, Unsealed
    <3>2. Genuine(bundle) /\ Copied(bundle)
      BY <3>1 DEF Inv, Certified, Misstated, Aged
    <3> QED BY <3>2 DEF Genuine, Due, Copied, ScoreRun
  <2>2. /\ run.cycle \in Nat
        /\ \A i \in DOMAIN results : results[i].mod \in Range(Plan) /\ results[i].cycle \in 0..run.cycle
    BY DEF Inv, RunInv, Walked, Recorded
  <2>3. CASE Range(Plan) = {}
    <3>1. \A c : In(c) = {}
      BY <2>2, <2>3 DEF MeasuredIn, Working
    <3>2. Analyse(results) = {}
      <4>1. CompleteCycles(results) = {}
        BY <2>2, <2>3 DEF CompleteCycles, Working
      <4>2. Cardinality(CompleteCycles(results)) < MinCyclesForRetention
        BY <4>1, FS_EmptySet DEF MinCyclesForRetention
      <4> QED BY <4>2 DEF Analyse
    <3>3. Scored(CurrentModel, results) = {}
      BY <3>1 DEF Scored
    <3> QED BY <2>1, <3>1, <3>2, <3>3
  <2>4. CASE Range(Plan) # {}
    <3>1. CompleteCycles(results) = full
      BY <2>2, <2>4, CompleteAreWhole
    <3>2. full \in SUBSET (0..run.cycle)
      OBVIOUS
    <3> HIDE DEF full
    <3>3. Scored(CurrentModel, results) =
            {mk \in In(Max(full)) : Anchored(CurrentModel, mk[1], mk[2])}
      BY <3>1 DEF Scored, ScoringCycle
    <3>4. /\ \A s \in Analyse(results) : s.scored = Max(full)
          /\ \A s \in Analyse(results) : \A mk \in s.metrics : \E c, d \in full :
                c < d /\ mk \in In(c) /\ mk \in In(d)
          /\ \A mk : /\ full # {} /\ full # {Max(full)}
                     /\ \A c \in full : mk \in In(c)
                     => \E s \in Analyse(results) : mk \in s.metrics
      BY <2>2, <3>1, <3>2, RetentionCompares
    <3> HIDE DEF In
    <3>5. ASSUME NEW mk \in compared
          PROVE  \E p \in pairs : mk \in In(p[1]) \intersect In(p[2])
      <4>1. PICK c, d \in full : c < d /\ mk \in In(c) /\ mk \in In(d)
        BY <2>1, <3>4
      <4>2. <<c, d>> \in pairs
        BY <4>1
      <4> QED BY <4>1, <4>2
    <3>6. ASSUME pairs # {}
          PROVE  full # {Max(full)}
      <4>1. PICK c, d \in full : c < d
        BY <3>6
      <4>2. c \in Nat /\ d \in Nat
        BY <2>2, <3>2
      <4> QED BY <4>1, <4>2
    <3>7. ASSUME pairs # {}, NEW mk \in In(Max(full)) \ compared
          PROVE  \E c \in full : mk \notin In(c)
      <4>1. ~ \E s \in Analyse(results) : mk \in s.metrics
        BY <2>1
      <4> QED BY <3>4, <3>6, <3>7, <4>1
    <3>8. compared \subseteq UNION {In(p[1]) \intersect In(p[2]) : p \in pairs}
      BY <3>5
    <3> HIDE DEF pairs, compared
    <3> QED BY <2>1, <3>3, <3>4, <3>7, <3>8
  <2> QED BY <2>3, <2>4
<1> QED BY <1>1, InvHolds, PTL

-----------------------------------------------------------------------------
(* Preflight                                                               *)

\* What has been running was admitted.
Admitted ==
    run.state \in {"Running", "Completed", "Cancelled"} =>
        PreflightPasses(run.repeats, Plan, run.host, run.force)

LEMMA AdmittedHolds == Spec => []Admitted
<1>1. Init => Admitted
  BY DEF Init, Admitted
<1>2. Inv /\ Admitted /\ [Next]_vars => Admitted'
  <2> SUFFICES ASSUME Inv, Admitted, [Next]_vars PROVE Admitted'
    OBVIOUS
  <2>1. IsRun(run) /\ (Measuring => run.state = "Running")
    BY DEF Inv, RunInv, Asked, Walked
  <2>2. CASE Admit
    BY <2>1, <2>2 DEF Admit, IsRun, Admitted, Plan
  <2>3. CASE Refuse
    BY <2>1, <2>3 DEF Refuse, IsRun, Admitted
  <2>4. CASE BeginModule
    BY <2>1, <2>4 DEF BeginModule, IsRun, Admitted, Plan
  <2>5. CASE AnotherCycle
    BY <2>1, <2>5 DEF AnotherCycle, IsRun, Admitted, Plan
  <2>6. CASE FinishModules
    BY <2>1, <2>6 DEF FinishModules, CycleOver, IsRun, Admitted, Plan
  <2>7. CASE Finalise
    BY <2>1, <2>7 DEF Finalise, IsRun, Admitted, Plan
  <2>8. CASE Judge
    BY <2>1, <2>8 DEF Judge, IsRun, Admitted, Plan
  <2>9. CASE InModule \/ Cancel \/ Misstate \/ Age \/ UNCHANGED vars
    BY <2>9 DEF InModule, Cancel, Misstate, Age, vars, Admitted, Plan
  <2> QED BY <2>2, <2>3, <2>4, <2>5, <2>6, <2>7, <2>8, <2>9 DEF Next
<1> QED BY <1>1, <1>2, InvHolds, PTL DEF Spec

\* preflight (preflight.rs): a run that is admitted leaves the host its reserve,
\* and loads one in production only if that was asked for.
THEOREM AdmittedHostIsAlwaysSpared == Spec => []AdmittedHostIsSpared
<1>1. Inv /\ Admitted => AdmittedHostIsSpared
  <2> DEFINE others  == Range(Plan) \ {"storage"}
             fixture == IF "storage" \in Range(Plan) THEN FixtureFor(run.host.free) ELSE 0
             rest    == MapThenSumSet(LAMBDA m : Builtin[m].writes, others)
  <2> SUFFICES ASSUME Inv, Admitted, run.state \in {"Running", "Completed", "Cancelled"}
               PROVE  /\ IF run.host.free < 0 THEN Writes(Plan) = 0
                         ELSE run.host.free - fixture - rest >= MinFree
                      /\ run.host.production /\ ~ run.force => MaxSafety(Plan) = Observational
    BY DEF AdmittedHostIsSpared
  <2>1. Plan \in Seq(ModuleIds) /\ run.host.free \in Int
    BY AssessmentAssumption DEF Inv, RunInv, Asked
  <2>2. PreflightPasses(run.repeats, Plan, run.host, run.force)
    BY DEF Admitted
  <2>3. /\ Writes(Plan) \in Nat /\ rest \in Nat /\ fixture \in Nat
        /\ fixture + rest <= Writes(Plan)
    BY <2>1, PlanCoversItsModules
  <2> HIDE DEF rest, fixture
  <2>4. ~ NoRoom(Plan, run.host)
    BY <2>2 DEF PreflightPasses, Blocking
  <2>5. IF run.host.free < 0 THEN Writes(Plan) = 0
        ELSE run.host.free - fixture - rest >= MinFree
    BY <2>1, <2>3, <2>4 DEF NoRoom, MinFree
  <2>6. run.host.production /\ ~ run.force => MaxSafety(Plan) = Observational
    BY <2>1, <2>2, SafetyIsAClass DEF PreflightPasses, Warned, ProductionRisk, Observational
  <2> QED BY <2>5, <2>6
<1> QED BY <1>1, InvHolds, AdmittedHolds, PTL

-----------------------------------------------------------------------------
(* The two verdicts                                                        *)

\* validate_bundle (validate.rs): the server confirms the agent's verdict on a
\* bundle nobody touched, and rejects every other.
THEOREM AgentAndServerAgree == Spec => []ServerAgreesOrRejects
<1>1. Certified => ServerAgreesOrRejects
  <2> SUFFICES ASSUME Certified, judged # NoBundle
               PROVE  IF bundle.altered = {} /\ bundle.intact
                      THEN /\ judged.reasons = bundle.verdict.reasons
                           /\ judged.state = IF bundle.verdict.state = "Local" THEN "Validated"
                                             ELSE bundle.verdict.state
                      ELSE judged.state = "Invalid"
    BY DEF ServerAgreesOrRejects
  <2>1. /\ Genuine(bundle) \/ Misstated(bundle) \/ Aged(bundle)
        /\ judged = ValidateBundle(bundle, TRUE)
    BY DEF Certified
  <2>2. CASE bundle.altered = {} /\ bundle.intact
    <3>1. Genuine(bundle)
      BY <2>1, <2>2 DEF Misstated, Aged
    <3>2. bundle.verdict = ValidateBundle(bundle, FALSE)
      BY <3>1 DEF Genuine
    <3> QED BY <2>1, <2>2, <3>1, <3>2, UntouchedIsConfirmed
  <2>3. CASE ~ (bundle.altered = {} /\ bundle.intact)
    BY <2>1, <2>3, TouchedIsRejected
  <2> QED BY <2>2, <2>3
<1> QED BY <1>1, CertifiedInit, CertifiedNext, PTL DEF Spec

=============================================================================
