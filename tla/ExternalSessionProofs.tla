----------------------- MODULE ExternalSessionProofs ------------------------
(***************************************************************************)
(* Theorems about an external load session, for every offer and any number *)
(* of generators that hold the ticket.                                     *)
(*                                                                         *)
(* Of each generator the invariant compares what the origin has counted    *)
(* with what it will claim: no answer is read that was not counted, and    *)
(* what is counted, or may be yet, is claimed or was a warm-up request     *)
(* (Balanced).  The counter itself is what one generator was served unless *)
(* another was served too (Sums).  A generator that has reported counts no *)
(* more, so a report in the target's hands stays its last word (Reported), *)
(* and what is then rejected was rejected rightly (Blamed).                *)
(*                                                                         *)
(* For what is accepted the counter is the sum over all generators         *)
(* (AddsUp).  Sums over finite sets are the community modules' fold; what  *)
(* one more of one element does to it is shown set by set (OneByOne).      *)
(***************************************************************************)
EXTENDS ExternalSession, FiniteSetTheorems, TLAPS

-----------------------------------------------------------------------------
(* The invariant                                                           *)

GeneratorPlaces ==
    {"declined", "loading", "submit", "waiting", "accepted", "refused", "lost"}

SessionTyped ==
    /\ gen \in [Generators -> [at : GeneratorPlaces, shape : Nat, sent : Nat,
                               ok : Nat, failed : Nat]]
    /\ req \in [Generators -> {"none", "sent", "answered"}]
    /\ late \in [Generators -> Nat]
    /\ served \in Nat
    /\ servedTo \in [Generators -> Nat]
    /\ backlog \in SUBSET Generators
    /\ control \in [at : {"accept", "handle", "answer", "closed"},
                    of : Generators \cup {None}, answer : {"accepted", "refused", None}]
    /\ inbox \in Report \cup {None}
    /\ wait \in [at : {"take", "reconcile", "deadline", "leave", "join", "origin", "gone"},
                 report : Report \cup {None},
                 outcome : {"accepted", "rejected", "expired", None}]
    /\ expired \in BOOLEAN
    /\ stop \in BOOLEAN
    /\ joining \in SUBSET Generators

\* The requests of this shape that are over, and the answer that is not read.
Finished(g) == IF req[g] = "none" THEN gen[g].sent ELSE gen[g].sent - 1
Unread(g) == IF req[g] = "answered" THEN 1 ELSE 0

\* The warm-up requests that are over, of the shapes before and of this one.
Warmed(g) == (gen[g].shape - 1) * Load[g].warmup + Lesser(Load[g].warmup, Finished(g))

\* A generator that drives keeps to its plan; one that was declined sends nothing.
Planned(g) ==
    /\ gen[g].at = "declined" =>
         gen[g].sent = 0 /\ req[g] = "none" /\ late[g] = 0 /\ servedTo[g] = 0
    /\ gen[g].at # "declined" =>
         /\ ~Refused(Wanted[g])
         /\ gen[g].shape \in 1..Load[g].shapes
         /\ gen[g].sent \in 0..(Load[g].warmup + Load[g].scheduled)
    /\ gen[g].at # "loading" => req[g] = "none"
    /\ req[g] # "none" => gen[g].sent > 0

\* What a generator claims and what the origin counted of it: no answer was
\* read that was not counted, and nothing was counted that is neither claimed
\* nor a warm-up request.
Balanced(g) ==
    /\ gen[g].ok + Unread(g) <= servedTo[g]
    /\ gen[g].at # "declined" =>
         servedTo[g] + late[g] <= gen[g].ok + gen[g].failed + Unread(g) + Warmed(g)

\* The origin's counter is never behind what one generator was served, and is
\* no more than that unless another was served.
Sums ==
    \A g \in Generators :
        /\ servedTo[g] <= served
        /\ (\A h \in Others(g) : servedTo[h] = 0) => served = servedTo[g]

\* A generator that has sent its report counts no more.
Settled(g) == gen[g].at \in {"waiting", "accepted", "refused", "lost"}

\* A report in the target's hands is its generator's last word.
Genuine(report) == report # None => Settled(report.of) /\ report = ReportOf(report.of)

Reported ==
    /\ \A g \in backlog : Settled(g)
    /\ control.at \in {"handle", "answer"} => control.of \in Generators /\ Settled(control.of)
    /\ control.at = "answer" => control.answer \in {"accepted", "refused"}
    /\ Genuine(inbox) /\ Genuine(wait.report)
    /\ wait.at = "reconcile" => wait.report # None

\* A rejection is final, and was right.
Blamed ==
    wait.outcome = "rejected" =>
        /\ wait.at \in {"leave", "join", "origin", "gone"}
        /\ wait.report # None
        /\ \E g \in Others(wait.report.of) : servedTo[g] > 0

SessionInv ==
    /\ SessionTyped
    /\ \A g \in Generators : Planned(g) /\ Balanced(g)
    /\ Sums /\ Reported /\ Blamed

-----------------------------------------------------------------------------
(* Plans                                                                   *)

\* What a generator is granted: whole shapes, each with a warm-up and a
\* schedule that are never nothing.
LEMMA PlanFits ==
    ASSUME NEW g \in Generators, ~Refused(Wanted[g])
    PROVE  /\ Load[g].shapes \in Nat \ {0}
           /\ Load[g].warmup \in Nat \ {0}
           /\ Load[g].scheduled \in Nat \ {0}
           /\ Load[g].shapes * Load[g].warmup <= Slack
<1> DEFINE w == Wanted[g]
           plan == Granted(w)
           owed == plan.rate * plan.duration
<1>1. /\ w.rate \in Int /\ w.duration \in Nat /\ w.workers \in Nat /\ w.phases \in Nat
      /\ Offer.left \in Nat /\ Offer.rate \in Nat /\ Offer.duration \in Nat
      /\ Offer.workers \in Nat /\ Overhead \in Nat
  BY ExternalSessionAssumption
<1>2. w.rate > 0 /\ Offer.rate > 0 /\ Offer.workers > 0
  BY <1>1 DEF Refused
<1>3. Phases(w) \in Nat \ {0}
  BY <1>1 DEF Phases
<1>4. PerPhase(w) \in Nat
  <2>1. (IF Offer.left > Overhead THEN Offer.left - Overhead ELSE 1) \in Nat
    BY <1>1
  <2>2. ASSUME NEW n \in Nat, NEW k \in Nat \ {0} PROVE n \div k \in Nat
    BY <2>2
  <2> QED BY <2>1, <2>2, <1>3 DEF PerPhase
<1>5. plan.rate \in Nat /\ plan.duration \in Nat /\ plan.workers \in Nat \ {0}
      /\ plan.phases \in Nat \ {0}
  BY <1>1, <1>2, <1>3, <1>4 DEF Granted, Lesser
<1>6. owed \in Nat
  <2>1. ASSUME NEW n \in Nat, NEW k \in Nat PROVE n * k \in Nat
    OBVIOUS
  <2> QED BY <2>1, <1>5
<1>7. /\ Load[g].shapes = plan.phases /\ Load[g].warmup = plan.workers
      /\ Load[g].scheduled = IF owed = 0 THEN 1 ELSE owed
  BY DEF Load
<1> HIDE DEF w, plan, owed
<1> QED BY <1>5, <1>6, <1>7, ExternalSessionAssumption

\* Warm-ups shape by shape: one more shape, and no more than the plan's.
LEMMA WarmupsAddUp ==
    ASSUME NEW done \in Nat \ {0}, NEW each \in Nat
    PROVE  /\ (done - 1) * each \in Nat
           /\ (done + 1 - 1) * each = (done - 1) * each + each
<1>1. ASSUME NEW n \in Nat PROVE n * each \in Nat /\ (n + 1) * each = n * each + each
  OBVIOUS
<1>2. done - 1 \in Nat /\ (done - 1) + 1 = done /\ done + 1 - 1 = done
  OBVIOUS
<1> QED BY <1>1, <1>2

\* Multiplication by what each shape costs is monotonic.
LEMMA MoreIsMore ==
    ASSUME NEW i \in Nat, NEW j \in Nat, NEW each \in Nat, i <= j
    PROVE  i * each <= j * each
OBVIOUS

\* The warm-ups a generator leaves unclaimed are within the slack.
LEMMA WarmupsFit ==
    ASSUME SessionInv, NEW g \in Generators, gen[g].at # "declined"
    PROVE  Warmed(g) \in Nat /\ Warmed(g) <= Slack
<1> DEFINE each == Load[g].warmup
           before == gen[g].shape - 1
<1>1. /\ ~Refused(Wanted[g]) /\ gen[g].shape \in 1..Load[g].shapes
      /\ gen[g].sent \in Nat /\ (req[g] # "none" => gen[g].sent > 0)
  BY DEF SessionInv, SessionTyped, Planned
<1>2. /\ each \in Nat /\ Load[g].shapes \in Nat /\ Load[g].shapes * each <= Slack
      /\ gen[g].shape \in Nat \ {0} /\ before \in Nat
  BY <1>1, PlanFits
<1>3. Finished(g) \in Nat
  BY <1>1 DEF Finished
<1>4. Lesser(each, Finished(g)) \in Nat /\ Lesser(each, Finished(g)) <= each
  BY <1>2, <1>3 DEF Lesser
<1>5. before * each \in Nat /\ gen[g].shape * each = before * each + each
  <2>1. gen[g].shape + 1 - 1 = gen[g].shape
    BY <1>2
  <2> QED BY <1>2, <2>1, WarmupsAddUp
<1>6. gen[g].shape * each <= Load[g].shapes * each
  BY <1>1, <1>2, MoreIsMore
<1>7. Warmed(g) = before * each + Lesser(each, Finished(g))
  BY DEF Warmed
<1>8. /\ gen[g].shape * each \in Nat /\ Load[g].shapes * each \in Nat /\ Slack \in Nat
  <2>1. ASSUME NEW n \in Nat, NEW k \in Nat PROVE n * k \in Nat
    OBVIOUS
  <2> QED BY <1>2, <2>1, ExternalSessionAssumption
<1> HIDE DEF each, before
<1>9. ASSUME NEW x \in Nat, NEW y \in Nat, NEW z \in Nat, NEW t \in Nat,
             y <= z, x + z <= t
      PROVE  x + y \in Nat /\ x + y <= t
  BY <1>9
<1>10. before * each + each <= Slack
  BY <1>2, <1>5, <1>6, <1>8
<1> QED BY <1>2, <1>4, <1>5, <1>7, <1>8, <1>9, <1>10

-----------------------------------------------------------------------------
(* Honest reports are not rejected without another generator               *)

\* The counter as it stands when a report is judged: at least what its
\* generator read the answers of, and, if nobody else was served, no more than
\* it claims and the slack.
LEMMA HonestReportsReconcile ==
    ASSUME SessionInv, wait.report # None,
           \A g \in Others(wait.report.of) : servedTo[g] = 0
    PROVE  Reconciles(wait.report)
<1> DEFINE g == wait.report.of
<1>1. /\ g \in Generators /\ Settled(g) /\ wait.report = ReportOf(g)
  BY DEF SessionInv, SessionTyped, Reported, Genuine, Report
<1>2. wait.report.ok = gen[g].ok /\ wait.report.failed = gen[g].failed
  BY <1>1 DEF ReportOf
<1>3. /\ gen[g].ok \in Nat /\ gen[g].failed \in Nat /\ late[g] \in Nat
      /\ servedTo[g] \in Nat /\ served \in Nat /\ Slack \in Nat
  BY <1>1, ExternalSessionAssumption DEF SessionInv, SessionTyped
<1>4. gen[g].at # "declined" /\ req[g] = "none"
  BY <1>1 DEF SessionInv, Settled, Planned
<1>5. gen[g].ok <= servedTo[g] /\ servedTo[g] + late[g] <= gen[g].ok + gen[g].failed + Warmed(g)
  BY <1>1, <1>3, <1>4, WarmupsFit DEF SessionInv, Balanced, Unread
<1>6. served = servedTo[g]
  BY <1>1 DEF SessionInv, Sums
<1>7. Warmed(g) \in Nat /\ Warmed(g) <= Slack
  BY <1>1, <1>4, WarmupsFit
<1> HIDE DEF g
<1> QED BY <1>2, <1>3, <1>5, <1>6, <1>7 DEF Reconciles, Claimed

-----------------------------------------------------------------------------
(* The steps                                                               *)

\* Whoever has sent its report goes on claiming what it claimed.
Unchanging ==
    \A h \in Generators : Settled(h) => /\ Settled(h)'
                                        /\ gen'[h].ok = gen[h].ok
                                        /\ gen'[h].failed = gen[h].failed

\* So a report that is its last word stays that.
LEMMA GenuineStaysGenuine ==
    ASSUME Unchanging, NEW report \in Report \cup {None}, Genuine(report)
    PROVE  report # None => Settled(report.of)' /\ report = ReportOf(report.of)'
<1> SUFFICES ASSUME report # None
             PROVE  Settled(report.of)' /\ report = ReportOf(report.of)'
  OBVIOUS
<1>1. report.of \in Generators /\ Settled(report.of) /\ report = ReportOf(report.of)
  BY DEF Genuine, Report
<1>2. /\ Settled(report.of)' /\ gen'[report.of].ok = gen[report.of].ok
      /\ gen'[report.of].failed = gen[report.of].failed
  BY <1>1 DEF Unchanging
<1> QED BY <1>1, <1>2 DEF ReportOf

\* A step of a generator, or of the origin on its behalf, disturbs only what is
\* said of that generator, and not what it has reported.
OnlyOf(g) ==
    /\ \A h \in Others(g) : /\ gen'[h] = gen[h] /\ req'[h] = req[h]
                            /\ late'[h] = late[h] /\ servedTo'[h] = servedTo[h]
    /\ servedTo'[g] >= servedTo[g]
    /\ UNCHANGED <<control, inbox, wait>>
    /\ backlog' \subseteq backlog \cup {g}
    /\ Settled(g) \/ g \in backlog' => Settled(g)'
    /\ Settled(g) => gen'[g].ok = gen[g].ok /\ gen'[g].failed = gen[g].failed

\* With what it says of g itself, the step keeps the invariant.
LEMMA StepOfOne ==
    ASSUME SessionInv, NEW g \in Generators, OnlyOf(g),
           SessionTyped', Planned(g)', Balanced(g)', Sums'
    PROVE  SessionInv'
<1>1. ASSUME NEW h \in Generators, h # g PROVE Planned(h)' /\ Balanced(h)'
  <2>1. /\ gen'[h] = gen[h] /\ req'[h] = req[h]
        /\ late'[h] = late[h] /\ servedTo'[h] = servedTo[h]
    BY <1>1 DEF OnlyOf, Others
  <2> QED BY <2>1 DEF SessionInv, Planned, Balanced, Unread, Warmed, Finished
<1>2. Unchanging
  <2>1. ASSUME NEW h \in Generators, h # g PROVE gen'[h] = gen[h]
    BY <2>1 DEF OnlyOf, Others
  <2> QED BY <2>1 DEF Unchanging, Settled, OnlyOf
<1>3. Reported'
  <2>1. Genuine(inbox)' /\ Genuine(wait.report)'
    <3>1. Genuine(inbox) /\ Genuine(wait.report)
          /\ inbox \in Report \cup {None} /\ wait.report \in Report \cup {None}
      BY DEF SessionInv, SessionTyped, Reported
    <3> QED BY <1>2, <3>1, GenuineStaysGenuine DEF Genuine, OnlyOf
  <2>2. ASSUME control.at \in {"handle", "answer"}
        PROVE  control.of \in Generators /\ Settled(control.of)'
    BY <1>2, <2>2 DEF SessionInv, Reported, Unchanging, OnlyOf
  <2>3. ASSUME NEW h \in backlog' PROVE Settled(h)'
    BY <1>2, <2>3 DEF SessionInv, SessionTyped, Reported, Unchanging, OnlyOf
  <2> QED BY <2>1, <2>2, <2>3 DEF SessionInv, Reported, OnlyOf
<1>4. Blamed'
  <2>1. ASSUME NEW h \in Generators, servedTo[h] > 0 PROVE servedTo'[h] > 0
    <3>1. CASE h = g
      BY <2>1, <3>1 DEF SessionInv, SessionTyped, OnlyOf
    <3>2. CASE h # g
      BY <2>1, <3>2 DEF OnlyOf, Others
    <3> QED BY <3>1, <3>2
  <2> QED BY <2>1 DEF SessionInv, Blamed, Others, OnlyOf
<1> QED BY <1>1, <1>3, <1>4 DEF SessionInv

\* What a generator sends, reads and gives up on is not counted by the origin.
LEMMA SumsKept ==
    ASSUME SessionInv, UNCHANGED originVars
    PROVE  Sums' /\ \A h \in Generators : servedTo'[h] = servedTo[h] /\ servedTo'[h] >= servedTo[h]
BY DEF SessionInv, SessionTyped, Sums, originVars

\* A request is sent: nothing is over yet.
LEMMA SendKeeps ==
    ASSUME SessionInv, NEW g \in Generators, Send(g)
    PROVE  SessionInv'
<1>1. /\ gen[g].at = "loading" /\ req[g] = "none" /\ Owed(g)
      /\ gen' = [gen EXCEPT ![g].sent = gen[g].sent + 1]
      /\ req' = [req EXCEPT ![g] = "sent"]
      /\ UNCHANGED <<late, backlog, control, inbox, wait, expired, stop, joining>>
      /\ UNCHANGED originVars
  BY DEF Send
<1>2. SessionTyped
  BY DEF SessionInv
<1>3. /\ gen'[g].at = "loading" /\ gen'[g].sent = gen[g].sent + 1
      /\ gen'[g].shape = gen[g].shape /\ gen'[g].ok = gen[g].ok
      /\ gen'[g].failed = gen[g].failed /\ req'[g] = "sent"
      /\ gen[g].sent \in Nat
      /\ \A h \in Others(g) : gen'[h] = gen[h] /\ req'[h] = req[h]
  BY <1>1, <1>2 DEF SessionTyped, Others
<1>4. SessionTyped'
  BY <1>1, <1>2 DEF SessionTyped, originVars
<1>5. Planned(g)'
  <2>1. ~Refused(Wanted[g]) /\ gen[g].shape \in 1..Load[g].shapes
    BY <1>1 DEF SessionInv, Planned
  <2>2. gen[g].sent + 1 \in 0..(Load[g].warmup + Load[g].scheduled)
    BY <1>1, <1>3, <2>1, PlanFits DEF Owed
  <2> QED BY <1>3, <2>1, <2>2 DEF Planned
<1>6. Balanced(g)'
  <2>1. Warmed(g)' = Warmed(g)
    BY <1>1, <1>3 DEF Warmed, Finished
  <2>2. Unread(g)' = Unread(g) /\ servedTo'[g] = servedTo[g] /\ late'[g] = late[g]
    BY <1>1, <1>3 DEF Unread, originVars
  <2> QED BY <1>1, <1>3, <2>1, <2>2 DEF SessionInv, Balanced
<1>7. OnlyOf(g)
  <2>1. ~Settled(g) /\ g \notin backlog
    BY <1>1 DEF SessionInv, Reported, Settled
  <2> QED BY <1>1, <1>3, <2>1, SumsKept DEF OnlyOf, Others
<1> QED BY <1>1, <1>4, <1>5, <1>6, <1>7, SumsKept, StepOfOne

\* One request more is over, of those that were sent.
LEMMA OneMoreOver ==
    ASSUME SessionInv, NEW g \in Generators, gen[g].at # "declined", req[g] # "none",
           req'[g] = "none", gen'[g].shape = gen[g].shape, gen'[g].sent = gen[g].sent
    PROVE  /\ Warmed(g) \in Nat /\ Warmed(g)' \in Nat
           /\ Warmed(g)' = IF InWarmup(g) THEN Warmed(g) + 1 ELSE Warmed(g)
<1> DEFINE each == Load[g].warmup
           before == (gen[g].shape - 1) * each
<1>1. /\ gen[g].sent \in Nat \ {0} /\ gen[g].shape \in 1..Load[g].shapes
      /\ ~Refused(Wanted[g])
  BY DEF SessionInv, SessionTyped, Planned
<1>2. each \in Nat /\ gen[g].shape \in Nat \ {0}
  BY <1>1, PlanFits
<1>3. before \in Nat
  BY <1>2, WarmupsAddUp
<1>4. Warmed(g) = before + Lesser(each, gen[g].sent - 1)
  BY DEF Warmed, Finished
<1>5. Warmed(g)' = before + Lesser(each, gen[g].sent)
  BY DEF Warmed, Finished
<1>6. InWarmup(g) <=> gen[g].sent <= each
  BY DEF InWarmup
<1> HIDE DEF each, before
<1> QED BY <1>1, <1>2, <1>3, <1>4, <1>5, <1>6 DEF Lesser

\* What was counted before is claimed now, whether it was a warm-up or not.
LEMMA ReadAnswerKeeps ==
    ASSUME SessionInv, NEW g \in Generators, ReadAnswer(g)
    PROVE  SessionInv'
<1>1. /\ req[g] = "answered"
      /\ gen' = [gen EXCEPT ![g].ok = gen[g].ok + 1]
      /\ req' = [req EXCEPT ![g] = "none"]
      /\ UNCHANGED <<late, backlog, control, inbox, wait, expired, stop, joining>>
      /\ UNCHANGED originVars
  BY DEF ReadAnswer
<1>2. SessionTyped
  BY DEF SessionInv
<1>3. gen[g].at = "loading"
  BY <1>1 DEF SessionInv, Planned
<1>4. /\ gen'[g].at = "loading" /\ gen'[g].sent = gen[g].sent
      /\ gen'[g].shape = gen[g].shape /\ gen'[g].ok = gen[g].ok + 1
      /\ gen'[g].failed = gen[g].failed /\ req'[g] = "none"
      /\ gen[g].ok \in Nat /\ gen[g].failed \in Nat
      /\ late[g] \in Nat /\ servedTo[g] \in Nat
      /\ \A h \in Others(g) : gen'[h] = gen[h] /\ req'[h] = req[h]
  BY <1>1, <1>2, <1>3 DEF SessionTyped, Others
<1>5. SessionTyped'
  BY <1>1, <1>2 DEF SessionTyped, originVars
<1>6. Planned(g)'
  BY <1>3, <1>4 DEF SessionInv, Planned
<1>7. Balanced(g)'
  <2>1. Warmed(g) \in Nat /\ Warmed(g)' \in Nat /\ Warmed(g)' >= Warmed(g)
    BY <1>1, <1>3, <1>4, OneMoreOver
  <2>2. /\ gen[g].ok + 1 <= servedTo[g]
        /\ servedTo[g] + late[g] <= gen[g].ok + gen[g].failed + 1 + Warmed(g)
    BY <1>1, <1>3 DEF SessionInv, Balanced, Unread
  <2>3. Unread(g)' = 0 /\ servedTo'[g] = servedTo[g] /\ late'[g] = late[g]
    BY <1>1, <1>4 DEF Unread, originVars
  <2> QED BY <1>4, <2>1, <2>2, <2>3 DEF Balanced
<1>8. OnlyOf(g)
  <2>1. ~Settled(g) /\ g \notin backlog
    BY <1>3 DEF SessionInv, Reported, Settled
  <2> QED BY <1>1, <1>4, <2>1, SumsKept DEF OnlyOf, Others
<1> QED BY <1>1, <1>5, <1>6, <1>7, <1>8, SumsKept, StepOfOne

\* A request given up is claimed as failed or excused as a warm-up; if it was
\* only sent, the origin may count it yet.
LEMMA FailKeeps ==
    ASSUME SessionInv, NEW g \in Generators, Fail(g)
    PROVE  SessionInv'
<1> DEFINE failed == IF InWarmup(g) THEN gen[g].failed ELSE gen[g].failed + 1
<1>1. /\ req[g] # "none"
      /\ gen' = [gen EXCEPT ![g].failed = failed]
      /\ req' = [req EXCEPT ![g] = "none"]
      /\ late' = late \/ (req[g] = "sent" /\ late' = [late EXCEPT ![g] = late[g] + 1])
      /\ UNCHANGED <<backlog, control, inbox, wait, expired, stop, joining>>
      /\ UNCHANGED originVars
  <2>1. late' \in {late} \cup (IF req[g] = "sent"
                               THEN {[late EXCEPT ![g] = late[g] + 1]} ELSE {})
    BY DEF Fail
  <2>2. late' = late \/ (req[g] = "sent" /\ late' = [late EXCEPT ![g] = late[g] + 1])
    BY <2>1
  <2>3. gen' = [gen EXCEPT ![g].failed = failed]
    BY DEF Fail
  <2> QED BY <2>2, <2>3 DEF Fail
<1>2. SessionTyped
  BY DEF SessionInv
<1>3. gen[g].at = "loading"
  BY <1>1 DEF SessionInv, Planned
<1>4. gen[g].failed \in Nat /\ failed \in Nat
  BY <1>2 DEF SessionTyped
<1>5. /\ gen'[g].at = "loading" /\ gen'[g].sent = gen[g].sent
      /\ gen'[g].shape = gen[g].shape /\ gen'[g].ok = gen[g].ok
      /\ gen'[g].failed = failed /\ req'[g] = "none"
      /\ gen[g].ok \in Nat /\ late[g] \in Nat /\ late'[g] \in Nat /\ servedTo[g] \in Nat
      /\ late'[g] = late[g] \/ (req[g] = "sent" /\ late'[g] = late[g] + 1)
      /\ \A h \in Others(g) : gen'[h] = gen[h] /\ req'[h] = req[h] /\ late'[h] = late[h]
  <2> HIDE DEF failed
  <2> QED BY <1>1, <1>2, <1>3 DEF SessionTyped, Others
<1>6. SessionTyped'
  <2> HIDE DEF failed
  <2>1. late' \in [Generators -> Nat]
    BY <1>1, <1>2 DEF SessionTyped
  <2>2. gen' \in [Generators -> [at : GeneratorPlaces, shape : Nat, sent : Nat,
                                 ok : Nat, failed : Nat]]
    BY <1>1, <1>2, <1>4 DEF SessionTyped
  <2> QED BY <1>1, <1>2, <2>1, <2>2 DEF SessionTyped, originVars
<1>7. Planned(g)'
  BY <1>3, <1>5 DEF SessionInv, Planned
<1>8. Balanced(g)'
  <2>1. /\ Warmed(g) \in Nat /\ Warmed(g)' \in Nat
        /\ Warmed(g)' = IF InWarmup(g) THEN Warmed(g) + 1 ELSE Warmed(g)
    BY <1>1, <1>3, <1>5, OneMoreOver
  <2>2. /\ gen[g].ok + Unread(g) <= servedTo[g]
        /\ servedTo[g] + late[g] <= gen[g].ok + gen[g].failed + Unread(g) + Warmed(g)
    BY <1>3 DEF SessionInv, Balanced
  <2>3. /\ Unread(g) \in {0, 1} /\ (req[g] = "sent" => Unread(g) = 0)
        /\ Unread(g)' = 0 /\ servedTo'[g] = servedTo[g]
    BY <1>1, <1>5 DEF Unread, originVars
  <2>4. late'[g] + Unread(g) <= late[g] + 1
    BY <1>5, <2>3
  <2>5. failed + Warmed(g)' = gen[g].failed + Warmed(g) + 1
    BY <1>4, <2>1
  <2> HIDE DEF failed
  <2>6. gen[g].ok <= servedTo[g]
    BY <1>5, <2>2, <2>3
  <2>7. Unread(g) = 1 => late'[g] <= late[g]
    BY <1>5, <2>3, <2>4
  <2>8. servedTo[g] + late'[g] <= gen[g].ok + failed + Warmed(g)'
    BY <1>4, <1>5, <2>1, <2>2, <2>3, <2>4, <2>5, <2>7
  <2> QED BY <1>4, <1>5, <2>1, <2>3, <2>6, <2>8 DEF Balanced
<1>9. OnlyOf(g)
  <2>1. ~Settled(g) /\ g \notin backlog
    BY <1>3 DEF SessionInv, Reported, Settled
  <2> QED BY <1>1, <1>5, <2>1, SumsKept DEF OnlyOf, Others
<1> QED BY <1>1, <1>6, <1>7, <1>8, <1>9, SumsKept, StepOfOne

\* The origin counts one more, of this generator.
LEMMA CountAddsUp ==
    ASSUME SessionInv, NEW g \in Generators, Count(g)
    PROVE  /\ served' \in Nat /\ servedTo' \in [Generators -> Nat]
           /\ servedTo'[g] = servedTo[g] + 1
           /\ \A h \in Others(g) : servedTo'[h] = servedTo[h]
           /\ Sums'
<1>1. /\ served' = served + 1
      /\ servedTo' = [servedTo EXCEPT ![g] = servedTo[g] + 1]
  BY DEF Count
<1>2. served \in Nat /\ servedTo \in [Generators -> Nat] /\ Sums
  BY DEF SessionInv, SessionTyped
<1>3. /\ served' \in Nat /\ servedTo' \in [Generators -> Nat]
      /\ servedTo'[g] = servedTo[g] + 1 /\ servedTo'[g] > 0
      /\ \A h \in Generators : h # g => servedTo'[h] = servedTo[h]
  BY <1>1, <1>2
<1>4. ASSUME NEW h \in Generators
      PROVE  /\ servedTo'[h] <= served'
             /\ (\A k \in Others(h) : servedTo'[k] = 0) => served' = servedTo'[h]
  <2>1. CASE h = g
    <3>1. \A k \in Others(g) : servedTo'[k] = servedTo[k]
      BY <1>3 DEF Others
    <3> QED BY <1>1, <1>2, <1>3, <2>1, <3>1 DEF Sums
  <2>2. CASE h # g
    <3>1. g \in Others(h)
      BY <2>2 DEF Others
    <3> QED BY <1>1, <1>2, <1>3, <2>2, <3>1 DEF Sums
  <2> QED BY <2>1, <2>2
<1> QED BY <1>3, <1>4 DEF Sums, Others

\* Counted before the answer is written.
LEMMA ServeKeeps ==
    ASSUME SessionInv, NEW g \in Generators, Serve(g)
    PROVE  SessionInv'
<1>1. /\ req[g] = "sent" /\ Count(g)
      /\ req' = [req EXCEPT ![g] = "answered"]
      /\ UNCHANGED <<gen, late, backlog, control, inbox, wait, expired, stop, joining>>
  BY DEF Serve
<1>2. SessionTyped
  BY DEF SessionInv
<1>3. gen[g].at = "loading"
  BY <1>1 DEF SessionInv, Planned
<1>4. /\ req'[g] = "answered" /\ gen'[g] = gen[g] /\ late'[g] = late[g]
      /\ gen[g].ok \in Nat /\ gen[g].failed \in Nat
      /\ late[g] \in Nat /\ servedTo[g] \in Nat
      /\ \A h \in Others(g) : gen'[h] = gen[h] /\ req'[h] = req[h] /\ late'[h] = late[h]
  BY <1>1, <1>2 DEF SessionTyped, Others
<1>5. SessionTyped'
  BY <1>1, <1>2, CountAddsUp DEF SessionTyped
<1>6. Planned(g)'
  BY <1>1, <1>3, <1>4 DEF SessionInv, Planned
<1>7. Balanced(g)'
  <2>1. Warmed(g)' = Warmed(g)
    BY <1>1, <1>4 DEF Warmed, Finished
  <2>2. Warmed(g) \in Nat
    BY <1>3, WarmupsFit
  <2>3. Unread(g) = 0 /\ Unread(g)' = 1
    BY <1>1, <1>4 DEF Unread
  <2>4. /\ gen[g].ok <= servedTo[g]
        /\ servedTo[g] + late[g] <= gen[g].ok + gen[g].failed + Warmed(g)
    BY <1>3, <1>4, <2>2, <2>3 DEF SessionInv, Balanced
  <2>5. servedTo'[g] = servedTo[g] + 1
    BY <1>1, CountAddsUp
  <2> QED BY <1>4, <2>1, <2>2, <2>3, <2>4, <2>5 DEF Balanced
<1>8. OnlyOf(g)
  <2>1. ~Settled(g) /\ g \notin backlog
    BY <1>3 DEF SessionInv, Reported, Settled
  <2>2. servedTo'[g] >= servedTo[g] /\ \A h \in Others(g) : servedTo'[h] = servedTo[h]
    BY <1>1, <1>4, CountAddsUp
  <2> QED BY <1>1, <1>4, <2>1, <2>2 DEF OnlyOf, Others
<1> QED BY <1>1, <1>5, <1>6, <1>7, <1>8, CountAddsUp, StepOfOne

\* Counted after its sender gave up, and allowed for since then.
LEMMA ServeLateKeeps ==
    ASSUME SessionInv, NEW g \in Generators, ServeLate(g)
    PROVE  SessionInv'
<1>1. /\ late[g] > 0 /\ Count(g)
      /\ late' = [late EXCEPT ![g] = late[g] - 1]
      /\ UNCHANGED <<gen, req, backlog, control, inbox, wait, expired, stop, joining>>
  BY DEF ServeLate
<1>2. SessionTyped
  BY DEF SessionInv
<1>3. late[g] \in Nat
  BY <1>2 DEF SessionTyped
<1>4. gen[g].at # "declined"
  BY <1>1, <1>3 DEF SessionInv, Planned
<1>5. /\ gen'[g] = gen[g] /\ req'[g] = req[g] /\ late'[g] = late[g] - 1
      /\ gen[g].ok \in Nat /\ gen[g].failed \in Nat /\ servedTo[g] \in Nat
      /\ \A h \in Others(g) : gen'[h] = gen[h] /\ req'[h] = req[h] /\ late'[h] = late[h]
  BY <1>1, <1>2 DEF SessionTyped, Others
<1>6. SessionTyped'
  <2>1. late' \in [Generators -> Nat]
    BY <1>1, <1>2, <1>3 DEF SessionTyped
  <2> QED BY <1>1, <1>2, <2>1, CountAddsUp DEF SessionTyped
<1>7. Planned(g)'
  BY <1>4, <1>5 DEF SessionInv, Planned
<1>8. Balanced(g)'
  <2>1. Warmed(g)' = Warmed(g) /\ Unread(g)' = Unread(g)
    BY <1>5 DEF Warmed, Finished, Unread
  <2>2. Warmed(g) \in Nat /\ Unread(g) \in Nat
    BY <1>4, WarmupsFit DEF Unread
  <2>3. /\ gen[g].ok + Unread(g) <= servedTo[g]
        /\ servedTo[g] + late[g] <= gen[g].ok + gen[g].failed + Unread(g) + Warmed(g)
    BY <1>4 DEF SessionInv, Balanced
  <2>4. servedTo'[g] = servedTo[g] + 1
    BY <1>1, CountAddsUp
  <2> QED BY <1>3, <1>5, <2>1, <2>2, <2>3, <2>4 DEF Balanced
<1>9. OnlyOf(g)
  <2>1. Settled(g)' <=> Settled(g)
    BY <1>5 DEF Settled
  <2>2. servedTo'[g] >= servedTo[g] /\ \A h \in Others(g) : servedTo'[h] = servedTo[h]
    BY <1>1, <1>5, CountAddsUp
  <2>3. g \in backlog => Settled(g)
    BY DEF SessionInv, Reported
  <2> QED BY <1>1, <1>5, <2>1, <2>2, <2>3 DEF OnlyOf, Others
<1> QED BY <1>1, <1>6, <1>7, <1>8, <1>9, CountAddsUp, StepOfOne

\* The next shape begins where the last one's warm-up and schedule end.
LEMMA ShapeDoneKeeps ==
    ASSUME SessionInv, NEW g \in Generators, ShapeDone(g)
    PROVE  SessionInv'
<1> DEFINE next == [gen EXCEPT ![g].shape = gen[g].shape + 1, ![g].sent = 0]
           over == [gen EXCEPT ![g].at = "submit"]
<1>1. /\ gen[g].at = "loading" /\ req[g] = "none" /\ ~Owed(g)
      /\ gen' = IF gen[g].shape < Load[g].shapes THEN next ELSE over
      /\ UNCHANGED <<req, late, backlog, control, inbox, wait, expired, stop, joining>>
      /\ UNCHANGED originVars
  BY DEF ShapeDone
<1>2. SessionTyped
  BY DEF SessionInv
<1>3. /\ ~Refused(Wanted[g]) /\ gen[g].shape \in 1..Load[g].shapes
      /\ gen[g].sent \in 0..(Load[g].warmup + Load[g].scheduled)
  BY <1>1 DEF SessionInv, Planned
<1>4. /\ Load[g].shapes \in Nat /\ Load[g].warmup \in Nat /\ Load[g].scheduled \in Nat
      /\ gen[g].shape \in Nat \ {0} /\ gen[g].sent \in Nat
  BY <1>3, PlanFits
<1>5. gen[g].sent >= Load[g].warmup
  BY <1>1, <1>4 DEF Owed
<1>6. /\ gen'[g].ok = gen[g].ok /\ gen'[g].failed = gen[g].failed /\ req'[g] = "none"
      /\ late'[g] = late[g] /\ servedTo'[g] = servedTo[g]
      /\ \A h \in Others(g) : gen'[h] = gen[h]
      /\ gen' \in [Generators -> [at : GeneratorPlaces, shape : Nat, sent : Nat,
                                  ok : Nat, failed : Nat]]
  <2>1. CASE gen' = next
    <3>1. \A h \in Generators : h # g => gen'[h] = gen[h]
      BY <1>2, <2>1 DEF SessionTyped
    <3>2. gen'[g] = [at |-> gen[g].at, shape |-> gen[g].shape + 1, sent |-> 0,
                     ok |-> gen[g].ok, failed |-> gen[g].failed]
      <4>1. gen[g] \in [at : GeneratorPlaces, shape : Nat, sent : Nat, ok : Nat, failed : Nat]
        BY <1>2 DEF SessionTyped
      <4>2. gen'[g] = [gen[g] EXCEPT !.shape = gen[g].shape + 1, !.sent = 0]
        BY <1>2, <2>1 DEF SessionTyped
      <4> QED BY <4>1, <4>2
    <3>3. gen'[g] \in [at : GeneratorPlaces, shape : Nat, sent : Nat, ok : Nat, failed : Nat]
      BY <1>2, <1>4, <3>2 DEF SessionTyped
    <3>4. gen' \in [Generators -> [at : GeneratorPlaces, shape : Nat, sent : Nat,
                                   ok : Nat, failed : Nat]]
      BY <1>2, <2>1, <3>1, <3>3 DEF SessionTyped
    <3> QED BY <1>1, <3>1, <3>2, <3>4 DEF Others, originVars
  <2>2. CASE gen' = over
    BY <1>1, <1>2, <1>4, <2>2 DEF SessionTyped, Others, originVars, GeneratorPlaces
  <2> QED BY <1>1, <2>1, <2>2
<1>7. \/ /\ gen[g].shape < Load[g].shapes
         /\ gen'[g].at = "loading" /\ gen'[g].shape = gen[g].shape + 1 /\ gen'[g].sent = 0
      \/ gen'[g].at = "submit" /\ gen'[g].shape = gen[g].shape /\ gen'[g].sent = gen[g].sent
  BY <1>1, <1>2 DEF SessionTyped
<1>8. SessionTyped'
  BY <1>1, <1>2, <1>6 DEF SessionTyped, originVars
<1>9. Planned(g)'
  BY <1>3, <1>4, <1>6, <1>7 DEF Planned
<1>10. Balanced(g)'
  <2>1. Warmed(g)' = Warmed(g)
    <3>1. CASE gen'[g].sent = 0 /\ gen'[g].shape = gen[g].shape + 1
      <4>1. Lesser(Load[g].warmup, Finished(g)) = Load[g].warmup
        BY <1>1, <1>4, <1>5 DEF Finished, Lesser
      <4>2. Lesser(Load[g].warmup, Finished(g)') = 0
        BY <1>4, <1>6, <3>1 DEF Finished, Lesser
      <4>3. /\ (gen[g].shape - 1) * Load[g].warmup \in Nat
            /\ (gen[g].shape + 1 - 1) * Load[g].warmup
                 = (gen[g].shape - 1) * Load[g].warmup + Load[g].warmup
        BY <1>4, WarmupsAddUp
      <4>4. Warmed(g)' = (gen[g].shape + 1 - 1) * Load[g].warmup + 0
        <5>1. gen'[g].shape - 1 = gen[g].shape + 1 - 1
          BY <1>4, <3>1
        <5>2. Warmed(g)' = (gen'[g].shape - 1) * Load[g].warmup
                             + Lesser(Load[g].warmup, Finished(g)')
          BY DEF Warmed
        <5> QED BY <4>2, <5>1, <5>2
      <4>5. Warmed(g) = (gen[g].shape - 1) * Load[g].warmup + Load[g].warmup
        BY <4>1 DEF Warmed
      <4> QED BY <1>4, <4>3, <4>4, <4>5
    <3>2. CASE gen'[g].sent = gen[g].sent /\ gen'[g].shape = gen[g].shape
      BY <1>1, <1>6, <3>2 DEF Warmed, Finished
    <3> QED BY <1>7, <3>1, <3>2
  <2>2. Unread(g)' = Unread(g)
    BY <1>1, <1>6 DEF Unread
  <2> QED BY <1>1, <1>6, <2>1, <2>2 DEF SessionInv, Balanced
<1>11. OnlyOf(g)
  <2>1. ~Settled(g) /\ g \notin backlog
    BY <1>1 DEF SessionInv, Reported, Settled
  <2> QED BY <1>1, <1>6, <2>1, SumsKept DEF OnlyOf, Others
<1> QED BY <1>1, <1>8, <1>9, <1>10, <1>11, SumsKept, StepOfOne

\* From here on its counts stand still.
LEMMA SubmitKeeps ==
    ASSUME SessionInv, NEW g \in Generators, Submit(g) \/ GiveUp(g)
    PROVE  SessionInv'
<1>1. /\ gen[g].at \in {"submit", "waiting"}
      /\ backlog' = backlog \/ backlog' = backlog \cup {g}
      /\ UNCHANGED <<req, late, control, inbox, wait, expired, stop, joining>>
      /\ UNCHANGED originVars
  BY DEF Submit, GiveUp
<1>2. PICK at \in {"waiting", "lost"} : gen' = [gen EXCEPT ![g].at = at]
  BY DEF Submit, GiveUp
<1>3. SessionTyped
  BY DEF SessionInv
<1>4. /\ gen'[g].at = at /\ gen'[g].shape = gen[g].shape /\ gen'[g].sent = gen[g].sent
      /\ gen'[g].ok = gen[g].ok /\ gen'[g].failed = gen[g].failed
      /\ req'[g] = req[g] /\ late'[g] = late[g] /\ servedTo'[g] = servedTo[g]
      /\ \A h \in Others(g) : gen'[h] = gen[h]
      /\ gen' \in [Generators -> [at : GeneratorPlaces, shape : Nat, sent : Nat,
                                  ok : Nat, failed : Nat]]
  BY <1>1, <1>2, <1>3 DEF SessionTyped, Others, originVars, GeneratorPlaces
<1>5. SessionTyped'
  <2>1. backlog' \in SUBSET Generators
    BY <1>1, <1>3 DEF SessionTyped
  <2> QED BY <1>1, <1>3, <1>4, <2>1 DEF SessionTyped, originVars
<1>6. Planned(g)'
  BY <1>1, <1>4 DEF SessionInv, Planned
<1>7. Balanced(g)'
  BY <1>1, <1>4 DEF SessionInv, Balanced, Warmed, Finished, Unread
<1>8. OnlyOf(g)
  <2>1. Settled(g)'
    BY <1>4 DEF Settled
  <2> QED BY <1>1, <1>4, <2>1, SumsKept DEF OnlyOf, Others
<1> QED BY <1>1, <1>5, <1>6, <1>7, <1>8, SumsKept, StepOfOne

-----------------------------------------------------------------------------
(* The control thread                                                      *)

\* A generator that waits for its answer is told, or is not.
Answered ==
    /\ UNCHANGED <<req, late, served, servedTo>>
    /\ gen' \in [Generators -> [at : GeneratorPlaces, shape : Nat, sent : Nat,
                                ok : Nat, failed : Nat]]
    /\ \A h \in Generators :
         /\ gen'[h].shape = gen[h].shape /\ gen'[h].sent = gen[h].sent
         /\ gen'[h].ok = gen[h].ok /\ gen'[h].failed = gen[h].failed
         /\ gen'[h].at = gen[h].at \/ (Settled(h) /\ Settled(h)')

\* The control thread may leave the generators as they are.
LEMMA UntouchedIsAnswered ==
    ASSUME SessionInv, UNCHANGED <<genVars, originVars>> PROVE Answered
BY DEF SessionInv, SessionTyped, Answered, genVars, originVars

\* The answer changes nothing in what was sent, counted and claimed.
LEMMA StepBeside ==
    ASSUME SessionInv, Answered
    PROVE  /\ \A h \in Generators : Planned(h)' /\ Balanced(h)'
           /\ Sums' /\ Unchanging
           /\ \A g \in Generators : (\E h \in Others(g) : servedTo[h] > 0) =>
                                    \E h \in Others(g) : servedTo'[h] > 0
<1>1. ASSUME NEW h \in Generators PROVE Planned(h)' /\ Balanced(h)'
  <2>1. /\ gen'[h].shape = gen[h].shape /\ gen'[h].sent = gen[h].sent
        /\ gen'[h].ok = gen[h].ok /\ gen'[h].failed = gen[h].failed
        /\ gen'[h].at = gen[h].at \/ (Settled(h) /\ Settled(h)')
        /\ req' = req /\ late' = late /\ servedTo' = servedTo
    BY <1>1 DEF Answered
  <2>2. /\ gen'[h].at = "declined" <=> gen[h].at = "declined"
        /\ gen'[h].at = "loading" <=> gen[h].at = "loading"
    BY <2>1 DEF Settled
  <2>3. Planned(h) /\ Balanced(h)
    BY DEF SessionInv
  <2>4. Warmed(h)' = Warmed(h) /\ Unread(h)' = Unread(h)
    BY <2>1 DEF Warmed, Finished, Unread
  <2>5. Planned(h)'
    BY <2>1, <2>2, <2>3 DEF Planned
  <2>6. Balanced(h)'
    BY <2>1, <2>2, <2>3, <2>4 DEF Balanced
  <2> QED BY <2>5, <2>6
<1>2. Sums'
  BY DEF SessionInv, Sums, Answered
<1>3. Unchanging
  BY DEF Answered, Unchanging, Settled
<1> QED BY <1>1, <1>2, <1>3 DEF Answered

\* A report that stays where it is stays its generator's last word.
LEMMA ReportsStay ==
    ASSUME SessionInv, Unchanging
    PROVE  /\ inbox' = inbox => Genuine(inbox)'
           /\ wait'.report = wait.report => Genuine(wait.report)'
<1>1. /\ Genuine(inbox) /\ Genuine(wait.report)
      /\ inbox \in Report \cup {None} /\ wait.report \in Report \cup {None}
  BY DEF SessionInv, SessionTyped, Reported
<1> QED BY <1>1, GenuineStaysGenuine DEF Genuine

\* What the control thread does touches neither the reports the target has nor
\* its judgement.
LEMMA StepOfControl ==
    ASSUME SessionInv, Answered, wait' = wait, SessionTyped',
           inbox' # inbox => Genuine(inbox)',
           \A h \in backlog' : Settled(h)',
           control'.at \in {"handle", "answer"} =>
               control'.of \in Generators /\ Settled(control.of)',
           control'.at = "answer" => control'.answer \in {"accepted", "refused"}
    PROVE  SessionInv'
<1>1. Genuine(inbox)' /\ Genuine(wait.report)'
  BY StepBeside, ReportsStay
<1>2. Reported'
  BY <1>1 DEF SessionInv, Reported
<1>3. Blamed'
  <2>1. wait.outcome = "rejected" /\ wait.report # None => wait.report.of \in Generators
    BY DEF SessionInv, SessionTyped, Report
  <2> QED BY <2>1, StepBeside DEF SessionInv, Blamed
<1> QED BY <1>2, <1>3, StepBeside DEF SessionInv

\* What is accepted comes from the backlog, where only reports wait.
LEMMA AcceptKeeps == ASSUME SessionInv, Accept PROVE SessionInv'
<1>1. PICK g \in backlog : /\ backlog' = backlog \ {g}
                           /\ control' = [at |-> "handle", of |-> g, answer |-> None]
  BY DEF Accept
<1>2. /\ UNCHANGED <<genVars, originVars>> /\ inbox' = inbox /\ wait' = wait
      /\ UNCHANGED <<expired, stop, joining>>
  BY DEF Accept
<1>3. SessionTyped /\ g \in Generators /\ (\A h \in backlog : Settled(h))
  BY DEF SessionInv, SessionTyped, Reported
<1>4. \A h \in backlog : Settled(h)'
  BY <1>2, <1>3 DEF Settled, genVars
<1>5. SessionTyped'
  BY <1>1, <1>2, <1>3 DEF SessionTyped, genVars, originVars
<1>6. Answered
  BY <1>2, UntouchedIsAnswered
<1>7. control'.at = "handle" /\ control'.of = g
  BY <1>1
<1>8. Settled(control.of)'
  BY <1>4, <1>7 DEF Settled
<1> QED BY <1>1, <1>2, <1>3, <1>4, <1>5, <1>6, <1>7, <1>8, StepOfControl

\* Those still queued are lost, and keep their counts.
LEMMA ListenerClosesKeeps == ASSUME SessionInv, ListenerCloses PROVE SessionInv'
<1>1. /\ control' = [at |-> "closed", of |-> None, answer |-> None]
      /\ gen' = [g \in Generators |->
                   IF g \in backlog /\ gen[g].at = "waiting"
                   THEN [gen[g] EXCEPT !.at = "lost"] ELSE gen[g]]
      /\ backlog' = {}
      /\ UNCHANGED <<req, late, originVars, inbox, wait, expired, stop, joining>>
  BY DEF ListenerCloses
<1>2. SessionTyped
  BY DEF SessionInv
<1>3. Answered
  <2>1. ASSUME NEW h \in Generators
        PROVE  /\ gen'[h] \in [at : GeneratorPlaces, shape : Nat, sent : Nat,
                               ok : Nat, failed : Nat]
               /\ gen'[h].shape = gen[h].shape /\ gen'[h].sent = gen[h].sent
               /\ gen'[h].ok = gen[h].ok /\ gen'[h].failed = gen[h].failed
               /\ gen'[h].at = gen[h].at \/ (gen[h].at = "waiting" /\ gen'[h].at = "lost")
    <3>1. CASE h \in backlog /\ gen[h].at = "waiting"
      BY <1>1, <1>2, <2>1, <3>1 DEF SessionTyped, GeneratorPlaces
    <3>2. CASE ~(h \in backlog /\ gen[h].at = "waiting")
      BY <1>1, <1>2, <2>1, <3>2 DEF SessionTyped
    <3> QED BY <3>1, <3>2
  <2> QED BY <1>1, <2>1 DEF Answered, Settled, originVars
<1>4. SessionTyped'
  BY <1>1, <1>2, <1>3 DEF SessionTyped, originVars, Answered
<1> QED BY <1>1, <1>3, <1>4, StepOfControl

\* 202 or 409, under the lock of the inbox.
LEMMA HandleKeeps == ASSUME SessionInv, HandleReport \/ RejectRequest PROVE SessionInv'
<1>1. /\ control.at = "handle"
      /\ UNCHANGED <<genVars, originVars, backlog, wait, expired, stop, joining>>
  BY DEF HandleReport, RejectRequest
<1>2. \/ /\ control' = [control EXCEPT !.at = "answer", !.answer = "refused"]
         /\ inbox' = inbox
      \/ /\ control' = [control EXCEPT !.at = "answer", !.answer = "accepted"]
         /\ inbox' = ReportOf(control.of)
  BY DEF HandleReport, RejectRequest
<1>3. SessionTyped /\ control.of \in Generators /\ Settled(control.of)
  BY <1>1 DEF SessionInv, Reported
<1>4. /\ control'.at = "answer" /\ control'.of = control.of
      /\ control'.answer \in {"accepted", "refused"}
      /\ control' \in [at : {"accept", "handle", "answer", "closed"},
                       of : Generators \cup {None}, answer : {"accepted", "refused", None}]
  BY <1>2, <1>3 DEF SessionTyped
<1>5. Settled(control.of)' /\ ReportOf(control.of)' = ReportOf(control.of)
  BY <1>1, <1>3, <1>4 DEF Settled, ReportOf, genVars
<1>6. ReportOf(control.of) \in Report /\ ReportOf(control.of).of = control.of
  BY <1>3 DEF SessionTyped, ReportOf, Report
<1>7. SessionTyped'
  BY <1>1, <1>2, <1>3, <1>4, <1>6 DEF SessionTyped, genVars, originVars
<1>8. inbox' # inbox => Genuine(inbox)'
  BY <1>1, <1>2, <1>3, <1>5, <1>6 DEF Genuine, Settled, ReportOf, genVars
<1>9. Answered
  BY <1>1, UntouchedIsAnswered
<1>10. \A h \in backlog' : Settled(h)'
  BY <1>1 DEF SessionInv, Reported, Settled, genVars
<1> QED BY <1>1, <1>3, <1>4, <1>5, <1>7, <1>8, <1>9, <1>10, StepOfControl

\* The generator is told, if it still waits.
LEMMA AnswerKeeps == ASSUME SessionInv, Answer PROVE SessionInv'
<1> DEFINE g == control.of
<1>1. /\ control.at = "answer"
      /\ control' = [at |-> "accept", of |-> None, answer |-> None]
      /\ gen' = IF gen[g].at = "waiting" THEN [gen EXCEPT ![g].at = control.answer] ELSE gen
      /\ UNCHANGED <<req, late, originVars, backlog, inbox, wait, expired, stop, joining>>
  BY DEF Answer
<1>2. /\ SessionTyped /\ g \in Generators /\ Settled(g)
      /\ control.answer \in {"accepted", "refused"} /\ (\A h \in backlog : Settled(h))
  BY <1>1 DEF SessionInv, Reported
<1> HIDE DEF g
<1>3. Answered
  <2>1. CASE gen' = gen
    BY <1>1, <1>2, <2>1 DEF SessionTyped, Answered, originVars
  <2>2. CASE gen' = [gen EXCEPT ![g].at = control.answer]
    <3>1. /\ gen' \in [Generators -> [at : GeneratorPlaces, shape : Nat, sent : Nat,
                                      ok : Nat, failed : Nat]]
          /\ \A h \in Generators :
               /\ gen'[h].shape = gen[h].shape /\ gen'[h].sent = gen[h].sent
               /\ gen'[h].ok = gen[h].ok /\ gen'[h].failed = gen[h].failed
               /\ gen'[h].at = IF h = g THEN control.answer ELSE gen[h].at
      BY <1>2, <2>2 DEF SessionTyped, GeneratorPlaces
    <3> QED BY <1>1, <1>2, <3>1 DEF Answered, Settled, originVars
  <2> QED BY <1>1, <2>1, <2>2
<1>4. SessionTyped'
  BY <1>1, <1>2, <1>3 DEF SessionTyped, originVars, Answered
<1>5. \A h \in backlog' : Settled(h)'
  BY <1>1, <1>2, <1>3, StepBeside DEF Unchanging, SessionTyped
<1>6. control'.at = "accept"
  BY <1>1
<1> QED BY <1>1, <1>3, <1>4, <1>5, <1>6, StepOfControl

-----------------------------------------------------------------------------
(* The target                                                              *)

\* The target only reads what generators, origin and control thread do.
LEMMA StepOfTarget ==
    ASSUME SessionInv, UNCHANGED targetFrame, SessionTyped',
           inbox' = inbox \/ inbox' = None,
           wait'.report = wait.report \/ wait'.report = inbox,
           wait'.at = "reconcile" => wait'.report # None,
           Blamed'
    PROVE  SessionInv'
<1>1. UNCHANGED <<genVars, originVars>> /\ backlog' = backlog /\ control' = control
  BY DEF targetFrame
<1>2. Answered
  BY <1>1, UntouchedIsAnswered
<1>3. Genuine(inbox)' /\ Genuine(wait.report)'
  <2>1. /\ Genuine(inbox) /\ Genuine(wait.report)
        /\ inbox \in Report \cup {None} /\ wait.report \in Report \cup {None}
    BY DEF SessionInv, SessionTyped, Reported
  <2>2. gen' = gen
    BY <1>1 DEF genVars
  <2>3. Genuine(inbox)'
    BY <2>1, <2>2 DEF Genuine, Settled, ReportOf
  <2>4. Genuine(wait.report)'
    <3>1. CASE wait'.report = wait.report
      BY <2>1, <2>2, <3>1 DEF Genuine, Settled, ReportOf
    <3>2. CASE wait'.report = inbox
      BY <2>1, <2>2, <3>2 DEF Genuine, Settled, ReportOf
    <3> QED BY <3>1, <3>2
  <2> QED BY <2>3, <2>4
<1>4. Reported'
  BY <1>1, <1>3 DEF SessionInv, Reported, Settled, genVars
<1> QED BY <1>2, <1>4, StepBeside DEF SessionInv

\* Blamed survives what neither rejects nor looks at a report again.
LEMMA BlamedStays ==
    ASSUME SessionInv, servedTo' = servedTo,
           wait'.outcome # "rejected" \/
             ( /\ wait'.outcome = wait.outcome /\ wait'.report = wait.report
               /\ wait'.at \in {"leave", "join", "origin", "gone"} )
    PROVE  Blamed'
BY DEF SessionInv, Blamed

\* What is taken is the report from the inbox.
LEMMA TakeReportKeeps == ASSUME SessionInv, TakeReport PROVE SessionInv'
<1>1. /\ wait.at = "take" /\ inbox' = None
      /\ UNCHANGED <<stop, joining>> /\ UNCHANGED targetFrame
      /\ wait' = IF inbox # None THEN [wait EXCEPT !.at = "reconcile", !.report = inbox]
                                 ELSE [wait EXCEPT !.at = "deadline"]
  BY DEF TakeReport
<1>2. SessionTyped /\ wait.outcome # "rejected"
  BY <1>1 DEF SessionInv, Blamed
<1>3. /\ wait'.outcome = wait.outcome
      /\ wait'.report = wait.report \/ wait'.report = inbox
      /\ wait'.at = "reconcile" => wait'.report # None
      /\ wait' \in [at : {"take", "reconcile", "deadline", "leave", "join", "origin", "gone"},
                    report : Report \cup {None},
                    outcome : {"accepted", "rejected", "expired", None}]
  <2>1. CASE inbox # None
    BY <1>1, <1>2, <2>1 DEF SessionTyped
  <2>2. CASE inbox = None
    BY <1>1, <1>2, <2>2 DEF SessionTyped
  <2> QED BY <2>1, <2>2
<1>4. SessionTyped'
  BY <1>1, <1>2, <1>3 DEF SessionTyped, targetFrame, genVars, originVars
<1>5. Blamed'
  BY <1>1, <1>2, <1>3, BlamedStays DEF targetFrame, originVars
<1> QED BY <1>1, <1>3, <1>4, <1>5, StepOfTarget

\* The judgement: what does not reconcile was not served to its generator alone.
LEMMA ReconcileKeeps == ASSUME SessionInv, Reconcile PROVE SessionInv'
<1>1. /\ wait.at = "reconcile" /\ UNCHANGED <<inbox, stop, joining>> /\ UNCHANGED targetFrame
      /\ wait' = [wait EXCEPT !.at = "leave",
                     !.outcome = IF Reconciles(wait.report) THEN "accepted" ELSE "rejected"]
  BY DEF Reconcile
<1>2. SessionTyped /\ wait.report # None
  BY <1>1 DEF SessionInv, Reported
<1>3. /\ wait'.at = "leave" /\ wait'.report = wait.report
      /\ wait'.outcome = IF Reconciles(wait.report) THEN "accepted" ELSE "rejected"
      /\ wait' \in [at : {"take", "reconcile", "deadline", "leave", "join", "origin", "gone"},
                    report : Report \cup {None},
                    outcome : {"accepted", "rejected", "expired", None}]
  BY <1>1, <1>2 DEF SessionTyped
<1>4. SessionTyped'
  BY <1>1, <1>2, <1>3 DEF SessionTyped, targetFrame, genVars, originVars
<1>5. Blamed'
  <2>1. servedTo' = servedTo /\ servedTo \in [Generators -> Nat]
        /\ wait.report.of \in Generators
    BY <1>1, <1>2 DEF SessionTyped, Report, targetFrame, originVars
  <2>2. ASSUME wait'.outcome = "rejected"
        PROVE  \E g \in Others(wait.report.of) : servedTo[g] > 0
    <3>1. ~Reconciles(wait.report)
      BY <1>3, <2>2
    <3>2. PICK g \in Others(wait.report.of) : servedTo[g] # 0
      BY <1>2, <3>1, HonestReportsReconcile
    <3>3. g \in Generators /\ servedTo[g] \in Nat
      BY <2>1, <3>2 DEF Others
    <3> QED BY <3>2, <3>3
  <2> QED BY <1>2, <1>3, <2>1, <2>2 DEF Blamed
<1> QED BY <1>1, <1>3, <1>4, <1>5, StepOfTarget

\* The rest only moves the target on.
LEMMA MovingOnKeeps ==
    ASSUME SessionInv,
           CheckDeadline \/ Stop \/ Join \/ ConnectionEnds \/ JoinOrigin
    PROVE  SessionInv'
<1>1. SessionTyped
  BY DEF SessionInv
<1>2. /\ inbox' = inbox /\ UNCHANGED targetFrame
      /\ stop' \in BOOLEAN /\ joining' \in SUBSET Generators
      /\ wait' \in [at : {"take", "reconcile", "deadline", "leave", "join", "origin", "gone"},
                    report : Report \cup {None},
                    outcome : {"accepted", "rejected", "expired", None}]
      /\ wait'.report = wait.report
      /\ wait'.at = "reconcile" => wait.at = "reconcile"
      /\ wait'.outcome # "rejected" \/
           ( /\ wait'.outcome = wait.outcome
             /\ wait'.at = wait.at \/ wait'.at \in {"leave", "join", "origin", "gone"} )
  <2>1. CASE CheckDeadline
    <3>1. wait.outcome # "rejected"
      BY <2>1 DEF CheckDeadline, SessionInv, Blamed
    <3>2. CASE expired
      BY <1>1, <2>1, <3>1, <3>2 DEF CheckDeadline, SessionTyped
    <3>3. CASE ~expired
      BY <1>1, <2>1, <3>1, <3>3 DEF CheckDeadline, SessionTyped
    <3> QED BY <3>2, <3>3
  <2>2. CASE Stop
    BY <1>1, <2>2 DEF Stop, SessionTyped
  <2>3. CASE Join
    BY <1>1, <2>3 DEF Join, Connected, SessionTyped
  <2>4. CASE ConnectionEnds
    BY <1>1, <2>4 DEF ConnectionEnds, SessionTyped
  <2>5. CASE JoinOrigin
    BY <1>1, <2>5 DEF JoinOrigin, SessionTyped
  <2> QED BY <2>1, <2>2, <2>3, <2>4, <2>5
<1>3. SessionTyped'
  BY <1>1, <1>2 DEF SessionTyped, targetFrame, genVars, originVars
<1>4. Blamed'
  <2>1. servedTo' = servedTo
    BY <1>2 DEF targetFrame, originVars
  <2> QED BY <1>2, <2>1, BlamedStays DEF SessionInv, Blamed
<1>5. wait'.at = "reconcile" => wait'.report # None
  BY <1>2 DEF SessionInv, Reported
<1> QED BY <1>2, <1>3, <1>4, <1>5, StepOfTarget

\* Nothing the invariant reads.
LEMMA StillKeeps ==
    ASSUME SessionInv, expired' \in BOOLEAN,
           UNCHANGED <<genVars, originVars, backlog, control, inbox, wait, stop, joining>>
    PROVE  SessionInv'
<1>1. SessionTyped'
  BY DEF SessionInv, SessionTyped, genVars, originVars
<1>2. Blamed'
  BY DEF SessionInv, Blamed, originVars
<1>3. Answered
  BY UntouchedIsAnswered
<1>4. Reported'
  <2>1. Genuine(inbox)' /\ Genuine(wait.report)'
    BY <1>3, StepBeside, ReportsStay
  <2> QED BY <2>1 DEF SessionInv, Reported, Settled, genVars
<1> QED BY <1>1, <1>2, <1>3, <1>4, StepBeside DEF SessionInv

-----------------------------------------------------------------------------
(* What the session promises                                               *)

\* Nothing was sent, counted or reported.
LEMMA SessionInvInit == Init => SessionInv
<1> SUFFICES ASSUME Init PROVE SessionInv
  OBVIOUS
<1>1. ASSUME NEW g \in Generators
      PROVE  /\ gen[g] = [at |-> Opened(g), shape |-> 1, sent |-> 0, ok |-> 0, failed |-> 0]
             /\ Opened(g) \in GeneratorPlaces
             /\ Opened(g) # "declined" => ~Refused(Wanted[g])
             /\ req[g] = "none" /\ late[g] = 0 /\ servedTo[g] = 0
  BY DEF Init, Opened, GeneratorPlaces
<1>2. SessionTyped
  BY <1>1 DEF Init, SessionTyped
<1>3. ASSUME NEW g \in Generators PROVE Planned(g) /\ Balanced(g)
  <2>1. /\ gen[g].at = Opened(g) /\ gen[g].at \in {"declined", "loading"}
        /\ gen[g].shape = 1 /\ gen[g].sent = 0 /\ gen[g].ok = 0 /\ gen[g].failed = 0
        /\ req[g] = "none" /\ late[g] = 0 /\ servedTo[g] = 0
    <3>1. gen[g] = [at |-> Opened(g), shape |-> 1, sent |-> 0, ok |-> 0, failed |-> 0]
      BY <1>1
    <3>2. Opened(g) \in {"declined", "loading"}
      BY DEF Opened
    <3>3. req[g] = "none" /\ late[g] = 0 /\ servedTo[g] = 0
      BY <1>1
    <3> QED BY <3>1, <3>2, <3>3
  <2>2. ASSUME gen[g].at # "declined"
        PROVE  /\ ~Refused(Wanted[g]) /\ Load[g].shapes \in Nat \ {0}
               /\ Load[g].warmup \in Nat \ {0} /\ Load[g].scheduled \in Nat \ {0}
    BY <1>1, <1>3, <2>1, <2>2, PlanFits
  <2>3. Planned(g)
    BY <2>1, <2>2 DEF Planned
  <2>4. ASSUME gen[g].at # "declined" PROVE Warmed(g) = 0
    <3>1. Lesser(Load[g].warmup, Finished(g)) = 0
      BY <2>1, <2>2, <2>4 DEF Finished, Lesser
    <3>2. (1 - 1) * Load[g].warmup = 0
      BY <2>2, <2>4
    <3> QED BY <2>1, <3>1, <3>2 DEF Warmed
  <2>5. Unread(g) = 0
    BY <2>1 DEF Unread
  <2> QED BY <2>1, <2>3, <2>4, <2>5 DEF Balanced
<1>4. Sums
  BY <1>1 DEF Init, Sums
<1>5. Reported /\ Blamed
  BY ExternalSessionAssumption DEF Init, Reported, Genuine, Blamed
<1> QED BY <1>2, <1>3, <1>4, <1>5 DEF SessionInv

\* Every step keeps the invariant.
LEMMA SessionInvNext == ASSUME SessionInv, [Next]_vars PROVE SessionInv'
<1>1. ASSUME NEW g \in Generators, Generator(g) \/ Origin(g) PROVE SessionInv'
  BY <1>1, SendKeeps, ReadAnswerKeeps, FailKeeps, ShapeDoneKeeps, SubmitKeeps, ServeKeeps,
     ServeLateKeeps DEF Generator, Origin
<1>2. CASE Control \/ AcceptFails
  BY <1>2, AcceptKeeps, ListenerClosesKeeps, HandleKeeps, AnswerKeeps
     DEF Control, AcceptFails, AcceptStopped
<1>3. CASE Target \/ ConnectionEnds
  BY <1>3, TakeReportKeeps, ReconcileKeeps, MovingOnKeeps DEF Target
<1>4. CASE DeadlinePasses
  BY <1>4, StillKeeps DEF DeadlinePasses
<1>5. CASE UNCHANGED vars
  <2>1. expired' \in BOOLEAN
    BY <1>5 DEF vars, SessionInv, SessionTyped
  <2> QED BY <1>5, <2>1, StillKeeps DEF vars
<1> QED BY <1>1, <1>2, <1>3, <1>4, <1>5 DEF Next

LEMMA SessionInvariant == Spec => []SessionInv
<1> QED BY SessionInvInit, SessionInvNext, PTL DEF Spec

\* RejectionMeansAnotherGenerator: whatever is lost, late or given up, for any
\* offer and any number of generators that hold the ticket, an honest report is
\* rejected only if somebody else was served as well.
THEOREM HonestReportsAreNeverBlamed == Spec => []RejectionMeansAnotherGenerator
<1>1. ASSUME SessionInv PROVE TypeOK
  <2>1. ASSUME NEW g \in Generators
        PROVE  /\ gen[g].at \in GeneratorPlaces
               /\ gen[g].ok \in Nat /\ gen[g].failed \in Nat
               /\ req[g] \in {"none", "sent", "answered"} /\ late[g] \in Nat
               /\ Planned(g)
    BY <1>1, <2>1 DEF SessionInv, SessionTyped
  <2> QED BY <1>1, <2>1 DEF TypeOK, SessionInv, SessionTyped, Planned, GeneratorPlaces
<1>2. SessionInv => RejectionMeansAnotherGenerator
  BY <1>1 DEF RejectionMeansAnotherGenerator, SessionInv, Blamed
<1> QED BY <1>2, SessionInvariant, PTL
-----------------------------------------------------------------------------
(* Sums over a finite set                                                  *)

SumOf(f, S) == MapThenSumSet(LAMBDA x : f[x], S)

\* The element a sum takes next.
First(s) == CHOOSE x \in s : TRUE

LEMMA LeastNumber ==
    ASSUME NEW N \in SUBSET Nat, N # {}
    PROVE  \E least \in N : \A n \in N : least <= n
<1> DEFINE less == OpToRel(<, Nat)
<1>1. IsWellFoundedOn(less, Nat)
  BY NatLessThanWellFounded
<1>2. PICK least \in N : \A n \in N : ~(<<n, least>> \in less)
  <2> HIDE DEF less
  <2> QED BY <1>1, WFMin
<1>3. \A n \in N : ~(n < least)
  BY <1>2, Zenon DEF OpToRel
<1> HIDE DEF less
<1> QED BY <1>3

LEMMA OneLess ==
    ASSUME NEW S, IsFiniteSet(S), NEW s \in SUBSET S
    PROVE  /\ IsFiniteSet(s) /\ Cardinality(s) \in Nat
           /\ Cardinality(s) <= Cardinality(S)
           /\ Cardinality(s) = 0 <=> s = {}
           /\ s # {} => /\ First(s) \in s /\ s \ {First(s)} \in SUBSET S
                        /\ Cardinality(s \ {First(s)}) = Cardinality(s) - 1
<1>1. IsFiniteSet(s) /\ Cardinality(s) <= Cardinality(S)
  BY FS_Subset
<1>2. Cardinality(s) \in Nat /\ (Cardinality(s) = 0 <=> s = {})
  BY <1>1, FS_CardinalityType, FS_EmptySet
<1>3. s # {} => First(s) \in s
  BY DEF First
<1>4. s # {} => Cardinality(s \ {First(s)}) = Cardinality(s) - 1
  BY <1>1, <1>3, FS_RemoveElement
<1> QED BY <1>1, <1>2, <1>3, <1>4

\* What holds of the empty set, and of a set whenever it does of the set without
\* its first element, holds of all.
LEMMA OneByOne ==
    ASSUME NEW S, IsFiniteSet(S), NEW P \in SUBSET (SUBSET S), {} \in P,
           \A s \in SUBSET S : s # {} /\ s \ {First(s)} \in P => s \in P
    PROVE  S \in P
<1> DEFINE N == {n \in Nat : \E s \in SUBSET S : Cardinality(s) = n /\ s \notin P}
<1>1. SUFFICES ASSUME S \notin P PROVE FALSE
  OBVIOUS
<1>2. Cardinality(S) \in N
  BY <1>1, OneLess
<1>3. PICK least \in N : \A n \in N : least <= n
  <2>1. N \in SUBSET Nat /\ N # {}
    BY <1>2
  <2> QED BY <2>1, LeastNumber
<1>4. PICK s \in SUBSET S : Cardinality(s) = least /\ s \notin P
  BY <1>3
<1>5. s # {} /\ s \ {First(s)} \notin P
  BY <1>4
<1>6. /\ s \ {First(s)} \in SUBSET S /\ Cardinality(s \ {First(s)}) = least - 1
      /\ least \in Nat /\ least # 0
  BY <1>4, <1>5, OneLess
<1>7. least - 1 \in N
  BY <1>5, <1>6
<1> QED BY <1>3, <1>6, <1>7

\* A function that sums up the subsets of S.
SumsUp(it, f, S) ==
    it = [s \in SUBSET S |-> IF s = {} THEN 0 ELSE f[First(s)] + it[s \ {First(s)}]]

LEMMA SumsExist ==
    ASSUME NEW S, IsFiniteSet(S), NEW f, \A x \in S : f[x] \in Nat
    PROVE  \E it : SumsUp(it, f, S)
<1> DEFINE Value(it, s) == IF s = {} THEN 0 ELSE f[First(s)] + it[s \ {First(s)}]
           Upto(n) == \E it \in [SUBSET S -> Nat] :
                         \A s \in SUBSET S : Cardinality(s) <= n => it[s] = Value(it, s)
           N == {n \in Nat : ~Upto(n)}
<1>1. Upto(0)
  <2> DEFINE none == [s \in SUBSET S |-> 0]
  <2>1. none \in [SUBSET S -> Nat]
    OBVIOUS
  <2>2. ASSUME NEW s \in SUBSET S, Cardinality(s) <= 0 PROVE none[s] = Value(none, s)
    <3>1. Cardinality(s) \in Nat /\ (Cardinality(s) = 0 => s = {})
      BY OneLess
    <3>2. s = {}
      BY <2>2, <3>1
    <3> QED BY <3>2
  <2> HIDE DEF none
  <2> QED BY <2>1, <2>2
<1>2. ASSUME NEW m \in Nat, Upto(m) PROVE Upto(m + 1)
  <2>1. PICK it \in [SUBSET S -> Nat] :
           \A s \in SUBSET S : Cardinality(s) <= m => it[s] = Value(it, s)
    BY <1>2
  <2> DEFINE more == [s \in SUBSET S |-> IF Cardinality(s) <= m THEN it[s] ELSE Value(it, s)]
  <2>2. \A s \in SUBSET S : Value(it, s) \in Nat
    BY OneLess
  <2>3. more \in [SUBSET S -> Nat]
    BY <2>2
  <2>4. \A s \in SUBSET S : more[s] = Value(it, s)
    BY <2>1
  <2>5. ASSUME NEW s \in SUBSET S, Cardinality(s) <= m + 1 PROVE Value(more, s) = Value(it, s)
    <3>1. CASE s = {}
      BY <3>1
    <3>2. CASE s # {}
      <4>1. s \ {First(s)} \in SUBSET S /\ Cardinality(s \ {First(s)}) <= m
        BY <2>5, <3>2, OneLess
      <4>2. more[s \ {First(s)}] = it[s \ {First(s)}]
        BY <4>1
      <4> HIDE DEF more
      <4> QED BY <4>2
    <3> QED BY <3>1, <3>2
  <2> HIDE DEF more
  <2>6. \A s \in SUBSET S : Cardinality(s) <= m + 1 => more[s] = Value(more, s)
    BY <2>4, <2>5
  <2> QED BY <2>3, <2>6
<1> HIDE DEF Upto
<1>3. N = {}
  <2>1. SUFFICES ASSUME N # {} PROVE FALSE
    OBVIOUS
  <2>2. PICK least \in N : \A n \in N : least <= n
    <3>1. N \in SUBSET Nat
      OBVIOUS
    <3> HIDE DEF N
    <3> QED BY <2>1, <3>1, LeastNumber
  <2>3. least \in Nat /\ least # 0 /\ ~Upto(least)
    BY <1>1
  <2>4. least - 1 \in Nat /\ least - 1 + 1 = least
    BY <2>3
  <2>5. Upto(least - 1)
    BY <2>2, <2>4
  <2> QED BY <1>2, <2>3, <2>4, <2>5
<1>4. Upto(Cardinality(S))
  BY <1>3, OneLess
<1>5. PICK it \in [SUBSET S -> Nat] :
         \A s \in SUBSET S : Cardinality(s) <= Cardinality(S) => it[s] = Value(it, s)
  BY <1>4 DEF Upto
<1>6. \A s \in SUBSET S : it[s] = Value(it, s)
  BY <1>5, OneLess
<1>7. it = [s \in SUBSET S |-> Value(it, s)]
  BY <1>6
<1> QED BY <1>7 DEF SumsUp

LEMMA SumIsOne ==
    ASSUME NEW S, IsFiniteSet(S), NEW f, \A x \in S : f[x] \in Nat
    PROVE  \E it : SumsUp(it, f, S) /\ SumOf(f, S) = it[S]
<1> DEFINE it == CHOOSE it : SumsUp(it, f, S)
<1>1. SumsUp(it, f, S)
  BY SumsExist
<1>2. SumOf(f, S) = it[S]
  BY DEF SumOf, MapThenSumSet, MapThenFoldSet, SumsUp, First
<1> QED BY <1>1, <1>2

\* Nothing adds up to nothing.
LEMMA SumOfNothing ==
    ASSUME NEW S, IsFiniteSet(S), NEW f, \A x \in S : f[x] = 0
    PROVE  SumOf(f, S) = 0
<1>1. PICK it : SumsUp(it, f, S) /\ SumOf(f, S) = it[S]
  BY SumIsOne
<1> DEFINE P == {s \in SUBSET S : it[s] = 0}
<1>2. {} \in P
  BY <1>1 DEF SumsUp
<1>3. ASSUME NEW s \in SUBSET S, s # {}, s \ {First(s)} \in P PROVE s \in P
  <2>1. First(s) \in S
    BY <1>3, OneLess
  <2>2. it[s] = f[First(s)] + it[s \ {First(s)}]
    BY <1>1, <1>3 DEF SumsUp
  <2> QED BY <1>3, <2>1, <2>2
<1>4. P \in SUBSET (SUBSET S)
  OBVIOUS
<1>5. S \in P
  <2> HIDE DEF P
  <2> QED BY <1>2, <1>3, <1>4, OneByOne
<1> QED BY <1>1, <1>5

\* One more of one element is one more in all.
LEMMA SumOfOneMore ==
    ASSUME NEW S, IsFiniteSet(S), NEW f, NEW g, NEW h, \A x \in S : f[x] \in Nat,
           \A x \in S : g[x] = IF x = h THEN f[x] + 1 ELSE f[x]
    PROVE  /\ SumOf(f, S) \in Nat
           /\ SumOf(g, S) = IF h \in S THEN SumOf(f, S) + 1 ELSE SumOf(f, S)
<1>1. PICK it : SumsUp(it, f, S) /\ SumOf(f, S) = it[S]
  BY SumIsOne
<1>2. PICK jt : SumsUp(jt, g, S) /\ SumOf(g, S) = jt[S]
  <2>1. \A x \in S : g[x] \in Nat
    OBVIOUS
  <2> QED BY <2>1, SumIsOne
<1> DEFINE P == {s \in SUBSET S : /\ it[s] \in Nat
                                  /\ jt[s] = IF h \in s THEN it[s] + 1 ELSE it[s]}
<1>3. {} \in P
  BY <1>1, <1>2 DEF SumsUp
<1>4. ASSUME NEW s \in SUBSET S, s # {}, s \ {First(s)} \in P PROVE s \in P
  <2> DEFINE x == First(s)
             r == s \ {x}
  <2>1. x \in s /\ x \in S
    BY <1>4, OneLess
  <2>2. it[s] = f[x] + it[r] /\ jt[s] = g[x] + jt[r]
    BY <1>1, <1>2, <1>4 DEF SumsUp
  <2>3. it[r] \in Nat /\ jt[r] = IF h \in r THEN it[r] + 1 ELSE it[r]
    BY <1>4
  <2>4. f[x] \in Nat /\ g[x] = IF x = h THEN f[x] + 1 ELSE f[x]
    BY <2>1
  <2>5. h \in s <=> h \in r \/ h = x
    BY <2>1
  <2>6. ~(h \in r /\ h = x)
    OBVIOUS
  <2> HIDE DEF x, r
  <2>7. it[s] \in Nat /\ jt[s] = IF h \in s THEN it[s] + 1 ELSE it[s]
    BY <2>2, <2>3, <2>4, <2>5, <2>6
  <2> QED BY <2>7
<1>5. P \in SUBSET (SUBSET S)
  OBVIOUS
<1>6. S \in P
  <2> HIDE DEF P
  <2> QED BY <1>3, <1>4, <1>5, OneByOne
<1> QED BY <1>1, <1>2, <1>6

\* A sum of numbers is a number.
LEMMA SumOfANumber ==
    ASSUME NEW S, IsFiniteSet(S), NEW f, \A x \in S : f[x] \in Nat
    PROVE  SumOf(f, S) \in Nat
<1>1. PICK it : SumsUp(it, f, S) /\ SumOf(f, S) = it[S]
  BY SumIsOne
<1> DEFINE P == {s \in SUBSET S : it[s] \in Nat}
<1>2. {} \in P
  BY <1>1 DEF SumsUp
<1>3. ASSUME NEW s \in SUBSET S, s # {}, s \ {First(s)} \in P PROVE s \in P
  <2>1. First(s) \in S
    BY <1>3, OneLess
  <2>2. it[s] = f[First(s)] + it[s \ {First(s)}]
    BY <1>1, <1>3 DEF SumsUp
  <2> QED BY <1>3, <2>1, <2>2
<1>4. P \in SUBSET (SUBSET S)
  OBVIOUS
<1>5. S \in P
  <2> HIDE DEF P
  <2> QED BY <1>2, <1>3, <1>4, OneByOne
<1> QED BY <1>1, <1>5

-----------------------------------------------------------------------------
(* One counter for all                                                     *)

\* The origin's counter is what one generator was served and what the others were.
AddsUp == \A g \in Generators : served = servedTo[g] + SumOf(servedTo, Others(g))

LEMMA OthersAreFinite ==
    ASSUME NEW g \in Generators
    PROVE  IsFiniteSet(Others(g)) /\ Others(g) \subseteq Generators
<1>1. Others(g) \in SUBSET Generators /\ IsFiniteSet(Generators)
  BY ExternalSessionAssumption DEF Others
<1> QED BY <1>1, FS_Subset

LEMMA AddsUpInit == Init => AddsUp
<1> SUFFICES ASSUME Init, NEW g \in Generators
             PROVE  served = servedTo[g] + SumOf(servedTo, Others(g))
  BY DEF AddsUp
<1>1. served = 0 /\ \A h \in Generators : servedTo[h] = 0
  BY DEF Init
<1>2. SumOf(servedTo, Others(g)) = 0
  <2>1. IsFiniteSet(Others(g)) /\ \A h \in Others(g) : servedTo[h] = 0
    BY <1>1, OthersAreFinite
  <2> QED BY <2>1, SumOfNothing
<1> QED BY <1>1, <1>2

\* Whoever is counted, counter and sums move together.
LEMMA CountKeepsAddingUp ==
    ASSUME SessionInv, AddsUp, NEW g \in Generators, Count(g)
    PROVE  AddsUp'
<1>1. /\ served' = served + 1 /\ served \in Nat /\ servedTo \in [Generators -> Nat]
      /\ \A h \in Generators : servedTo'[h] = IF h = g THEN servedTo[h] + 1 ELSE servedTo[h]
  BY DEF Count, SessionInv, SessionTyped
<1>2. ASSUME NEW h \in Generators
      PROVE  served' = servedTo'[h] + SumOf(servedTo', Others(h))
  <2>1. IsFiniteSet(Others(h)) /\ Others(h) \subseteq Generators
    BY OthersAreFinite
  <2>2. /\ \A x \in Others(h) : servedTo[x] \in Nat
        /\ \A x \in Others(h) : servedTo'[x] = IF x = g THEN servedTo[x] + 1 ELSE servedTo[x]
    BY <1>1, <2>1
  <2>3. /\ SumOf(servedTo, Others(h)) \in Nat
        /\ SumOf(servedTo', Others(h)) = IF g \in Others(h) THEN SumOf(servedTo, Others(h)) + 1
                                                            ELSE SumOf(servedTo, Others(h))
    BY <2>1, <2>2, SumOfOneMore
  <2>4. g \in Others(h) <=> g # h
    BY DEF Others
  <2>5. served = servedTo[h] + SumOf(servedTo, Others(h)) /\ servedTo[h] \in Nat
    BY <1>1 DEF AddsUp
  <2> QED BY <1>1, <2>3, <2>4, <2>5
<1> QED BY <1>2 DEF AddsUp, Others

LEMMA AddsUpNext == ASSUME SessionInv, AddsUp, [Next]_vars PROVE AddsUp'
<1>1. CASE \E g \in Generators : Count(g)
  BY <1>1, CountKeepsAddingUp
<1>2. CASE UNCHANGED originVars
  BY <1>2 DEF AddsUp, originVars, Others
<1>3. (\E g \in Generators : Count(g)) \/ UNCHANGED originVars
  <2>1. ASSUME NEW g \in Generators, Generator(g) PROVE UNCHANGED originVars
    BY <2>1 DEF Generator, Send, ReadAnswer, Fail, ShapeDone, Submit, GiveUp
  <2>2. ASSUME NEW g \in Generators, Origin(g) PROVE Count(g)
    BY <2>2 DEF Origin, Serve, ServeLate
  <2>3. Control \/ AcceptFails => UNCHANGED originVars
    BY DEF Control, AcceptFails, Accept, AcceptStopped, ListenerCloses, HandleReport,
           RejectRequest, Answer, genVars
  <2>4. Target \/ ConnectionEnds \/ DeadlinePasses => UNCHANGED originVars
    BY DEF Target, TakeReport, Reconcile, CheckDeadline, Stop, Join, JoinOrigin,
           ConnectionEnds, DeadlinePasses, targetFrame
  <2>5. UNCHANGED vars => UNCHANGED originVars
    BY DEF vars
  <2> QED BY <2>1, <2>2, <2>3, <2>4, <2>5 DEF Next
<1> QED BY <1>1, <1>2, <1>3

\* Only Reconcile accepts, and only a report it holds.
LEMMA AcceptedByReconcile ==
    ASSUME SessionInv, [Next]_vars, wait.outcome # "accepted", wait'.outcome = "accepted"
    PROVE  wait.report # None /\ Reconciles(wait.report)
<1>1. wait \in [at : {"take", "reconcile", "deadline", "leave", "join", "origin", "gone"},
                report : Report \cup {None},
                outcome : {"accepted", "rejected", "expired", None}]
  BY DEF SessionInv, SessionTyped
<1>2. wait' # wait
  OBVIOUS
<1>3. Target
  <2>1. ASSUME NEW g \in Generators, Generator(g) \/ Origin(g) PROVE wait' = wait
    BY <2>1 DEF Generator, Send, ReadAnswer, Fail, ShapeDone, Submit, GiveUp, Origin, Serve,
                ServeLate
  <2>2. Control \/ AcceptFails \/ ConnectionEnds \/ DeadlinePasses \/ UNCHANGED vars => wait' = wait
    BY DEF Control, AcceptFails, Accept, AcceptStopped, ListenerCloses, HandleReport,
           RejectRequest, Answer, ConnectionEnds, DeadlinePasses, vars
  <2> QED BY <1>2, <2>1, <2>2 DEF Next
<1>4. TakeReport \/ Stop \/ Join \/ JoinOrigin => wait'.outcome = wait.outcome
  BY <1>1 DEF TakeReport, Stop, Join, JoinOrigin
<1>5. CheckDeadline => wait'.outcome \in {wait.outcome, "expired"}
  BY <1>1 DEF CheckDeadline
<1>6. Reconcile
  BY <1>3, <1>4, <1>5 DEF Target
<1>7. wait'.outcome = IF Reconciles(wait.report) THEN "accepted" ELSE "rejected"
  BY <1>1, <1>6 DEF Reconcile
<1>8. wait.report # None
  BY <1>6 DEF Reconcile, SessionInv, Reported
<1> QED BY <1>7, <1>8

\* AcceptedDescribesOneGenerator: what the others were served when a report is
\* accepted fits into the slack and the failures it declares, whoever else held
\* the ticket and however their requests fell.
THEOREM AcceptedAlwaysDescribesOneGenerator == Spec => AcceptedDescribesOneGenerator
<1> DEFINE Step == wait.outcome # "accepted" /\ wait'.outcome = "accepted" =>
                     SumOf(servedTo, Others(wait.report.of)) <= Slack + wait.report.failed
<1>1. ASSUME SessionInv, AddsUp, [Next]_vars PROVE Step
  <2> SUFFICES ASSUME wait.outcome # "accepted", wait'.outcome = "accepted"
               PROVE  SumOf(servedTo, Others(wait.report.of)) <= Slack + wait.report.failed
    OBVIOUS
  <2> DEFINE g == wait.report.of
             others == SumOf(servedTo, Others(g))
  <2>1. wait.report # None /\ Reconciles(wait.report)
    BY <1>1, AcceptedByReconcile
  <2>2. wait.report \in Report
    BY <1>1, <2>1 DEF SessionInv, SessionTyped
  <2>3. /\ g \in Generators /\ wait.report.ok \in Nat /\ wait.report.failed \in Nat
    BY <2>2 DEF Report
  <2>4. wait.report.ok = gen[g].ok
    BY <1>1, <2>1 DEF SessionInv, Reported, Genuine, ReportOf
  <2>5. gen[g].ok <= servedTo[g]
    BY <1>1, <2>3 DEF SessionInv, SessionTyped, Balanced, Unread
  <2>6. served = servedTo[g] + others /\ served \in Nat /\ servedTo[g] \in Nat
    BY <1>1, <2>3 DEF AddsUp, SessionInv, SessionTyped
  <2>7. others \in Nat
    <3>1. IsFiniteSet(Others(g)) /\ Others(g) \subseteq Generators
      BY <2>3, OthersAreFinite
    <3>2. \A x \in Others(g) : servedTo[x] \in Nat
      BY <1>1, <3>1 DEF SessionInv, SessionTyped
    <3> HIDE DEF g
    <3> QED BY <3>1, <3>2, SumOfANumber
  <2>8. served - (wait.report.ok + wait.report.failed) <= Slack
    BY <2>1 DEF Reconciles, Claimed
  <2> HIDE DEF others
  <2>9. others <= Slack + wait.report.failed
    BY <2>3, <2>4, <2>5, <2>6, <2>7, <2>8, ExternalSessionAssumption
  <2> QED BY <2>9 DEF others
<1>2. Step => (wait.outcome # "accepted" /\ wait'.outcome = "accepted" =>
                 MapThenSumSet(LAMBDA g : servedTo[g], Others(wait.report.of))
                   <= Slack + wait.report.failed)
  BY DEF SumOf
<1>3. Spec => []AddsUp
  <2>1. AddsUp /\ SessionInv /\ [Next]_vars => AddsUp'
    BY AddsUpNext
  <2> QED BY AddsUpInit, <2>1, SessionInvariant, PTL DEF Spec
<1> HIDE DEF Step
<1>4. SessionInv /\ AddsUp /\ [Next]_vars =>
        (wait.outcome # "accepted" /\ wait'.outcome = "accepted" =>
           MapThenSumSet(LAMBDA g : servedTo[g], Others(wait.report.of))
             <= Slack + wait.report.failed)
  BY <1>1, <1>2
<1> QED BY <1>3, <1>4, SessionInvariant, PTL DEF Spec, AcceptedDescribesOneGenerator
=============================================================================
